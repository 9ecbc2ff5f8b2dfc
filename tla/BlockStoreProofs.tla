-------------------------- MODULE BlockStoreProofs --------------------------
(***************************************************************************)
(* Proofs about BlockStore, for every value of its constants.              *)
(***************************************************************************)
EXTENDS BlockStore, BufferProofs, FiniteSetTheorems, FunctionTheorems, WellFoundedInduction, TLAPS

(* ------------------------------ fresh ids ------------------------------ *)

(* A nonempty set of naturals has a least element.                         *)
LEMMA LeastElement ==
  ASSUME NEW S \in SUBSET Nat, S # {}
  PROVE  \E m \in S : \A n \in S : m <= n
<1>1. \E m \in S : \A n \in S : ~ (<<n, m>> \in OpToRel(<, Nat))
  BY NatLessThanWellFounded, WFMin
<1>2. \A m, n \in Nat : <<n, m>> \in OpToRel(<, Nat) <=> n < m
  BY DEF OpToRel
<1>3. PICK m \in S : \A n \in S : ~ (<<n, m>> \in OpToRel(<, Nat))
  BY <1>1
<1>4. \A n \in S : m <= n
  <2> TAKE n \in S
  <2>1. m \in Nat /\ n \in Nat
    OBVIOUS
  <2>2. ~ (n < m)
    BY <1>2, <1>3, <2>1
  <2> QED BY <2>1, <2>2
<1> QED BY <1>4

(* The k-th id get_free_id returns in a row exists, is free, and is the    *)
(* k-th free one: so different calls return different ids.                 *)
LEMMA NewIdIsFree ==
  ASSUME NEW pool, IsFiniteSet(DOMAIN pool), NEW k \in Nat \ {0}
  PROVE  /\ NewId(pool, k) \in Nat
         /\ NewId(pool, k) \notin DOMAIN pool
         /\ Cardinality(FreeFrom(pool, NewId(pool, k))) = k
<1> DEFINE D == DOMAIN pool
           c == Cardinality(D)
           top == 2 * c + k
           Free(m) == FreeFrom(pool, m)
           G == {m \in c..top : Cardinality(Free(m)) >= k}
<1>1. c \in Nat
  BY FS_CardinalityType
<1>2. \A m \in Nat : IsFiniteSet(Free(m)) /\ Cardinality(Free(m)) \in Nat
  <2> TAKE m \in Nat
  <2>1. IsFiniteSet(c..m)
    BY <1>1, FS_Interval
  <2>2. Free(m) \in SUBSET (c..m)
    BY DEF FreeFrom
  <2> QED BY <2>1, <2>2, FS_Subset, FS_CardinalityType
<1>3. top \in G
  <2>1. IsFiniteSet(c..top) /\ Cardinality(c..top) = c + k + 1
    <3>1. c \in Int /\ top \in Int /\ ~ (c > top) /\ top - c + 1 = c + k + 1
      BY <1>1
    <3> HIDE DEF c, top
    <3>2. IsFiniteSet(c..top) /\ Cardinality(c..top) = top - c + 1
      BY <3>1, FS_Interval
    <3> QED BY <3>1, <3>2
  <2>2. Free(top) = (c..top) \ D
    BY DEF FreeFrom
  <2>3. Cardinality(Free(top)) = Cardinality(c..top) - Cardinality((c..top) \cap D)
    BY <2>1, <2>2, FS_Difference
  <2>4. Cardinality(D \cap (c..top)) <= c
    BY FS_Intersection
  <2>5. (c..top) \cap D = D \cap (c..top)
    OBVIOUS
  <2>6. IsFiniteSet(D \cap (c..top))
    BY FS_Intersection
  <2>7. Cardinality(D \cap (c..top)) \in Nat
    BY <2>6, FS_CardinalityType
  <2>8. top \in c..top
    BY <1>1
  <2>9. Cardinality(Free(top)) >= k
    <3> DEFINE used == Cardinality(D \cap (c..top))
    <3>1. Cardinality((c..top) \cap D) = used
      BY <2>5
    <3>2. used \in Nat /\ used <= c
      BY <2>4, <2>7
    <3> HIDE DEF used, c, top, Free, D
    <3>3. Cardinality(Free(top)) = Cardinality(c..top) - used
      BY <2>3, <3>1, Zenon
    <3>4. Cardinality(c..top) = c + k + 1
      BY <2>1
    <3>5. Cardinality(Free(top)) = (c + k + 1) - used
      BY <3>3, <3>4, Zenon
    <3> QED BY <1>1, <3>2, <3>5
  <2> QED BY <2>8, <2>9
<1>4. PICK m \in G : \A n \in G : m <= n
  <2>1. G \in SUBSET Nat
    BY <1>1
  <2> QED BY <1>3, <2>1, LeastElement
<1>5. m \in Nat /\ m >= c /\ m <= top /\ Cardinality(Free(m)) >= k
  BY <1>1, <1>4
<1>6. m \notin D /\ Cardinality(Free(m)) = k
  <2>1. CASE m = c
    <3>1. Free(m) \in SUBSET {m}
      BY <1>1, <2>1 DEF FreeFrom
    <3>2. IsFiniteSet({m}) /\ Cardinality({m}) = 1
      BY FS_Singleton
    <3>3. Cardinality(Free(m)) <= 1 /\ (Cardinality(Free(m)) = 1 => Free(m) = {m})
      BY <3>1, <3>2, FS_Subset
    <3>4. Cardinality(Free(m)) = 1 /\ k = 1
      BY <1>2, <1>5, <3>3
    <3> QED BY <3>3, <3>4 DEF FreeFrom
  <2>2. CASE m # c
    <3>1. m - 1 \in c..top /\ m - 1 \in Nat /\ ~ (m <= m - 1)
      BY <1>1, <1>5, <2>2
    <3>2. m - 1 \notin G
      BY <1>4, <3>1
    <3>3. Cardinality(Free(m - 1)) < k
      BY <1>2, <3>1, <3>2
    <3>4. Free(m) = IF m \in D THEN Free(m - 1) ELSE Free(m - 1) \cup {m}
      BY <1>1, <1>5, <3>1 DEF FreeFrom
    <3>5. m \notin D
      BY <3>3, <3>4, <1>5, <1>2, <3>1
    <3>6. Cardinality(Free(m)) <= Cardinality(Free(m - 1)) + 1
      <4> DEFINE F == Free(m - 1)
      <4>1. IsFiniteSet(F) /\ Cardinality(F) \in Nat
        BY <1>2, <3>1
      <4>2. Free(m) = F \cup {m}
        BY <3>4, <3>5
      <4> HIDE DEF F, Free
      <4>3. Cardinality(F \cup {m}) = IF m \in F THEN Cardinality(F) ELSE Cardinality(F) + 1
        BY <4>1, FS_AddElement, Zenon
      <4>4. Cardinality(F \cup {m}) <= Cardinality(F) + 1
        BY <4>1, <4>3
      <4> QED BY <4>2, <4>4 DEF F
    <3> QED BY <3>3, <3>5, <3>6, <1>2, <1>5, <3>1
  <2> QED BY <2>1, <2>2
<1>7. m \in c..top /\ m \in Free(m) /\ Cardinality(Free(m)) = k
  BY <1>1, <1>5, <1>6 DEF FreeFrom
<1>8. /\ NewId(pool, k) \in c..top
      /\ NewId(pool, k) \in Free(NewId(pool, k))
      /\ Cardinality(Free(NewId(pool, k))) = k
  <2>1. NewId(pool, k) = CHOOSE id \in c..top : id \in Free(id) /\ Cardinality(Free(id)) = k
    BY DEF NewId
  <2> HIDE DEF Free, top, c
  <2> QED BY <1>7, <2>1
<1> QED BY <1>1, <1>8 DEF FreeFrom

(* --------------------------- lists and holders ------------------------- *)

(* What holds of a pool and a map at every point of every operation: the   *)
(* invariants that relate the two, together they are inductive.            *)
Sound(pool, map) ==
  /\ PoolType(pool)
  /\ MapType(map)
  /\ Closed(pool, map)
  /\ Counted(pool, map)
  /\ Private(map)
  /\ OnePlace(map)

With(map, i, list) == [map EXCEPT ![i][Current] = list]

(* Finitely many block lists exist, so the holders of a buffer can be      *)
(* counted.                                                                *)
LEMMA ListsAreFinite ==
  ASSUME NEW map, MapType(map)
  PROVE  /\ IsFiniteSet(Lists(map))
         /\ \A id : IsFiniteSet(Holders(map, id)) /\ Cardinality(Holders(map, id)) \in Nat
<1> DEFINE Domains == {DOMAIN map[i] : i \in DOMAIN map}
<1>1. IsFiniteSet(DOMAIN map) /\ \A i \in DOMAIN map : IsFiniteSet(DOMAIN map[i])
  BY DEF MapType
<1>2. IsFiniteSet(Domains)
  <2> DEFINE f == [i \in DOMAIN map |-> DOMAIN map[i]]
  <2>1. f \in Surjection(DOMAIN map, Domains)
    BY DEF Surjection
  <2> QED BY <1>1, <2>1, FS_Surjection
<1>3. IsFiniteSet(UNION Domains)
  BY <1>1, <1>2, FS_UNION
<1>4. IsFiniteSet((DOMAIN map) \X (UNION Domains))
  BY <1>1, <1>3, FS_Product
<1>5. Lists(map) \in SUBSET ((DOMAIN map) \X (UNION Domains))
  BY DEF Lists
<1>6. IsFiniteSet(Lists(map))
  BY <1>4, <1>5, FS_Subset
<1>7. \A id : Holders(map, id) \in SUBSET Lists(map)
  BY DEF Holders
<1> QED BY <1>6, <1>7, FS_Subset, FS_CardinalityType

(* Replacing the current list of one inode changes that list only.         *)
LEMMA WithChangesOneList ==
  ASSUME NEW map, MapType(map), NEW i \in DOMAIN map, NEW list \in ListType
  PROVE  /\ MapType(With(map, i, list))
         /\ Lists(With(map, i, list)) = Lists(map)
         /\ <<i, Current>> \in Lists(map)
         /\ ListOf(With(map, i, list), <<i, Current>>) = list
         /\ \A h \in Lists(map) \ {<<i, Current>>} :
              ListOf(With(map, i, list), h) = ListOf(map, h)
<1> DEFINE map2 == With(map, i, list)
<1>1. /\ DOMAIN map2 = DOMAIN map
      /\ \A j \in DOMAIN map : /\ DOMAIN map2[j] = DOMAIN map[j]
                               /\ j # i => map2[j] = map[j]
      /\ map2[i] = [map[i] EXCEPT ![Current] = list]
  BY DEF With
<1>2. Current \in DOMAIN map[i] /\ map[i] \in [DOMAIN map[i] -> ListType]
  BY DEF MapType
<1>3. /\ map2[i][Current] = list
      /\ \A v \in DOMAIN map[i] \ {Current} : map2[i][v] = map[i][v]
      /\ map2[i] \in [DOMAIN map[i] -> ListType]
  BY <1>1, <1>2
<1> HIDE DEF map2
<1>4. MapType(map2)
  BY <1>1, <1>3 DEF MapType
<1>5. Lists(map2) = Lists(map)
  BY <1>1 DEF Lists
<1>6. <<i, Current>> \in Lists(map)
  BY <1>2 DEF Lists
<1>7. ListOf(map2, <<i, Current>>) = list
  BY <1>3 DEF ListOf
<1>8. ASSUME NEW h \in Lists(map) \ {<<i, Current>>}
      PROVE  ListOf(map2, h) = ListOf(map, h)
  <2>1. h = <<h[1], h[2]>> /\ h[1] \in DOMAIN map /\ h[2] \in DOMAIN map[h[1]]
    BY DEF Lists
  <2>2. CASE h[1] = i
    BY <1>3, <2>1, <2>2 DEF ListOf
  <2>3. CASE h[1] # i
    BY <1>1, <2>1, <2>3 DEF ListOf
  <2> QED BY <2>2, <2>3
<1> QED BY <1>4, <1>5, <1>6, <1>7, <1>8 DEF map2

(* How replacing the current list of an inode changes who holds a buffer.  *)
LEMMA WithHolders ==
  ASSUME NEW map, MapType(map), NEW i \in DOMAIN map, NEW list \in ListType, NEW id
  PROVE  Holders(With(map, i, list), id)
           = IF id \in Ids(list) THEN Holders(map, id) \cup {<<i, Current>>}
             ELSE Holders(map, id) \ {<<i, Current>>}
<1> DEFINE map2 == With(map, i, list)
<1>1. /\ Lists(map2) = Lists(map)
      /\ <<i, Current>> \in Lists(map)
      /\ ListOf(map2, <<i, Current>>) = list
      /\ \A h \in Lists(map) \ {<<i, Current>>} : ListOf(map2, h) = ListOf(map, h)
  BY WithChangesOneList
<1> HIDE DEF map2
<1>2. \A h \in Lists(map) \ {<<i, Current>>} :
         h \in Holders(map2, id) <=> h \in Holders(map, id)
  BY <1>1 DEF Holders
<1>3. <<i, Current>> \in Holders(map2, id) <=> id \in Ids(list)
  BY <1>1 DEF Holders
<1>4. Holders(map2, id) \subseteq Lists(map) /\ Holders(map, id) \subseteq Lists(map)
  BY <1>1 DEF Holders
<1>5. Holders(map2, id)
        = IF id \in Ids(list) THEN Holders(map, id) \cup {<<i, Current>>}
          ELSE Holders(map, id) \ {<<i, Current>>}
  BY <1>1, <1>2, <1>3, <1>4, Zenon
<1> QED BY <1>5 DEF map2

(* The block lists of a well-typed map are sequences of entries.           *)
LEMMA ListsHaveListType ==
  ASSUME NEW map, MapType(map), NEW h \in Lists(map)
  PROVE  /\ ListOf(map, h) \in ListType
         /\ h = <<h[1], h[2]>> /\ h[1] \in DOMAIN map /\ h[2] \in DOMAIN map[h[1]]
BY DEF MapType, Lists, ListOf

(* A buffer has one owner.                                                 *)
LEMMA OneOwner ==
  ASSUME NEW map, OnePlace(map), NEW id,
         NEW g \in Holders(map, id), NEW h \in Holders(map, id)
  PROVE  g[1] = h[1]
<1>1. PICK p \in DOMAIN ListOf(map, g) : ListOf(map, g)[p].id = id
  BY DEF Holders, Ids
<1>2. PICK q \in DOMAIN ListOf(map, h) : ListOf(map, h)[q].id = id
  BY DEF Holders, Ids
<1> QED BY <1>1, <1>2 DEF OnePlace, Holders

(* The count stays right when version current drops its reference and the  *)
(* buffer is not told.                                                     *)
LEMMA CountAfterDrop ==
  ASSUME NEW pool, NEW map, Sound(pool, map), NEW i \in DOMAIN map,
         NEW id \in DOMAIN pool, NEW H, H = Holders(map, id) \ {<<i, Current>>}
  PROVE  \/ pool[id].link_count = Cardinality(H)
         \/ pool[id].link_count = Cardinality(H) + 1 /\ \A h \in H : h[2] # Current
<1> DEFINE old == Holders(map, id)
           cur == <<i, Current>>
           links == pool[id].link_count
<1>1. IsFiniteSet(old) /\ Cardinality(old) \in Nat
  BY ListsAreFinite DEF Sound
<1>2. \/ links = Cardinality(old)
      \/ links = Cardinality(old) + 1 /\ \A h \in old : h[2] # Current
  BY DEF Sound, Counted
<1>3. CASE cur \notin old
  BY <1>2, <1>3
<1>4. CASE cur \in old
  <2>1. links = Cardinality(old)
    BY <1>2, <1>4
  <2>2. Cardinality(H) = Cardinality(old) - 1
    BY <1>1, <1>4, FS_RemoveElement
  <2>3. links = Cardinality(H) + 1
    BY <1>1, <2>1, <2>2
  <2>4. ASSUME NEW h \in H PROVE h[2] # Current
    <3>1. h[1] = i
      BY <1>4, OneOwner DEF Sound
    <3>2. h = <<h[1], h[2]>> /\ h # cur
      BY DEF Holders, Lists
    <3> QED BY <3>1, <3>2
  <2> QED BY <2>3, <2>4
<1> QED BY <1>3, <1>4

(* Putting a list in place of a current list keeps the store sound when    *)
(* every entry is either the old one of the same position or names a new   *)
(* buffer, linked once, that no other entry names.                         *)
LEMMA InstallIsSound ==
  ASSUME NEW pool, NEW map, Sound(pool, map), NEW i \in DOMAIN map,
         NEW list \in ListType, NEW new, NEW pool2, PoolType(pool2),
         new \cap DOMAIN pool = {},
         DOMAIN pool2 = DOMAIN pool \cup new,
         \A id \in DOMAIN pool : pool2[id].link_count = pool[id].link_count,
         \A id \in new : pool2[id].link_count = 1 /\ id \in Ids(list),
         \A p \in DOMAIN list : \/ /\ p \in DOMAIN map[i][Current]
                                   /\ list[p] = map[i][Current][p]
                                \/ list[p].id \in new,
         \A p, q \in DOMAIN list : list[p].id \in new /\ list[p].id = list[q].id => p = q
  PROVE  Sound(pool2, With(map, i, list))
<1> DEFINE map2 == With(map, i, list)
           cur == <<i, Current>>
           old == map[i][Current]
<1>1. /\ MapType(map2)
      /\ Lists(map2) = Lists(map)
      /\ cur \in Lists(map)
      /\ ListOf(map2, cur) = list
      /\ \A h \in Lists(map) \ {cur} : ListOf(map2, h) = ListOf(map, h)
  BY WithChangesOneList DEF Sound
<1>2. \A id : Holders(map2, id) = IF id \in Ids(list) THEN Holders(map, id) \cup {cur}
                                  ELSE Holders(map, id) \ {cur}
  BY WithHolders DEF Sound
<1>3. ListOf(map, cur) = old
  BY DEF ListOf
<1> HIDE DEF map2, cur, old
<1>4. \A h \in Lists(map) : Ids(ListOf(map, h)) \subseteq DOMAIN pool
  BY DEF Sound, Closed
<1>5. \A id \in new : Holders(map, id) = {}
  BY <1>4 DEF Holders
<1>6. \A id \in Ids(list) \ new : cur \in Holders(map, id)
  BY <1>1, <1>3 DEF Ids, Holders, old
<1>7. \A id \in DOMAIN pool : id \notin new
  OBVIOUS
<1>8. Closed(pool2, map2)
  <2>1. Ids(list) \subseteq DOMAIN pool2
    BY <1>4, <1>6 DEF Holders
  <2> QED BY <1>1, <1>4, <2>1 DEF Closed
<1>9. Counted(pool2, map2)
  <2> SUFFICES ASSUME NEW id \in DOMAIN pool2
               PROVE  \/ pool2[id].link_count = Cardinality(Holders(map2, id))
                      \/ /\ pool2[id].link_count = Cardinality(Holders(map2, id)) + 1
                         /\ \A h \in Holders(map2, id) : h[2] # Current
    BY DEF Counted
  <2>1. CASE id \in new
    <3>1. Holders(map2, id) = {cur}
      BY <1>2, <1>5, <2>1
    <3> QED BY <2>1, <3>1, FS_Singleton
  <2>2. CASE id \notin new /\ id \in Ids(list)
    <3>1. Holders(map2, id) = Holders(map, id)
      BY <1>2, <1>6, <2>2
    <3> QED BY <2>2, <3>1 DEF Sound, Counted
  <2>3. CASE id \notin new /\ id \notin Ids(list)
    <3>1. Holders(map2, id) = Holders(map, id) \ {<<i, Current>>}
      BY <1>2, <2>3 DEF cur
    <3>2. id \in DOMAIN pool
      BY <2>3
    <3> QED BY <3>1, <3>2, CountAfterDrop
  <2> QED BY <2>1, <2>2, <2>3
<1>10. Private(map2)
  <2> SUFFICES ASSUME NEW j \in DOMAIN map2, NEW p \in DOMAIN map2[j][Current],
                      ~map2[j][Current][p].is_snapshoted
               PROVE  Holders(map2, map2[j][Current][p].id) = {<<j, Current>>}
    BY DEF Private
  <2> DEFINE e == map2[j][Current][p]
  <2>1. DOMAIN map2 = DOMAIN map
    BY DEF map2, With
  <2>2. CASE j = i
    <3>1. map2[i][Current] = list
      BY <1>1 DEF ListOf, cur
    <3>2. e.id \in Ids(list)
      BY <2>2, <3>1 DEF Ids
    <3>3. CASE e.id \in new
      BY <1>2, <1>5, <2>2, <3>2, <3>3 DEF cur
    <3>4. CASE e.id \notin new
      <4>1. p \in DOMAIN old /\ old[p] = e
        BY <2>2, <3>1, <3>4 DEF old
      <4>2. Holders(map, e.id) = {cur}
        BY <2>2, <4>1 DEF Sound, Private, old, cur
      <4> QED BY <1>2, <2>2, <3>2, <4>2 DEF cur
    <3> QED BY <3>3, <3>4
  <2>3. CASE j # i
    <3>1. map2[j] = map[j]
      BY <2>1, <2>3 DEF map2, With
    <3>2. Holders(map, e.id) = {<<j, Current>>}
      BY <2>1, <3>1 DEF Sound, Private
    <3>3. e.id \notin new /\ cur \notin Holders(map, e.id)
      BY <1>5, <2>3, <3>2 DEF cur
    <3>4. e.id \notin Ids(list)
      BY <1>6, <3>3
    <3> QED BY <1>2, <3>2, <3>3, <3>4
  <2> QED BY <2>2, <2>3
<1>11. OnePlace(map2)
  <2> SUFFICES ASSUME NEW g \in Lists(map), NEW h \in Lists(map),
                      NEW p \in DOMAIN ListOf(map2, g), NEW q \in DOMAIN ListOf(map2, h),
                      ListOf(map2, g)[p].id = ListOf(map2, h)[q].id
               PROVE  g[1] = h[1] /\ p = q
    BY <1>1 DEF OnePlace
  <2> DEFINE id == ListOf(map2, g)[p].id
  <2>1. CASE id \in new
    <3>1. \A x \in Lists(map) \ {cur} : id \notin Ids(ListOf(map2, x))
      BY <1>1, <1>4, <1>7, <2>1
    <3>2. g = cur /\ h = cur
      BY <3>1 DEF Ids
    <3> QED BY <1>1, <2>1, <3>2
  <2>2. CASE id \notin new
    <3>1. p \in DOMAIN ListOf(map, g) /\ ListOf(map, g)[p].id = id
      BY <1>1, <1>3, <2>2 DEF old
    <3>2. q \in DOMAIN ListOf(map, h) /\ ListOf(map, h)[q].id = id
      BY <1>1, <1>3, <2>2 DEF old
    <3> QED BY <3>1, <3>2 DEF Sound, OnePlace
  <2> QED BY <2>1, <2>2
<1> QED BY <1>1, <1>8, <1>9, <1>10, <1>11 DEF Sound, map2

(* --------------------- appending and copying blocks -------------------- *)

(* A function on a finite set has finitely many values.                    *)
LEMMA RangeIsFinite ==
  ASSUME NEW S, IsFiniteSet(S), NEW f, DOMAIN f = S
  PROVE  IsFiniteSet({f[x] : x \in S})
<1> DEFINE T == {f[x] : x \in S}
           g == [x \in S |-> f[x]]
<1>1. g \in Surjection(S, T)
  BY DEF Surjection
<1> QED BY <1>1, FS_Surjection

(* The list of version current is a sequence of entries.                   *)
LEMMA CurrentListType ==
  ASSUME NEW map, MapType(map), NEW i \in DOMAIN map
  PROVE  map[i][Current] \in ListType
BY DEF MapType

(* get_free_id called several times in a row returns different ids.        *)
LEMMA NewIdsDiffer ==
  ASSUME NEW pool, PoolType(pool), NEW j \in Nat \ {0}, NEW k \in Nat \ {0},
         NewId(pool, j) = NewId(pool, k)
  PROVE  j = k
<1>1. /\ Cardinality(FreeFrom(pool, NewId(pool, j))) = j
      /\ Cardinality(FreeFrom(pool, NewId(pool, k))) = k
  BY NewIdIsFree DEF PoolType
<1> QED BY <1>1

(* Appending new empty buffers to a current list keeps the store sound and *)
(* leaves every old buffer as it was.                                      *)
LEMMA AppendIsSound ==
  ASSUME NEW pool, NEW map, Sound(pool, map), NEW i \in DOMAIN map, NEW n \in Nat
  PROVE  LET st == AppendBuffers(pool, map[i][Current], n)
         IN  /\ st.list \in ListType
             /\ Sound(st.pool, With(map, i, st.list))
             /\ \A id \in DOMAIN pool : id \in DOMAIN st.pool /\ st.pool[id] = pool[id]
<1> DEFINE old == map[i][Current]
           Id(k) == NewId(pool, k)
           new == {Id(k) : k \in 1..n}
           added == [k \in 1..n |-> Entry(Id(k))]
           list == old \o added
           pool2 == [id \in DOMAIN pool \cup new |->
                       IF id \in new THEN [link_count |-> 1, data |-> <<>>] ELSE pool[id]]
<1>1. PoolType(pool) /\ MapType(map)
  BY DEF Sound
<1>2. old \in ListType
  BY <1>1, CurrentListType
<1>3. \A k \in 1..n : Id(k) \in Nat /\ Id(k) \notin DOMAIN pool
  BY <1>1, NewIdIsFree DEF PoolType
<1>4. \A j, k \in 1..n : Id(j) = Id(k) => j = k
  BY <1>1, NewIdsDiffer
<1> HIDE DEF Id
<1>5. added \in ListType /\ Len(added) = n
  <2>1. added \in [1..n -> [id : Nat, is_snapshoted : BOOLEAN]]
    BY <1>3 DEF Entry
  <2> QED BY <2>1 DEF ListType
<1>6. list \in ListType
  BY <1>2, <1>5 DEF ListType
<1>7. \A p \in DOMAIN list :
        \/ p \in DOMAIN old /\ list[p] = old[p]
        \/ p - Len(old) \in 1..n /\ list[p] = Entry(Id(p - Len(old)))
  <2>1. Len(list) = Len(old) + n /\ DOMAIN list = 1..(Len(old) + n) /\ Len(old) \in Nat
    BY <1>2, <1>5 DEF ListType
  <2>2. \A p \in 1..Len(old) : list[p] = old[p]
    BY <1>2, <1>5 DEF ListType
  <2>3. \A p \in Len(old) + 1 .. Len(old) + n : list[p] = added[p - Len(old)]
    BY <1>2, <1>5 DEF ListType
  <2>4. DOMAIN old = 1..Len(old)
    BY <1>2 DEF ListType
  <2> QED BY <2>1, <2>2, <2>3, <2>4
<1>8. \A k \in 1..n : Len(old) + k \in DOMAIN list /\ list[Len(old) + k].id = Id(k)
  BY <1>2, <1>5 DEF ListType, Entry
<1>9. PoolType(pool2)
  <2>1. IsFiniteSet(new)
    <3> DEFINE f == [k \in 1..n |-> Id(k)]
    <3>1. IsFiniteSet(1..n)
      BY FS_Interval
    <3>2. DOMAIN f = 1..n /\ new = {f[k] : k \in 1..n}
      OBVIOUS
    <3> HIDE DEF f
    <3>3. IsFiniteSet({f[k] : k \in 1..n})
      BY <3>1, <3>2, RangeIsFinite
    <3> QED BY <3>2, <3>3
  <2>2. IsFiniteSet(DOMAIN pool \cup new)
    BY <1>1, <2>1, FS_Union DEF PoolType
  <2>3. new \subseteq Nat
    BY <1>3
  <2>4. pool2 \in [DOMAIN pool \cup new -> [link_count : Nat \ {0}, data : Seq(Byte)]]
    BY <1>1 DEF PoolType
  <2> QED BY <1>1, <2>2, <2>3, <2>4 DEF PoolType
<1>10. new \cap DOMAIN pool = {}
  BY <1>3
<1>11. \A id \in new : id \in Ids(list)
  BY <1>8 DEF Ids
<1>12. \A p \in DOMAIN list : \/ p \in DOMAIN old /\ list[p] = old[p]
                              \/ list[p].id \in new
  BY <1>7 DEF Entry
<1>13. \A p, q \in DOMAIN list : list[p].id \in new /\ list[p].id = list[q].id => p = q
  <2>1. \A p \in DOMAIN old : old[p].id \in DOMAIN pool
    <3>1. <<i, Current>> \in Lists(map) /\ ListOf(map, <<i, Current>>) = old
      BY <1>1 DEF MapType, Lists, ListOf
    <3> QED BY <3>1 DEF Sound, Closed, Ids
  <2>2. \A p \in DOMAIN list : list[p].id \in new =>
          p - Len(old) \in 1..n /\ list[p].id = Id(p - Len(old))
    BY <1>7, <1>10, <2>1 DEF Entry
  <2>3. Len(old) \in Nat /\ DOMAIN list \subseteq Nat
    BY <1>2, <1>6 DEF ListType
  <2> HIDE DEF list, new
  <2>4. ASSUME NEW p \in DOMAIN list, NEW q \in DOMAIN list,
               list[p].id \in new, list[p].id = list[q].id
        PROVE  p = q
    <3>1. Id(p - Len(old)) = Id(q - Len(old))
      BY <2>2, <2>4
    <3>2. p - Len(old) = q - Len(old)
      BY <1>4, <2>2, <2>4, <3>1
    <3> QED BY <2>3, <3>2
  <2> QED BY <2>4
<1>14. DOMAIN pool2 = DOMAIN pool \cup new
       /\ (\A id \in DOMAIN pool : pool2[id] = pool[id])
       /\ (\A id \in new : pool2[id].link_count = 1)
  BY <1>10
<1> HIDE DEF new, list, pool2
<1>15. Sound(pool2, With(map, i, list))
  BY <1>6, <1>9, <1>10, <1>11, <1>12, <1>13, <1>14, InstallIsSound
<1> QED BY <1>6, <1>14, <1>15 DEF AppendBuffers, new, list, pool2, Id

(* Counting from the left is strictly increasing.                          *)
LEMMA RankIsInjective ==
  ASSUME NEW S \in SUBSET Nat, IsFiniteSet(S), NEW x \in S, NEW y \in S,
         Cardinality({z \in S : z <= x}) = Cardinality({z \in S : z <= y})
  PROVE  x = y
<1> DEFINE Below(w) == {z \in S : z <= w}
<1>1. ASSUME NEW u \in S, NEW w \in S, u < w,
             Cardinality(Below(u)) = Cardinality(Below(w))
      PROVE  FALSE
  <2>1. Below(w) \in SUBSET S /\ Below(u) \in SUBSET Below(w)
    <3>1. u \in Nat /\ w \in Nat /\ \A z \in S : z \in Nat
      OBVIOUS
    <3>2. \A z \in S : z <= u => z <= w
      BY <1>1, <3>1
    <3> QED BY <3>2
  <2>2. IsFiniteSet(Below(w))
    BY <2>1, FS_Subset
  <2>3. w \in Below(w) /\ w \notin Below(u)
    BY <1>1
  <2> HIDE DEF Below
  <2>4. Below(w) = Below(u)
    <3>1. Cardinality(Below(w)) = Cardinality(Below(u))
      BY <1>1
    <3> QED BY <2>1, <2>2, <3>1, FS_Subset
  <2> QED BY <2>3, <2>4
<1>2. x \in Nat /\ y \in Nat /\ Cardinality(Below(x)) = Cardinality(Below(y))
  OBVIOUS
<1> HIDE DEF Below
<1>3. ~(x < y) /\ ~(y < x)
  BY <1>1, <1>2
<1> QED BY <1>2, <1>3

(* Copy-on-write keeps the store sound, changes no old buffer, and leaves  *)
(* no frozen entry at the positions it was asked for.                      *)
LEMMA ThawIsSound ==
  ASSUME NEW pool, NEW map, Sound(pool, map), NEW i \in DOMAIN map, NEW positions
  PROVE  LET old == map[i][Current]
             st  == Thaw(pool, old, positions)
         IN  /\ st.list \in ListType /\ Len(st.list) = Len(old)
             /\ Sound(st.pool, With(map, i, st.list))
             /\ \A id \in DOMAIN pool : id \in DOMAIN st.pool /\ st.pool[id] = pool[id]
             /\ \A p \in DOMAIN st.list : p \in positions => ~st.list[p].is_snapshoted
<1> DEFINE old == map[i][Current]
           frozen == {p \in positions \cap DOMAIN old : old[p].is_snapshoted}
           Rank(p) == Cardinality({q \in frozen : q <= p})
           copy == [p \in frozen |-> NewId(pool, Rank(p))]
           new == {copy[p] : p \in frozen}
           Bytes(id) == BufRead(pool[old[CHOOSE q \in frozen : copy[q] = id].id].data, BlockSize, 0)
           Copied(id) == BufWrite(<<>>, Bytes(id), 0, TRUE)
           pool2 == [id \in DOMAIN pool \cup new |->
                       IF id \in new THEN [link_count |-> 1, data |-> Copied(id)] ELSE pool[id]]
           list == [p \in 1..Len(old) |-> IF p \in frozen THEN Entry(copy[p]) ELSE old[p]]
<1>1. PoolType(pool) /\ MapType(map)
  BY DEF Sound
<1>2. old \in ListType /\ DOMAIN old = 1..Len(old) /\ Len(old) \in Nat
  BY <1>1, CurrentListType DEF ListType
<1>3. frozen \in SUBSET Nat /\ frozen \in SUBSET (1..Len(old)) /\ IsFiniteSet(frozen)
  <2>1. IsFiniteSet(1..Len(old)) /\ frozen \in SUBSET (1..Len(old))
    BY <1>2, FS_Interval
  <2> QED BY <2>1, FS_Subset
<1>4. \A p \in frozen : Rank(p) \in Nat \ {0}
  <2> SUFFICES ASSUME NEW p \in frozen PROVE Rank(p) \in Nat \ {0}
    OBVIOUS
  <2> DEFINE below == {q \in frozen : q <= p}
  <2>1. below \in SUBSET frozen /\ p \in below
    BY <1>3
  <2> HIDE DEF frozen, below
  <2>2. IsFiniteSet(below)
    BY <1>3, <2>1, FS_Subset
  <2>3. Cardinality(below) \in Nat /\ Cardinality(below) # 0
    BY <2>1, <2>2, FS_CardinalityType, FS_EmptySet
  <2> QED BY <2>3 DEF below
<1>5. \A p \in frozen : copy[p] \in Nat /\ copy[p] \notin DOMAIN pool
  <2> SUFFICES ASSUME NEW p \in frozen PROVE copy[p] \in Nat /\ copy[p] \notin DOMAIN pool
    OBVIOUS
  <2>1. copy[p] = NewId(pool, Rank(p))
    OBVIOUS
  <2> HIDE DEF copy, Rank, frozen
  <2> QED BY <1>1, <1>4, <2>1, NewIdIsFree DEF PoolType
<1>6. \A p, q \in frozen : copy[p] = copy[q] => p = q
  <2> SUFFICES ASSUME NEW p \in frozen, NEW q \in frozen, copy[p] = copy[q] PROVE p = q
    OBVIOUS
  <2>1. NewId(pool, Rank(p)) = NewId(pool, Rank(q))
    OBVIOUS
  <2>2. Rank(p) = Rank(q)
    <3> HIDE DEF Rank, frozen
    <3> QED BY <1>1, <1>4, <2>1, NewIdsDiffer
  <2>3. Cardinality({z \in frozen : z <= p}) = Cardinality({z \in frozen : z <= q})
    BY <2>2
  <2> HIDE DEF frozen
  <2> QED BY <1>3, <2>3, RankIsInjective
<1>7. DOMAIN copy = frozen
  OBVIOUS
<1>8. \A p \in DOMAIN old : p \in positions /\ p \notin frozen => ~old[p].is_snapshoted
  OBVIOUS
<1>9. \A p \in DOMAIN old : old[p] \in [id : Nat, is_snapshoted : BOOLEAN]
  <2> DEFINE E == [id : Nat, is_snapshoted : BOOLEAN]
  <2>1. old \in Seq(E)
    BY <1>2 DEF ListType
  <2> HIDE DEF old, E
  <2>2. \A p \in 1..Len(old) : old[p] \in E
    BY <2>1
  <2>3. \A p \in DOMAIN old : old[p] \in E
    BY <1>2, <2>2
  <2> QED BY <2>3 DEF E
<1>10. \A p \in DOMAIN old : old[p].id \in DOMAIN pool
  <2>1. <<i, Current>> \in Lists(map) /\ ListOf(map, <<i, Current>>) = old
    BY <1>1 DEF MapType, Lists, ListOf
  <2> QED BY <2>1 DEF Sound, Closed, Ids
<1> HIDE DEF frozen, copy, Rank, old
<1>11. \A id \in new : Copied(id) \in Seq(Byte)
  <2> SUFFICES ASSUME NEW id \in new PROVE Copied(id) \in Seq(Byte)
    OBVIOUS
  <2> DEFINE q == CHOOSE x \in frozen : copy[x] = id
  <2>1. q \in frozen
    OBVIOUS
  <2> HIDE DEF q
  <2>2. pool[old[q].id].data \in Seq(Byte)
    BY <1>1, <1>2, <1>3, <1>10, <2>1 DEF PoolType
  <2>3. BufRead(pool[old[q].id].data, BlockSize, 0) \in Seq(Byte)
    BY <2>2, BufReadType, BufferAssumption
  <2>4. Bytes(id) \in Seq(Byte)
    BY <2>3 DEF q
  <2> HIDE DEF Bytes
  <2>5. <<>> \in Seq(Byte)
    OBVIOUS
  <2>6. BufWrite(<<>>, Bytes(id), 0, TRUE) \in Seq(Byte)
    BY <2>4, <2>5, BufWriteType
  <2> QED BY <2>6
<1> HIDE DEF Copied
<1>12. /\ DOMAIN pool2 = DOMAIN pool \cup new
       /\ \A id \in new : pool2[id] = [link_count |-> 1, data |-> Copied(id)]
       /\ \A id \in DOMAIN pool \ new : pool2[id] = pool[id]
  OBVIOUS
<1>13. new \cap DOMAIN pool = {} /\ new \subseteq Nat
  BY <1>5
<1>14. PoolType(pool2)
  <2>1. IsFiniteSet(new)
    BY <1>3, <1>7, RangeIsFinite
  <2>2. IsFiniteSet(DOMAIN pool \cup new)
    BY <1>1, <2>1, FS_Union DEF PoolType
  <2>3. pool2 \in [DOMAIN pool \cup new -> [link_count : Nat \ {0}, data : Seq(Byte)]]
    BY <1>1, <1>11, <1>12 DEF PoolType
  <2> QED BY <1>1, <1>12, <1>13, <2>2, <2>3 DEF PoolType
<1>15. /\ DOMAIN list = DOMAIN old
       /\ \A p \in frozen : list[p] = Entry(copy[p])
       /\ \A p \in DOMAIN old \ frozen : list[p] = old[p]
  BY <1>2, <1>3
<1>16. list \in ListType /\ Len(list) = Len(old)
  <2>1. \A p \in 1..Len(old) : list[p] \in [id : Nat, is_snapshoted : BOOLEAN]
    BY <1>2, <1>5, <1>9, <1>15 DEF Entry
  <2> QED BY <1>2, <2>1 DEF ListType
<1>17. \A id \in new : id \in Ids(list)
  BY <1>2, <1>3, <1>15 DEF Ids, Entry
<1>18. \A p \in DOMAIN list : \/ p \in DOMAIN old /\ list[p] = old[p]
                              \/ list[p].id \in new
  BY <1>15 DEF Entry
<1>19. \A p, q \in DOMAIN list : list[p].id \in new /\ list[p].id = list[q].id => p = q
  <2>1. \A p \in DOMAIN list : list[p].id \in new => p \in frozen /\ list[p].id = copy[p]
    BY <1>10, <1>13, <1>15 DEF Entry
  <2> HIDE DEF list, new
  <2> SUFFICES ASSUME NEW p \in DOMAIN list, NEW q \in DOMAIN list,
                      list[p].id \in new, list[p].id = list[q].id
               PROVE  p = q
    OBVIOUS
  <2>2. p \in frozen /\ q \in frozen /\ copy[p] = copy[q]
    BY <2>1
  <2> QED BY <1>6, <2>2
<1>20. \A p \in DOMAIN list : p \in positions => ~list[p].is_snapshoted
  BY <1>8, <1>15 DEF Entry
<1> HIDE DEF new, list, pool2
<1>21. /\ \A id \in DOMAIN pool : id \in DOMAIN pool2 /\ pool2[id] = pool[id]
       /\ \A id \in new : pool2[id].link_count = 1
  BY <1>12, <1>13
<1>22. Sound(pool2, With(map, i, list))
  <2>1. \A p \in DOMAIN list : \/ /\ p \in DOMAIN map[i][Current]
                                  /\ list[p] = map[i][Current][p]
                               \/ list[p].id \in new
    BY <1>18 DEF old
  <2>2. \A id \in DOMAIN pool : pool2[id].link_count = pool[id].link_count
    BY <1>21
  <2>3. \A id \in new : pool2[id].link_count = 1 /\ id \in Ids(list)
    BY <1>17, <1>21
  <2>4. DOMAIN pool2 = DOMAIN pool \cup new /\ new \cap DOMAIN pool = {} /\ list \in ListType
    BY <1>12, <1>13, <1>16
  <2> HIDE DEF Bytes
  <2> QED BY <1>14, <1>19, <2>1, <2>2, <2>3, <2>4, InstallIsSound
<1> USE DEF frozen, copy, new, Copied, list, pool2, Rank
<1>23. Thaw(pool, old, positions) = [pool |-> pool2, list |-> list]
  BY DEF Thaw
<1> HIDE DEF frozen, copy, new, Copied, list, pool2, Rank
<1> QED BY <1>16, <1>20, <1>21, <1>22, <1>23 DEF old

(* ---------------------- dropping the tail of a list -------------------- *)

(* The bytes that lists other than the current list of i lead to stay.     *)
Keeps(pool, pool2, map, i) ==
  \A h \in Lists(map) \ {<<i, Current>>} : \A id \in Ids(ListOf(map, h)) :
    id \in DOMAIN pool2 /\ pool2[id].data = pool[id].data

(* Cutting a current list, and unlinking the unfrozen buffers it loses,    *)
(* keeps the store sound and the buffers of every other list.              *)
LEMMA DropIsSound ==
  ASSUME NEW pool, NEW map, Sound(pool, map), NEW i \in DOMAIN map,
         NEW keep \in Nat, keep <= Len(map[i][Current])
  PROVE  LET old   == map[i][Current]
             lost  == {old[p].id : p \in {q \in keep + 1 .. Len(old) : ~old[q].is_snapshoted}}
             list  == SubSeq(old, 1, keep)
             pool2 == UnlinkAll(pool, lost)
         IN  /\ list \in ListType /\ Len(list) = keep
             /\ Sound(pool2, With(map, i, list))
             /\ Keeps(pool, pool2, map, i)
<1> DEFINE old   == map[i][Current]
           lost  == {old[p].id : p \in {q \in keep + 1 .. Len(old) : ~old[q].is_snapshoted}}
           list  == SubSeq(old, 1, keep)
           pool2 == UnlinkAll(pool, lost)
           map2  == With(map, i, list)
           cur   == <<i, Current>>
<1>1. PoolType(pool) /\ MapType(map)
  BY DEF Sound
<1>2. old \in ListType /\ DOMAIN old = 1..Len(old) /\ Len(old) \in Nat
  BY <1>1, CurrentListType DEF ListType
<1>3. cur \in Lists(map) /\ ListOf(map, cur) = old
  BY <1>1 DEF MapType, Lists, ListOf
<1>4. \A id \in lost : id \in DOMAIN pool /\ Holders(map, id) = {cur} /\ pool[id].link_count = 1
  <2> SUFFICES ASSUME NEW p \in keep + 1 .. Len(old), ~old[p].is_snapshoted
               PROVE  /\ old[p].id \in DOMAIN pool
                      /\ Holders(map, old[p].id) = {cur}
                      /\ pool[old[p].id].link_count = 1
    OBVIOUS
  <2>1. p \in DOMAIN old
    BY <1>2
  <2>2. old[p].id \in DOMAIN pool
    BY <1>3, <2>1 DEF Sound, Closed, Ids
  <2>3. Holders(map, old[p].id) = {cur}
    BY <2>1 DEF Sound, Private
  <2>4. Cardinality(Holders(map, old[p].id)) = 1 /\ cur[2] = Current
    BY <2>3, FS_Singleton
  <2> QED BY <2>2, <2>3, <2>4 DEF Sound, Counted
<1> HIDE DEF old, lost
<1>5. /\ DOMAIN list = 1..keep
      /\ \A p \in 1..keep : p \in DOMAIN old /\ list[p] = old[p]
      /\ list \in ListType /\ Len(list) = keep
  <2> DEFINE E == [id : Nat, is_snapshoted : BOOLEAN]
  <2>1. old \in Seq(E) /\ keep <= Len(old)
    BY <1>2 DEF ListType, old
  <2> HIDE DEF E
  <2>2. list \in Seq(E) /\ Len(list) = keep /\ \A p \in 1..keep : list[p] = old[p]
    BY <2>1
  <2> QED BY <1>2, <2>1, <2>2 DEF ListType, E
<1>6. \A id \in Ids(list) : id \in Ids(old) /\ id \notin lost
  <2> SUFFICES ASSUME NEW p \in 1..keep PROVE list[p].id \in Ids(old) /\ list[p].id \notin lost
    BY <1>5 DEF Ids
  <2>1. p \in DOMAIN old /\ list[p] = old[p]
    BY <1>5
  <2>2. ASSUME NEW q \in keep + 1 .. Len(old), old[q].id = old[p].id PROVE FALSE
    <3>1. q \in DOMAIN old /\ p # q
      BY <1>2
    <3> QED BY <1>3, <2>1, <2>2, <3>1 DEF Sound, OnePlace
  <2> QED BY <2>1, <2>2 DEF Ids, lost
<1>7. /\ DOMAIN pool2 = DOMAIN pool \ lost
      /\ \A id \in DOMAIN pool2 : pool2[id] = pool[id]
      /\ pool2 = [id \in DOMAIN pool \ lost |-> pool[id]]
  <2>1. {x \in DOMAIN pool : ~(x \in lost /\ pool[x].link_count = 1)} = DOMAIN pool \ lost
    BY <1>4
  <2> QED BY <2>1 DEF UnlinkAll
<1>8. PoolType(pool2)
  <2>1. IsFiniteSet(DOMAIN pool \ lost)
    BY <1>1, FS_Difference DEF PoolType
  <2> QED BY <1>1, <1>7, <2>1 DEF PoolType
<1> HIDE DEF pool2, list
<1>9. /\ MapType(map2)
      /\ Lists(map2) = Lists(map)
      /\ ListOf(map2, cur) = list
      /\ \A h \in Lists(map) \ {cur} : ListOf(map2, h) = ListOf(map, h)
      /\ \A id : Holders(map2, id) = IF id \in Ids(list) THEN Holders(map, id) \cup {cur}
                                     ELSE Holders(map, id) \ {cur}
  BY <1>1, <1>5, WithChangesOneList, WithHolders
<1>10. \A id \in Ids(list) : cur \in Holders(map, id)
  BY <1>3, <1>6 DEF Holders
<1>11. \A h \in Lists(map) \ {cur} : \A id \in Ids(ListOf(map, h)) : id \in DOMAIN pool \ lost
  <2>1. \A h \in Lists(map) : \A id \in Ids(ListOf(map, h)) : id \in DOMAIN pool /\ h \in Holders(map, id)
    BY DEF Sound, Closed, Holders
  <2> QED BY <1>4, <2>1
<1>12. Keeps(pool, pool2, map, i)
  BY <1>7, <1>11 DEF Keeps
<1>13. Closed(pool2, map2)
  <2>1. Ids(list) \subseteq DOMAIN pool
    BY <1>3, <1>6 DEF Sound, Closed
  <2> QED BY <1>6, <1>7, <1>9, <1>11, <2>1 DEF Closed
<1>14. Counted(pool2, map2)
  <2> SUFFICES ASSUME NEW id \in DOMAIN pool2
               PROVE  \/ pool2[id].link_count = Cardinality(Holders(map2, id))
                      \/ /\ pool2[id].link_count = Cardinality(Holders(map2, id)) + 1
                         /\ \A h \in Holders(map2, id) : h[2] # Current
    BY DEF Counted
  <2>1. id \in DOMAIN pool /\ pool2[id] = pool[id]
    BY <1>7
  <2>2. CASE id \in Ids(list)
    <3>1. Holders(map2, id) = Holders(map, id)
      BY <1>9, <1>10, <2>2
    <3> QED BY <2>1, <3>1 DEF Sound, Counted
  <2>3. CASE id \notin Ids(list)
    <3>1. Holders(map2, id) = Holders(map, id) \ {<<i, Current>>}
      BY <1>9, <2>3
    <3> QED BY <2>1, <3>1, CountAfterDrop
  <2> QED BY <2>2, <2>3
<1>15. Private(map2)
  <2> SUFFICES ASSUME NEW j \in DOMAIN map2, NEW p \in DOMAIN map2[j][Current],
                      ~map2[j][Current][p].is_snapshoted
               PROVE  Holders(map2, map2[j][Current][p].id) = {<<j, Current>>}
    BY DEF Private
  <2> DEFINE e == map2[j][Current][p]
  <2>1. DOMAIN map2 = DOMAIN map
    BY DEF With
  <2>2. CASE j = i
    <3>1. map2[i][Current] = list
      BY <1>9 DEF ListOf
    <3>2. p \in DOMAIN old /\ e = old[p] /\ e.id \in Ids(list)
      BY <1>5, <2>2, <3>1 DEF Ids
    <3>3. Holders(map, e.id) = {cur}
      BY <2>2, <3>2 DEF Sound, Private, old
    <3> QED BY <1>9, <2>2, <3>2, <3>3
  <2>3. CASE j # i
    <3>1. map2[j] = map[j]
      BY <2>1, <2>3 DEF With
    <3>2. Holders(map, e.id) = {<<j, Current>>} /\ cur # <<j, Current>>
      BY <2>1, <2>3, <3>1 DEF Sound, Private
    <3>3. e.id \notin Ids(list)
      BY <1>10, <3>2
    <3> QED BY <1>9, <3>2, <3>3
  <2> QED BY <2>2, <2>3
<1>16. OnePlace(map2)
  <2>1. \A h \in Lists(map) : \A p \in DOMAIN ListOf(map2, h) :
          p \in DOMAIN ListOf(map, h) /\ ListOf(map2, h)[p] = ListOf(map, h)[p]
    BY <1>3, <1>5, <1>9
  <2> HIDE DEF map2
  <2> QED BY <1>9, <2>1 DEF Sound, OnePlace
<1>17. Sound(pool2, map2)
  BY <1>8, <1>9, <1>13, <1>14, <1>15, <1>16 DEF Sound
<1> QED BY <1>5, <1>12, <1>17 DEF pool2, list, lost, old

(* ------------------------ changing bytes in place ---------------------- *)

(* New bytes in unfrozen blocks of a current list disturb no other list.   *)
LEMMA NewBytesAreSound ==
  ASSUME NEW pool, NEW map, Sound(pool, map), NEW i \in DOMAIN map, NEW pool2,
         DOMAIN pool2 = DOMAIN pool, PoolType(pool2),
         \A id \in DOMAIN pool : pool2[id].link_count = pool[id].link_count,
         \A id \in DOMAIN pool :
           \/ pool2[id] = pool[id]
           \/ \E p \in DOMAIN map[i][Current] : /\ map[i][Current][p].id = id
                                                /\ ~map[i][Current][p].is_snapshoted
  PROVE  Sound(pool2, map) /\ Keeps(pool, pool2, map, i)
<1>1. Sound(pool2, map)
  BY DEF Sound, Closed, Counted
<1>2. ASSUME NEW h \in Lists(map) \ {<<i, Current>>}, NEW id \in Ids(ListOf(map, h))
      PROVE  id \in DOMAIN pool2 /\ pool2[id].data = pool[id].data
  <2>1. id \in DOMAIN pool
    BY DEF Sound, Closed
  <2>2. h \in Holders(map, id)
    BY DEF Holders
  <2>3. ~(Holders(map, id) = {<<i, Current>>})
    BY <2>2
  <2>4. pool2[id] = pool[id]
    BY <2>1, <2>3 DEF Sound, Private
  <2> QED BY <2>1, <2>4
<1> QED BY <1>1, <1>2 DEF Keeps

(* inode_t::truncate sizes blocks in place: on a list without frozen       *)
(* entries that is sound and disturbs no other list.                       *)
LEMMA SizeBlocksIsSound ==
  ASSUME NEW pool, NEW map, Sound(pool, map), NEW i \in DOMAIN map,
         \A p \in DOMAIN map[i][Current] : ~map[i][Current][p].is_snapshoted,
         NEW length \in Nat
  PROVE  LET pool2 == SizeBlocks(pool, map[i][Current], length)
         IN  Sound(pool2, map) /\ Keeps(pool, pool2, map, i)
<1> DEFINE list == map[i][Current]
           chunks == Chunks(length, 0)
           Names(b, id) == b + 1 \in DOMAIN list /\ list[b + 1].id = id
           block(id) == CHOOSE b \in DOMAIN chunks : Names(b, id)
           pool2 == [id \in DOMAIN pool |->
                       IF \E b \in DOMAIN chunks : Names(b, id)
                       THEN [pool[id] EXCEPT !.data = BufTruncate(@, chunks[block(id)].count)]
                       ELSE pool[id]]
<1>1. CASE length = 0
  <2>1. SizeBlocks(pool, list, length) = pool
    BY <1>1 DEF SizeBlocks
  <2>2. Keeps(pool, pool, map, i)
    BY DEF Keeps, Sound, Closed
  <2> QED BY <2>1, <2>2
<1>2. CASE length # 0
  <2>1. SizeBlocks(pool, list, length) = pool2
    BY <1>2 DEF SizeBlocks, MapBlocks
  <2>2. pool \in [DOMAIN pool -> [link_count : Nat \ {0}, data : Seq(Byte)]]
    BY DEF Sound, PoolType
  <2> HIDE DEF list
  <2>3. ASSUME NEW id \in DOMAIN pool
        PROVE  /\ pool2[id] \in [link_count : Nat \ {0}, data : Seq(Byte)]
               /\ pool2[id].link_count = pool[id].link_count
               /\ \/ pool2[id] = pool[id]
                  \/ \E p \in DOMAIN list : list[p].id = id
    <3>1. CASE \E b \in DOMAIN chunks : Names(b, id)
      <4>1. block(id) \in DOMAIN chunks /\ Names(block(id), id)
        BY <3>1
      <4> HIDE DEF block, chunks
      <4>2. chunks[block(id)].count \in Nat
        BY <4>1, ChunksBounds DEF chunks
      <4>3. BufTruncate(pool[id].data, chunks[block(id)].count) \in Seq(Byte)
        BY <2>2, <4>2, BufTruncateType
      <4> QED BY <2>2, <3>1, <4>1, <4>3
    <3>2. CASE ~ \E b \in DOMAIN chunks : Names(b, id)
      BY <2>2, <3>2
    <3> QED BY <3>1, <3>2
  <2>4. DOMAIN pool2 = DOMAIN pool
    OBVIOUS
  <2> HIDE DEF pool2
  <2>5. PoolType(pool2)
    <3>1. pool2 \in [DOMAIN pool -> [link_count : Nat \ {0}, data : Seq(Byte)]]
      BY <2>3, <2>4 DEF pool2
    <3> QED BY <2>4, <3>1 DEF Sound, PoolType
  <2> QED BY <2>1, <2>3, <2>4, <2>5, NewBytesAreSound DEF list
<1> QED BY <1>1, <1>2

(* inode_t::write fills blocks in place: when the blocks it touches are    *)
(* not frozen that is sound and disturbs no other list.                    *)
LEMMA WriteChunksIsSound ==
  ASSUME NEW pool, NEW map, Sound(pool, map), NEW i \in DOMAIN map,
         NEW bytes \in Seq(Byte), NEW length \in Nat, length <= Len(bytes),
         NEW offset \in Nat, NEW resize \in BOOLEAN,
         \A b \in DOMAIN Chunks(length, offset) :
           b + 1 \in DOMAIN map[i][Current] => ~map[i][Current][b + 1].is_snapshoted
  PROVE  LET pool2 == WriteChunks(pool, map[i][Current], bytes, length, offset, resize)
         IN  Sound(pool2, map) /\ Keeps(pool, pool2, map, i)
<1> DEFINE list == map[i][Current]
           chunks == Chunks(length, offset)
           Names(b, id) == b + 1 \in DOMAIN list /\ list[b + 1].id = id
           block(id) == CHOOSE b \in DOMAIN chunks : Names(b, id)
           piece(b) == SubSeq(bytes, chunks[b].from + 1, chunks[b].from + chunks[b].count)
           pool2 == [id \in DOMAIN pool |->
                       IF \E b \in DOMAIN chunks : Names(b, id)
                       THEN [pool[id] EXCEPT !.data =
                               BufWrite(@, piece(block(id)), chunks[block(id)].at, resize)]
                       ELSE pool[id]]
<1>1. WriteChunks(pool, list, bytes, length, offset, resize) = pool2
  BY DEF WriteChunks, MapBlocks
<1>2. pool \in [DOMAIN pool -> [link_count : Nat \ {0}, data : Seq(Byte)]]
  BY DEF Sound, PoolType
<1> HIDE DEF list
<1>3. ASSUME NEW b \in DOMAIN chunks
      PROVE  chunks[b].at \in Nat /\ piece(b) \in Seq(Byte)
  <2>1. /\ chunks[b].from \in Nat /\ chunks[b].count \in Nat /\ chunks[b].at \in Nat
        /\ chunks[b].from + chunks[b].count <= length
    BY ChunksBounds
  <2> HIDE DEF chunks
  <2>2. \A k \in chunks[b].from + 1 .. chunks[b].from + chunks[b].count : k \in 1..Len(bytes)
    BY <2>1
  <2> QED BY <2>1, <2>2
<1>4. ASSUME NEW id \in DOMAIN pool
      PROVE  /\ pool2[id] \in [link_count : Nat \ {0}, data : Seq(Byte)]
             /\ pool2[id].link_count = pool[id].link_count
             /\ \/ pool2[id] = pool[id]
                \/ \E b \in DOMAIN chunks : Names(b, id)
  <2>1. CASE \E b \in DOMAIN chunks : Names(b, id)
    <3>1. block(id) \in DOMAIN chunks
      BY <2>1
    <3> HIDE DEF block, chunks, piece
    <3>2. BufWrite(pool[id].data, piece(block(id)), chunks[block(id)].at, resize) \in Seq(Byte)
      BY <1>2, <1>3, <3>1, BufWriteType
    <3> QED BY <1>2, <2>1, <3>2
  <2>2. CASE ~ \E b \in DOMAIN chunks : Names(b, id)
    BY <1>2, <2>2
  <2> QED BY <2>1, <2>2
<1>5. DOMAIN pool2 = DOMAIN pool
  OBVIOUS
<1> HIDE DEF pool2
<1>6. PoolType(pool2)
  <2>1. pool2 \in [DOMAIN pool -> [link_count : Nat \ {0}, data : Seq(Byte)]]
    BY <1>4, <1>5 DEF pool2
  <2> QED BY <1>5, <2>1 DEF Sound, PoolType
<1>7. \A b \in DOMAIN chunks : \A id : Names(b, id) =>
        \E p \in DOMAIN list : list[p].id = id /\ ~list[p].is_snapshoted
  BY DEF list
<1> HIDE DEF chunks, Names
<1> QED BY <1>1, <1>4, <1>5, <1>6, <1>7, NewBytesAreSound DEF list

(* ------------------ the operations on a current list ------------------- *)

(* What every operation on the current list of i does to the store.        *)
Rewrites(pool, map, i, st) ==
  /\ st.list \in ListType
  /\ Sound(st.pool, With(map, i, st.list))
  /\ Keeps(pool, st.pool, map, i)

WritableAt(list, positions) ==
  \A p \in DOMAIN list : p \in positions => ~list[p].is_snapshoted
AllWritable(list) == \A p \in DOMAIN list : ~list[p].is_snapshoted

(* Two operations one after the other.                                     *)
LEMMA RewritesTwice ==
  ASSUME NEW pool, NEW map, MapType(map), NEW i \in DOMAIN map,
         NEW st1, Rewrites(pool, map, i, st1),
         NEW st2, Rewrites(st1.pool, With(map, i, st1.list), i, st2)
  PROVE  Rewrites(pool, map, i, st2)
<1> DEFINE map1 == With(map, i, st1.list)
<1>1. With(map1, i, st2.list) = With(map, i, st2.list)
  BY DEF With
<1>2. /\ Lists(map1) = Lists(map)
      /\ \A h \in Lists(map) \ {<<i, Current>>} : ListOf(map1, h) = ListOf(map, h)
  BY WithChangesOneList DEF Rewrites
<1>3. Keeps(pool, st1.pool, map, i) /\ Keeps(st1.pool, st2.pool, map1, i)
  BY DEF Rewrites
<1> HIDE DEF map1
<1>4. Keeps(pool, st2.pool, map, i)
  BY <1>2, <1>3 DEF Keeps
<1> QED BY <1>1, <1>4 DEF Rewrites, map1

(* The store after an operation, ready for the next one.                   *)
LEMMA RewrittenIsSound ==
  ASSUME NEW pool, NEW map, MapType(map), NEW i \in DOMAIN map,
         NEW st, Rewrites(pool, map, i, st)
  PROVE  /\ Sound(st.pool, With(map, i, st.list))
         /\ i \in DOMAIN With(map, i, st.list)
         /\ With(map, i, st.list)[i][Current] = st.list
<1>1. Sound(st.pool, With(map, i, st.list))
  BY DEF Rewrites
<1>2. Current \in DOMAIN map[i]
  BY DEF MapType
<1>3. \A list : i \in DOMAIN With(map, i, list) /\ With(map, i, list)[i][Current] = list
  BY <1>2 DEF With
<1> QED BY <1>1, <1>3

(* The buffers other lists name survive when no old buffer changes.        *)
LEMMA OldBuffersKeep ==
  ASSUME NEW pool, NEW map, Sound(pool, map), NEW i, NEW pool2,
         \A id \in DOMAIN pool : id \in DOMAIN pool2 /\ pool2[id] = pool[id]
  PROVE  Keeps(pool, pool2, map, i)
BY DEF Keeps, Sound, Closed

(* Appending buffers is such an operation.                                 *)
LEMMA AppendRewrites ==
  ASSUME NEW pool, NEW map, Sound(pool, map), NEW i \in DOMAIN map, NEW n \in Nat
  PROVE  Rewrites(pool, map, i, AppendBuffers(pool, map[i][Current], n))
<1> DEFINE st == AppendBuffers(pool, map[i][Current], n)
<1>1. /\ st.list \in ListType
      /\ Sound(st.pool, With(map, i, st.list))
      /\ \A id \in DOMAIN pool : id \in DOMAIN st.pool /\ st.pool[id] = pool[id]
  BY AppendIsSound
<1> HIDE DEF st
<1>2. Keeps(pool, st.pool, map, i)
  BY <1>1, OldBuffersKeep
<1>3. Rewrites(pool, map, i, st)
  BY <1>1, <1>2 DEF Rewrites
<1> QED BY <1>3 DEF st

(* Copying frozen buffers is such an operation.                            *)
LEMMA ThawRewrites ==
  ASSUME NEW pool, NEW map, Sound(pool, map), NEW i \in DOMAIN map, NEW positions,
         NEW list, list = map[i][Current], NEW st, st = Thaw(pool, list, positions)
  PROVE  /\ Rewrites(pool, map, i, st)
         /\ Len(st.list) = Len(list)
         /\ WritableAt(st.list, positions)
<1> DEFINE thawed == Thaw(pool, map[i][Current], positions)
<1>1. /\ thawed.list \in ListType /\ Len(thawed.list) = Len(map[i][Current])
      /\ Sound(thawed.pool, With(map, i, thawed.list))
      /\ \A id \in DOMAIN pool : id \in DOMAIN thawed.pool /\ thawed.pool[id] = pool[id]
      /\ \A p \in DOMAIN thawed.list : p \in positions => ~thawed.list[p].is_snapshoted
  BY ThawIsSound
<1>2. st = thawed
  BY Zenon
<1> HIDE DEF thawed
<1>3. Keeps(pool, thawed.pool, map, i)
  BY <1>1, OldBuffersKeep
<1>4. Rewrites(pool, map, i, thawed)
  BY <1>1, <1>3 DEF Rewrites
<1>5. WritableAt(thawed.list, positions)
  BY <1>1 DEF WritableAt
<1> QED BY <1>1, <1>2, <1>4, <1>5

(* Bytes written into writable blocks after an operation.                  *)
LEMMA RewritesThenBytes ==
  ASSUME NEW pool, NEW map, NEW i \in DOMAIN map, MapType(map),
         NEW st, Rewrites(pool, map, i, st), NEW pool2,
         Sound(pool2, With(map, i, st.list)),
         Keeps(st.pool, pool2, With(map, i, st.list), i)
  PROVE  Rewrites(pool, map, i, [pool |-> pool2, list |-> st.list])
<1> DEFINE map1 == With(map, i, st.list)
           st2 == [pool |-> pool2, list |-> st.list]
<1>1. With(map1, i, st.list) = map1
  BY DEF With
<1>2. st2.pool = pool2 /\ st2.list = st.list
  OBVIOUS
<1> HIDE DEF st2
<1>3. Rewrites(st.pool, map1, i, st2)
  BY <1>1, <1>2 DEF Rewrites
<1> QED BY <1>3, RewritesTwice DEF st2

(* The growing branch of inode_t::truncate leaves no frozen entry.         *)
LEMMA GrowRewrites ==
  ASSUME NEW pool, NEW map, Sound(pool, map), NEW i \in DOMAIN map, NEW length \in Nat,
         Len(map[i][Current]) * BlockSize < length
  PROVE  LET st == Grow(pool, map[i][Current], length)
         IN  Rewrites(pool, map, i, st) /\ AllWritable(st.list)
<1> DEFINE old   == map[i][Current]
           n     == BlockCount(length - Len(old) * BlockSize)
           grown == AppendBuffers(pool, old, n)
           map1  == With(map, i, grown.list)
           st    == Thaw(grown.pool, grown.list, 1..Len(grown.list))
<1>1. MapType(map) /\ old \in ListType
  BY CurrentListType DEF Sound
<1>2. n \in Nat
  <2>1. Len(old) \in Nat
    BY <1>1 DEF ListType
  <2>2. length - Len(old) * BlockSize \in Nat
    BY <2>1, BufferAssumption
  <2> QED BY <2>2, BlockCountIsEnough
<1> HIDE DEF old, n
<1>3. Rewrites(pool, map, i, grown)
  BY <1>2, AppendRewrites DEF old
<1> HIDE DEF grown
<1>4. Sound(grown.pool, map1) /\ i \in DOMAIN map1 /\ map1[i][Current] = grown.list
  BY <1>1, <1>3, RewrittenIsSound
<1> HIDE DEF map1
<1>5. /\ Rewrites(grown.pool, map1, i, st)
      /\ Len(st.list) = Len(grown.list)
      /\ WritableAt(st.list, 1..Len(grown.list))
  <2> DEFINE pool1 == grown.pool
             list1 == grown.list
             range == 1..Len(grown.list)
  <2>1. st = Thaw(pool1, list1, range)
    OBVIOUS
  <2>2. Sound(pool1, map1) /\ i \in DOMAIN map1 /\ list1 = map1[i][Current]
    BY <1>4
  <2> HIDE DEF st, pool1, list1, range
  <2>3. /\ Rewrites(pool1, map1, i, st)
        /\ Len(st.list) = Len(list1)
        /\ WritableAt(st.list, range)
    BY <2>1, <2>2, ThawRewrites
  <2> QED BY <2>3 DEF pool1, list1, range
<1> HIDE DEF st
<1>6. AllWritable(st.list)
  <2>1. DOMAIN st.list = 1..Len(st.list)
    BY <1>5 DEF ListType, Rewrites
  <2> QED BY <1>5, <2>1 DEF AllWritable, WritableAt
<1>7. Rewrites(pool, map, i, st)
  BY <1>1, <1>3, <1>5, RewritesTwice DEF map1
<1> QED BY <1>6, <1>7 DEF Grow, st, grown, n, old

(* The shrinking branch of inode_t::truncate leaves no frozen entry.       *)
LEMMA ShrinkRewrites ==
  ASSUME NEW pool, NEW map, Sound(pool, map), NEW i \in DOMAIN map, NEW length \in Nat,
         ~(Len(map[i][Current]) * BlockSize < length)
  PROVE  LET st == Shrink(pool, map[i][Current], length)
         IN  Rewrites(pool, map, i, st) /\ AllWritable(st.list)
<1> DEFINE old  == map[i][Current]
           keep == BlockCount(length)
           lost == {old[p].id : p \in {q \in keep + 1 .. Len(old) : ~old[q].is_snapshoted}}
           cut  == [pool |-> UnlinkAll(pool, lost), list |-> SubSeq(old, 1, keep)]
           map1 == With(map, i, cut.list)
           st   == Thaw(cut.pool, cut.list, 1..keep)
<1>1. MapType(map) /\ old \in ListType
  BY CurrentListType DEF Sound
<1>2. keep \in Nat /\ keep <= Len(old)
  <2>1. Len(old) \in Nat
    BY <1>1 DEF ListType
  <2>2. length <= Len(old) * BlockSize
    BY <2>1, BufferAssumption
  <2> QED BY <2>1, <2>2, BlockCountIsEnough
<1> HIDE DEF keep
<1>3. Rewrites(pool, map, i, cut) /\ Len(cut.list) = keep
  <2>1. /\ cut.list \in ListType /\ Len(cut.list) = keep
        /\ Sound(cut.pool, With(map, i, cut.list))
        /\ Keeps(pool, cut.pool, map, i)
    <3> HIDE DEF map1, st
    <3>1. old = map[i][Current]
      OBVIOUS
    <3>2. cut.pool = UnlinkAll(pool, lost) /\ cut.list = SubSeq(old, 1, keep)
      OBVIOUS
    <3> HIDE DEF cut
    <3> QED BY <1>2, <3>1, <3>2, DropIsSound
  <2> HIDE DEF cut
  <2> QED BY <2>1 DEF Rewrites
<1> HIDE DEF cut
<1>4. Sound(cut.pool, map1) /\ i \in DOMAIN map1 /\ map1[i][Current] = cut.list
  BY <1>1, <1>3, RewrittenIsSound
<1> HIDE DEF map1
<1>5. /\ Rewrites(cut.pool, map1, i, st)
      /\ Len(st.list) = Len(cut.list)
      /\ WritableAt(st.list, 1..keep)
  <2> DEFINE pool1 == cut.pool
             list1 == cut.list
             range == 1..keep
  <2>1. st = Thaw(pool1, list1, range)
    OBVIOUS
  <2>2. Sound(pool1, map1) /\ i \in DOMAIN map1 /\ list1 = map1[i][Current]
    BY <1>4
  <2> HIDE DEF st, pool1, list1, range
  <2>3. /\ Rewrites(pool1, map1, i, st)
        /\ Len(st.list) = Len(list1)
        /\ WritableAt(st.list, range)
    BY <2>1, <2>2, ThawRewrites
  <2> QED BY <2>3 DEF pool1, list1, range
<1> HIDE DEF st
<1>6. AllWritable(st.list)
  <2>1. DOMAIN st.list = 1..Len(st.list)
    BY <1>5 DEF ListType, Rewrites
  <2> QED BY <1>3, <1>5, <2>1 DEF AllWritable, WritableAt
<1> HIDE DEF old, lost
<1>7. Rewrites(pool, map, i, st)
  BY <1>1, <1>3, <1>5, RewritesTwice DEF map1
<1>8. cut.pool = UnlinkAll(pool, lost) /\ cut.list = SubSeq(old, 1, keep)
  BY DEF cut
<1>9. st = Shrink(pool, old, length)
  BY <1>8 DEF Shrink, st, lost, keep
<1> QED BY <1>6, <1>7, <1>9 DEF old

(* inode_t::truncate is such an operation and leaves no frozen entry.      *)
LEMMA TruncatedRewrites ==
  ASSUME NEW pool, NEW map, Sound(pool, map), NEW i \in DOMAIN map, NEW length \in Nat
  PROVE  LET st == Truncated(pool, map[i][Current], length)
         IN  Rewrites(pool, map, i, st) /\ AllWritable(st.list)
<1> DEFINE old  == map[i][Current]
           st1  == IF Len(old) * BlockSize < length THEN Grow(pool, old, length)
                   ELSE Shrink(pool, old, length)
           map1 == With(map, i, st1.list)
           sized == SizeBlocks(st1.pool, st1.list, length)
<1>1. Rewrites(pool, map, i, st1) /\ AllWritable(st1.list)
  BY GrowRewrites, ShrinkRewrites
<1>2. MapType(map)
  BY DEF Sound
<1> HIDE DEF st1
<1>3. Sound(st1.pool, map1) /\ i \in DOMAIN map1 /\ map1[i][Current] = st1.list
  BY <1>1, <1>2, RewrittenIsSound
<1>4. Sound(sized, map1) /\ Keeps(st1.pool, sized, map1, i)
  BY <1>1, <1>3, SizeBlocksIsSound DEF AllWritable
<1> HIDE DEF sized
<1>5. Rewrites(pool, map, i, [pool |-> sized, list |-> st1.list])
  BY <1>1, <1>2, <1>4, RewritesThenBytes
<1> QED BY <1>1, <1>5 DEF Truncated, st1, sized

(* inode_t::write with resize is such an operation.                        *)
LEMMA WrittenResizingRewrites ==
  ASSUME NEW pool, NEW map, Sound(pool, map), NEW i \in DOMAIN map,
         NEW bytes \in Seq(Byte), NEW offset \in Nat
  PROVE  Rewrites(pool, map, i, WrittenResizing(pool, map[i][Current], bytes, offset))
<1> DEFINE st == Truncated(pool, map[i][Current], offset + Len(bytes))
           map1 == With(map, i, st.list)
           written == WriteChunks(st.pool, st.list, bytes, Len(bytes), offset, TRUE)
<1>1. Len(bytes) \in Nat /\ offset + Len(bytes) \in Nat
  OBVIOUS
<1>2. Rewrites(pool, map, i, st) /\ AllWritable(st.list)
  BY <1>1, TruncatedRewrites
<1>3. MapType(map)
  BY DEF Sound
<1> HIDE DEF st
<1>4. Sound(st.pool, map1) /\ i \in DOMAIN map1 /\ map1[i][Current] = st.list
  BY <1>2, <1>3, RewrittenIsSound
<1>5. Sound(written, map1) /\ Keeps(st.pool, written, map1, i)
  <2>1. \A b \in DOMAIN Chunks(Len(bytes), offset) :
          b + 1 \in DOMAIN map1[i][Current] => ~map1[i][Current][b + 1].is_snapshoted
    BY <1>2, <1>4 DEF AllWritable
  <2>2. Len(bytes) <= Len(bytes) /\ TRUE \in BOOLEAN
    BY <1>1
  <2> HIDE DEF map1
  <2> QED BY <1>1, <1>4, <2>1, <2>2, WriteChunksIsSound, Zenon
<1> HIDE DEF written
<1>6. Rewrites(pool, map, i, [pool |-> written, list |-> st.list])
  BY <1>2, <1>3, <1>5, RewritesThenBytes
<1> QED BY <1>6 DEF WrittenResizing, st, written

(* current_data_size is a natural number.                                  *)
LEMMA DataSizeType ==
  ASSUME NEW pool, NEW map, Sound(pool, map), NEW h \in Lists(map)
  PROVE  DataSize(pool, ListOf(map, h)) \in Nat
<1> DEFINE list == ListOf(map, h)
           blocks == BlocksOf(pool, list)
           f == [p \in DOMAIN list |-> {p} \X (DOMAIN blocks[p])]
           cells == {{p} \X (DOMAIN blocks[p]) : p \in DOMAIN blocks}
<1>1. list \in ListType
  BY ListsHaveListType DEF Sound
<1>2. IsFiniteSet(DOMAIN list)
  <2>1. DOMAIN list = 1..Len(list) /\ Len(list) \in Nat
    BY <1>1 DEF ListType
  <2> QED BY <2>1, FS_Interval
<1>3. \A p \in DOMAIN list : list[p].id \in DOMAIN pool
  BY DEF Sound, Closed, Ids
<1>4. DOMAIN blocks = DOMAIN list /\ \A p \in DOMAIN list : blocks[p] \in Seq(Byte)
  BY <1>3 DEF BlocksOf, Sound, PoolType
<1> HIDE DEF list, blocks
<1>5. \A p \in DOMAIN list : IsFiniteSet({p} \X (DOMAIN blocks[p]))
  <2> TAKE p \in DOMAIN list
  <2>1. DOMAIN blocks[p] = 1..Len(blocks[p]) /\ Len(blocks[p]) \in Nat
    BY <1>4
  <2>2. IsFiniteSet(DOMAIN blocks[p])
    BY <2>1, FS_Interval
  <2>3. IsFiniteSet({p})
    BY FS_Singleton
  <2> QED BY <2>2, <2>3, FS_Product
<1>6. IsFiniteSet(cells)
  <2>1. DOMAIN f = DOMAIN list /\ cells = {f[p] : p \in DOMAIN list}
    BY <1>4
  <2> HIDE DEF f, cells
  <2> QED BY <1>2, <2>1, RangeIsFinite
<1>7. IsFiniteSet(UNION cells)
  BY <1>4, <1>5, <1>6, FS_UNION
<1>8. DataSize(pool, list) = Cardinality(UNION cells)
  BY DEF DataSize, blocks
<1> HIDE DEF cells
<1> QED BY <1>7, <1>8, FS_CardinalityType DEF list

(* inode_t::write without resize, within the file, is such an operation:   *)
(* the blocks it thaws are the blocks it fills.                            *)
LEMMA WrittenInPlaceRewrites ==
  ASSUME NEW pool, NEW map, Sound(pool, map), NEW i \in DOMAIN map,
         NEW bytes \in Seq(Byte) \ {<<>>}, NEW offset \in Nat,
         offset + Len(bytes) <= DataSize(pool, map[i][Current])
  PROVE  Rewrites(pool, map, i, WrittenInPlace(pool, map[i][Current], bytes, offset))
<1> DEFINE old == map[i][Current]
           length == Len(bytes)
           positions == offset \div BlockSize + 1 .. BlockCount(offset + length)
           st == Thaw(pool, old, positions)
           map1 == With(map, i, st.list)
           written == WriteChunks(st.pool, st.list, bytes, length, offset, FALSE)
<1>1. MapType(map)
  BY DEF Sound
<1>2. <<i, Current>> \in Lists(map) /\ ListOf(map, <<i, Current>>) = old
  BY <1>1 DEF MapType, Lists, ListOf
<1>3. DataSize(pool, old) \in Nat
  BY <1>2, DataSizeType
<1>4. length \in Nat /\ length > 0
  OBVIOUS
<1>5. Clip(DataSize(pool, old), length, offset) = length
  BY <1>3, <1>4, ClipBounds
<1>6. WrittenInPlace(pool, old, bytes, offset) = [pool |-> written, list |-> st.list]
  BY <1>5 DEF WrittenInPlace
<1> HIDE DEF old, length, positions
<1>7. Rewrites(pool, map, i, st)
  BY ThawRewrites DEF old
<1>8. WritableAt(st.list, positions)
  BY ThawRewrites DEF old
<1> HIDE DEF st
<1>9. Sound(st.pool, map1) /\ i \in DOMAIN map1 /\ map1[i][Current] = st.list
  BY <1>1, <1>7, RewrittenIsSound
<1>10. \A b \in DOMAIN Chunks(length, offset) : b + 1 \in positions
  <2> TAKE b \in DOMAIN Chunks(length, offset)
  <2>1. /\ b \in Nat /\ offset \div BlockSize <= b
        /\ b + 1 <= BlockCount(offset + length)
    BY <1>4, ChunksBounds
  <2>2. offset \div BlockSize \in Nat
    BY DivMod
  <2>3. offset + length \in Nat
    BY <1>4
  <2>4. BlockCount(offset + length) \in Nat
    BY <2>3, BlockCountIsEnough
  <2> QED BY <2>1, <2>2, <2>4 DEF positions
<1>11. Sound(written, map1) /\ Keeps(st.pool, written, map1, i)
  <2>1. length <= Len(bytes)
    BY <1>4 DEF length
  <2> QED BY <1>4, <1>8, <1>9, <1>10, <2>1, WriteChunksIsSound DEF WritableAt
<1> HIDE DEF written
<1>12. Rewrites(pool, map, i, [pool |-> written, list |-> st.list])
  BY <1>1, <1>7, <1>11, RewritesThenBytes
<1> QED BY <1>6, <1>12 DEF old

(* --------------------- inodes and snapshot volumes --------------------- *)

IInv == Sound(buffer_pool, buffer_map)

(* What a step may never do to a snapshot that exists before and after it. *)
SnapshotsKept ==
  \A h \in Lists(buffer_map) \cap Lists(buffer_map') : h[2] # Current =>
    /\ ListOf(buffer_map', h) = ListOf(buffer_map, h)
    /\ \A id \in Ids(ListOf(buffer_map, h)) : buffer_pool'[id].data = buffer_pool[id].data

(* An operation on a current list, installed by SetCurrent.                *)
LEMMA SetCurrentIsSound ==
  ASSUME IInv, NEW i \in DOMAIN buffer_map, NEW st,
         Rewrites(buffer_pool, buffer_map, i, st), SetCurrent(i, st)
  PROVE  IInv' /\ SnapshotsKept
<1>1. MapType(buffer_map)
  BY DEF IInv, Sound
<1>2. st.list \in ListType
  BY DEF Rewrites
<1>3. buffer_pool' = st.pool /\ buffer_map' = With(buffer_map, i, st.list)
  BY DEF SetCurrent, With
<1>4. IInv'
  BY <1>3 DEF IInv, Rewrites
<1>5. /\ Lists(buffer_map') = Lists(buffer_map)
      /\ \A h \in Lists(buffer_map) \ {<<i, Current>>} :
           ListOf(buffer_map', h) = ListOf(buffer_map, h)
  BY <1>1, <1>2, <1>3, WithChangesOneList
<1>6. Keeps(buffer_pool, buffer_pool', buffer_map, i)
  BY <1>3 DEF Rewrites
<1>7. SnapshotsKept
  BY <1>5, <1>6 DEF SnapshotsKept, Keeps
<1> QED BY <1>4, <1>7

(* A new inode adds an empty list.                                         *)
LEMMA NewInodeIsSound ==
  ASSUME IInv, NEW i \in Inode, NewInode(i)
  PROVE  IInv' /\ SnapshotsKept
<1> DEFINE cur == <<i, Current>>
<1>1. MapType(buffer_map) /\ i \notin DOMAIN buffer_map
  BY DEF IInv, Sound, NewInode
<1>2. /\ DOMAIN buffer_map' = DOMAIN buffer_map \cup {i}
      /\ buffer_map'[i] = [v \in {Current} |-> <<>>]
      /\ \A j \in DOMAIN buffer_map : buffer_map'[j] = buffer_map[j]
      /\ buffer_pool' = buffer_pool
  BY <1>1 DEF NewInode
<1>3. MapType(buffer_map')
  <2>1. IsFiniteSet(DOMAIN buffer_map') /\ IsFiniteSet({Current})
    <3>1. IsFiniteSet(DOMAIN buffer_map)
      BY <1>1 DEF MapType
    <3>2. IsFiniteSet(DOMAIN buffer_map \cup {i})
      BY <3>1, FS_AddElement
    <3>3. IsFiniteSet({Current})
      BY FS_Singleton
    <3> QED BY <1>2, <3>2, <3>3
  <2>2. buffer_map'[i] \in [{Current} -> ListType]
    BY <1>2 DEF ListType
  <2> QED BY <1>1, <1>2, <2>1, <2>2 DEF MapType
<1>4. /\ Lists(buffer_map') = Lists(buffer_map) \cup {cur}
      /\ cur \notin Lists(buffer_map)
      /\ ListOf(buffer_map', cur) = <<>>
      /\ \A h \in Lists(buffer_map) : ListOf(buffer_map', h) = ListOf(buffer_map, h)
  BY <1>1, <1>2 DEF Lists, ListOf
<1>5. Ids(ListOf(buffer_map', cur)) = {} /\ DOMAIN ListOf(buffer_map', cur) = {}
  BY <1>4 DEF Ids
<1>6. \A id : Holders(buffer_map', id) = Holders(buffer_map, id)
  BY <1>4, <1>5 DEF Holders
<1>7. Closed(buffer_pool', buffer_map') /\ Counted(buffer_pool', buffer_map')
  BY <1>2, <1>4, <1>5, <1>6 DEF IInv, Sound, Closed, Counted
<1>8. Private(buffer_map')
  <2> SUFFICES ASSUME NEW j \in DOMAIN buffer_map', NEW p \in DOMAIN buffer_map'[j][Current],
                      ~buffer_map'[j][Current][p].is_snapshoted
               PROVE  Holders(buffer_map', buffer_map'[j][Current][p].id) = {<<j, Current>>}
    BY DEF Private
  <2>1. j \in DOMAIN buffer_map
    BY <1>2
  <2> QED BY <1>2, <1>6, <2>1 DEF IInv, Sound, Private
<1>9. OnePlace(buffer_map')
  <2> SUFFICES ASSUME NEW g \in Lists(buffer_map'), NEW h \in Lists(buffer_map'),
                      NEW p \in DOMAIN ListOf(buffer_map', g),
                      NEW q \in DOMAIN ListOf(buffer_map', h),
                      ListOf(buffer_map', g)[p].id = ListOf(buffer_map', h)[q].id
               PROVE  g[1] = h[1] /\ p = q
    BY DEF OnePlace
  <2>1. g \in Lists(buffer_map) /\ h \in Lists(buffer_map)
    BY <1>4, <1>5
  <2> QED BY <1>4, <2>1 DEF IInv, Sound, OnePlace
<1>10. IInv'
  BY <1>2, <1>3, <1>7, <1>8, <1>9 DEF IInv, Sound
<1>11. SnapshotsKept
  BY <1>2, <1>4 DEF SnapshotsKept
<1> QED BY <1>10, <1>11

(* Erasing an inode without snapshots takes its current list away; the     *)
(* buffers it alone held stay, one link too many for their holders.        *)
LEMMA EraseInodeIsSound ==
  ASSUME IInv, NEW i \in Inode, EraseInode(i)
  PROVE  IInv' /\ SnapshotsKept
<1> DEFINE cur == <<i, Current>>
<1>1. MapType(buffer_map) /\ i \in DOMAIN buffer_map /\ DOMAIN buffer_map[i] = {Current}
  BY DEF IInv, Sound, EraseInode
<1>2. /\ DOMAIN buffer_map' = DOMAIN buffer_map \ {i}
      /\ \A j \in DOMAIN buffer_map' : buffer_map'[j] = buffer_map[j]
      /\ buffer_pool' = buffer_pool
  BY DEF EraseInode
<1>3. MapType(buffer_map')
  <2>1. IsFiniteSet(DOMAIN buffer_map')
    BY <1>1, <1>2, FS_Subset DEF MapType
  <2> QED BY <1>1, <1>2, <2>1 DEF MapType
<1>4. /\ Lists(buffer_map') = Lists(buffer_map) \ {cur}
      /\ \A h \in Lists(buffer_map') : ListOf(buffer_map', h) = ListOf(buffer_map, h)
  BY <1>1, <1>2 DEF Lists, ListOf
<1>5. \A id : Holders(buffer_map', id) = Holders(buffer_map, id) \ {cur}
  BY <1>4 DEF Holders
<1>6. Closed(buffer_pool', buffer_map')
  BY <1>2, <1>4 DEF IInv, Sound, Closed
<1>7. Counted(buffer_pool', buffer_map')
  <2> SUFFICES ASSUME NEW id \in DOMAIN buffer_pool
      PROVE  LET H == Holders(buffer_map', id)
             IN  \/ buffer_pool[id].link_count = Cardinality(H)
                 \/ /\ buffer_pool[id].link_count = Cardinality(H) + 1
                    /\ \A h \in H : h[2] # Current
    BY <1>2 DEF Counted
  <2> QED BY <1>1, <1>5, CountAfterDrop DEF IInv
<1>8. Private(buffer_map')
  <2> SUFFICES ASSUME NEW j \in DOMAIN buffer_map', NEW p \in DOMAIN buffer_map'[j][Current],
                      ~buffer_map'[j][Current][p].is_snapshoted
               PROVE  Holders(buffer_map', buffer_map'[j][Current][p].id) = {<<j, Current>>}
    BY DEF Private
  <2>1. Holders(buffer_map, buffer_map'[j][Current][p].id) = {<<j, Current>>} /\ j # i
    BY <1>2 DEF IInv, Sound, Private
  <2> QED BY <1>5, <2>1
<1>9. OnePlace(buffer_map')
  BY <1>4 DEF IInv, Sound, OnePlace
<1>10. IInv'
  BY <1>2, <1>3, <1>6, <1>7, <1>8, <1>9 DEF IInv, Sound
<1>11. SnapshotsKept
  BY <1>2, <1>4 DEF SnapshotsKept
<1> QED BY <1>10, <1>11

(* Taking a snapshot adds a list that shares every block of the current    *)
(* one, and freezes both.                                                  *)
LEMMA CreateVolumeIsSound ==
  ASSUME IInv, NEW i \in Inode, NEW v \in Version, create_new_volume(i, v)
  PROVE  IInv' /\ SnapshotsKept
<1> DEFINE cur == <<i, Current>>
           snap == <<i, v>>
           list == buffer_map[i][Current]
           frozen == [p \in DOMAIN list |-> [list[p] EXCEPT !.is_snapshoted = TRUE]]
           Origin(h) == IF h = snap THEN cur ELSE h
<1>1. /\ MapType(buffer_map) /\ PoolType(buffer_pool)
      /\ i \in DOMAIN buffer_map /\ v \notin DOMAIN buffer_map[i]
      /\ v # Current /\ Current \in DOMAIN buffer_map[i] /\ list \in ListType
  BY DEF IInv, Sound, create_new_volume, MapType
<1>2. /\ DOMAIN buffer_map' = DOMAIN buffer_map
      /\ \A j \in DOMAIN buffer_map \ {i} : buffer_map'[j] = buffer_map[j]
      /\ buffer_map'[i] = [w \in DOMAIN buffer_map[i] \cup {v} |->
                             IF w \in {v, Current} THEN frozen ELSE buffer_map[i][w]]
      /\ buffer_pool' = LinkAll(buffer_pool, Ids(list))
  BY <1>1 DEF create_new_volume, CurrentList
<1>3. /\ DOMAIN frozen = DOMAIN list
      /\ frozen \in ListType
      /\ \A p \in DOMAIN list : frozen[p].id = list[p].id /\ frozen[p].is_snapshoted
  <2> DEFINE E == [id : Nat, is_snapshoted : BOOLEAN]
  <2>5. list \in Seq(E)
    BY <1>1 DEF ListType
  <2> HIDE DEF E, list
  <2>1. Len(list) \in Nat /\ DOMAIN list = 1..Len(list) /\ \A p \in DOMAIN list : list[p] \in E
    BY <2>5
  <2>2. \A p \in DOMAIN list : frozen[p] \in E /\ frozen[p].id = list[p].id
                               /\ frozen[p].is_snapshoted
    BY <2>1 DEF E
  <2>3. DOMAIN frozen = DOMAIN list
    OBVIOUS
  <2> HIDE DEF frozen
  <2>4. frozen \in [1..Len(list) -> E]
    <3>1. frozen = [p \in DOMAIN list |-> frozen[p]]
      BY DEF frozen
    <3> QED BY <2>1, <2>2, <3>1
  <2>6. frozen \in Seq(E)
    BY <2>1, <2>4
  <2> QED BY <2>2, <2>3, <2>6 DEF ListType, E
<1>4. Ids(frozen) = Ids(list)
  BY <1>3 DEF Ids
<1> HIDE DEF frozen
<1>5. /\ Lists(buffer_map') = Lists(buffer_map) \cup {snap}
      /\ snap \notin Lists(buffer_map) /\ cur \in Lists(buffer_map) /\ snap # cur
      /\ ListOf(buffer_map, cur) = list
      /\ ListOf(buffer_map', snap) = frozen
      /\ ListOf(buffer_map', cur) = frozen
  BY <1>1, <1>2 DEF Lists, ListOf
<1>6. \A h \in Lists(buffer_map) \ {cur} : ListOf(buffer_map', h) = ListOf(buffer_map, h)
  <2> TAKE h \in Lists(buffer_map) \ {cur}
  <2>1. h = <<h[1], h[2]>> /\ h[1] \in DOMAIN buffer_map /\ h[2] \in DOMAIN buffer_map[h[1]]
    BY <1>1, ListsHaveListType
  <2>2. CASE h[1] = i
    <3>1. h[2] # Current /\ h[2] # v
      BY <1>1, <2>1, <2>2
    <3> QED BY <1>2, <2>1, <2>2, <3>1 DEF ListOf
  <2>3. CASE h[1] # i
    BY <1>2, <2>1, <2>3 DEF ListOf
  <2> QED BY <2>2, <2>3
<1> HIDE DEF list
<1>7. MapType(buffer_map')
  <2>1. IsFiniteSet(DOMAIN buffer_map[i] \cup {v})
    BY <1>1, FS_AddElement DEF MapType
  <2>2. buffer_map'[i] \in [DOMAIN buffer_map[i] \cup {v} -> ListType]
    BY <1>1, <1>2, <1>3 DEF MapType
  <2> QED BY <1>1, <1>2, <2>1, <2>2 DEF MapType
<1>8. /\ DOMAIN buffer_pool' = DOMAIN buffer_pool
      /\ \A id \in DOMAIN buffer_pool :
           /\ buffer_pool'[id] \in [link_count : Nat \ {0}, data : Seq(Byte)]
           /\ buffer_pool'[id].data = buffer_pool[id].data
           /\ buffer_pool'[id].link_count =
                buffer_pool[id].link_count + (IF id \in Ids(list) THEN 1 ELSE 0)
  <2> DEFINE E == Seq(Byte)
  <2>1. \A id \in DOMAIN buffer_pool :
           buffer_pool[id] \in [link_count : Nat \ {0}, data : E]
    BY <1>1 DEF PoolType
  <2> HIDE DEF E
  <2>2. DOMAIN buffer_pool' = DOMAIN buffer_pool
    BY <1>2 DEF LinkAll
  <2>3. \A id \in DOMAIN buffer_pool :
           /\ buffer_pool'[id] \in [link_count : Nat \ {0}, data : E]
           /\ buffer_pool'[id].data = buffer_pool[id].data
           /\ buffer_pool'[id].link_count =
                buffer_pool[id].link_count + (IF id \in Ids(list) THEN 1 ELSE 0)
    BY <1>2, <2>1 DEF LinkAll
  <2> QED BY <2>2, <2>3 DEF E
<1>9. PoolType(buffer_pool')
  <2>1. buffer_pool' = [id \in DOMAIN buffer_pool' |-> buffer_pool'[id]]
    BY <1>2 DEF LinkAll
  <2> QED BY <1>1, <1>8, <2>1 DEF PoolType
<1>10. \A id : Holders(buffer_map', id) =
                 IF id \in Ids(list) THEN Holders(buffer_map, id) \cup {snap}
                 ELSE Holders(buffer_map, id)
  BY <1>4, <1>5, <1>6 DEF Holders
<1>11. \A id \in Ids(list) : cur \in Holders(buffer_map, id)
  BY <1>5 DEF Holders
<1>12. \A id : snap \notin Holders(buffer_map, id)
  BY <1>5 DEF Holders
<1>13. Closed(buffer_pool', buffer_map')
  BY <1>4, <1>5, <1>6, <1>8 DEF IInv, Sound, Closed
<1>14. Counted(buffer_pool', buffer_map')
  <2> SUFFICES ASSUME NEW id \in DOMAIN buffer_pool
      PROVE  LET H == Holders(buffer_map', id)
             IN  \/ buffer_pool'[id].link_count = Cardinality(H)
                 \/ /\ buffer_pool'[id].link_count = Cardinality(H) + 1
                    /\ \A h \in H : h[2] # Current
    BY <1>8 DEF Counted
  <2>1. \/ buffer_pool[id].link_count = Cardinality(Holders(buffer_map, id))
        \/ /\ buffer_pool[id].link_count = Cardinality(Holders(buffer_map, id)) + 1
           /\ \A h \in Holders(buffer_map, id) : h[2] # Current
    BY DEF IInv, Sound, Counted
  <2>2. IsFiniteSet(Holders(buffer_map, id)) /\ Cardinality(Holders(buffer_map, id)) \in Nat
    BY <1>1, ListsAreFinite
  <2>3. CASE id \in Ids(list)
    <3>1. Cardinality(Holders(buffer_map', id)) = Cardinality(Holders(buffer_map, id)) + 1
      BY <1>10, <1>12, <2>2, <2>3, FS_AddElement
    <3>2. buffer_pool[id].link_count = Cardinality(Holders(buffer_map, id))
      BY <1>11, <2>1, <2>3
    <3> QED BY <1>8, <2>3, <3>1, <3>2
  <2>4. CASE id \notin Ids(list)
    <3>1. Holders(buffer_map', id) = Holders(buffer_map, id)
      BY <1>10, <2>4
    <3>2. buffer_pool'[id].link_count = buffer_pool[id].link_count
      <4>1. buffer_pool[id].link_count \in Nat
        BY <1>1 DEF PoolType
      <4> QED BY <1>8, <2>4, <4>1
    <3> QED BY <2>1, <3>1, <3>2
  <2> QED BY <2>3, <2>4
<1>15. Private(buffer_map')
  <2> SUFFICES ASSUME NEW j \in DOMAIN buffer_map', NEW p \in DOMAIN buffer_map'[j][Current],
                      ~buffer_map'[j][Current][p].is_snapshoted
               PROVE  Holders(buffer_map', buffer_map'[j][Current][p].id) = {<<j, Current>>}
    BY DEF Private
  <2>1. j # i
    BY <1>1, <1>2, <1>3
  <2>2. Holders(buffer_map, buffer_map'[j][Current][p].id) = {<<j, Current>>}
    BY <1>2, <2>1 DEF IInv, Sound, Private
  <2>3. buffer_map'[j][Current][p].id \notin Ids(list)
    BY <1>11, <2>1, <2>2
  <2> QED BY <1>10, <2>2, <2>3
<1>16. OnePlace(buffer_map')
  <2>1. \A h \in Lists(buffer_map') :
          /\ Origin(h) \in Lists(buffer_map) /\ Origin(h)[1] = h[1]
          /\ DOMAIN ListOf(buffer_map', h) = DOMAIN ListOf(buffer_map, Origin(h))
          /\ \A p \in DOMAIN ListOf(buffer_map', h) :
               ListOf(buffer_map', h)[p].id = ListOf(buffer_map, Origin(h))[p].id
    <3> TAKE h \in Lists(buffer_map')
    <3>1. CASE h = snap
      <4>1. Origin(h) = cur /\ cur[1] = i /\ snap[1] = i
        BY <3>1
      <4> HIDE DEF Origin, cur, snap
      <4> QED BY <1>3, <1>5, <3>1, <4>1
    <3>2. CASE h # snap
      <4>1. Origin(h) = h
        BY <3>2
      <4> HIDE DEF Origin, cur, snap
      <4>2. h \in Lists(buffer_map)
        BY <1>5, <3>2
      <4>3. CASE h = cur
        BY <1>3, <1>5, <4>1, <4>2, <4>3
      <4>4. CASE h # cur
        BY <1>6, <4>1, <4>2, <4>4
      <4> QED BY <4>3, <4>4
    <3> QED BY <3>1, <3>2
  <2> HIDE DEF Origin
  <2> SUFFICES ASSUME NEW g \in Lists(buffer_map'), NEW h \in Lists(buffer_map'),
                      NEW p \in DOMAIN ListOf(buffer_map', g),
                      NEW q \in DOMAIN ListOf(buffer_map', h),
                      ListOf(buffer_map', g)[p].id = ListOf(buffer_map', h)[q].id
               PROVE  g[1] = h[1] /\ p = q
    BY DEF OnePlace
  <2>2. \A a, b \in Lists(buffer_map) :
          \A x \in DOMAIN ListOf(buffer_map, a), y \in DOMAIN ListOf(buffer_map, b) :
            ListOf(buffer_map, a)[x].id = ListOf(buffer_map, b)[y].id => a[1] = b[1] /\ x = y
    BY DEF IInv, Sound, OnePlace
  <2>3. /\ Origin(g) \in Lists(buffer_map) /\ Origin(h) \in Lists(buffer_map)
        /\ p \in DOMAIN ListOf(buffer_map, Origin(g))
        /\ q \in DOMAIN ListOf(buffer_map, Origin(h))
        /\ ListOf(buffer_map, Origin(g))[p].id = ListOf(buffer_map, Origin(h))[q].id
    BY <2>1
  <2>4. Origin(g)[1] = Origin(h)[1] /\ p = q
    BY <2>2, <2>3
  <2> QED BY <2>1, <2>4
<1>17. IInv'
  BY <1>7, <1>9, <1>13, <1>14, <1>15, <1>16 DEF IInv, Sound
<1>18. SnapshotsKept
  <2> SUFFICES ASSUME NEW h \in Lists(buffer_map) \cap Lists(buffer_map'), h[2] # Current
               PROVE  /\ ListOf(buffer_map', h) = ListOf(buffer_map, h)
                      /\ \A id \in Ids(ListOf(buffer_map, h)) :
                           buffer_pool'[id].data = buffer_pool[id].data
    BY DEF SnapshotsKept
  <2>1. h # cur
    OBVIOUS
  <2>2. Ids(ListOf(buffer_map, h)) \subseteq DOMAIN buffer_pool
    BY DEF IInv, Sound, Closed
  <2> QED BY <1>6, <1>8, <2>1, <2>2
<1> QED BY <1>17, <1>18

(* Deleting a snapshot takes its list away and counts its buffers down:    *)
(* the buffers that disappear are those nobody else holds.                 *)
LEMMA DeleteVolumeIsSound ==
  ASSUME IInv, NEW i \in Inode, NEW v \in Version, delete_volume(i, v)
  PROVE  IInv' /\ SnapshotsKept
<1> DEFINE snap == <<i, v>>
           list == buffer_map[i][v]
           Last(id) == id \in Ids(list) /\ buffer_pool[id].link_count = 1
<1>1. /\ MapType(buffer_map) /\ PoolType(buffer_pool)
      /\ i \in DOMAIN buffer_map /\ v \in DOMAIN buffer_map[i]
      /\ v # Current
  BY BlockStoreAssumption DEF IInv, Sound, delete_volume
<1>2. /\ DOMAIN buffer_map' = DOMAIN buffer_map
      /\ \A j \in DOMAIN buffer_map \ {i} : buffer_map'[j] = buffer_map[j]
      /\ buffer_map'[i] = [w \in DOMAIN buffer_map[i] \ {v} |-> buffer_map[i][w]]
      /\ buffer_pool' = UnlinkAll(buffer_pool, Ids(list))
  BY <1>1 DEF delete_volume
<1>3. MapType(buffer_map')
  <2>1. IsFiniteSet(DOMAIN buffer_map[i] \ {v})
    BY <1>1, FS_Subset DEF MapType
  <2>2. buffer_map'[i] \in [DOMAIN buffer_map[i] \ {v} -> ListType]
    BY <1>1, <1>2 DEF MapType
  <2> QED BY <1>1, <1>2, <2>1, <2>2 DEF MapType
<1>4. /\ Lists(buffer_map') = Lists(buffer_map) \ {snap}
      /\ snap \in Lists(buffer_map)
      /\ ListOf(buffer_map, snap) = list
  BY <1>1, <1>2 DEF Lists, ListOf
<1>5. \A h \in Lists(buffer_map') : ListOf(buffer_map', h) = ListOf(buffer_map, h)
  <2> TAKE h \in Lists(buffer_map')
  <2>1. h = <<h[1], h[2]>> /\ h[1] \in DOMAIN buffer_map /\ h[2] \in DOMAIN buffer_map'[h[1]]
    BY <1>2, <1>3, ListsHaveListType
  <2> QED BY <1>2, <2>1 DEF ListOf
<1> HIDE DEF list, Last
<1>6. \A id : Holders(buffer_map', id) = Holders(buffer_map, id) \ {snap}
  BY <1>4, <1>5 DEF Holders
<1>7. \A id \in Ids(list) : snap \in Holders(buffer_map, id)
  BY <1>4 DEF Holders
<1>8. \A id : id \notin Ids(list) => snap \notin Holders(buffer_map, id)
  BY <1>4 DEF Holders
<1>9. \A id \in DOMAIN buffer_pool : Last(id) => Holders(buffer_map', id) = {}
  <2> SUFFICES ASSUME NEW id \in DOMAIN buffer_pool, Last(id)
               PROVE  Holders(buffer_map', id) = {}
    OBVIOUS
  <2> DEFINE H == Holders(buffer_map, id)
  <2>1. IsFiniteSet(H) /\ Cardinality(H) \in Nat
    BY <1>1, ListsAreFinite
  <2>2. snap \in H /\ buffer_pool[id].link_count = 1
    BY <1>7 DEF Last
  <2>3. buffer_pool[id].link_count = Cardinality(H)
        \/ buffer_pool[id].link_count = Cardinality(H) + 1
    BY DEF IInv, Sound, Counted
  <2> HIDE DEF H, snap
  <2>4. Cardinality(H \ {snap}) = Cardinality(H) - 1 /\ IsFiniteSet(H \ {snap})
    BY <2>1, <2>2, FS_RemoveElement
  <2>5. Cardinality(H \ {snap}) \in Nat
    BY <2>4, FS_CardinalityType
  <2>6. Cardinality(H \ {snap}) = 0
    BY <2>1, <2>2, <2>3, <2>4, <2>5
  <2>7. H \ {snap} = {}
    BY <2>4, <2>6, FS_EmptySet
  <2> QED BY <1>6, <2>7 DEF H
<1>10. /\ DOMAIN buffer_pool' = {id \in DOMAIN buffer_pool : ~Last(id)}
       /\ \A id \in DOMAIN buffer_pool' :
            /\ buffer_pool'[id] \in [link_count : Nat \ {0}, data : Seq(Byte)]
            /\ buffer_pool'[id].data = buffer_pool[id].data
            /\ buffer_pool'[id].link_count =
                 buffer_pool[id].link_count - (IF id \in Ids(list) THEN 1 ELSE 0)
  <2> DEFINE E == Seq(Byte)
  <2>1. \A id \in DOMAIN buffer_pool :
           buffer_pool[id] \in [link_count : Nat \ {0}, data : E]
    BY <1>1 DEF PoolType
  <2> HIDE DEF E
  <2>2. DOMAIN buffer_pool' = {id \in DOMAIN buffer_pool : ~Last(id)}
    BY <1>2 DEF UnlinkAll, Last
  <2>3. \A id \in DOMAIN buffer_pool' :
           /\ buffer_pool'[id] \in [link_count : Nat \ {0}, data : E]
           /\ buffer_pool'[id].data = buffer_pool[id].data
           /\ buffer_pool'[id].link_count =
                buffer_pool[id].link_count - (IF id \in Ids(list) THEN 1 ELSE 0)
    <3> TAKE id \in DOMAIN buffer_pool'
    <3>1. id \in DOMAIN buffer_pool /\ ~Last(id)
      BY <2>2
    <3>2. buffer_pool'[id] = IF id \in Ids(list)
                             THEN [buffer_pool[id] EXCEPT !.link_count = @ - 1]
                             ELSE buffer_pool[id]
      BY <1>2, <3>1 DEF UnlinkAll, Last
    <3> QED BY <2>1, <3>1, <3>2 DEF Last
  <2> QED BY <2>2, <2>3 DEF E
<1>11. PoolType(buffer_pool')
  <2>1. buffer_pool' = [id \in DOMAIN buffer_pool' |-> buffer_pool'[id]]
    BY <1>2 DEF UnlinkAll
  <2>2. IsFiniteSet(DOMAIN buffer_pool') /\ DOMAIN buffer_pool' \subseteq Nat
    BY <1>1, <1>10, FS_Subset DEF PoolType
  <2> QED BY <1>10, <2>1, <2>2 DEF PoolType
<1>12. Closed(buffer_pool', buffer_map')
  <2> SUFFICES ASSUME NEW h \in Lists(buffer_map'), NEW id \in Ids(ListOf(buffer_map', h))
               PROVE  id \in DOMAIN buffer_pool'
    BY DEF Closed
  <2>1. h \in Holders(buffer_map', id)
    BY DEF Holders
  <2>2. id \in DOMAIN buffer_pool
    BY <1>4, <1>5 DEF IInv, Sound, Closed
  <2> QED BY <1>9, <1>10, <2>1, <2>2
<1>13. Counted(buffer_pool', buffer_map')
  <2> SUFFICES ASSUME NEW id \in DOMAIN buffer_pool'
      PROVE  LET H == Holders(buffer_map', id)
             IN  \/ buffer_pool'[id].link_count = Cardinality(H)
                 \/ /\ buffer_pool'[id].link_count = Cardinality(H) + 1
                    /\ \A h \in H : h[2] # Current
    BY DEF Counted
  <2> DEFINE H == Holders(buffer_map, id)
  <2>0. id \in DOMAIN buffer_pool /\ buffer_pool[id].link_count \in Nat
    BY <1>1, <1>10 DEF PoolType
  <2>1. \/ buffer_pool[id].link_count = Cardinality(H)
        \/ /\ buffer_pool[id].link_count = Cardinality(H) + 1
           /\ \A h \in H : h[2] # Current
    BY <2>0 DEF IInv, Sound, Counted
  <2>2. IsFiniteSet(H) /\ Cardinality(H) \in Nat
    BY <1>1, ListsAreFinite
  <2>3. Holders(buffer_map', id) = H \ {snap}
    BY <1>6
  <2>4. CASE id \in Ids(list)
    <3>1. snap \in H
      BY <1>7, <2>4
    <3>2. buffer_pool'[id].link_count = buffer_pool[id].link_count - 1
      BY <1>10, <2>4
    <3> HIDE DEF H, snap
    <3>3. Cardinality(H \ {snap}) = Cardinality(H) - 1
      BY <2>2, <3>1, FS_RemoveElement
    <3> QED BY <2>0, <2>1, <2>2, <2>3, <3>2, <3>3
  <2>5. CASE id \notin Ids(list)
    <3>1. H \ {snap} = H
      BY <1>8, <2>5
    <3>2. buffer_pool'[id].link_count = buffer_pool[id].link_count
      BY <1>10, <2>0, <2>5
    <3> QED BY <2>1, <2>3, <3>1, <3>2
  <2> QED BY <2>4, <2>5
<1>14. Private(buffer_map')
  <2> SUFFICES ASSUME NEW j \in DOMAIN buffer_map', NEW p \in DOMAIN buffer_map'[j][Current],
                      ~buffer_map'[j][Current][p].is_snapshoted
               PROVE  Holders(buffer_map', buffer_map'[j][Current][p].id) = {<<j, Current>>}
    BY DEF Private
  <2>1. buffer_map'[j][Current] = buffer_map[j][Current] /\ j \in DOMAIN buffer_map
    BY <1>1, <1>2 DEF MapType
  <2>2. Holders(buffer_map, buffer_map'[j][Current][p].id) = {<<j, Current>>}
    BY <2>1 DEF IInv, Sound, Private
  <2> QED BY <1>1, <1>6, <2>2
<1>15. OnePlace(buffer_map')
  BY <1>4, <1>5 DEF IInv, Sound, OnePlace
<1>16. IInv'
  BY <1>3, <1>11, <1>12, <1>13, <1>14, <1>15 DEF IInv, Sound
<1>17. SnapshotsKept
  <2> SUFFICES ASSUME NEW h \in Lists(buffer_map) \cap Lists(buffer_map')
               PROVE  /\ ListOf(buffer_map', h) = ListOf(buffer_map, h)
                      /\ \A id \in Ids(ListOf(buffer_map, h)) :
                           buffer_pool'[id].data = buffer_pool[id].data
    BY DEF SnapshotsKept
  <2>1. ListOf(buffer_map', h) = ListOf(buffer_map, h)
    BY <1>5
  <2>2. Ids(ListOf(buffer_map, h)) \subseteq DOMAIN buffer_pool'
    BY <1>12, <2>1 DEF Closed
  <2> QED BY <1>10, <2>1, <2>2
<1> QED BY <1>16, <1>17

(* ------------------------------ theorems ------------------------------- *)

(* Truncating, and the three ways of writing version current.              *)
LEMMA TruncateIsSound ==
  ASSUME IInv, NEW i \in Inode, NEW length \in 0..MaxSize, Truncate(i, length)
  PROVE  IInv' /\ SnapshotsKept
<1>1. length \in Nat /\ i \in DOMAIN buffer_map /\ Sound(buffer_pool, buffer_map)
  BY BlockStoreAssumption DEF IInv, Truncate
<1>2. Rewrites(buffer_pool, buffer_map, i, Truncated(buffer_pool, CurrentList(i), length))
  BY <1>1, TruncatedRewrites DEF CurrentList
<1> QED BY <1>1, <1>2, SetCurrentIsSound DEF Truncate

(* Writing version current, in each of the three ways the code does it.    *)
LEMMA WritesAreSound ==
  ASSUME IInv, NEW i \in Inode, NEW bytes \in Payload, NEW offset \in 0..MaxSize,
         \/ Extend(i, bytes, offset)
         \/ Overwrite(i, bytes, offset)
         \/ Replace(i, bytes)
  PROVE  IInv' /\ SnapshotsKept
<1> DEFINE list == CurrentList(i)
<1>1. /\ bytes \in Seq(Byte) \ {<<>>}
      /\ offset \in Nat /\ 0 \in Nat
  BY BlockStoreAssumption
<1>2. Sound(buffer_pool, buffer_map)
  BY DEF IInv
<1>3. i \in DOMAIN buffer_map
  BY DEF Extend, Overwrite, Replace
<1>4. CASE Extend(i, bytes, offset)
  <2>1. Rewrites(buffer_pool, buffer_map, i, WrittenResizing(buffer_pool, list, bytes, offset))
    BY <1>1, <1>2, <1>3, WrittenResizingRewrites DEF CurrentList
  <2> QED BY <1>3, <1>4, <2>1, SetCurrentIsSound DEF Extend
<1>5. CASE Overwrite(i, bytes, offset)
  <2>1. Rewrites(buffer_pool, buffer_map, i, WrittenInPlace(buffer_pool, list, bytes, offset))
    BY <1>1, <1>2, <1>3, <1>5, WrittenInPlaceRewrites DEF CurrentList, Overwrite
  <2> QED BY <1>3, <1>5, <2>1, SetCurrentIsSound DEF Overwrite
<1>6. CASE Replace(i, bytes)
  <2>1. Rewrites(buffer_pool, buffer_map, i, WrittenResizing(buffer_pool, list, bytes, 0))
    BY <1>1, <1>2, <1>3, WrittenResizingRewrites DEF CurrentList
  <2> QED BY <1>3, <1>6, <2>1, SetCurrentIsSound DEF Replace
<1> QED BY <1>4, <1>5, <1>6

(* The inductive invariant: it holds of an empty store, and every step     *)
(* preserves it and the snapshots.                                         *)
LEMMA InitIsSound == Init => IInv
<1> SUFFICES ASSUME Init PROVE IInv
  OBVIOUS
<1>1. DOMAIN buffer_pool = {} /\ DOMAIN buffer_map = {}
  BY DEF Init
<1>2. PoolType(buffer_pool)
  BY <1>1, FS_EmptySet DEF Init, PoolType
<1>3. MapType(buffer_map) /\ Lists(buffer_map) = {}
  BY <1>1, FS_EmptySet DEF MapType, Lists
<1> QED BY <1>1, <1>2, <1>3 DEF IInv, Sound, Closed, Counted, Private, OnePlace

(* Every step preserves the inductive invariant and every snapshot.        *)
LEMMA StepIsSound == IInv /\ [Next]_vars => IInv' /\ SnapshotsKept
<1> SUFFICES ASSUME IInv, [Next]_vars PROVE IInv' /\ SnapshotsKept
  OBVIOUS
<1>1. CASE UNCHANGED vars
  <2>1. buffer_pool' = buffer_pool /\ buffer_map' = buffer_map
    BY <1>1 DEF vars
  <2>2. IInv'
    BY <2>1 DEF IInv
  <2>3. SnapshotsKept
    BY <2>1 DEF SnapshotsKept
  <2> QED BY <2>2, <2>3
<1>2. CASE Next
  <2> PICK i \in Inode :
        \/ NewInode(i)
        \/ EraseInode(i)
        \/ \E bytes \in Payload, offset \in 0..MaxSize :
             Extend(i, bytes, offset) \/ Overwrite(i, bytes, offset)
        \/ \E bytes \in Payload : Replace(i, bytes)
        \/ \E length \in 0..MaxSize : Truncate(i, length)
        \/ \E v \in Version : create_new_volume(i, v) \/ delete_volume(i, v)
    BY <1>2 DEF Next
  <2>1. CASE NewInode(i)
    BY <2>1, NewInodeIsSound
  <2>2. CASE EraseInode(i)
    BY <2>2, EraseInodeIsSound
  <2>3. CASE \E bytes \in Payload, offset \in 0..MaxSize :
               Extend(i, bytes, offset) \/ Overwrite(i, bytes, offset)
    <3>1. 0 \in 0..MaxSize
      BY BlockStoreAssumption
    <3> QED BY <2>3, <3>1, WritesAreSound
  <2>4. CASE \E bytes \in Payload : Replace(i, bytes)
    <3>1. 0 \in 0..MaxSize
      BY BlockStoreAssumption
    <3> QED BY <2>4, <3>1, WritesAreSound
  <2>5. CASE \E length \in 0..MaxSize : Truncate(i, length)
    BY <2>5, TruncateIsSound
  <2>6. CASE \E v \in Version : create_new_volume(i, v) \/ delete_volume(i, v)
    BY <2>6, CreateVolumeIsSound, DeleteVolumeIsSound
  <2> QED BY <2>1, <2>2, <2>3, <2>4, <2>5, <2>6
<1> QED BY <1>1, <1>2

(* The inductive invariant IInv (types, closed lists, exact counts, private *)
(* writable blocks, sharing in place) holds of every state the storage     *)
(* layer reaches.                                                          *)
THEOREM BlockStoreInvariant == Spec => []IInv
<1>1. IInv /\ [Next]_vars => IInv'
  BY StepIsSound
<1> QED BY <1>1, InitIsSound, PTL DEF Spec

(* Type correctness of the pool and of the block lists.                    *)
THEOREM TypesAreCorrect == Spec => []TypeOK
<1>1. IInv => TypeOK
  BY DEF IInv, Sound, TypeOK
<1> QED BY <1>1, BlockStoreInvariant, PTL

(* No block list of inode_t ever names an erased buffer.                   *)
THEOREM NothingDangles == Spec => []NoDangling
<1>1. IInv => NoDangling
  BY DEF IInv, Sound, NoDangling
<1> QED BY <1>1, BlockStoreInvariant, PTL

(* link_buffer and unlink_buffer keep count of the lists that hold a       *)
(* buffer, up to the one reference copy-on-write forgets.                  *)
THEOREM LinksAreCounted == Spec => []LinkCounts
<1>1. IInv => LinkCounts
  BY DEF IInv, Sound, LinkCounts
<1> QED BY <1>1, BlockStoreInvariant, PTL

(* What inode_t::write and truncate change in place belongs to nobody else.*)
THEOREM WritesArePrivate == Spec => []WritableIsPrivate
<1>1. IInv => WritableIsPrivate
  BY DEF IInv, Sound, WritableIsPrivate
<1> QED BY <1>1, BlockStoreInvariant, PTL

(* A buffer is shared only by the same block of versions of one inode.     *)
THEOREM SharingIsInPlace == Spec => []SharedInPlace
<1>1. IInv => SharedInPlace
  BY DEF IInv, Sound, SharedInPlace
<1> QED BY <1>1, BlockStoreInvariant, PTL

(* No operation of the storage layer changes a byte of a snapshot.         *)
THEOREM SnapshotsAreImmutable == Spec => SnapshotsImmutable
<1>1. SnapshotsKept => SnapshotsUnchanged
  <2> SUFFICES ASSUME SnapshotsKept,
                      NEW i \in DOMAIN buffer_map \cap DOMAIN buffer_map',
                      NEW v \in Version \cap DOMAIN buffer_map[i] \cap DOMAIN buffer_map'[i]
               PROVE  /\ BlocksOf(buffer_pool', buffer_map'[i][v])
                           = BlocksOf(buffer_pool, buffer_map[i][v])
                      /\ ContentOf(buffer_pool', buffer_map'[i][v])
                           = ContentOf(buffer_pool, buffer_map[i][v])
    BY DEF SnapshotsUnchanged
  <2> DEFINE list == buffer_map[i][v]
  <2>1. <<i, v>> \in Lists(buffer_map) \cap Lists(buffer_map') /\ v # Current
    BY BlockStoreAssumption DEF Lists
  <2>2. /\ buffer_map'[i][v] = list
        /\ \A id \in Ids(list) : buffer_pool'[id].data = buffer_pool[id].data
    BY <2>1 DEF SnapshotsKept, ListOf
  <2> HIDE DEF list
  <2>3. BlocksOf(buffer_pool', list) = BlocksOf(buffer_pool, list)
    BY <2>2 DEF BlocksOf, Ids
  <2>4. ContentOf(buffer_pool', list) = ContentOf(buffer_pool, list)
    BY <2>3 DEF ContentOf, DataSize
  <2> QED BY <2>2, <2>3, <2>4 DEF list
<1>2. IInv /\ [Next]_vars => [SnapshotsUnchanged]_vars
  BY <1>1, StepIsSound
<1> QED BY <1>2, BlockStoreInvariant, PTL DEF Spec, SnapshotsImmutable

(* ------------------- the files the block lists hold -------------------- *)

(* current_data_size counts the bytes of the file.                         *)
LEMMA SizeOfBlocks ==
  ASSUME NEW file \in Seq(Byte), NEW blocks, Represents(blocks, file)
  PROVE  Cardinality(UNION {{p} \X (DOMAIN blocks[p]) : p \in DOMAIN blocks}) = Len(file)
<1> DEFINE cells == UNION {{p} \X (DOMAIN blocks[p]) : p \in DOMAIN blocks}
           cell == [k \in 1..Len(file) |-> <<(k - 1) \div BlockSize + 1, ((k - 1) % BlockSize) + 1>>]
<1>1. \A p \in DOMAIN blocks : DOMAIN blocks[p] = 1..Len(blocks[p])
  BY DEF Represents
<1>2. ASSUME NEW p, NEW j PROVE <<p, j>> \in cells <=> p \in DOMAIN blocks /\ j \in 1..Len(blocks[p])
  BY <1>1
<1>3. ASSUME NEW c \in cells PROVE c = <<c[1], c[2]>> /\ <<c[1], c[2]>> \in cells
  OBVIOUS
<1>4. ASSUME NEW k \in 1..Len(file)
      PROVE  /\ cell[k] \in cells
             /\ cell[k][1] \in Nat \ {0} /\ cell[k][2] \in 1..BlockSize
             /\ Base(cell[k][1]) + cell[k][2] = k
  <2> DEFINE p == (k - 1) \div BlockSize + 1
             j == ((k - 1) % BlockSize) + 1
  <2>1. p \in DOMAIN blocks /\ j \in 1..Len(blocks[p]) /\ Base(p) + j = k
    BY ByteOfBlock
  <2>2. p \in Nat \ {0} /\ j \in 1..BlockSize
    BY BlockOfPosition
  <2>3. cell[k] = <<p, j>>
    OBVIOUS
  <2> HIDE DEF p, j, cells, cell
  <2> QED BY <1>2, <2>1, <2>2, <2>3
<1>5. ASSUME NEW c \in cells PROVE \E k \in 1..Len(file) : cell[k] = c
  <2>1. c = <<c[1], c[2]>> /\ c[1] \in DOMAIN blocks /\ c[2] \in 1..Len(blocks[c[1]])
    BY <1>2, <1>3
  <2> DEFINE p == c[1]
             j == c[2]
             k == Base(p) + j
  <2>2. p \in Nat \ {0} /\ j \in 1..BlockSize /\ k \in 1..Len(file)
    BY <2>1, PlaceInFile
  <2> HIDE DEF p, j, cells
  <2>3. /\ cell[k][1] \in Nat \ {0} /\ cell[k][2] \in 1..BlockSize
        /\ Base(cell[k][1]) + cell[k][2] = Base(p) + j
    BY <1>4, <2>2
  <2>4. cell[k][1] = p /\ cell[k][2] = j
    BY <2>2, <2>3, OneBlock
  <2>5. cell[k] = <<cell[k][1], cell[k][2]>>
    BY <2>2
  <2> QED BY <2>1, <2>2, <2>4, <2>5 DEF p, j
<1> HIDE DEF cells
<1>6. \A a, b \in 1..Len(file) : cell[a] = cell[b] => a = b
  BY <1>4
<1>7. cell \in [1..Len(file) -> cells]
  BY <1>4
<1>8. ExistsBijection(1..Len(file), cells)
  <2> HIDE DEF cell
  <2>1. cell \in Bijection(1..Len(file), cells)
    BY <1>5, <1>6, <1>7, Fun_IsBij
  <2> QED BY <2>1 DEF ExistsBijection
<1>9. IsFiniteSet(1..Len(file)) /\ Cardinality(1..Len(file)) = Len(file)
  <2>1. 1 \in Int /\ Len(file) \in Int /\ Len(file) \in Nat
    OBVIOUS
  <2>2. /\ IsFiniteSet(1..Len(file))
        /\ Cardinality(1..Len(file)) = IF 1 > Len(file) THEN 0 ELSE Len(file) - 1 + 1
    BY <2>1, FS_Interval, Zenon
  <2> QED BY <2>1, <2>2
<1>10. Cardinality(cells) = Len(file)
  BY <1>8, <1>9, FS_Bijection
<1> QED BY <1>10 DEF cells

(* What a list holds is the file its blocks represent.                     *)
LEMMA ContentIsFile ==
  ASSUME NEW pool, NEW list, NEW file \in Seq(Byte), Represents(BlocksOf(pool, list), file)
  PROVE  DataSize(pool, list) = Len(file) /\ ContentOf(pool, list) = file
<1> DEFINE blocks == BlocksOf(pool, list)
<1>1. DataSize(pool, list) = Len(file)
  BY SizeOfBlocks DEF DataSize
<1>2. \A k \in 1..Len(file) :
         blocks[(k - 1) \div BlockSize + 1][((k - 1) % BlockSize) + 1] = file[k]
  BY ByteOfBlock
<1>3. ContentOf(pool, list) = [k \in 1..Len(file) |-> file[k]]
  BY <1>1, <1>2 DEF ContentOf
<1> QED BY <1>1, <1>3

(* A list that holds a file.                                               *)
HoldsFile(pool, list, file) == file \in Seq(Byte) /\ Represents(BlocksOf(pool, list), file)

(* The blocks of a sound current list.                                     *)
SoundList(pool, list) ==
  /\ list \in ListType /\ Len(list) \in Nat /\ DOMAIN list = 1..Len(list)
  /\ \A p \in DOMAIN list : list[p].id \in DOMAIN pool /\ pool[list[p].id].data \in Seq(Byte)
  /\ \A p, q \in DOMAIN list : list[p].id = list[q].id => p = q

(* The current list of an inode of a sound store is sound.                 *)
LEMMA CurrentBlocks ==
  ASSUME NEW pool, NEW map, Sound(pool, map), NEW i \in DOMAIN map,
         NEW list, list = map[i][Current]
  PROVE  SoundList(pool, list)
<1>1. PoolType(pool) /\ MapType(map) /\ Closed(pool, map) /\ OnePlace(map)
  BY DEF Sound
<1>2. <<i, Current>> \in Lists(map) /\ ListOf(map, <<i, Current>>) = list
  BY <1>1 DEF MapType, Lists, ListOf
<1>3. list \in ListType
  BY <1>1, CurrentListType
<1>4. \A p \in DOMAIN list : list[p].id \in DOMAIN pool
  BY <1>1, <1>2 DEF Closed, Ids
<1>5. \A id \in DOMAIN pool : pool[id].data \in Seq(Byte)
  BY <1>1 DEF PoolType
<1>6. \A p, q \in DOMAIN list : list[p].id = list[q].id => p = q
  BY <1>1, <1>2 DEF OnePlace
<1> QED BY <1>3, <1>4, <1>5, <1>6 DEF ListType, SoundList

(* What the operations on lists do to their blocks: empty ones are added,  *)
(* all keep their bytes, the tail goes.                                    *)
SmallBlocks(pool, list) == \A p \in DOMAIN list : Len(pool[list[p].id].data) <= BlockSize

Appended(pool, list, pool2, list2, n) ==
  /\ Len(list2) = Len(list) + n
  /\ \A p \in DOMAIN list2 :
       pool2[list2[p].id].data = IF p \in DOMAIN list THEN pool[list[p].id].data ELSE <<>>

SameBytes(pool, list, pool2, list2) ==
  /\ Len(list2) = Len(list) /\ DOMAIN list2 = DOMAIN list
  /\ \A p \in DOMAIN list : pool2[list2[p].id].data = pool[list[p].id].data

Cut(pool, list, pool2, list2, keep) ==
  /\ Len(list2) = keep /\ DOMAIN list2 = 1..keep
  /\ \A p \in 1..keep : pool2[list2[p].id].data = pool[list[p].id].data

(* Appended buffers are empty blocks.                                      *)
LEMMA AppendedBlocks ==
  ASSUME NEW pool, NEW map, Sound(pool, map), NEW i \in DOMAIN map, NEW n \in Nat,
         NEW list, list = map[i][Current], NEW st, st = AppendBuffers(pool, list, n)
  PROVE  Appended(pool, list, st.pool, st.list, n)
<1> DEFINE new == {NewId(pool, k) : k \in 1..n}
           added == [k \in 1..n |-> Entry(NewId(pool, k))]
<1>1. /\ st.list = list \o added
      /\ st.pool = [id \in DOMAIN pool \cup new |->
                      IF id \in new THEN [link_count |-> 1, data |-> <<>>] ELSE pool[id]]
  BY DEF AppendBuffers
<1>2. /\ list \in ListType /\ Len(list) \in Nat /\ DOMAIN list = 1..Len(list)
      /\ \A p \in DOMAIN list : list[p].id \in DOMAIN pool
  <2>1. SoundList(pool, list)
    BY CurrentBlocks
  <2> QED BY <2>1 DEF SoundList
<1>3. \A k \in 1..n : NewId(pool, k) \in Nat /\ NewId(pool, k) \notin DOMAIN pool
  BY NewIdIsFree DEF Sound, PoolType
<1>4. added \in ListType /\ Len(added) = n
  <2>1. added \in [1..n -> [id : Nat, is_snapshoted : BOOLEAN]]
    BY <1>3 DEF Entry
  <2> QED BY <2>1 DEF ListType
<1>5. /\ Len(st.list) = Len(list) + n /\ DOMAIN st.list = 1..(Len(list) + n)
      /\ \A p \in 1..Len(list) : st.list[p] = list[p]
      /\ \A p \in Len(list) + 1 .. Len(list) + n : st.list[p] = added[p - Len(list)]
  BY <1>1, <1>2, <1>4 DEF ListType
<1>6. ASSUME NEW p \in DOMAIN list PROVE st.pool[st.list[p].id].data = pool[list[p].id].data
  <2>1. list[p].id \in DOMAIN pool /\ list[p].id \notin new /\ st.list[p] = list[p]
    BY <1>2, <1>3, <1>5
  <2> HIDE DEF new
  <2> QED BY <1>1, <2>1
<1>7. ASSUME NEW p \in DOMAIN st.list, p \notin DOMAIN list PROVE st.pool[st.list[p].id].data = <<>>
  <2>1. p - Len(list) \in 1..n /\ p \in Len(list) + 1 .. Len(list) + n
    BY <1>2, <1>5, <1>7
  <2>2. st.list[p].id = NewId(pool, p - Len(list))
    <3>1. st.list[p] = added[p - Len(list)]
      BY <1>5, <2>1
    <3>2. added[p - Len(list)] = Entry(NewId(pool, p - Len(list)))
      BY <2>1
    <3>3. \A id : Entry(id).id = id
      BY DEF Entry
    <3> QED BY <3>1, <3>2, <3>3, Zenon
  <2>3. st.list[p].id \in new
    BY <2>1, <2>2
  <2> HIDE DEF new
  <2> QED BY <1>1, <2>3
<1> QED BY <1>5, <1>6, <1>7 DEF Appended

(* A copied block has the bytes of the frozen one.                         *)
LEMMA CopiedBytes ==
  ASSUME NEW data \in Seq(Byte), Len(data) <= BlockSize
  PROVE  BufWrite(<<>>, BufRead(data, BlockSize, 0), 0, TRUE) = data
<1>1. Len(data) \in Nat /\ BlockSize \in Nat \ {0}
  BY BufferAssumption
<1>2. Clip(Len(data), BlockSize, 0) = Len(data)
  BY <1>1 DEF Clip
<1>3. BufRead(data, BlockSize, 0) = data
  <2>1. BufRead(data, BlockSize, 0) = SubSeq(data, 1, Len(data))
    BY <1>1, <1>2 DEF BufRead
  <2> QED BY <2>1
<1> DEFINE base == BufTruncate(<<>>, Len(data))
<1>4. base \in Seq(Byte) /\ Len(base) = Len(data)
  BY <1>1, BufTruncateType
<1> HIDE DEF base
<1>5. Clip(Len(base), Len(data), 0) = Len(data)
  BY <1>1, <1>4 DEF Clip
<1>6. 0 + Len(data) = Len(data)
  BY <1>1
<1>7. BufWrite(<<>>, data, 0, TRUE)
        = [k \in 1..Len(data) |-> IF k \in 1..Len(data) THEN data[k - 0] ELSE base[k]]
  BY <1>1, <1>4, <1>5, <1>6 DEF BufWrite, base
<1>8. BufWrite(<<>>, data, 0, TRUE) = [k \in 1..Len(data) |-> data[k]]
  <2>1. \A k \in 1..Len(data) : data[k - 0] = data[k]
    BY <1>1
  <2> QED BY <1>7, <2>1, Zenon
<1>9. data = [k \in 1..Len(data) |-> data[k]]
  OBVIOUS
<1> QED BY <1>3, <1>8, <1>9, Zenon

(* Copy-on-write does not show in the bytes.                               *)
LEMMA ThawedBlocks ==
  ASSUME NEW pool, NEW map, Sound(pool, map), NEW i \in DOMAIN map, NEW positions,
         NEW list, list = map[i][Current], NEW st, st = Thaw(pool, list, positions),
         SmallBlocks(pool, list)
  PROVE  SameBytes(pool, list, st.pool, st.list)
<1> DEFINE frozen == {p \in positions \cap DOMAIN list : list[p].is_snapshoted}
           Rank(p) == Cardinality({q \in frozen : q <= p})
           copy == [p \in frozen |-> NewId(pool, Rank(p))]
           new == {copy[p] : p \in frozen}
           Bytes(id) == BufRead(pool[list[CHOOSE q \in frozen : copy[q] = id].id].data, BlockSize, 0)
           Copied(id) == BufWrite(<<>>, Bytes(id), 0, TRUE)
           pool2 == [id \in DOMAIN pool \cup new |->
                       IF id \in new THEN [link_count |-> 1, data |-> Copied(id)] ELSE pool[id]]
           list2 == [p \in 1..Len(list) |-> IF p \in frozen THEN Entry(copy[p]) ELSE list[p]]
<1>1. st.pool = pool2 /\ st.list = list2
  BY DEF Thaw
<1>2. /\ list \in ListType /\ Len(list) \in Nat /\ DOMAIN list = 1..Len(list)
      /\ \A p \in DOMAIN list : list[p].id \in DOMAIN pool /\ pool[list[p].id].data \in Seq(Byte)
  <2>1. SoundList(pool, list)
    BY CurrentBlocks
  <2> QED BY <2>1 DEF SoundList
<1>3. /\ frozen \in SUBSET Nat /\ frozen \in SUBSET (1..Len(list)) /\ IsFiniteSet(frozen)
      /\ frozen \in SUBSET DOMAIN list
  <2>1. IsFiniteSet(1..Len(list)) /\ frozen \in SUBSET (1..Len(list))
    BY <1>2, FS_Interval
  <2> QED BY <1>2, <2>1, FS_Subset
<1>4. \A p \in frozen : Rank(p) \in Nat \ {0}
  <2> SUFFICES ASSUME NEW p \in frozen PROVE Rank(p) \in Nat \ {0}
    OBVIOUS
  <2> DEFINE below == {q \in frozen : q <= p}
  <2>1. below \in SUBSET frozen /\ p \in below
    BY <1>3
  <2> HIDE DEF frozen, below
  <2>2. IsFiniteSet(below)
    BY <1>3, <2>1, FS_Subset
  <2>3. Cardinality(below) \in Nat /\ Cardinality(below) # 0
    BY <2>1, <2>2, FS_CardinalityType, FS_EmptySet
  <2> QED BY <2>3 DEF below
<1>5. PoolType(pool)
  BY DEF Sound
<1>6. \A p \in frozen : copy[p] \notin DOMAIN pool
  <2> SUFFICES ASSUME NEW p \in frozen PROVE copy[p] \notin DOMAIN pool
    OBVIOUS
  <2>1. copy[p] = NewId(pool, Rank(p))
    OBVIOUS
  <2> HIDE DEF copy, Rank, frozen
  <2> QED BY <1>4, <1>5, <2>1, NewIdIsFree DEF PoolType
<1>7. \A p, q \in frozen : copy[p] = copy[q] => p = q
  <2> SUFFICES ASSUME NEW p \in frozen, NEW q \in frozen, copy[p] = copy[q] PROVE p = q
    OBVIOUS
  <2>1. NewId(pool, Rank(p)) = NewId(pool, Rank(q))
    OBVIOUS
  <2>2. Rank(p) = Rank(q)
    <3> HIDE DEF Rank, frozen
    <3> QED BY <1>4, <1>5, <2>1, NewIdsDiffer
  <2>3. Cardinality({z \in frozen : z <= p}) = Cardinality({z \in frozen : z <= q})
    BY <2>2
  <2> HIDE DEF frozen
  <2> QED BY <1>3, <2>3, RankIsInjective
<1>8. DOMAIN copy = frozen
  OBVIOUS
<1> HIDE DEF frozen, copy, Rank
<1>9. \A p \in frozen : Bytes(copy[p]) = BufRead(pool[list[p].id].data, BlockSize, 0)
  <2> SUFFICES ASSUME NEW p \in frozen
               PROVE  Bytes(copy[p]) = BufRead(pool[list[p].id].data, BlockSize, 0)
    OBVIOUS
  <2>1. (CHOOSE q \in frozen : copy[q] = copy[p]) = p
    BY <1>7
  <2> QED BY <2>1
<1> HIDE DEF Bytes
<1>10. ASSUME NEW p \in frozen PROVE Copied(copy[p]) = pool[list[p].id].data
  <2>1. p \in DOMAIN list
    BY <1>3
  <2>2. pool[list[p].id].data \in Seq(Byte) /\ Len(pool[list[p].id].data) <= BlockSize
    BY <1>2, <2>1 DEF SmallBlocks
  <2> QED BY <1>9, <2>2, CopiedBytes
<1> HIDE DEF Copied
<1>11. Len(list2) = Len(list) /\ DOMAIN list2 = DOMAIN list
  BY <1>2
<1>12. ASSUME NEW p \in DOMAIN list PROVE pool2[list2[p].id].data = pool[list[p].id].data
  <2>1. CASE p \in frozen
    <3>1. list2[p].id = copy[p] /\ copy[p] \in new
      BY <1>2, <2>1 DEF Entry
    <3> HIDE DEF list2, new
    <3>2. pool2[copy[p]].data = Copied(copy[p])
      BY <3>1
    <3> QED BY <1>10, <2>1, <3>1, <3>2
  <2>2. CASE p \notin frozen
    <3>1. list2[p] = list[p] /\ list[p].id \in DOMAIN pool
      BY <1>2, <2>2
    <3>2. list[p].id \notin new
      BY <1>6, <3>1
    <3> HIDE DEF list2, new
    <3> QED BY <3>1, <3>2
  <2> QED BY <2>1, <2>2
<1> HIDE DEF pool2, list2
<1> QED BY <1>1, <1>11, <1>12 DEF SameBytes

(* Blocks that are kept keep their bytes.                                  *)
LEMMA CutBlocks ==
  ASSUME NEW pool, NEW map, Sound(pool, map), NEW i \in DOMAIN map,
         NEW list, list = map[i][Current], NEW keep \in Nat, keep <= Len(list),
         NEW lost, lost = {list[p].id : p \in {q \in keep + 1 .. Len(list) : ~list[q].is_snapshoted}},
         NEW cut, cut = SubSeq(list, 1, keep)
  PROVE  Cut(pool, list, UnlinkAll(pool, lost), cut, keep)
<1>1. /\ list \in ListType /\ Len(list) \in Nat /\ DOMAIN list = 1..Len(list)
      /\ \A p \in DOMAIN list : list[p].id \in DOMAIN pool
      /\ \A p, q \in DOMAIN list : list[p].id = list[q].id => p = q
  <2>1. SoundList(pool, list)
    BY CurrentBlocks
  <2> QED BY <2>1 DEF SoundList
<1>2. Len(cut) = keep /\ DOMAIN cut = 1..keep /\ \A p \in 1..keep : cut[p] = list[p]
  BY <1>1 DEF ListType
<1>3. ASSUME NEW p \in 1..keep
      PROVE  UnlinkAll(pool, lost)[cut[p].id].data = pool[list[p].id].data
  <2>1. p \in DOMAIN list
    BY <1>1
  <2>2. list[p].id \notin lost
    <3> SUFFICES ASSUME NEW q \in keep + 1 .. Len(list), list[q].id = list[p].id PROVE FALSE
      OBVIOUS
    <3>1. q \in DOMAIN list /\ p # q
      BY <1>1
    <3> QED BY <1>1, <2>1, <3>1
  <2>3. UnlinkAll(pool, lost)[list[p].id] = pool[list[p].id]
    BY <1>1, <2>1, <2>2 DEF UnlinkAll
  <2> QED BY <1>2, <2>3
<1> QED BY <1>2, <1>3 DEF Cut

(* A buffer is named by one block of a list.                               *)
LEMMA BlockNamed ==
  ASSUME NEW list, NEW n \in Nat, DOMAIN list = 1..n,
         \A p, q \in DOMAIN list : list[p].id = list[q].id => p = q,
         NEW blocks \in SUBSET Nat, NEW p \in DOMAIN list
  PROVE  LET Names(b) == b + 1 \in DOMAIN list /\ list[b + 1].id = list[p].id
         IN  /\ (\E b \in blocks : Names(b)) <=> p - 1 \in blocks
             /\ p - 1 \in blocks => (CHOOSE b \in blocks : Names(b)) = p - 1
<1> DEFINE Names(b) == b + 1 \in DOMAIN list /\ list[b + 1].id = list[p].id
<1>1. p - 1 \in Nat /\ (p - 1) + 1 = p
  OBVIOUS
<1>2. \A b \in blocks : Names(b) <=> b = p - 1
  <2> TAKE b \in blocks
  <2>1. b \in Nat
    OBVIOUS
  <2>2. ASSUME Names(b) PROVE b = p - 1
    BY <1>1, <2>1, <2>2
  <2>3. ASSUME b = p - 1 PROVE Names(b)
    BY <1>1, <2>3
  <2> QED BY <2>2, <2>3
<1> HIDE DEF Names
<1>3. (\E b \in blocks : Names(b)) <=> p - 1 \in blocks
  BY <1>2
<1>4. p - 1 \in blocks => (CHOOSE b \in blocks : Names(b)) = p - 1
  BY <1>2
<1> QED BY <1>3, <1>4 DEF Names

(* The blocks that exist before sizing: those kept, then empty ones.       *)
Resized(pool, list, st, length) ==
  /\ Len(st.list) = BlockCount(length)
  /\ \A p \in DOMAIN st.list :
       st.pool[st.list[p].id].data = IF p \in DOMAIN list THEN pool[list[p].id].data ELSE <<>>

(* Grow appends empty blocks and keeps the bytes of the ones there were.   *)
LEMMA GrownBlocks ==
  ASSUME NEW pool, NEW map, Sound(pool, map), NEW i \in DOMAIN map, NEW length \in Nat,
         NEW list, list = map[i][Current], SmallBlocks(pool, list),
         Len(list) * BlockSize < length
  PROVE  Resized(pool, list, Grow(pool, list, length), length)
<1> DEFINE n     == BlockCount(length - Len(list) * BlockSize)
           grown == AppendBuffers(pool, list, n)
           map1  == With(map, i, grown.list)
           st    == Thaw(grown.pool, grown.list, 1..Len(grown.list))
<1>1. MapType(map) /\ list \in ListType /\ Len(list) \in Nat /\ DOMAIN list = 1..Len(list)
  BY CurrentBlocks DEF Sound, SoundList
<1>2. n \in Nat /\ BlockCount(length) = Len(list) + n
  <2>1. Len(list) * BlockSize \in Nat /\ Len(list) * BlockSize <= length
    BY <1>1, BufferAssumption
  <2>2. length - Len(list) * BlockSize \in Nat
    BY <2>1
  <2> QED BY <1>1, <2>1, <2>2, BlockCountIsEnough, BlockCountOfMore
<1> HIDE DEF n
<1>3. Rewrites(pool, map, i, grown)
  BY <1>2, AppendRewrites
<1>4. Appended(pool, list, grown.pool, grown.list, n)
  BY <1>2, AppendedBlocks
<1> HIDE DEF grown
<1>5. Sound(grown.pool, map1) /\ i \in DOMAIN map1 /\ map1[i][Current] = grown.list
  BY <1>1, <1>3, RewrittenIsSound
<1>6. SmallBlocks(grown.pool, grown.list)
  <2>1. Len(<<>>) <= BlockSize
    BY BufferAssumption
  <2> QED BY <1>4, <2>1 DEF SmallBlocks, Appended
<1> HIDE DEF map1
<1>7. SameBytes(grown.pool, grown.list, st.pool, st.list)
  <2> DEFINE pool1 == grown.pool
             list1 == grown.list
             range == 1..Len(grown.list)
  <2>1. st = Thaw(pool1, list1, range)
    OBVIOUS
  <2>2. Sound(pool1, map1) /\ i \in DOMAIN map1 /\ list1 = map1[i][Current]
    BY <1>5
  <2>3. SmallBlocks(pool1, list1)
    BY <1>6
  <2> HIDE DEF st, pool1, list1, range
  <2>4. SameBytes(pool1, list1, st.pool, st.list)
    BY <2>1, <2>2, <2>3, ThawedBlocks
  <2> QED BY <2>4 DEF pool1, list1
<1> HIDE DEF st
<1>8. Resized(pool, list, st, length)
  BY <1>2, <1>4, <1>7 DEF Resized, Appended, SameBytes
<1>9. Grow(pool, list, length) = st
  BY DEF Grow, st, grown, n
<1> QED BY <1>8, <1>9

(* Shrink keeps the bytes of the blocks that are left.                     *)
LEMMA ShrunkBlocks ==
  ASSUME NEW pool, NEW map, Sound(pool, map), NEW i \in DOMAIN map, NEW length \in Nat,
         NEW list, list = map[i][Current], SmallBlocks(pool, list),
         ~(Len(list) * BlockSize < length)
  PROVE  Resized(pool, list, Shrink(pool, list, length), length)
<1> DEFINE keep == BlockCount(length)
           lost == {list[p].id : p \in {q \in keep + 1 .. Len(list) : ~list[q].is_snapshoted}}
           cut  == SubSeq(list, 1, keep)
           rest == UnlinkAll(pool, lost)
           map1 == With(map, i, cut)
           st   == Thaw(rest, cut, 1..keep)
<1>1. MapType(map) /\ list \in ListType /\ Len(list) \in Nat /\ DOMAIN list = 1..Len(list)
  BY CurrentBlocks DEF Sound, SoundList
<1>2. keep \in Nat /\ keep <= Len(list)
  <2>1. length <= Len(list) * BlockSize
    <3>1. Len(list) * BlockSize \in Nat
      BY <1>1, BufferAssumption
    <3> QED BY <3>1
  <2> QED BY <1>1, <2>1, BlockCountIsEnough
<1> HIDE DEF keep
<1>3. Cut(pool, list, rest, cut, keep)
  BY <1>2, CutBlocks
<1>4. cut \in ListType /\ Sound(rest, map1)
  BY <1>2, DropIsSound
<1> HIDE DEF rest, cut, lost
<1>5. i \in DOMAIN map1 /\ map1[i][Current] = cut
  BY <1>1 DEF With, MapType
<1> HIDE DEF map1
<1>6. DOMAIN cut = 1..keep /\ \A p \in 1..keep : p \in DOMAIN list
  BY <1>1, <1>2, <1>3 DEF Cut
<1>7. SmallBlocks(rest, cut)
  BY <1>3, <1>6 DEF SmallBlocks, Cut
<1>8. SameBytes(rest, cut, st.pool, st.list)
  <2> DEFINE range == 1..keep
  <2>1. st = Thaw(rest, cut, range)
    OBVIOUS
  <2> HIDE DEF st, range
  <2> QED BY <1>4, <1>5, <1>7, <2>1, ThawedBlocks
<1> HIDE DEF st
<1>9. Resized(pool, list, st, length)
  BY <1>3, <1>6, <1>8 DEF Resized, Cut, SameBytes, keep
<1>10. Shrink(pool, list, length) = st
  BY DEF Shrink, st, rest, cut, lost, keep
<1> QED BY <1>9, <1>10

(* Sizing gives block p of the list the width block p of the file has.     *)
LEMMA SizedBlocks ==
  ASSUME NEW pool, NEW list, SoundList(pool, list), NEW length \in Nat,
         Len(list) = BlockCount(length), NEW p \in DOMAIN list
  PROVE  SizeBlocks(pool, list, length)[list[p].id].data
           = BufTruncate(pool[list[p].id].data, Width(p, length))
<1> DEFINE chunks == Chunks(length, 0)
           id == list[p].id
           Names(b) == b + 1 \in DOMAIN list /\ list[b + 1].id = id
<1>1. /\ Len(list) \in Nat /\ DOMAIN list = 1..Len(list) /\ id \in DOMAIN pool
      /\ \A q, r \in DOMAIN list : list[q].id = list[r].id => q = r
      /\ p \in 1..BlockCount(length)
  BY DEF SoundList
<1>2. length # 0
  <2>1. BlockCount(0) <= 0
    BY BlockCountIsEnough, BufferAssumption
  <2>2. BlockCount(0) \in Nat
    BY BlockCountIsEnough
  <2> QED BY <1>1, <2>1, <2>2
<1>3. p - 1 \in DOMAIN chunks /\ chunks[p - 1].count = Width(p, length)
  <2>1. p \in Nat \ {0} /\ length \in Nat \ {0}
    BY <1>1, <1>2
  <2> QED BY <1>1, <2>1, WholeChunks
<1>4. DOMAIN chunks \in SUBSET Nat
  <2>1. \A b \in DOMAIN chunks : b \in Nat
    BY ChunksBounds
  <2> QED BY <2>1
<1>5. (\E b \in DOMAIN chunks : Names(b)) /\ (CHOOSE b \in DOMAIN chunks : Names(b)) = p - 1
  <2> DEFINE n == Len(list)
             blocks == DOMAIN chunks
  <2>1. n \in Nat /\ DOMAIN list = 1..n /\ blocks \in SUBSET Nat /\ p - 1 \in blocks
    BY <1>1, <1>3, <1>4
  <2> HIDE DEF n, blocks
  <2>2. /\ (\E b \in blocks : Names(b)) <=> p - 1 \in blocks
        /\ p - 1 \in blocks => (CHOOSE b \in blocks : Names(b)) = p - 1
    BY <1>1, <2>1, BlockNamed
  <2> QED BY <2>1, <2>2 DEF blocks
<1>6. SizeBlocks(pool, list, length)
        = [x \in DOMAIN pool |->
             IF \E b \in DOMAIN chunks : b + 1 \in DOMAIN list /\ list[b + 1].id = x
             THEN [pool[x] EXCEPT !.data =
                     BufTruncate(@, chunks[CHOOSE b \in DOMAIN chunks :
                                             b + 1 \in DOMAIN list /\ list[b + 1].id = x].count)]
             ELSE pool[x]]
  BY <1>2 DEF SizeBlocks, MapBlocks
<1>7. SizeBlocks(pool, list, length)[id]
        = [pool[id] EXCEPT !.data =
             BufTruncate(@, chunks[CHOOSE b \in DOMAIN chunks : Names(b)].count)]
  BY <1>1, <1>5, <1>6
<1>8. SizeBlocks(pool, list, length)[id]
        = [pool[id] EXCEPT !.data = BufTruncate(@, Width(p, length))]
  BY <1>3, <1>5, <1>7
<1> QED BY <1>8

(* inode_t::truncate leaves the file cut or grown with zeros.              *)
LEMMA TruncatedHolds ==
  ASSUME NEW pool, NEW map, Sound(pool, map), NEW i \in DOMAIN map, NEW length \in Nat,
         NEW list, list = map[i][Current], NEW file, HoldsFile(pool, list, file)
  PROVE  LET st == Truncated(pool, list, length)
         IN  HoldsFile(st.pool, st.list, BufTruncate(file, length))
<1> DEFINE pre   == IF Len(list) * BlockSize < length THEN Grow(pool, list, length)
                    ELSE Shrink(pool, list, length)
           sized == SizeBlocks(pre.pool, pre.list, length)
           blocks == BlocksOf(pool, list)
           result == BlocksOf(sized, pre.list)
<1>1. file \in Seq(Byte) /\ Represents(blocks, file) /\ SoundList(pool, list)
  BY CurrentBlocks DEF HoldsFile
<1>2. DOMAIN blocks = DOMAIN list /\ \A p \in DOMAIN list : blocks[p] = pool[list[p].id].data
  BY DEF BlocksOf
<1> HIDE DEF blocks
<1>3. SmallBlocks(pool, list)
  <2> SUFFICES ASSUME NEW p \in DOMAIN list PROVE Len(blocks[p]) <= BlockSize
    BY <1>2 DEF SmallBlocks
  <2>1. p \in 1..BlockCount(Len(file)) /\ Len(blocks[p]) = Width(p, Len(file))
    BY <1>1, <1>2 DEF Represents
  <2>2. Width(p, Len(file)) \in 1..BlockSize /\ BlockSize \in Nat /\ Len(file) \in Nat
    BY <1>1, <2>1, WidthBounds, BufferAssumption
  <2> QED BY <2>1, <2>2
<1>4. Resized(pool, list, pre, length)
  BY <1>3, GrownBlocks, ShrunkBlocks
<1>5. Rewrites(pool, map, i, pre)
  BY GrowRewrites, ShrinkRewrites
<1> HIDE DEF pre
<1>6. SoundList(pre.pool, pre.list)
  <2>1. MapType(map)
    BY DEF Sound
  <2> DEFINE map1 == With(map, i, pre.list)
  <2>2. Sound(pre.pool, map1) /\ i \in DOMAIN map1 /\ map1[i][Current] = pre.list
    BY <1>5, <2>1, RewrittenIsSound
  <2> HIDE DEF map1
  <2> QED BY <2>2, CurrentBlocks
<1>7. DOMAIN pre.list = 1..BlockCount(length) /\ Len(pre.list) = BlockCount(length)
  BY <1>4, <1>6 DEF Resized, SoundList
<1>8. DOMAIN result = DOMAIN pre.list /\ \A p \in DOMAIN pre.list : result[p] = sized[pre.list[p].id].data
  BY DEF BlocksOf
<1>9. ASSUME NEW p \in DOMAIN pre.list
      PROVE  result[p] = BufTruncate(IF p \in DOMAIN blocks THEN blocks[p] ELSE <<>>, Width(p, length))
  <2>1. sized[pre.list[p].id].data = BufTruncate(pre.pool[pre.list[p].id].data, Width(p, length))
    BY <1>6, <1>7, SizedBlocks
  <2>2. pre.pool[pre.list[p].id].data = IF p \in DOMAIN blocks THEN blocks[p] ELSE <<>>
    BY <1>2, <1>4 DEF Resized
  <2> QED BY <1>8, <2>1, <2>2
<1> HIDE DEF result, sized
<1>10. Represents(result, BufTruncate(file, length))
  BY <1>1, <1>7, <1>8, <1>9, ResizedBlocks
<1>11. BufTruncate(file, length) \in Seq(Byte)
  BY <1>1, BufTruncateType
<1>12. Truncated(pool, list, length) = [pool |-> sized, list |-> pre.list]
  BY DEF Truncated, sized, pre
<1> QED BY <1>10, <1>11, <1>12 DEF HoldsFile, result

(* Writing puts each piece of the bytes into the block it belongs to.      *)
PutInBlock(pool, list, bytes, length, offset, resize, p) ==
  LET chunks == Chunks(length, offset)
  IN  WriteChunks(pool, list, bytes, length, offset, resize)[list[p].id].data
        = IF p - 1 \in DOMAIN chunks
          THEN BufWrite(pool[list[p].id].data,
                        SubSeq(bytes, chunks[p - 1].from + 1, chunks[p - 1].from + chunks[p - 1].count),
                        chunks[p - 1].at, resize)
          ELSE pool[list[p].id].data

LEMMA WrittenPieces ==
  ASSUME NEW pool, NEW list, SoundList(pool, list),
         NEW bytes \in Seq(Byte), NEW length \in Nat, NEW offset \in Nat, NEW resize \in BOOLEAN,
         NEW p \in DOMAIN list
  PROVE  PutInBlock(pool, list, bytes, length, offset, resize, p)
<1> SUFFICES ASSUME NEW chunks, chunks = Chunks(length, offset)
             PROVE  WriteChunks(pool, list, bytes, length, offset, resize)[list[p].id].data
                    = IF p - 1 \in DOMAIN chunks
                      THEN BufWrite(pool[list[p].id].data,
                                    SubSeq(bytes, chunks[p - 1].from + 1, chunks[p - 1].from + chunks[p - 1].count),
                                    chunks[p - 1].at, resize)
                      ELSE pool[list[p].id].data
  BY DEF PutInBlock
<1> DEFINE id == list[p].id
           Names(b) == b + 1 \in DOMAIN list /\ list[b + 1].id = id
           Named(x) == \E b \in DOMAIN chunks : b + 1 \in DOMAIN list /\ list[b + 1].id = x
           Block(x) == CHOOSE b \in DOMAIN chunks : b + 1 \in DOMAIN list /\ list[b + 1].id = x
           Put(b, data) == BufWrite(data, SubSeq(bytes, chunks[b].from + 1, chunks[b].from + chunks[b].count),
                                    chunks[b].at, resize)
           pool2 == WriteChunks(pool, list, bytes, length, offset, resize)
<1>1. /\ Len(list) \in Nat /\ DOMAIN list = 1..Len(list) /\ id \in DOMAIN pool
      /\ \A q, r \in DOMAIN list : list[q].id = list[r].id => q = r
  BY DEF SoundList
<1>2. DOMAIN chunks \in SUBSET Nat
  <2>1. \A b \in DOMAIN chunks : b \in Nat
    BY ChunksBounds
  <2> QED BY <2>1
<1>3. /\ Named(id) <=> p - 1 \in DOMAIN chunks
      /\ p - 1 \in DOMAIN chunks => Block(id) = p - 1
  <2> DEFINE n == Len(list)
             blocks == DOMAIN chunks
  <2>1. n \in Nat /\ DOMAIN list = 1..n /\ blocks \in SUBSET Nat
    BY <1>1, <1>2
  <2> HIDE DEF n, blocks
  <2>2. /\ (\E b \in blocks : Names(b)) <=> p - 1 \in blocks
        /\ p - 1 \in blocks => (CHOOSE b \in blocks : Names(b)) = p - 1
    BY <1>1, <2>1, BlockNamed, SMTT(20)
  <2>3. (\E b \in DOMAIN chunks : Names(b)) <=> p - 1 \in DOMAIN chunks
    BY <2>2, Zenon DEF blocks
  <2>4. p - 1 \in DOMAIN chunks => (CHOOSE b \in DOMAIN chunks : Names(b)) = p - 1
    BY <2>2, Zenon DEF blocks
  <2> QED BY <2>3, <2>4, Zenon
<1>4. pool2 = [x \in DOMAIN pool |-> IF Named(x) THEN [pool[x] EXCEPT !.data = Put(Block(x), @)] ELSE pool[x]]
  BY DEF WriteChunks, MapBlocks
<1> HIDE DEF Named, Block, Put, pool2
<1>5. pool2[id] = IF Named(id) THEN [pool[id] EXCEPT !.data = Put(Block(id), pool[id].data)] ELSE pool[id]
  BY <1>1, <1>4
<1>6. pool2[id].data = IF p - 1 \in DOMAIN chunks THEN Put(p - 1, pool[id].data) ELSE pool[id].data
  BY <1>3, <1>5
<1> QED BY <1>6 DEF Put, pool2

(* Piece by piece, WriteChunks lays the bytes over the file.               *)
LEMMA WrittenHolds ==
  ASSUME NEW pool, NEW list, SoundList(pool, list), NEW file, HoldsFile(pool, list, file),
         NEW bytes \in Seq(Byte) \ {<<>>}, NEW offset \in Nat, NEW resize \in BOOLEAN,
         offset + Len(bytes) <= Len(file), resize => offset + Len(bytes) = Len(file)
  PROVE  HoldsFile(WriteChunks(pool, list, bytes, Len(bytes), offset, resize), list,
                   Overlaid(file, bytes, offset))
<1> DEFINE blocks  == BlocksOf(pool, list)
           pool2   == WriteChunks(pool, list, bytes, Len(bytes), offset, resize)
           written == BlocksOf(pool2, list)
           chunks  == Chunks(Len(bytes), offset)
<1>1. file \in Seq(Byte) /\ Represents(blocks, file) /\ Len(bytes) \in Nat /\ bytes \in Seq(Byte)
  BY DEF HoldsFile
<1>2. /\ DOMAIN blocks = DOMAIN list /\ DOMAIN written = DOMAIN list
      /\ \A p \in DOMAIN list : blocks[p] = pool[list[p].id].data /\ written[p] = pool2[list[p].id].data
  BY DEF BlocksOf
<1>3. chunks = Chunks(Len(bytes), offset)
  OBVIOUS
<1> HIDE DEF blocks, written, chunks
<1>4. ASSUME NEW p \in DOMAIN blocks
      PROVE  written[p] = IF p - 1 \in DOMAIN chunks
                          THEN BufWrite(blocks[p],
                                        SubSeq(bytes, chunks[p - 1].from + 1, chunks[p - 1].from + chunks[p - 1].count),
                                        chunks[p - 1].at, resize)
                          ELSE blocks[p]
  <2>1. p \in DOMAIN list
    BY <1>2
  <2>2. PutInBlock(pool, list, bytes, Len(bytes), offset, resize, p)
    BY <1>1, <2>1, WrittenPieces
  <2>3. pool2[list[p].id].data
          = IF p - 1 \in DOMAIN chunks
            THEN BufWrite(pool[list[p].id].data,
                          SubSeq(bytes, chunks[p - 1].from + 1, chunks[p - 1].from + chunks[p - 1].count),
                          chunks[p - 1].at, resize)
            ELSE pool[list[p].id].data
    BY <2>2 DEF PutInBlock, chunks
  <2> HIDE DEF pool2
  <2> QED BY <1>2, <2>1, <2>3
<1> HIDE DEF pool2
<1>5. Represents(written, Overlaid(file, bytes, offset))
  BY <1>1, <1>2, <1>3, <1>4, WrittenBlocks, SMTT(20)
<1>6. Overlaid(file, bytes, offset) \in Seq(Byte)
  BY <1>1, OverlaidType
<1> QED BY <1>5, <1>6 DEF HoldsFile, written, pool2

(* Laid over the file cut or grown to where the bytes end.                 *)
LEMMA OverlaidToEnd ==
  ASSUME NEW file \in Seq(Byte), NEW bytes \in Seq(Byte), NEW offset \in Nat
  PROVE  LET new == Overlaid(BufTruncate(file, offset + Len(bytes)), bytes, offset)
         IN  /\ offset + Len(bytes) > Len(file) => new = Overlaid(file, bytes, offset)
             /\ offset = 0 => new = bytes
<1> DEFINE n == offset + Len(bytes)
           cut == BufTruncate(file, n)
           new == Overlaid(cut, bytes, offset)
<1>1. n \in Nat /\ Len(file) \in Nat /\ Len(bytes) \in Nat /\ n = offset + Len(bytes)
  OBVIOUS
<1> HIDE DEF n
<1>2. cut \in Seq(Byte) /\ Len(cut) = n
  BY <1>1, BufTruncateType
<1>3. \A k \in 1..n : cut[k] = IF k <= Len(file) THEN file[k] ELSE Zero
  BY DEF BufTruncate
<1> HIDE DEF cut
<1>4. new = [k \in 1..n |-> IF k \in offset + 1 .. n THEN bytes[k - offset]
                            ELSE IF k <= n THEN cut[k] ELSE Zero]
  BY <1>1, <1>2 DEF Overlaid
<1> HIDE DEF new
<1>5. ASSUME n > Len(file) PROVE new = Overlaid(file, bytes, offset)
  <2>1. Overlaid(file, bytes, offset)
          = [k \in 1..n |-> IF k \in offset + 1 .. n THEN bytes[k - offset]
                            ELSE IF k <= Len(file) THEN file[k] ELSE Zero]
    BY <1>1, <1>5 DEF Overlaid
  <2>2. \A k \in 1..n : (IF k <= n THEN cut[k] ELSE Zero) = IF k <= Len(file) THEN file[k] ELSE Zero
    BY <1>1, <1>3
  <2> QED BY <1>4, <2>1, <2>2, Zenon
<1>6. ASSUME offset = 0 PROVE new = bytes
  <2>1. \A k \in 1..n : k \in offset + 1 .. n /\ bytes[k - offset] = bytes[k]
    BY <1>1, <1>6
  <2>2. new = [k \in 1..n |-> bytes[k]]
    BY <1>4, <2>1
  <2>3. bytes = [k \in 1..Len(bytes) |-> bytes[k]] /\ n = Len(bytes)
    BY <1>1, <1>6
  <2> QED BY <2>2, <2>3
<1> QED BY <1>1, <1>5, <1>6 DEF new, cut, n

(* inode_t::write, with resize and without.                                *)
LEMMA WrittenResizingHolds ==
  ASSUME NEW pool, NEW map, Sound(pool, map), NEW i \in DOMAIN map,
         NEW list, list = map[i][Current], NEW file, HoldsFile(pool, list, file),
         NEW bytes \in Seq(Byte) \ {<<>>}, NEW offset \in Nat
  PROVE  LET st  == WrittenResizing(pool, list, bytes, offset)
         IN  HoldsFile(st.pool, st.list, Overlaid(BufTruncate(file, offset + Len(bytes)), bytes, offset))
<1> DEFINE n  == offset + Len(bytes)
           st == Truncated(pool, list, n)
           cut == BufTruncate(file, n)
           written == WriteChunks(st.pool, st.list, bytes, Len(bytes), offset, TRUE)
<1>1. n \in Nat /\ n = offset + Len(bytes) /\ file \in Seq(Byte) /\ bytes \in Seq(Byte)
  BY DEF HoldsFile
<1>2. HoldsFile(st.pool, st.list, cut)
  BY <1>1, TruncatedHolds
<1>3. Rewrites(pool, map, i, st)
  BY <1>1, TruncatedRewrites
<1>4. Len(cut) = n
  BY <1>1, BufTruncateType
<1> HIDE DEF st, cut
<1>5. SoundList(st.pool, st.list)
  <2>1. MapType(map)
    BY DEF Sound
  <2> DEFINE map1 == With(map, i, st.list)
  <2>2. Sound(st.pool, map1) /\ i \in DOMAIN map1 /\ map1[i][Current] = st.list
    BY <1>3, <2>1, RewrittenIsSound
  <2> HIDE DEF map1
  <2> QED BY <2>2, CurrentBlocks
<1>6. HoldsFile(written, st.list, Overlaid(cut, bytes, offset))
  <2>1. offset + Len(bytes) <= Len(cut) /\ offset + Len(bytes) = Len(cut) /\ TRUE \in BOOLEAN
    BY <1>1, <1>4
  <2> QED BY <1>2, <1>5, <2>1, WrittenHolds
<1> HIDE DEF written
<1>7. WrittenResizing(pool, list, bytes, offset) = [pool |-> written, list |-> st.list]
  BY DEF WrittenResizing, written, st
<1> QED BY <1>6, <1>7 DEF cut

(* inode_t::write without resize lays the bytes over the file.             *)
LEMMA WrittenInPlaceHolds ==
  ASSUME NEW pool, NEW map, Sound(pool, map), NEW i \in DOMAIN map,
         NEW list, list = map[i][Current], NEW file, HoldsFile(pool, list, file),
         NEW bytes \in Seq(Byte) \ {<<>>}, NEW offset \in Nat,
         offset + Len(bytes) <= DataSize(pool, list)
  PROVE  LET st == WrittenInPlace(pool, list, bytes, offset)
         IN  HoldsFile(st.pool, st.list, Overlaid(file, bytes, offset))
<1> DEFINE positions == offset \div BlockSize + 1 .. BlockCount(offset + Len(bytes))
           st == Thaw(pool, list, positions)
           written == WriteChunks(st.pool, st.list, bytes, Len(bytes), offset, FALSE)
           blocks == BlocksOf(pool, list)
<1>1. file \in Seq(Byte) /\ Represents(blocks, file) /\ bytes \in Seq(Byte) /\ Len(bytes) \in Nat
  BY DEF HoldsFile
<1>2. DataSize(pool, list) = Len(file)
  BY <1>1, ContentIsFile
<1>3. Clip(DataSize(pool, list), Len(bytes), offset) = Len(bytes)
  <2>1. Len(file) \in Nat /\ offset + Len(bytes) <= Len(file)
    BY <1>1, <1>2
  <2> QED BY <1>1, <1>2, <2>1, ClipBounds
<1>4. WrittenInPlace(pool, list, bytes, offset) = [pool |-> written, list |-> st.list]
  BY <1>3 DEF WrittenInPlace
<1>5. DOMAIN blocks = DOMAIN list /\ \A p \in DOMAIN list : blocks[p] = pool[list[p].id].data
  BY DEF BlocksOf
<1>6. SmallBlocks(pool, list)
  <2> HIDE DEF blocks
  <2> SUFFICES ASSUME NEW p \in DOMAIN list PROVE Len(blocks[p]) <= BlockSize
    BY <1>5 DEF SmallBlocks
  <2>1. p \in 1..BlockCount(Len(file)) /\ Len(blocks[p]) = Width(p, Len(file))
    BY <1>1, <1>5 DEF Represents
  <2>2. Width(p, Len(file)) \in 1..BlockSize /\ BlockSize \in Nat /\ Len(file) \in Nat
    BY <1>1, <2>1, WidthBounds, BufferAssumption
  <2> QED BY <2>1, <2>2
<1> HIDE DEF positions
<1>7. SameBytes(pool, list, st.pool, st.list)
  BY <1>6, ThawedBlocks
<1>8. Rewrites(pool, map, i, st)
  BY ThawRewrites
<1> HIDE DEF st
<1>9. SoundList(st.pool, st.list)
  <2>1. MapType(map)
    BY DEF Sound
  <2> DEFINE map1 == With(map, i, st.list)
  <2>2. Sound(st.pool, map1) /\ i \in DOMAIN map1 /\ map1[i][Current] = st.list
    BY <1>8, <2>1, RewrittenIsSound
  <2> HIDE DEF map1
  <2> QED BY <2>2, CurrentBlocks
<1>10. HoldsFile(st.pool, st.list, file)
  <2>1. BlocksOf(st.pool, st.list) = blocks
    BY <1>7 DEF SameBytes, BlocksOf
  <2> QED BY <1>1, <2>1 DEF HoldsFile
<1>11. HoldsFile(written, st.list, Overlaid(file, bytes, offset))
  <2>1. offset + Len(bytes) <= Len(file) /\ FALSE \in BOOLEAN
    BY <1>2
  <2> QED BY <1>9, <1>10, <2>1, WrittenHolds
<1> HIDE DEF written
<1> QED BY <1>4, <1>11

(* ------------------- every list holds a file: steps -------------------- *)

(* The blocks of every list represent its content: the layout the offset   *)
(* arithmetic of inode_t relies on.                                        *)
Laid(pool, map) ==
  \A h \in Lists(map) : HoldsFile(pool, ListOf(map, h), ContentOf(pool, ListOf(map, h)))

FilesAreLaid == Laid(buffer_pool, buffer_map)

(* A list that leads to the same bytes holds the same file.                *)
LEMMA SameBlocksSameFile ==
  ASSUME NEW pool, NEW list, NEW pool2, NEW list2, NEW file,
         BlocksOf(pool2, list2) = BlocksOf(pool, list)
  PROVE  /\ HoldsFile(pool, list, file) => HoldsFile(pool2, list2, file)
         /\ ContentOf(pool2, list2) = ContentOf(pool, list)
BY DEF HoldsFile, ContentOf, DataSize

(* A list holds one file only: what its blocks are put together to.        *)
LEMMA HeldContent ==
  ASSUME NEW pool, NEW list, NEW file, HoldsFile(pool, list, file)
  PROVE  ContentOf(pool, list) = file /\ HoldsFile(pool, list, ContentOf(pool, list))
BY ContentIsFile DEF HoldsFile

(* What the other lists hold after an operation on the current list of i.  *)
LEMMA OthersKeepFiles ==
  ASSUME NEW pool, NEW map, Sound(pool, map), NEW i \in DOMAIN map, NEW list \in ListType,
         NEW pool2, Keeps(pool, pool2, map, i), NEW h \in Lists(map) \ {<<i, Current>>}
  PROVE  BlocksOf(pool2, ListOf(With(map, i, list), h)) = BlocksOf(pool, ListOf(map, h))
<1>1. ListOf(With(map, i, list), h) = ListOf(map, h)
  BY WithChangesOneList DEF Sound
<1>2. \A id \in Ids(ListOf(map, h)) : pool2[id].data = pool[id].data
  BY DEF Keeps
<1> DEFINE other == ListOf(map, h)
<1>3. \A p \in DOMAIN other : pool2[other[p].id].data = pool[other[p].id].data
  BY <1>2 DEF Ids
<1> QED BY <1>1, <1>3 DEF BlocksOf

(* An operation on a current list changes the content of that list only.   *)
LEMMA SetCurrentHolds ==
  ASSUME IInv, FilesAreLaid, NEW i \in DOMAIN buffer_map, NEW st,
         Rewrites(buffer_pool, buffer_map, i, st), SetCurrent(i, st),
         NEW file, HoldsFile(st.pool, st.list, file)
  PROVE  FilesAreLaid' /\ Contents' = [Contents EXCEPT ![i][Current] = file]
<1> DEFINE cur == <<i, Current>>
<1>1. Sound(buffer_pool, buffer_map) /\ MapType(buffer_map) /\ st.list \in ListType
  BY DEF IInv, Sound, Rewrites
<1>2. buffer_pool' = st.pool /\ buffer_map' = With(buffer_map, i, st.list)
  BY DEF SetCurrent, With
<1>3. /\ Lists(buffer_map') = Lists(buffer_map) /\ cur \in Lists(buffer_map)
      /\ ListOf(buffer_map', cur) = st.list
  BY <1>1, <1>2, WithChangesOneList
<1>4. ContentOf(st.pool, st.list) = file
  BY HeldContent
<1>5. \A h \in Lists(buffer_map) \ {cur} :
         BlocksOf(buffer_pool', ListOf(buffer_map', h)) = BlocksOf(buffer_pool, ListOf(buffer_map, h))
  BY <1>1, <1>2, OthersKeepFiles DEF Rewrites
<1>6. \A h \in Lists(buffer_map) \ {cur} :
         /\ ContentOf(buffer_pool', ListOf(buffer_map', h)) = ContentOf(buffer_pool, ListOf(buffer_map, h))
         /\ HoldsFile(buffer_pool', ListOf(buffer_map', h), ContentOf(buffer_pool, ListOf(buffer_map, h)))
  BY <1>5, SameBlocksSameFile DEF FilesAreLaid, Laid
<1>7. FilesAreLaid'
  BY <1>2, <1>3, <1>4, <1>6 DEF FilesAreLaid, Laid
<1>8. /\ DOMAIN buffer_map' = DOMAIN buffer_map
      /\ \A j \in DOMAIN buffer_map : DOMAIN buffer_map'[j] = DOMAIN buffer_map[j]
  BY <1>2 DEF With
<1>9. \A j \in DOMAIN buffer_map : \A v \in DOMAIN buffer_map[j] :
        ContentOf(buffer_pool', buffer_map'[j][v])
          = IF j = i /\ v = Current THEN file ELSE ContentOf(buffer_pool, buffer_map[j][v])
  <2> SUFFICES ASSUME NEW j \in DOMAIN buffer_map, NEW v \in DOMAIN buffer_map[j]
               PROVE  ContentOf(buffer_pool', buffer_map'[j][v])
                        = IF j = i /\ v = Current THEN file ELSE ContentOf(buffer_pool, buffer_map[j][v])
    OBVIOUS
  <2>1. <<j, v>> \in Lists(buffer_map)
    BY <1>1 DEF Lists, MapType
  <2>2. CASE j = i /\ v = Current
    BY <1>2, <1>3, <1>4, <2>2 DEF ListOf
  <2>3. CASE ~(j = i /\ v = Current)
    <3>1. <<j, v>> \in Lists(buffer_map) \ {cur}
      BY <2>1, <2>3
    <3> QED BY <1>6, <2>3, <3>1 DEF ListOf
  <2> QED BY <2>2, <2>3
<1> DEFINE new == [j \in DOMAIN buffer_map |->
                     [v \in DOMAIN buffer_map[j] |->
                        IF j = i /\ v = Current THEN file ELSE ContentOf(buffer_pool, buffer_map[j][v])]]
<1>10. Contents' = new
  BY <1>8, <1>9 DEF Contents
<1>11. Current \in DOMAIN buffer_map[i]
  BY <1>1 DEF MapType
<1>12. [Contents EXCEPT ![i][Current] = file] = new
  BY <1>11 DEF Contents
<1> QED BY <1>7, <1>10, <1>12

(* The abstract store's view of the content of one inode.                  *)
LEMMA ContentsShape ==
  ASSUME MapType(buffer_map)
  PROVE  /\ DOMAIN Contents = DOMAIN buffer_map
         /\ \A j \in DOMAIN buffer_map :
              /\ DOMAIN Contents[j] = DOMAIN buffer_map[j]
              /\ Current \in DOMAIN buffer_map[j] /\ <<j, Current>> \in Lists(buffer_map)
              /\ \A v \in DOMAIN buffer_map[j] :
                   Contents[j][v] = ContentOf(buffer_pool, buffer_map[j][v])
BY DEF Contents, MapType, Lists

(* What the current list of an inode holds.                                *)
LEMMA CurrentHolds ==
  ASSUME IInv, FilesAreLaid, NEW i \in DOMAIN buffer_map
  PROVE  /\ HoldsFile(buffer_pool, CurrentList(i), Contents[i][Current])
         /\ Contents[i][Current] \in Seq(Byte)
         /\ DataSize(buffer_pool, CurrentList(i)) = Len(Contents[i][Current])
<1>1. MapType(buffer_map)
  BY DEF IInv, Sound
<1>2. /\ <<i, Current>> \in Lists(buffer_map)
      /\ Contents[i][Current] = ContentOf(buffer_pool, CurrentList(i))
      /\ ListOf(buffer_map, <<i, Current>>) = CurrentList(i)
  BY <1>1, ContentsShape DEF CurrentList, ListOf
<1>3. HoldsFile(buffer_pool, CurrentList(i), Contents[i][Current])
  BY <1>2 DEF FilesAreLaid, Laid
<1> QED BY <1>3, ContentIsFile DEF HoldsFile

(* A truncated inode: one string of bytes cut or grown.                    *)
LEMMA TruncateImplements ==
  ASSUME IInv, FilesAreLaid, NEW i \in Inode, NEW length \in 0..MaxSize, Truncate(i, length)
  PROVE  FilesAreLaid' /\ Abstract!Truncate(i, length)
<1> DEFINE file == Contents[i][Current]
           st == Truncated(buffer_pool, CurrentList(i), length)
<1>1. length \in Nat /\ i \in DOMAIN buffer_map /\ Sound(buffer_pool, buffer_map)
  BY BlockStoreAssumption DEF IInv, Truncate
<1>2. HoldsFile(buffer_pool, CurrentList(i), file)
  BY <1>1, CurrentHolds
<1>3. Rewrites(buffer_pool, buffer_map, i, st)
  BY <1>1, TruncatedRewrites DEF CurrentList
<1>4. HoldsFile(st.pool, st.list, BufTruncate(file, length))
  BY <1>1, <1>2, TruncatedHolds DEF CurrentList
<1>5. SetCurrent(i, st)
  BY DEF Truncate
<1> HIDE DEF st
<1>6. FilesAreLaid' /\ Contents' = [Contents EXCEPT ![i][Current] = BufTruncate(file, length)]
  BY <1>1, <1>3, <1>4, <1>5, SetCurrentHolds
<1>7. DOMAIN Contents = DOMAIN buffer_map
  BY DEF Contents
<1>8. BufTruncate(file, length) = Abstract!ZeroExtend(file, length)
  BY DEF BufTruncate, Abstract!ZeroExtend
<1> QED BY <1>1, <1>6, <1>7, <1>8 DEF Abstract!Truncate, Abstract!SetCurrent

(* The three uses of inode_t::write on the string of bytes.                *)
LEMMA WritesImplement ==
  ASSUME IInv, FilesAreLaid, NEW i \in Inode, NEW bytes \in Payload, NEW offset \in 0..MaxSize
  PROVE  /\ Extend(i, bytes, offset) \/ Overwrite(i, bytes, offset)
              => FilesAreLaid' /\ Abstract!Write(i, bytes, offset)
         /\ Replace(i, bytes) => FilesAreLaid' /\ Abstract!Replace(i, bytes)
<1> DEFINE list == CurrentList(i)
           file == Contents[i][Current]
<1>1. bytes \in Seq(Byte) \ {<<>>} /\ bytes \in Seq(Byte) /\ offset \in Nat /\ 0 \in Nat
  BY BlockStoreAssumption
<1>2. Sound(buffer_pool, buffer_map) /\ DOMAIN Contents = DOMAIN buffer_map
  BY DEF IInv, Contents
<1>3. ASSUME i \in DOMAIN buffer_map
      PROVE  /\ HoldsFile(buffer_pool, list, file) /\ file \in Seq(Byte)
             /\ DataSize(buffer_pool, list) = Len(file) /\ list = buffer_map[i][Current]
  BY <1>3, CurrentHolds DEF CurrentList
<1>4. Overlaid(file, bytes, offset) = Abstract!Overlay(file, bytes, offset)
  BY DEF Overlaid, Abstract!Overlay
<1> HIDE DEF list, file
<1>5. ASSUME Extend(i, bytes, offset)
      PROVE  FilesAreLaid' /\ Abstract!Write(i, bytes, offset)
  <2> DEFINE st == WrittenResizing(buffer_pool, list, bytes, offset)
  <2>1. /\ i \in DOMAIN buffer_map /\ offset + Len(bytes) > DataSize(buffer_pool, list)
        /\ SetCurrent(i, st)
    BY <1>5 DEF Extend, list
  <2>2. Rewrites(buffer_pool, buffer_map, i, st)
    BY <1>1, <1>2, <1>3, <2>1, WrittenResizingRewrites
  <2>3. HoldsFile(st.pool, st.list, Overlaid(BufTruncate(file, offset + Len(bytes)), bytes, offset))
    BY <1>1, <1>2, <1>3, <2>1, WrittenResizingHolds
  <2>4. Overlaid(BufTruncate(file, offset + Len(bytes)), bytes, offset) = Overlaid(file, bytes, offset)
    BY <1>1, <1>3, <2>1, OverlaidToEnd
  <2> HIDE DEF st
  <2>5. FilesAreLaid' /\ Contents' = [Contents EXCEPT ![i][Current] = Overlaid(file, bytes, offset)]
    BY <2>1, <2>2, <2>3, <2>4, SetCurrentHolds
  <2> QED BY <1>2, <1>4, <2>1, <2>5 DEF Abstract!Write, Abstract!SetCurrent, file
<1>6. ASSUME Overwrite(i, bytes, offset)
      PROVE  FilesAreLaid' /\ Abstract!Write(i, bytes, offset)
  <2> DEFINE st == WrittenInPlace(buffer_pool, list, bytes, offset)
  <2>1. /\ i \in DOMAIN buffer_map /\ offset + Len(bytes) <= DataSize(buffer_pool, list)
        /\ SetCurrent(i, st)
    BY <1>6 DEF Overwrite, list
  <2>2. Rewrites(buffer_pool, buffer_map, i, st)
    BY <1>1, <1>2, <1>3, <2>1, WrittenInPlaceRewrites
  <2>3. HoldsFile(st.pool, st.list, Overlaid(file, bytes, offset))
    BY <1>1, <1>2, <1>3, <2>1, WrittenInPlaceHolds
  <2> HIDE DEF st
  <2>4. FilesAreLaid' /\ Contents' = [Contents EXCEPT ![i][Current] = Overlaid(file, bytes, offset)]
    BY <2>1, <2>2, <2>3, SetCurrentHolds
  <2> QED BY <1>2, <1>4, <2>1, <2>4 DEF Abstract!Write, Abstract!SetCurrent, file
<1>7. ASSUME Replace(i, bytes)
      PROVE  FilesAreLaid' /\ Abstract!Replace(i, bytes)
  <2> DEFINE st == WrittenResizing(buffer_pool, list, bytes, 0)
  <2>1. i \in DOMAIN buffer_map /\ SetCurrent(i, st)
    BY <1>7 DEF Replace, list
  <2>2. Rewrites(buffer_pool, buffer_map, i, st)
    BY <1>1, <1>2, <1>3, <2>1, WrittenResizingRewrites
  <2>3. HoldsFile(st.pool, st.list, Overlaid(BufTruncate(file, 0 + Len(bytes)), bytes, 0))
    BY <1>1, <1>2, <1>3, <2>1, WrittenResizingHolds
  <2>4. Overlaid(BufTruncate(file, 0 + Len(bytes)), bytes, 0) = bytes
    BY <1>1, <1>3, <2>1, OverlaidToEnd
  <2> HIDE DEF st
  <2>5. HoldsFile(st.pool, st.list, bytes)
    BY <2>3, <2>4
  <2>6. FilesAreLaid' /\ Contents' = [Contents EXCEPT ![i][Current] = bytes]
    BY <2>1, <2>2, <2>5, SetCurrentHolds
  <2> QED BY <1>2, <2>1, <2>6 DEF Abstract!Replace, Abstract!SetCurrent
<1> QED BY <1>5, <1>6, <1>7

(* Inodes and snapshots come and go; no byte moves.                        *)
LEMMA NewInodeImplements ==
  ASSUME IInv, FilesAreLaid, NEW i \in Inode, NewInode(i)
  PROVE  FilesAreLaid' /\ Abstract!NewInode(i)
<1> DEFINE cur == <<i, Current>>
<1>1. MapType(buffer_map) /\ i \notin DOMAIN buffer_map
  BY DEF IInv, Sound, NewInode
<1>2. /\ DOMAIN buffer_map' = DOMAIN buffer_map \cup {i}
      /\ buffer_map'[i] = [v \in {Current} |-> <<>>]
      /\ \A j \in DOMAIN buffer_map : buffer_map'[j] = buffer_map[j]
      /\ buffer_pool' = buffer_pool
  BY <1>1 DEF NewInode
<1>3. /\ Lists(buffer_map') = Lists(buffer_map) \cup {cur}
      /\ ListOf(buffer_map', cur) = <<>>
      /\ \A h \in Lists(buffer_map) : ListOf(buffer_map', h) = ListOf(buffer_map, h)
  BY <1>1, <1>2 DEF Lists, ListOf
<1>4. HoldsFile(buffer_pool, <<>>, <<>>)
  <2>1. BlockCount(0) = 0
    <3>1. BlockCount(0) \in Nat /\ (0 <= 0 * BlockSize <=> BlockCount(0) <= 0)
      BY BlockCountIsEnough
    <3>2. 0 <= 0 * BlockSize
      BY BufferAssumption
    <3> QED BY <3>1, <3>2
  <2>2. Len(<<>>) = 0 /\ <<>> \in Seq(Byte) /\ DOMAIN BlocksOf(buffer_pool, <<>>) = 1..0
    BY DEF BlocksOf
  <2> QED BY <2>1, <2>2 DEF HoldsFile, Represents
<1>5. /\ HoldsFile(buffer_pool, <<>>, ContentOf(buffer_pool, <<>>))
      /\ ContentOf(buffer_pool, <<>>) = <<>>
  BY <1>4, HeldContent
<1>6. FilesAreLaid'
  BY <1>2, <1>3, <1>5 DEF FilesAreLaid, Laid
<1>7. Contents' = [j \in DOMAIN buffer_map \cup {i} |->
                     IF j = i THEN [v \in {Current} |-> <<>>] ELSE Contents[j]]
  BY <1>1, <1>2, <1>5 DEF Contents
<1>8. DOMAIN Contents = DOMAIN buffer_map
  BY DEF Contents
<1> QED BY <1>1, <1>6, <1>7, <1>8 DEF Abstract!NewInode

(* An erased inode takes only its own string with it.                      *)
LEMMA EraseInodeImplements ==
  ASSUME IInv, FilesAreLaid, NEW i \in Inode, EraseInode(i)
  PROVE  FilesAreLaid' /\ Abstract!EraseInode(i)
<1>1. /\ i \in DOMAIN buffer_map /\ DOMAIN buffer_map[i] = {Current}
      /\ DOMAIN buffer_map' = DOMAIN buffer_map \ {i}
      /\ \A j \in DOMAIN buffer_map' : buffer_map'[j] = buffer_map[j]
      /\ buffer_pool' = buffer_pool
  BY DEF EraseInode
<1>2. \A h \in Lists(buffer_map') : h \in Lists(buffer_map) /\ ListOf(buffer_map', h) = ListOf(buffer_map, h)
  BY <1>1 DEF Lists, ListOf
<1>3. FilesAreLaid'
  BY <1>1, <1>2 DEF FilesAreLaid, Laid
<1>4. Contents' = [j \in DOMAIN buffer_map \ {i} |-> Contents[j]]
  BY <1>1 DEF Contents
<1>5. DOMAIN Contents = DOMAIN buffer_map /\ DOMAIN Contents[i] = DOMAIN buffer_map[i]
  BY <1>1 DEF Contents
<1> QED BY <1>1, <1>3, <1>4, <1>5 DEF Abstract!EraseInode

(* A snapshot is a copy of the string, whatever is shared and frozen.      *)
LEMMA CreateVolumeImplements ==
  ASSUME IInv, FilesAreLaid, NEW i \in Inode, NEW v \in Version, create_new_volume(i, v)
  PROVE  FilesAreLaid' /\ Abstract!TakeSnapshot(i, v)
<1> DEFINE list == buffer_map[i][Current]
           frozen == [p \in DOMAIN list |-> [list[p] EXCEPT !.is_snapshoted = TRUE]]
           Origin(w) == IF w = v THEN Current ELSE w
<1>1. /\ MapType(buffer_map) /\ PoolType(buffer_pool) /\ Closed(buffer_pool, buffer_map)
      /\ i \in DOMAIN buffer_map /\ v \notin DOMAIN buffer_map[i]
      /\ v # Current /\ Current \in DOMAIN buffer_map[i]
  BY DEF IInv, Sound, create_new_volume, MapType
<1>2. /\ DOMAIN buffer_map' = DOMAIN buffer_map
      /\ \A j \in DOMAIN buffer_map \ {i} : buffer_map'[j] = buffer_map[j]
      /\ DOMAIN buffer_map'[i] = DOMAIN buffer_map[i] \cup {v}
      /\ \A w \in DOMAIN buffer_map'[i] :
           buffer_map'[i][w] = IF w \in {v, Current} THEN frozen ELSE buffer_map[i][w]
      /\ buffer_pool' = LinkAll(buffer_pool, Ids(list))
  BY <1>1 DEF create_new_volume, CurrentList
<1> HIDE DEF frozen
<1>3. \A id \in DOMAIN buffer_pool : buffer_pool'[id].data = buffer_pool[id].data
  <2>1. \A id \in DOMAIN buffer_pool : buffer_pool[id] \in [link_count : Nat \ {0}, data : Seq(Byte)]
    BY <1>1 DEF PoolType
  <2> QED BY <1>2, <2>1 DEF LinkAll
<1>4. ASSUME NEW j \in DOMAIN buffer_map, NEW w \in DOMAIN buffer_map[j]
      PROVE  BlocksOf(buffer_pool', buffer_map[j][w]) = BlocksOf(buffer_pool, buffer_map[j][w])
  <2> DEFINE other == buffer_map[j][w]
  <2>1. <<j, w>> \in Lists(buffer_map) /\ ListOf(buffer_map, <<j, w>>) = other
    BY <1>1 DEF Lists, ListOf, MapType
  <2>2. \A p \in DOMAIN other : other[p].id \in DOMAIN buffer_pool
    BY <1>1, <2>1 DEF Closed, Ids
  <2> HIDE DEF other
  <2> QED BY <1>3, <2>2 DEF BlocksOf, other
<1>5. BlocksOf(buffer_pool', frozen) = BlocksOf(buffer_pool, list)
  <2>1. BlocksOf(buffer_pool', list) = BlocksOf(buffer_pool, list)
    BY <1>1, <1>4
  <2>2. list \in ListType
    BY <1>1, CurrentListType
  <2>3. DOMAIN frozen = DOMAIN list /\ \A p \in DOMAIN list : frozen[p].id = list[p].id
    <3> DEFINE E == [id : Nat, is_snapshoted : BOOLEAN]
    <3> HIDE DEF list
    <3>1. list \in Seq(E)
      BY <2>2 DEF ListType
    <3> HIDE DEF E
    <3>2. \A p \in DOMAIN list : list[p] \in E
      BY <3>1
    <3>3. \A p \in DOMAIN list : list[p] \in [id : Nat, is_snapshoted : BOOLEAN]
      BY <3>2 DEF E
    <3> QED BY <3>3 DEF frozen
  <2>4. BlocksOf(buffer_pool', frozen) = BlocksOf(buffer_pool', list)
    BY <2>3 DEF BlocksOf
  <2> QED BY <2>1, <2>4
<1>6. ASSUME NEW j \in DOMAIN buffer_map, NEW w \in DOMAIN buffer_map'[j]
      PROVE  LET o == IF j = i THEN Origin(w) ELSE w
             IN  /\ o \in DOMAIN buffer_map[j]
                 /\ BlocksOf(buffer_pool', buffer_map'[j][w]) = BlocksOf(buffer_pool, buffer_map[j][o])
  <2>1. CASE j # i
    BY <1>2, <1>4, <2>1
  <2>2. CASE j = i /\ w \in {v, Current}
    <3>1. buffer_map'[i][w] = frozen /\ Origin(w) = Current
      BY <1>2, <2>2
    <3> QED BY <1>1, <1>5, <2>2, <3>1
  <2>3. CASE j = i /\ w \notin {v, Current}
    <3>1. buffer_map'[i][w] = buffer_map[i][w] /\ w \in DOMAIN buffer_map[i] /\ Origin(w) = w
      BY <1>2, <2>3
    <3> QED BY <1>1, <1>4, <2>3, <3>1
  <2> QED BY <2>1, <2>2, <2>3
<1>7. ASSUME NEW j \in DOMAIN buffer_map, NEW w \in DOMAIN buffer_map'[j]
      PROVE  LET o == IF j = i THEN Origin(w) ELSE w
             IN  /\ o \in DOMAIN buffer_map[j]
                 /\ ContentOf(buffer_pool', buffer_map'[j][w]) = ContentOf(buffer_pool, buffer_map[j][o])
                 /\ HoldsFile(buffer_pool', buffer_map'[j][w], ContentOf(buffer_pool', buffer_map'[j][w]))
  <2> DEFINE o == IF j = i THEN Origin(w) ELSE w
             old == buffer_map[j][o]
             new == buffer_map'[j][w]
  <2>1. o \in DOMAIN buffer_map[j] /\ BlocksOf(buffer_pool', new) = BlocksOf(buffer_pool, old)
    BY <1>6
  <2>2. HoldsFile(buffer_pool, old, ContentOf(buffer_pool, old))
    <3>1. <<j, o>> \in Lists(buffer_map) /\ ListOf(buffer_map, <<j, o>>) = old
      BY <1>1, <2>1 DEF Lists, ListOf, MapType
    <3> QED BY <3>1 DEF FilesAreLaid, Laid
  <2>3. ContentOf(buffer_pool', new) = ContentOf(buffer_pool, old)
    BY <2>1, SameBlocksSameFile
  <2>4. HoldsFile(buffer_pool', new, ContentOf(buffer_pool, old))
    <3> DEFINE file == ContentOf(buffer_pool, old)
    <3>1. HoldsFile(buffer_pool, old, file)
      BY <2>2
    <3> HIDE DEF file, old, new
    <3>2. HoldsFile(buffer_pool', new, file)
      BY <2>1, <3>1, SameBlocksSameFile
    <3> QED BY <3>2 DEF file
  <2> QED BY <2>1, <2>3, <2>4
<1>8. FilesAreLaid'
  <2> SUFFICES ASSUME NEW h \in Lists(buffer_map')
               PROVE  HoldsFile(buffer_pool', ListOf(buffer_map', h),
                                ContentOf(buffer_pool', ListOf(buffer_map', h)))
    BY DEF FilesAreLaid, Laid
  <2>1. h[1] \in DOMAIN buffer_map /\ h[2] \in DOMAIN buffer_map'[h[1]]
    BY <1>2 DEF Lists
  <2> QED BY <1>7, <2>1 DEF ListOf
<1>9. DOMAIN Contents = DOMAIN buffer_map /\ DOMAIN Contents[i] = DOMAIN buffer_map[i]
  BY <1>1 DEF Contents
<1>10. Contents' = [Contents EXCEPT ![i] =
                     [w \in DOMAIN @ \cup {v} |-> IF w = v THEN @[Current] ELSE @[w]]]
  <2> DEFINE taken == [w \in DOMAIN Contents[i] \cup {v} |->
                         IF w = v THEN Contents[i][Current] ELSE Contents[i][w]]
  <2>1. Contents'[i] = taken
    <3>1. \A w \in DOMAIN buffer_map'[i] :
             ContentOf(buffer_pool', buffer_map'[i][w])
               = IF w = v THEN Contents[i][Current] ELSE Contents[i][w]
      BY <1>1, <1>7 DEF Contents
    <3>2. Contents'[i] = [w \in DOMAIN buffer_map'[i] |-> ContentOf(buffer_pool', buffer_map'[i][w])]
      BY <1>1, <1>2 DEF Contents
    <3> QED BY <1>2, <1>9, <3>1, <3>2
  <2>2. \A j \in DOMAIN buffer_map \ {i} : Contents'[j] = Contents[j]
    <3> SUFFICES ASSUME NEW j \in DOMAIN buffer_map \ {i} PROVE Contents'[j] = Contents[j]
      OBVIOUS
    <3>1. \A w \in DOMAIN buffer_map[j] :
            ContentOf(buffer_pool', buffer_map'[j][w]) = ContentOf(buffer_pool, buffer_map[j][w])
      BY <1>2, <1>7
    <3> QED BY <1>2, <3>1 DEF Contents
  <2>3. DOMAIN Contents' = DOMAIN buffer_map
    BY <1>2 DEF Contents
  <2>4. Contents' = [j \in DOMAIN buffer_map |-> Contents'[j]]
    BY <1>2 DEF Contents
  <2> HIDE DEF taken
  <2>5. [Contents EXCEPT ![i] = taken] = [j \in DOMAIN buffer_map |-> IF j = i THEN taken ELSE Contents[j]]
    BY <1>1, <1>9 DEF Contents
  <2>6. Contents' = [Contents EXCEPT ![i] = taken]
    BY <1>1, <2>1, <2>2, <2>4, <2>5
  <2> QED BY <2>6 DEF taken
<1> QED BY <1>1, <1>8, <1>9, <1>10 DEF Abstract!TakeSnapshot

(* A deleted snapshot leaves the strings of all other versions.            *)
LEMMA DeleteVolumeImplements ==
  ASSUME IInv, IInv', FilesAreLaid, NEW i \in Inode, NEW v \in Version, delete_volume(i, v)
  PROVE  FilesAreLaid' /\ Abstract!DropSnapshot(i, v)
<1>1. /\ MapType(buffer_map) /\ PoolType(buffer_pool) /\ Closed(buffer_pool', buffer_map')
      /\ i \in DOMAIN buffer_map /\ v \in DOMAIN buffer_map[i]
  BY DEF IInv, Sound, delete_volume
<1>2. /\ DOMAIN buffer_map' = DOMAIN buffer_map
      /\ \A j \in DOMAIN buffer_map \ {i} : buffer_map'[j] = buffer_map[j]
      /\ buffer_map'[i] = [w \in DOMAIN buffer_map[i] \ {v} |-> buffer_map[i][w]]
      /\ buffer_pool' = UnlinkAll(buffer_pool, Ids(buffer_map[i][v]))
  BY <1>1 DEF delete_volume
<1>3. \A id \in DOMAIN buffer_pool' : id \in DOMAIN buffer_pool /\ buffer_pool'[id].data = buffer_pool[id].data
  <2>1. \A id \in DOMAIN buffer_pool : buffer_pool[id] \in [link_count : Nat \ {0}, data : Seq(Byte)]
    BY <1>1 DEF PoolType
  <2> QED BY <1>2, <2>1 DEF UnlinkAll
<1>4. ASSUME NEW j \in DOMAIN buffer_map, NEW w \in DOMAIN buffer_map'[j]
      PROVE  /\ w \in DOMAIN buffer_map[j] /\ buffer_map'[j][w] = buffer_map[j][w]
             /\ <<j, w>> \in Lists(buffer_map) /\ <<j, w>> \in Lists(buffer_map')
  BY <1>1, <1>2 DEF Lists, MapType
<1>5. ASSUME NEW j \in DOMAIN buffer_map, NEW w \in DOMAIN buffer_map'[j]
      PROVE  /\ ContentOf(buffer_pool', buffer_map'[j][w]) = ContentOf(buffer_pool, buffer_map[j][w])
             /\ HoldsFile(buffer_pool', buffer_map'[j][w], ContentOf(buffer_pool', buffer_map'[j][w]))
  <2> DEFINE other == buffer_map[j][w]
             file == ContentOf(buffer_pool, other)
  <2>1. buffer_map'[j][w] = other /\ ListOf(buffer_map, <<j, w>>) = other /\ ListOf(buffer_map', <<j, w>>) = other
    BY <1>4 DEF ListOf
  <2>2. \A p \in DOMAIN other : other[p].id \in DOMAIN buffer_pool'
    BY <1>1, <1>4, <2>1 DEF Closed, Ids
  <2>3. HoldsFile(buffer_pool, other, file)
    BY <1>4, <2>1 DEF FilesAreLaid, Laid
  <2> HIDE DEF other, file
  <2>4. BlocksOf(buffer_pool', other) = BlocksOf(buffer_pool, other)
    BY <1>3, <2>2 DEF BlocksOf
  <2>5. /\ ContentOf(buffer_pool', other) = ContentOf(buffer_pool, other)
        /\ HoldsFile(buffer_pool', other, file)
    BY <2>3, <2>4, SameBlocksSameFile
  <2> QED BY <2>1, <2>5 DEF file, other
<1>6. FilesAreLaid'
  <2> SUFFICES ASSUME NEW h \in Lists(buffer_map')
               PROVE  HoldsFile(buffer_pool', ListOf(buffer_map', h),
                                ContentOf(buffer_pool', ListOf(buffer_map', h)))
    BY DEF FilesAreLaid, Laid
  <2>1. h[1] \in DOMAIN buffer_map /\ h[2] \in DOMAIN buffer_map'[h[1]]
    BY <1>2 DEF Lists
  <2> QED BY <1>5, <2>1 DEF ListOf
<1>7. DOMAIN Contents = DOMAIN buffer_map /\ DOMAIN Contents[i] = DOMAIN buffer_map[i]
  BY <1>1 DEF Contents
<1>8. Contents' = [Contents EXCEPT ![i] = [w \in DOMAIN @ \ {v} |-> @[w]]]
  <2> DEFINE left == [w \in DOMAIN Contents[i] \ {v} |-> Contents[i][w]]
  <2>1. Contents'[i] = left
    <3>1. \A w \in DOMAIN buffer_map'[i] : ContentOf(buffer_pool', buffer_map'[i][w]) = Contents[i][w]
      BY <1>1, <1>4, <1>5 DEF Contents
    <3>2. Contents'[i] = [w \in DOMAIN buffer_map'[i] |-> ContentOf(buffer_pool', buffer_map'[i][w])]
      BY <1>1, <1>2 DEF Contents
    <3>3. DOMAIN buffer_map'[i] = DOMAIN Contents[i] \ {v}
      BY <1>2, <1>7
    <3> QED BY <3>1, <3>2, <3>3
  <2>2. \A j \in DOMAIN buffer_map \ {i} : Contents'[j] = Contents[j]
    <3> SUFFICES ASSUME NEW j \in DOMAIN buffer_map \ {i} PROVE Contents'[j] = Contents[j]
      OBVIOUS
    <3>1. \A w \in DOMAIN buffer_map[j] :
            ContentOf(buffer_pool', buffer_map'[j][w]) = ContentOf(buffer_pool, buffer_map[j][w])
      BY <1>2, <1>5
    <3> QED BY <1>2, <3>1 DEF Contents
  <2>3. Contents' = [j \in DOMAIN buffer_map |-> Contents'[j]]
    BY <1>2 DEF Contents
  <2> HIDE DEF left
  <2>4. [Contents EXCEPT ![i] = left] = [j \in DOMAIN buffer_map |-> IF j = i THEN left ELSE Contents[j]]
    BY <1>1, <1>7 DEF Contents
  <2>5. Contents' = [Contents EXCEPT ![i] = left]
    BY <1>1, <2>1, <2>2, <2>3, <2>4
  <2> QED BY <2>5 DEF left
<1> QED BY <1>1, <1>6, <1>7, <1>8 DEF Abstract!DropSnapshot

(* No inode, no file.                                                      *)
LEMMA InitHoldsFiles == Init => FilesAreLaid /\ Abstract!Init
<1> SUFFICES ASSUME Init PROVE FilesAreLaid /\ Abstract!Init
  OBVIOUS
<1>1. DOMAIN buffer_map = {}
  BY DEF Init
<1>2. Lists(buffer_map) = {}
  BY <1>1 DEF Lists
<1>3. Contents = [i \in {} |-> {}]
  BY <1>1 DEF Contents
<1> QED BY <1>2, <1>3 DEF FilesAreLaid, Laid, Abstract!Init

(* Every step keeps a file in every list and is a step of VersionedFile.   *)
LEMMA StepImplements ==
  IInv /\ FilesAreLaid /\ [Next]_vars => FilesAreLaid' /\ [Abstract!Next]_Contents
<1> SUFFICES ASSUME IInv, FilesAreLaid, [Next]_vars PROVE FilesAreLaid' /\ [Abstract!Next]_Contents
  OBVIOUS
<1>1. CASE UNCHANGED vars
  <2>1. buffer_pool' = buffer_pool /\ buffer_map' = buffer_map
    BY <1>1 DEF vars
  <2>2. FilesAreLaid'
    BY <2>1 DEF FilesAreLaid
  <2>3. Contents' = Contents
    BY <2>1 DEF Contents
  <2> QED BY <2>2, <2>3
<1>2. CASE Next
  <2>1. IInv' /\ 0 \in 0..MaxSize
    BY <1>2, StepIsSound, BlockStoreAssumption
  <2> PICK i \in Inode :
        \/ NewInode(i)
        \/ EraseInode(i)
        \/ \E bytes \in Payload, offset \in 0..MaxSize :
             Extend(i, bytes, offset) \/ Overwrite(i, bytes, offset)
        \/ \E bytes \in Payload : Replace(i, bytes)
        \/ \E length \in 0..MaxSize : Truncate(i, length)
        \/ \E v \in Version : create_new_volume(i, v) \/ delete_volume(i, v)
    BY <1>2 DEF Next
  <2>2. CASE NewInode(i)
    BY <2>2, NewInodeImplements DEF Abstract!Next
  <2>3. CASE EraseInode(i)
    BY <2>3, EraseInodeImplements DEF Abstract!Next
  <2>4. CASE \E bytes \in Payload, offset \in 0..MaxSize :
               Extend(i, bytes, offset) \/ Overwrite(i, bytes, offset)
    <3>1. PICK bytes \in Payload, offset \in 0..MaxSize :
            Extend(i, bytes, offset) \/ Overwrite(i, bytes, offset)
      BY <2>4
    <3>2. FilesAreLaid' /\ Abstract!Write(i, bytes, offset)
      BY <3>1, WritesImplement
    <3> QED BY <3>2 DEF Abstract!Next
  <2>5. CASE \E bytes \in Payload : Replace(i, bytes)
    <3>1. PICK bytes \in Payload : Replace(i, bytes)
      BY <2>5
    <3>2. FilesAreLaid' /\ Abstract!Replace(i, bytes)
      BY <2>1, <3>1, WritesImplement
    <3> QED BY <3>2 DEF Abstract!Next
  <2>6. CASE \E length \in 0..MaxSize : Truncate(i, length)
    BY <2>6, TruncateImplements DEF Abstract!Next
  <2>7. CASE \E v \in Version : create_new_volume(i, v)
    BY <2>7, CreateVolumeImplements DEF Abstract!Next
  <2>8. CASE \E v \in Version : delete_volume(i, v)
    BY <2>1, <2>8, DeleteVolumeImplements DEF Abstract!Next
  <2> QED BY <2>2, <2>3, <2>4, <2>5, <2>6, <2>7, <2>8
<1> QED BY <1>1, <1>2

(* Every block list holds a file: each block as full as its place in the   *)
(* file asks for, whatever was written, cut, frozen and copied.            *)
THEOREM ListsHoldFiles == Spec => []FilesAreLaid
<1>1. Init => FilesAreLaid
  BY InitHoldsFiles
<1>2. IInv /\ FilesAreLaid /\ [Next]_vars => FilesAreLaid'
  BY StepImplements
<1> QED BY <1>1, <1>2, BlockStoreInvariant, PTL DEF Spec

(* Every block is full but the last, which is not empty.                   *)
THEOREM BlocksAreFull == Spec => []BlockShape
<1>1. FilesAreLaid => BlockShape
  <2> SUFFICES ASSUME FilesAreLaid, NEW h \in Lists(buffer_map),
                      NEW blocks, blocks = BlocksOf(buffer_pool, ListOf(buffer_map, h)),
                      NEW p \in DOMAIN blocks
               PROVE  IF p + 1 \in DOMAIN blocks THEN Len(blocks[p]) = BlockSize
                      ELSE Len(blocks[p]) \in 1..BlockSize
    BY DEF BlockShape
  <2> DEFINE file == ContentOf(buffer_pool, ListOf(buffer_map, h))
  <2>1. file \in Seq(Byte) /\ Represents(blocks, file)
    BY DEF FilesAreLaid, Laid, HoldsFile
  <2> HIDE DEF file
  <2>2. /\ DOMAIN blocks = 1..BlockCount(Len(file)) /\ Len(blocks[p]) = Width(p, Len(file))
        /\ Len(file) \in Nat
    BY <2>1 DEF Represents
  <2> QED BY <2>2, WidthBounds
<1> QED BY <1>1, ListsHoldFiles, PTL

(* --------------------------- inode_t::read ----------------------------- *)

(* A piece of the range lies in a block of the list and has the bytes the  *)
(* file has there.                                                         *)
PieceIs(pool, list, file, offset, b, c) ==
  /\ b + 1 \in DOMAIN list
  /\ LET piece == BufRead(pool[list[b + 1].id].data, c.count, c.at)
     IN  /\ Len(piece) = c.count
         /\ \A k \in c.from + 1 .. c.from + c.count : piece[k - c.from] = file[offset + k]

(* A list that holds a file has every piece of a range within it.          *)
LEMMA PieceOfFile ==
  ASSUME NEW pool, NEW list, NEW file, HoldsFile(pool, list, file),
         NEW length \in Nat, NEW offset \in Nat, offset + length <= Len(file),
         length = 0 => offset % BlockSize # 0,
         NEW b \in DOMAIN Chunks(length, offset)
  PROVE  PieceIs(pool, list, file, offset, b, Chunks(length, offset)[b])
<1> DEFINE blocks == BlocksOf(pool, list)
           data   == pool[list[b + 1].id].data
           base   == Base(b + 1)
           from   == Chunks(length, offset)[b].from
           count  == Chunks(length, offset)[b].count
           at     == Chunks(length, offset)[b].at
           piece  == BufRead(data, count, at)
<1>1. file \in Seq(Byte) /\ Represents(blocks, file) /\ Len(file) \in Nat
  BY DEF HoldsFile
<1>2. /\ b \in Nat /\ from \in Nat /\ count \in Nat /\ at \in Nat /\ from + count <= length
      /\ base + at = offset + from /\ at + count <= BlockSize
      /\ length > 0 => count > 0
  BY ChunksBounds, ChunksPlace
<1>3. b + 1 \in Nat \ {0} /\ base \in Nat /\ BlockSize \in Nat \ {0}
  <2>1. b + 1 \in Nat \ {0}
    BY <1>2
  <2> QED BY <2>1, BaseStep, BufferAssumption
<1>4. base < Len(file)
  <2>1. CASE length > 0
    <3> HIDE DEF base, from, count, at
    <3> QED BY <1>2, <1>3, <2>1
  <2>2. CASE length = 0
    <3>1. offset % BlockSize \in Nat \ {0}
      BY <1>3, <2>2, DivMod
    <3>2. at = offset % BlockSize
      <4>1. b = offset \div BlockSize
        <5>1. HeadLength(0, offset) = 0
          <6>1. offset % BlockSize \in 0 .. BlockSize - 1
            BY DivMod
          <6> QED BY <1>3, <6>1 DEF HeadLength
        <5>2. (0 - HeadLength(0, offset)) \div BlockSize = 0 /\ (0 - HeadLength(0, offset)) % BlockSize = 0
          <6>1. 0 - HeadLength(0, offset) = 0
            BY <5>1
          <6>2. 0 \div BlockSize = 0 /\ 0 % BlockSize = 0
            BY <1>3
          <6> QED BY <6>1, <6>2
        <5>3. offset \div BlockSize \in Nat
          BY DivMod
        <5>4. DOMAIN Chunks(0, offset) = (offset \div BlockSize) .. (offset \div BlockSize + 0 + 0)
          BY <5>2 DEF Chunks
        <5> QED BY <2>2, <5>3, <5>4
      <4> QED BY <4>1 DEF Chunks
    <3> HIDE DEF base, from, count, at
    <3> QED BY <1>1, <1>2, <1>3, <2>2, <3>1, <3>2
  <2> QED BY <2>1, <2>2
<1>5. b + 1 \in 1..BlockCount(Len(file))
  BY <1>1, <1>3, <1>4, BlockBegins
<1>6. DOMAIN blocks = DOMAIN list /\ blocks[b + 1] = data
  <2>1. DOMAIN blocks = DOMAIN list /\ b + 1 \in DOMAIN list
    BY <1>1, <1>5 DEF Represents, BlocksOf
  <2> QED BY <2>1 DEF BlocksOf
<1>7. /\ b + 1 \in DOMAIN list /\ data \in Seq(Byte) /\ Len(data) = Width(b + 1, Len(file))
      /\ \A j \in 1..Len(data) : data[j] = file[base + j]
  <2>1. b + 1 \in DOMAIN blocks
    BY <1>1, <1>5 DEF Represents
  <2> HIDE DEF blocks, data
  <2> QED BY <1>1, <1>6, <2>1 DEF Represents
<1>8. /\ Len(data) \in 1..BlockSize
      /\ \A j \in 1..BlockSize : j <= Len(data) <=> base + j <= Len(file)
  BY <1>1, <1>5, <1>7, WidthBounds
<1> SUFFICES /\ Len(piece) = count
             /\ \A k \in from + 1 .. from + count : piece[k - from] = file[offset + k]
  BY <1>7 DEF PieceIs
<1> HIDE DEF blocks, data, base, from, count, at
<1>9. CASE count = 0
  <2>1. Clip(Len(data), count, at) = 0
    BY <1>2, <1>8, <1>9, ClipBounds
  <2>2. Len(piece) = 0
    BY <1>2, <1>7, <2>1, SMTT(20) DEF BufRead
  <2> QED BY <1>2, <1>9, <2>2
<1>10. CASE count > 0
  <2>1. at + count \in 1..BlockSize /\ base + (at + count) <= Len(file)
    BY <1>1, <1>2, <1>3, <1>10
  <2>2. at + count <= Len(data)
    BY <1>8, <2>1
  <2>3. Clip(Len(data), count, at) = count
    BY <1>2, <1>8, <2>2, ClipBounds
  <2>4. piece = SubSeq(data, at + 1, at + count)
    BY <2>3 DEF BufRead
  <2> HIDE DEF piece
  <2>5. Len(piece) = count /\ \A j \in 1..count : piece[j] = data[at + j]
    <3>1. at \in Nat /\ count \in Nat /\ data \in Seq(Byte) /\ at + count <= Len(data)
      BY <1>2, <1>7, <2>2
    <3>2. Len(piece) = count
      BY <2>4, <3>1
    <3>3. \A j \in 1..count : piece[j] = data[at + j]
      BY <2>4, <3>1
    <3> QED BY <3>2, <3>3
  <2>6. ASSUME NEW k \in from + 1 .. from + count PROVE piece[k - from] = file[offset + k]
    <3>1. k - from \in 1..count /\ at + (k - from) \in 1..Len(data)
      BY <1>2, <1>8, <2>2
    <3>2. base + (at + (k - from)) = offset + k
      BY <1>2, <1>3
    <3> QED BY <1>7, <2>5, <3>1, <3>2
  <2> QED BY <2>5, <2>6
<1> QED BY <1>2, <1>9, <1>10

(* The byte at position k of block b is asked for exactly when a piece     *)
(* holds it, at the place the range has it.                                *)
Hits(chunks, length, offset, b, k) ==
  /\ Base(b + 1) + k \in offset + 1 .. offset + length <=>
       b \in DOMAIN chunks /\ k \in chunks[b].at + 1 .. chunks[b].at + chunks[b].count
  /\ b \in DOMAIN chunks => chunks[b].from + (k - chunks[b].at) = Base(b + 1) + k - offset

(* ChunkHits, with the pieces as a parameter.                              *)
LEMMA PiecesHit ==
  ASSUME NEW length \in Nat \ {0}, NEW offset \in Nat, NEW b \in Nat, NEW k \in 1..BlockSize
  PROVE  Hits(Chunks(length, offset), length, offset, b, k)
BY ChunkHits DEF Hits

(* inode_t::read of a list that holds a file.                              *)
ReadIs(pool, list, file, length, offset) ==
  ReadResult(pool, list, length, offset)
    = [ok |-> TRUE,
       bytes |-> SubSeq(file, offset + 1,
                        IF offset + length < Len(file) THEN offset + length ELSE Len(file))]

(* inode_t::read returns the bytes of the range that exist.                *)
LEMMA ReadOfFile ==
  ASSUME NEW pool, NEW list, NEW file, HoldsFile(pool, list, file),
         NEW length \in Nat \ {0}, NEW offset \in Nat,
         ~(offset = Len(file) /\ offset % BlockSize = 0)
  PROVE  ReadIs(pool, list, file, length, offset)
<1> USE DEF ReadIs
<1> DEFINE size   == DataSize(pool, list)
           n      == Clip(size, length, offset)
           chunks == Chunks(n, offset)
           Piece(b) == BufRead(pool[list[b + 1].id].data, chunks[b].count, chunks[b].at)
           In(b, k) == k \in chunks[b].from + 1 .. chunks[b].from + chunks[b].count
           end    == IF offset + length < Len(file) THEN offset + length ELSE Len(file)
<1>1. file \in Seq(Byte) /\ size = Len(file) /\ Len(file) \in Nat /\ BlockSize \in Nat \ {0}
  BY ContentIsFile, BufferAssumption DEF HoldsFile
<1>2. CASE offset > Len(file)
  <2>1. ReadResult(pool, list, length, offset) = [ok |-> TRUE, bytes |-> <<>>]
    BY <1>1, <1>2 DEF ReadResult
  <2>2. SubSeq(file, offset + 1, end) = <<>>
    BY <1>1, <1>2
  <2> QED BY <2>1, <2>2
<1>3. CASE ~(offset > Len(file))
  <2> SUFFICES ReadResult(pool, list, length, offset) = [ok |-> TRUE, bytes |-> SubSeq(file, offset + 1, end)]
    OBVIOUS
  <2>1. n \in Nat /\ offset + n = end /\ end <= Len(file) /\ end \in Nat
    BY <1>1, <1>3 DEF Clip
  <2>2. n = 0 => offset % BlockSize # 0
    BY <1>1, <2>1
  <2>3. ReadResult(pool, list, length, offset)
          = IF \E b \in DOMAIN chunks : b + 1 \notin DOMAIN list \/ Len(Piece(b)) # chunks[b].count
            THEN [ok |-> FALSE, bytes |-> <<>>]
            ELSE [ok |-> TRUE,
                  bytes |-> [k \in 1..n |->
                               LET b == CHOOSE c \in DOMAIN chunks : In(c, k)
                               IN  Piece(b)[k - chunks[b].from]]]
    BY <1>1, <1>3 DEF ReadResult
  <2> HIDE DEF n, end, size
  <2>4. ASSUME NEW b \in DOMAIN chunks PROVE PieceIs(pool, list, file, offset, b, chunks[b])
    BY <2>1, <2>2, PieceOfFile
  <2>5. ASSUME NEW k \in 1..n PROVE \E b \in DOMAIN chunks : In(b, k)
    <3> DEFINE q == offset + k
               b == (q - 1) \div BlockSize
               j == ((q - 1) % BlockSize) + 1
    <3>1. q \in Nat \ {0} /\ q \in offset + 1 .. offset + n /\ n \in Nat \ {0}
      BY <2>1
    <3> HIDE DEF q
    <3>2. b + 1 \in Nat \ {0} /\ j \in 1..BlockSize /\ Base(b + 1) + j = q
      BY <3>1, BlockOfPosition
    <3>3. b \in Nat /\ Base(b + 1) \in Nat
      <4>1. q - 1 \in Nat
        BY <3>1
      <4>2. b \in Nat
        BY <1>1, <4>1, DivMod
      <4> QED BY <3>2, <4>2, BaseStep
    <3> HIDE DEF b, j
    <3>4. /\ b \in DOMAIN chunks /\ j \in chunks[b].at + 1 .. chunks[b].at + chunks[b].count
          /\ chunks[b].from + (j - chunks[b].at) = Base(b + 1) + j - offset
      <4>1. Base(b + 1) + j \in offset + 1 .. offset + n
        BY <3>1, <3>2
      <4>2. Hits(chunks, n, offset, b, j)
        BY <3>1, <3>2, <3>3, PiecesHit
      <4> HIDE DEF chunks
      <4> QED BY <4>1, <4>2 DEF Hits
    <3>5. chunks[b].from \in Nat /\ chunks[b].count \in Nat /\ chunks[b].at \in Nat
      BY <2>1, <3>4, ChunksBounds
    <3>6. chunks[b].from + (j - chunks[b].at) = k
      <4>1. Base(b + 1) + j = offset + k
        BY <3>2 DEF q
      <4>2. j \in Nat /\ k \in Nat
        BY <1>1, <2>1, <3>2
      <4> HIDE DEF chunks
      <4> QED BY <3>3, <3>4, <3>5, <4>1, <4>2, SMTT(20)
    <3> HIDE DEF chunks
    <3>7. In(b, k)
      <4>1. j \in Nat /\ k \in Nat
        BY <1>1, <2>1, <3>2
      <4> QED BY <3>4, <3>5, <3>6, <4>1
    <3> QED BY <3>4, <3>7
  <2> DEFINE Val(k) == LET b == CHOOSE c \in DOMAIN chunks : In(c, k)
                       IN  Piece(b)[k - chunks[b].from]
             result == [k \in 1..n |-> Val(k)]
  <2>6. \A k \in 1..n : Val(k) = file[offset + k]
    <3> TAKE k \in 1..n
    <3> DEFINE b == CHOOSE c \in DOMAIN chunks : In(c, k)
    <3>1. b \in DOMAIN chunks /\ In(b, k)
      BY <2>5
    <3>2. Val(k) = Piece(b)[k - chunks[b].from]
      OBVIOUS
    <3> HIDE DEF b, chunks, Val
    <3>3. PieceIs(pool, list, file, offset, b, chunks[b])
      BY <2>4, <3>1
    <3> QED BY <3>1, <3>2, <3>3 DEF PieceIs
  <2>7. result = SubSeq(file, offset + 1, end)
    <3>1. SubSeq(file, offset + 1, end) = [k \in 1..n |-> file[offset + k]]
      <4> DEFINE part == SubSeq(file, offset + 1, end)
      <4>1. offset + 1 \in Nat \ {0} /\ n = end - offset /\ part = SubSeq(file, offset + 1, end)
        BY <2>1
      <4> HIDE DEF part, Val, result, chunks
      <4>2. Len(part) = n /\ DOMAIN part = 1..n /\ part \in Seq(Byte)
        BY <1>1, <2>1, <4>1
      <4>3. \A k \in 1..n : part[k] = file[offset + k]
        BY <1>1, <2>1, <4>1
      <4>4. part = [k \in 1..n |-> part[k]]
        BY <4>2
      <4>5. part = [k \in 1..n |-> file[offset + k]]
        BY <4>3, <4>4
      <4> QED BY <4>5 DEF part
    <3> HIDE DEF Val
    <3> QED BY <2>6, <3>1
  <2>8. \A b \in DOMAIN chunks : b + 1 \in DOMAIN list /\ Len(Piece(b)) = chunks[b].count
    BY <2>4 DEF PieceIs
  <2> HIDE DEF result, chunks, Piece
  <2> QED BY <2>3, <2>7, <2>8 DEF result
<1> QED BY <1>2, <1>3

(* inode_t::read returns the bytes asked for that exist, from every        *)
(* version, short of a read at the very end of a file of whole blocks.     *)
THEOREM ReadsAreExact == Spec => []ReadIsExact
<1>1. FilesAreLaid => ReadIsExact
  <2> SUFFICES ASSUME FilesAreLaid, NEW h \in Lists(buffer_map),
                      NEW list, list = ListOf(buffer_map, h),
                      NEW content, content = ContentOf(buffer_pool, list),
                      NEW length \in 1..MaxSize, NEW offset \in 0..MaxSize,
                      ~(offset = Len(content) /\ offset % BlockSize = 0)
               PROVE  ReadResult(buffer_pool, list, length, offset)
                        = [ok |-> TRUE,
                           bytes |-> SubSeq(content, offset + 1,
                                            IF offset + length < Len(content) THEN offset + length
                                            ELSE Len(content))]
    BY DEF ReadIsExact
  <2>1. HoldsFile(buffer_pool, list, content)
    BY DEF FilesAreLaid, Laid
  <2>2. length \in Nat \ {0} /\ offset \in Nat
    BY BlockStoreAssumption
  <2>3. ReadIs(buffer_pool, list, content, length, offset)
    BY <2>1, <2>2, ReadOfFile
  <2> QED BY <2>3 DEF ReadIs
<1> QED BY <1>1, ListsHoldFiles, PTL

(* The storage layer implements VersionedFile: a version is a string of    *)
(* bytes that only the operations on that version change.                  *)
THEOREM StoreImplementsFiles == Spec => ImplementsVersionedFile
<1>1. Init => Abstract!Init
  BY InitHoldsFiles
<1>2. IInv /\ FilesAreLaid /\ [Next]_vars => [Abstract!Next]_Contents
  BY StepImplements
<1> QED BY <1>1, <1>2, BlockStoreInvariant, ListsHoldFiles, PTL DEF Spec, ImplementsVersionedFile, Abstract!Spec
=============================================================================
