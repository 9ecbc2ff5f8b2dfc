--------------------------- MODULE ExportMapProofs --------------------------
(***************************************************************************)
(* A directory lists what is found below it, and an export of a version    *)
(* every path of its tree: the theorems about Readdir and ExportMap, from  *)
(* the invariant IInv of FuseOpsProofs, which every walk leaves as it is.  *)
(***************************************************************************)
EXTENDS ExportMap, FuseOpsProofs

(* ------------------------------ listings ------------------------------- *)

(* What is found one name below a directory of a version is a dentry of it *)
(* in that version.                                                        *)
LEMMA FoundIsListed ==
  ASSUME IInv, NEW v \in Versions, NEW p \in Path, NEW n \in Word,
         Resolve(Smi, v, p) # Nowhere, IsDir(Smi, Resolve(Smi, v, p))
  PROVE  LET id == Resolve(Smi, v, p)
         IN  /\ Resolve(Smi, v, Append(p, n)) # Nowhere <=> n \in DOMAIN Dentries(Smi, id, v)
             /\ DOMAIN Dentries(Smi, id, v) \subseteq Name
<1> DEFINE id == Resolve(Smi, v, p)
<1>1. /\ IsSmi(Smi) /\ IsForest(Smi, v) /\ v \in DOMAIN Smi.lists
  BY DEF IInv, SmiInv, IsVersionTree, Versions, Smi
<1>2. id \in Smi.lists[v]
  BY <1>1, ResolveInVersion
<1>3. Resolve(Smi, v, Append(p, n)) = Child(Smi, v, id, n)
  BY ResolveStep DEF Path
<1> HIDE DEF id
<1>4. id \in DOMAIN Smi.pool /\ v \in DOMAIN Smi.pool[id].buffer_map
  BY <1>1, <1>2 DEF IsSmi, IsCounted, Holders
<1>5. \A m : HasDentry(Smi, id, v, m) <=> m \in DOMAIN Dentries(Smi, id, v)
  BY <1>4 DEF HasDentry, id
<1>6. DOMAIN Dentries(Smi, id, v) \subseteq Name
  BY <1>1, <1>5, ChildIsDentry
<1>7. Child(Smi, v, id, n) # Nowhere <=> n \in DOMAIN Dentries(Smi, id, v)
  BY <1>1, <1>5, ChildIsDentry
<1> QED BY <1>3, <1>6, <1>7 DEF id

(* A path and one more name, place by place.                               *)
LEMMA AppendedName ==
  ASSUME NEW p \in Path, NEW n \in Word
  PROVE  LET q == Append(p, n)
         IN  /\ q \in Path /\ q # <<>> /\ Len(p) \in Nat /\ Len(q) = Len(p) + 1
             /\ \A i \in 1 .. Len(p) : q[i] = p[i]
             /\ q[Len(p) + 1] = n
BY AppendProperties DEF Path

(* What follows the version in a path below /.snapshot.                    *)
LEMMA NamesBehind ==
  ASSUME NEW p \in Path, Len(p) >= 2
  PROVE  LET names == SubSeq(p, 3, Len(p))
         IN  /\ names \in Path /\ Len(names) = Len(p) - 2
             /\ \A i \in 1 .. Len(p) - 2 : names[i] = p[i + 2]
<1> DEFINE m == Len(p)
           names == SubSeq(p, 3, m)
<1>1. m \in Nat /\ m >= 2 /\ \A i \in 3 .. m : p[i] \in Word
  BY DEF Path
<1>2. /\ names \in Seq(Word) /\ Len(names) = IF 3 <= m THEN (m - 3) + 1 ELSE 0
      /\ \A i \in 1 .. (m - 3) + 1 : names[i] = p[(3 + i) - 1]
  BY <1>1, SubSeqProperties
<1> HIDE DEF names, m
<1>3. Len(names) = m - 2
  BY <1>1, <1>2
<1>4. ASSUME NEW i \in 1 .. m - 2 PROVE names[i] = p[i + 2]
  <2>1. i \in 1 .. (m - 3) + 1 /\ (3 + i) - 1 = i + 2
    BY <1>1
  <2> QED BY <1>2, <2>1
<1> QED BY <1>2, <1>3, <1>4 DEF Path, names, m

(* A name below a path of a version is a path of the same version.         *)
LEMMA NameBelow ==
  ASSUME NEW path \in Path, path # <<>>, Parsable(path), NEW n \in Word
  PROVE  LET q == Append(path, n)
         IN  /\ q # SnapshotRoot /\ Parsable(q)
             /\ VersionOf(q) = VersionOf(path) /\ NamesOf(q) = Append(NamesOf(path), n)
<1> DEFINE q == Append(path, n)
           m == Len(path)
<1>1. /\ q \in Path /\ m \in Nat /\ m > 0 /\ Len(q) = m + 1
      /\ \A i \in 1 .. m : q[i] = path[i]
      /\ q[m + 1] = n
  BY AppendedName DEF Path
<1> HIDE DEF q
<1>2. q # SnapshotRoot /\ Parsable(q) /\ q # <<>>
  BY <1>1 DEF SnapshotRoot, Parsable
<1>3. Below(q) <=> Below(path)
  BY <1>1, <1>2 DEF Below
<1>4. CASE ~Below(path)
  BY <1>2, <1>3, <1>4 DEF VersionOf, NamesOf, q
<1>5. CASE Below(path)
  <2>1. m >= 2 /\ q[2] = path[2]
    BY <1>1, <1>5, BelowPath
  <2>2. SubSeq(q, 3, m + 1) = Append(SubSeq(path, 3, m), n)
    <3> DEFINE a == SubSeq(q, 3, m + 1)
               c == SubSeq(path, 3, m)
    <3>1. /\ a \in Path /\ Len(a) = m - 1
          /\ \A i \in 1 .. m - 1 : a[i] = q[i + 2]
      BY <1>1, <2>1, NamesBehind
    <3>2. /\ c \in Path /\ Len(c) = m - 2
          /\ \A i \in 1 .. m - 2 : c[i] = path[i + 2]
      BY <1>1, <2>1, NamesBehind
    <3> HIDE DEF a, c
    <3>3. /\ Append(c, n) \in Path /\ Len(Append(c, n)) = m - 1
          /\ \A i \in 1 .. m - 2 : Append(c, n)[i] = c[i]
          /\ Append(c, n)[m - 1] = n
      BY <1>1, <2>1, <3>2, AppendProperties DEF Path
    <3>4. ASSUME NEW i \in 1 .. m - 1 PROVE a[i] = Append(c, n)[i]
      BY <1>1, <2>1, <3>1, <3>2, <3>3
    <3>5. a = Append(c, n)
      BY <3>1, <3>3, <3>4, SeqEqual DEF Path
    <3> QED BY <3>5 DEF a, c
  <2> QED BY <1>1, <1>2, <1>3, <1>5, <2>1, <2>2 DEF VersionOf, NamesOf, q
<1> QED BY <1>4, <1>5, <1>2 DEF q

(* Calls of filler for the members of a set, and for those of another one. *)
One(cond) == IF cond THEN 1 ELSE 0

LEMMA TimesInSets ==
  ASSUME NEW S, NEW T, NEW n
  PROVE  /\ Times(n, SetToBag(S)) = One(n \in S)
         /\ Times(n, SetToBag(S) (+) SetToBag(T)) = One(n \in S) + One(n \in T)
         /\ BagToSet(SetToBag(S)) = S
         /\ BagToSet(SetToBag(S) (+) SetToBag(T)) = S \cup T
<1> DEFINE a == SetToBag(S)
           b == SetToBag(T)
           c == a (+) b
<1>1. /\ DOMAIN a = S
      /\ DOMAIN b = T
      /\ n \in S => a[n] = 1
      /\ n \in T => b[n] = 1
  BY DEF SetToBag
<1> HIDE DEF a, b
<1>2. /\ DOMAIN c = S \cup T
      /\ n \in S \cup T => c[n] = (IF n \in S THEN a[n] ELSE 0) + (IF n \in T THEN b[n] ELSE 0)
  BY <1>1 DEF \oplus
<1> HIDE DEF c
<1>3. Times(n, a) = One(n \in S)
  BY <1>1 DEF Times, BagIn, BagToSet, One
<1>4. Times(n, c) = One(n \in S) + One(n \in T)
  BY <1>1, <1>2 DEF Times, BagIn, BagToSet, One
<1> QED BY <1>1, <1>2, <1>3, <1>4 DEF BagToSet, a, b, c

(* How often do_readdir of path should fill n in.                          *)
Due(path, n) ==
  IF ~Shown(Append(path, n)) THEN 0
  ELSE IF path = <<>> /\ n = SNAPSHOT_ENTRY /\ HidesAnEntry THEN 2 ELSE 1

(* The three kinds of directory that do_readdir lists.                     *)
LEMMA SnapshotsAreListed ==
  ASSUME IInv, Versions \subseteq Word, NEW n \in Word
  PROVE  Times(n, Listing(SnapshotRoot)) = Due(SnapshotRoot, n)
<1> DEFINE q == Append(SnapshotRoot, n)
<1>1. /\ SnapshotRoot \in Path /\ Len(SnapshotRoot) = 1 /\ SnapshotRoot[1] = SNAPSHOT_ENTRY
  BY DEF SnapshotRoot, Path, Word
<1>2. /\ q \in Path /\ Len(q) = Len(SnapshotRoot) + 1 /\ q[Len(SnapshotRoot) + 1] = n
      /\ \A i \in 1 .. Len(SnapshotRoot) : q[i] = SnapshotRoot[i]
  BY <1>1, AppendedName
<1> HIDE DEF q
<1>3. q # SnapshotRoot /\ Parsable(q) /\ VersionOf(q) = n /\ NamesOf(q) = <<>>
  <2>1. Len(q) = 2 /\ q[1] = SNAPSHOT_ENTRY /\ q[2] = n
    BY <1>1, <1>2
  <2>2. q # <<>> /\ Head(q) = SNAPSHOT_ENTRY
    BY <1>2, <2>1 DEF Path
  <2>3. SubSeq(q, 3, Len(q)) = <<>>
    BY <2>1, SubSeqEmpty
  <2> QED BY <1>1, <2>1, <2>2, <2>3 DEF Parsable, SnapshotRoot, VersionOf, NamesOf, Below
<1>4. Resolve(Smi, n, <<>>) # Nowhere
  BY ResolveEmpty DEF Root, Nowhere
<1>5. Shown(q) <=> n \in DOMAIN Smi.lists
  BY <1>3, <1>4 DEF Shown, KernelSees, IdAt
<1>6. Times(n, Listing(SnapshotRoot)) = One(n \in DOMAIN Smi.lists)
  <2>1. Listing(SnapshotRoot) = SetToBag(DOMAIN Smi.lists)
    BY DEF Listing, Smi
  <2> QED BY <2>1, TimesInSets
<1>7. SnapshotRoot # <<>>
  BY DEF SnapshotRoot
<1> QED BY <1>5, <1>6, <1>7 DEF Due, One, q

LEMMA RootIsListed ==
  ASSUME IInv, KernelSeesDir(<<>>), NEW n \in Word
  PROVE  Times(n, Listing(<<>>)) = Due(<<>>, n)
<1> DEFINE e == <<>>
           q == Append(e, n)
<1>1. /\ e \in Path /\ Parsable(e) /\ ~Below(e) /\ VersionOf(e) = Current /\ NamesOf(e) = e
      /\ e # SnapshotRoot
  BY EmptyPath DEF Parsable, Below, VersionOf, NamesOf, SnapshotRoot
<1>2. q = <<n>> /\ Len(q) = 1 /\ q[1] = n /\ q # <<>>
  OBVIOUS
<1> HIDE DEF e, q
<1>3. Current \in Versions /\ Versions = DOMAIN Smi.lists
  BY DEF IInv, SmiInv, IsSmi, Versions, Smi
<1>4. IdAt(Smi, e) = Resolve(Smi, Current, e)
  BY <1>1, <1>3 DEF IdAt
<1>5. Resolve(Smi, Current, e) # Nowhere /\ IsDir(Smi, Resolve(Smi, Current, e))
  BY <1>4 DEF KernelSeesDir, KernelSees, e
<1>6. /\ Resolve(Smi, Current, q) # Nowhere <=> n \in Entries(e)
      /\ Entries(e) \subseteq Name
  BY <1>1, <1>3, <1>4, <1>5, FoundIsListed DEF Entries, q
<1>7. Times(n, Listing(e)) = One(n \in Entries(e)) + One(n = SNAPSHOT_ENTRY)
  <2>1. Listing(e) = SetToBag(Entries(e)) (+) SetToBag({SNAPSHOT_ENTRY})
    BY <1>1 DEF Listing, e
  <2>2. n \in {SNAPSHOT_ENTRY} <=> n = SNAPSHOT_ENTRY
    OBVIOUS
  <2> QED BY <2>1, <2>2, TimesInSets DEF One
<1>8. CASE n = SNAPSHOT_ENTRY
  <2>1. q = SnapshotRoot /\ q \in Path /\ Shown(q)
    BY <1>2, <1>8 DEF Shown, SnapshotRoot, Path, Word
  <2>2. IdAt(Smi, AsWritten(q)) = Resolve(Smi, Current, q)
    BY <1>3, <2>1, IdAsWritten
  <2>3. HidesAnEntry <=> n \in Entries(e)
    BY <1>6, <2>1, <2>2 DEF HidesAnEntry
  <2>4. e = <<>> /\ Append(<<>>, n) = q
    BY DEF e, q
  <2>5. Due(e, n) = IF HidesAnEntry THEN 2 ELSE 1
    BY <1>8, <2>1, <2>4 DEF Due
  <2> QED BY <1>7, <1>8, <2>3, <2>4, <2>5 DEF One
<1>9. CASE n # SNAPSHOT_ENTRY
  <2>1. /\ q # SnapshotRoot /\ Parsable(q) /\ ~Below(q) /\ VersionOf(q) = Current /\ NamesOf(q) = q
    <3>1. q # SnapshotRoot
      BY <1>2, <1>9 DEF SnapshotRoot
    <3>2. ~Below(q)
      BY <1>2, <1>9 DEF Below
    <3> QED BY <3>1, <3>2 DEF Parsable, SnapshotRoot, VersionOf, NamesOf
  <2>2. IdAt(Smi, q) = Resolve(Smi, Current, q)
    BY <1>3, <2>1 DEF IdAt
  <2>3. Shown(q) <=> n \in Entries(e)
    BY <1>6, <2>1, <2>2 DEF Shown, KernelSees
  <2>4. e = <<>> /\ Append(<<>>, n) = q
    BY DEF e, q
  <2>5. Due(e, n) = One(n \in Entries(e))
    BY <1>9, <2>3, <2>4 DEF Due, One
  <2> QED BY <1>7, <1>9, <2>4, <2>5 DEF One
<1> QED BY <1>8, <1>9

LEMMA DirectoryIsListed ==
  ASSUME IInv, NEW path \in AnyPath, KernelSeesDir(path), path # <<>>, NEW n \in Word
  PROVE  Times(n, Listing(path)) = Due(path, n)
<1> DEFINE q == Append(path, n)
           v == VersionOf(path)
           p == NamesOf(path)
<1>1. /\ Parsable(path) /\ path # SnapshotRoot /\ v \in DOMAIN Smi.lists
      /\ IdAt(Smi, path) = Resolve(Smi, v, p)
      /\ Resolve(Smi, v, p) # Nowhere /\ IsDir(Smi, Resolve(Smi, v, p))
  BY DEF KernelSeesDir, KernelSees, IdAt, Parsable, SnapshotRoot
<1>2. path \in Path /\ p \in Path /\ Versions = DOMAIN Smi.lists
  BY <1>1, AnyPathIsPath, NamesOfIsPath DEF Versions, Smi
<1>3. q # SnapshotRoot /\ Parsable(q) /\ VersionOf(q) = v /\ NamesOf(q) = Append(p, n)
  BY <1>1, <1>2, NameBelow
<1> HIDE DEF q, p, v
<1>4. IdAt(Smi, q) = Resolve(Smi, v, Append(p, n))
  BY <1>1, <1>3 DEF IdAt
<1>5. Resolve(Smi, v, Append(p, n)) # Nowhere <=> n \in Entries(path)
  BY <1>1, <1>2, FoundIsListed DEF Entries, v
<1>6. Times(n, Listing(path)) = One(n \in Entries(path))
  <2>1. Listing(path) = SetToBag(Entries(path)) (+) SetToBag({})
    BY <1>1 DEF Listing
  <2>2. n \notin {}
    OBVIOUS
  <2> QED BY <2>1, <2>2, TimesInSets DEF One
<1>7. Shown(q) <=> n \in Entries(path)
  BY <1>3, <1>4, <1>5 DEF Shown, KernelSees
<1> QED BY <1>6, <1>7 DEF Due, One, q

LEMMA ListingsAreExact ==
  ASSUME IInv, Versions \subseteq Word
  PROVE  ListingIsExact
<1>1. ASSUME NEW path \in Listable, NEW n \in Word
      PROVE  Times(n, Listing(path)) = Due(path, n)
  <2>1. CASE path = SnapshotRoot
    BY <2>1, SnapshotsAreListed
  <2>2. CASE path # SnapshotRoot
    <3>1. path \in AnyPath /\ KernelSeesDir(path)
      BY <2>2 DEF Listable
    <3>2. CASE path = <<>>
      BY <3>1, <3>2, RootIsListed
    <3>3. CASE path # <<>>
      BY <3>1, <3>3, DirectoryIsListed
    <3> QED BY <3>2, <3>3
  <2> QED BY <2>1, <2>2
<1>2. ASSUME NEW path \in Listable PROVE BagToSet(Listing(path)) \subseteq Word
  <2>1. CASE path = SnapshotRoot
    <3>1. Listing(path) = SetToBag(Versions)
      BY <2>1 DEF Listing, Versions
    <3> QED BY <3>1, TimesInSets
  <2>2. CASE path # SnapshotRoot
    <3>1. path \in AnyPath /\ KernelSeesDir(path)
      BY <2>2 DEF Listable
    <3> DEFINE v == VersionOf(path)
               p == NamesOf(path)
    <3>2. /\ Parsable(path) /\ v \in DOMAIN Smi.lists /\ IdAt(Smi, path) = Resolve(Smi, v, p)
          /\ Resolve(Smi, v, p) # Nowhere /\ IsDir(Smi, Resolve(Smi, v, p))
      BY <3>1 DEF KernelSeesDir, KernelSees, IdAt
    <3>3. p \in Path /\ v \in Versions /\ SNAPSHOT_ENTRY \in Word
      BY <3>1, <3>2, AnyPathIsPath, NamesOfIsPath DEF Versions, Smi, Word
    <3>4. Entries(path) \subseteq Name
      BY <3>2, <3>3, FoundIsListed DEF Entries
    <3>5. PICK T \in SUBSET {SNAPSHOT_ENTRY} : Listing(path) = SetToBag(Entries(path)) (+) SetToBag(T)
      BY <2>2 DEF Listing
    <3> HIDE DEF v, p
    <3>6. BagToSet(Listing(path)) = Entries(path) \cup T
      BY <3>5, TimesInSets
    <3> QED BY <3>4, <3>5, <3>6 DEF Word
  <2> QED BY <2>1, <2>2
<1> QED BY <1>1, <1>2 DEF ListingIsExact, Due, Word

(* do_readdir and do_getattr agree: a directory, be it the root, /.snapshot *)
(* or one of a snapshot, lists the names that are found below it, each of  *)
(* them once, and no other, whatever the handlers have done to it; only /  *)
(* has .snapshot twice when the tree has an entry of that name.            *)
THEOREM DirectoriesListWhatIsThere == Spec => []ListingIsExact
<1>1. Init => Versions \subseteq Word
  BY DEF Init, Formatted, Versions, Word
<1>2. IInv /\ Versions \subseteq Word /\ [Next]_vars => (Versions \subseteq Word)'
  BY VersionsStayWords
<1>3. IInv /\ Versions \subseteq Word => ListingIsExact
  BY ListingsAreExact
<1> QED BY <1>1, <1>2, <1>3, SpecKeepsInvariant, PTL DEF Spec

(* -------------------------------- texts -------------------------------- *)

Piece == Word \cup {"/"}
Texts == Seq(Piece)

(* What one more piece of a text does to the names before it.              *)
Cut(names, piece) == IF piece = "/" THEN names ELSE Append(names, piece)

(* The names of every beginning of a text, as path_t collects them.        *)
IsCut(f, text) ==
  f = [k \in 0 .. Len(text) |-> IF k = 0 THEN <<>> ELSE Cut(f[k - 1], text[k])]

(* The first m steps along a text are determined.                          *)
CutsTo(g, m, text) ==
  \A k \in 0 .. m : g[k] = IF k = 0 THEN <<>> ELSE Cut(g[k - 1], text[k])

LEMMA CutIsUnique ==
  ASSUME NEW text \in Texts, NEW f, NEW g, IsCut(f, text),
         NEW m \in 0 .. Len(text), CutsTo(g, m, text)
  PROVE  \A k \in 0 .. m : f[k] = g[k]
<1> DEFINE T == {k \in 0 .. m : f[k] # g[k]}
<1>1. Len(text) \in Nat
  BY DEF Texts
<1>2. SUFFICES ASSUME T # {} PROVE FALSE
  OBVIOUS
<1>3. T \in SUBSET Nat
  BY <1>1
<1>4. PICK k \in T : \A j \in T : k <= j
  BY <1>2, <1>3, LeastNumber
<1>5. \A j \in 0 .. Len(text) : f[j] = IF j = 0 THEN <<>> ELSE Cut(f[j - 1], text[j])
  BY DEF IsCut
<1>6. k # 0
  BY <1>1, <1>5 DEF CutsTo
<1>7. k - 1 \in 0 .. m /\ k - 1 \notin T
  BY <1>1, <1>4, <1>6
<1>8. f[k - 1] = g[k - 1]
  BY <1>7
<1>9. k \in 0 .. m /\ k \in 0 .. Len(text) /\ f[k] # g[k]
  BY <1>1
<1>10. f[k] = Cut(f[k - 1], text[k])
  BY <1>5, <1>6, <1>9
<1>11. g[k] = Cut(g[k - 1], text[k])
  BY <1>6, <1>9 DEF CutsTo
<1> QED BY <1>8, <1>9, <1>10, <1>11

(* Every text has its names, and the recursion of path_t defines them.     *)
LEMMA CutExists ==
  ASSUME NEW text \in Texts
  PROVE  \E f : IsCut(f, text)
<1> DEFINE P == {t \in Texts : ~\E f : IsCut(f, t)}
<1>1. SUFFICES ASSUME P # {} PROVE FALSE
  OBVIOUS
<1>2. P \in SUBSET Seq(Piece)
  BY DEF Texts
<1>3. PICK t \in P : \A q \in P : Len(t) <= Len(q)
  BY <1>1, <1>2, ShortestPath
<1>4. t # <<>>
  <2> SUFFICES \E f : IsCut(f, <<>>)
    BY <1>3
  <2> DEFINE f == [k \in 0 .. 0 |-> <<>>]
  <2>1. IsCut(f, <<>>)
    <3>1. 0 .. Len(<<>>) = 0 .. 0 /\ \A k \in 0 .. 0 : k = 0
      OBVIOUS
    <3> QED BY <3>1 DEF IsCut
  <2> QED BY <2>1
<1>5. /\ Front(t) \in Texts /\ Len(Front(t)) = Len(t) - 1 /\ Len(t) \in Nat /\ Len(t) > 0
  BY <1>4, FrontAndLast DEF Texts
<1>6. PICK f : IsCut(f, Front(t))
  BY <1>3, <1>5
<1> DEFINE n == Len(t)
           g == [k \in 0 .. n |-> IF k = n THEN Cut(f[n - 1], t[n]) ELSE f[k]]
<1>7. \A k \in 0 .. n - 1 : f[k] = IF k = 0 THEN <<>> ELSE Cut(f[k - 1], t[k])
  <2>1. \A k \in 1 .. n - 1 : Front(t)[k] = t[k]
    BY <1>5 DEF Front, Texts
  <2> QED BY <1>5, <1>6, <2>1 DEF IsCut
<1>8. \A k \in 0 .. n : g[k] = IF k = 0 THEN <<>> ELSE Cut(g[k - 1], t[k])
  <2> SUFFICES ASSUME NEW k \in 0 .. n
               PROVE  g[k] = IF k = 0 THEN <<>> ELSE Cut(g[k - 1], t[k])
    OBVIOUS
  <2>1. CASE k = n
    BY <1>5, <2>1
  <2>2. CASE k # n
    <3>1. k \in 0 .. n - 1 /\ g[k] = f[k] /\ (k # 0 => k - 1 \in 0 .. n - 1 /\ g[k - 1] = f[k - 1])
      BY <1>5, <2>2
    <3> QED BY <1>7, <3>1
  <2> QED BY <2>1, <2>2
<1>9. IsCut(g, t)
  <2>1. g = [k \in 0 .. n |-> g[k]]
    OBVIOUS
  <2> HIDE DEF g
  <2> QED BY <1>8, <2>1 DEF IsCut
<1> QED BY <1>3, <1>9

CutAlong(text) == CHOOSE f : IsCut(f, text)

LEMMA NamesAreCut ==
  ASSUME NEW text \in Texts
  PROVE  IsCut(CutAlong(text), text) /\ path_t(text) = CutAlong(text)[Len(text)]
<1>1. IsCut(CutAlong(text), text)
  BY CutExists DEF CutAlong
<1>2. path_t(text) = CutAlong(text)[Len(text)]
  BY DEF path_t, IsCut, Cut, CutAlong
<1> QED BY <1>1, <1>2

LEMMA EmptyText ==
  <<>> \in Texts /\ path_t(<<>>) = <<>>
<1> DEFINE e == <<>>
<1>1. e \in Texts /\ Len(e) = 0
  BY DEF Texts
<1> HIDE DEF e
<1>2. IsCut(CutAlong(e), e) /\ path_t(e) = CutAlong(e)[Len(e)]
  BY <1>1, NamesAreCut
<1>3. CutAlong(e)[0] = <<>>
  BY <1>1, <1>2 DEF IsCut
<1>4. path_t(e) = <<>>
  BY <1>1, <1>2, <1>3
<1> QED BY <1>1, <1>4 DEF e

(* One more piece of a text is a slash, or one more name.                  *)
LEMMA TextStep ==
  ASSUME NEW t \in Texts, NEW x \in Piece
  PROVE  Append(t, x) \in Texts /\ path_t(Append(t, x)) = Cut(path_t(t), x)
<1> DEFINE q == Append(t, x)
           m == Len(t)
           f == CutAlong(t)
           g == CutAlong(q)
<1>1. /\ q \in Texts /\ Len(q) = m + 1 /\ m \in Nat /\ q[m + 1] = x
      /\ \A k \in 1 .. m : q[k] = t[k]
  BY AppendProperties DEF Texts
<1> HIDE DEF q
<1>2. IsCut(f, t) /\ path_t(t) = f[m]
  BY NamesAreCut
<1>3. IsCut(g, q) /\ path_t(q) = g[Len(q)]
  BY <1>1, NamesAreCut
<1> HIDE DEF m, f, g
<1>4. CutsTo(f, m, q)
  BY <1>1, <1>2 DEF IsCut, CutsTo, m
<1>5. m \in 0 .. Len(q)
  BY <1>1
<1>6. \A k \in 0 .. m : g[k] = f[k]
  BY <1>1, <1>3, <1>4, <1>5, CutIsUnique
<1>7. g[m + 1] = Cut(g[m], x)
  <2>1. m + 1 \in 0 .. Len(q) /\ m + 1 # 0 /\ (m + 1) - 1 = m
    BY <1>1
  <2> QED BY <1>1, <1>3, <2>1 DEF IsCut
<1> QED BY <1>1, <1>2, <1>3, <1>6, <1>7 DEF q, m

LEMMA TextInduction ==
  ASSUME NEW P \in SUBSET Texts, <<>> \in P,
         \A t \in Texts, x \in Piece : t \in P => Append(t, x) \in P
  PROVE  P = Texts
<1> DEFINE B == Texts \ P
<1>1. SUFFICES ASSUME B # {} PROVE FALSE
  OBVIOUS
<1>2. B \in SUBSET Seq(Piece)
  BY DEF Texts
<1> HIDE DEF B
<1>3. PICK t \in B : \A q \in B : Len(t) <= Len(q)
  BY <1>1, <1>2, ShortestPath
<1>4. t \in Seq(Piece) /\ t # <<>> /\ t \notin P
  BY <1>2, <1>3 DEF B
<1>5. /\ Front(t) \in Seq(Piece) /\ Len(Front(t)) = Len(t) - 1
      /\ Last(t) \in Piece /\ t = Append(Front(t), Last(t))
  BY <1>4, FrontAndLast
<1>6. Front(t) \notin B
  BY <1>3, <1>4, <1>5
<1> QED BY <1>4, <1>5, <1>6 DEF B, Texts

(* No word is a slash: path_t keeps the words of a text.                   *)
LEMMA NoWordIsSlash == "/" \notin Word
BY PathTextAssumption DEF Word, Current, SNAPSHOT_ENTRY

LEMMA NamesAreWords ==
  ASSUME NEW text \in Texts
  PROVE  path_t(text) \in Path
<1> DEFINE P == {t \in Texts : path_t(t) \in Path}
<1>1. P \in SUBSET Texts /\ <<>> \in P
  BY EmptyText, EmptyPath
<1>2. ASSUME NEW t \in Texts, NEW x \in Piece, t \in P PROVE Append(t, x) \in P
  <2>1. Append(t, x) \in Texts /\ path_t(Append(t, x)) = Cut(path_t(t), x)
    BY TextStep
  <2>2. CASE x = "/"
    BY <1>2, <2>1, <2>2 DEF Cut
  <2>3. CASE x # "/"
    BY <1>2, <2>1, <2>3, PathAppend DEF Cut, Piece
  <2> QED BY <2>2, <2>3
<1> HIDE DEF P
<1>3. P = Texts
  BY <1>1, <1>2, TextInduction
<1> QED BY <1>3 DEF P

(* The names of two texts, one after the other.                            *)
LEMMA NamesOfConcat ==
  ASSUME NEW s \in Texts, NEW text \in Texts
  PROVE  s \o text \in Texts /\ path_t(s \o text) = path_t(s) \o path_t(text)
<1> DEFINE P == {t \in Texts : path_t(s \o t) = path_t(s) \o path_t(t)}
<1>1. P \in SUBSET Texts
  OBVIOUS
<1>2. <<>> \in P
  <2>1. s \o <<>> = s /\ path_t(s) \o <<>> = path_t(s)
    BY NamesAreWords, ConcatEmptySeq DEF Texts, Path
  <2> QED BY <2>1, EmptyText
<1>3. ASSUME NEW t \in Texts, NEW x \in Piece, t \in P PROVE Append(t, x) \in P
  <2>1. Append(t, x) \in Texts /\ path_t(Append(t, x)) = Cut(path_t(t), x)
    BY TextStep
  <2>2. s \o Append(t, x) = Append(s \o t, x) /\ s \o t \in Texts
    BY ConcatOfAppend, ConcatProperties DEF Texts
  <2>3. path_t(s \o Append(t, x)) = Cut(path_t(s) \o path_t(t), x)
    BY <1>3, <2>2, TextStep
  <2>4. Cut(path_t(s) \o path_t(t), x) = path_t(s) \o Cut(path_t(t), x)
    <3>1. CASE x = "/"
      BY <3>1 DEF Cut
    <3>2. CASE x # "/"
      <4>1. path_t(s) \in Seq(Word) /\ path_t(t) \in Seq(Word) /\ x \in Word
        BY <3>2, NamesAreWords DEF Path, Piece
      <4>2. path_t(s) \o Append(path_t(t), x) = Append(path_t(s) \o path_t(t), x)
        BY <4>1, ConcatOfAppend
      <4> QED BY <3>2, <4>2 DEF Cut
    <3> QED BY <3>1, <3>2
  <2> QED BY <2>1, <2>3, <2>4
<1>4. s \o text \in Texts
  BY ConcatProperties DEF Texts
<1> HIDE DEF P
<1>5. P = Texts
  BY <1>1, <1>2, <1>3, TextInduction
<1> QED BY <1>4, <1>5 DEF P

(* to_string, place by place: slashes and names in turn.                   *)
LEMMA StringOfPath ==
  ASSUME NEW p \in Path
  PROVE  /\ to_string(p) \in Texts /\ Len(p) \in Nat /\ Len(to_string(p)) = 2 * Len(p)
         /\ \A j \in 1 .. Len(p) : to_string(p)[2 * j - 1] = "/" /\ to_string(p)[2 * j] = p[j]
<1> DEFINE m == Len(p)
           f == [k \in 1 .. 2 * m |-> IF k % 2 = 1 THEN "/" ELSE p[k \div 2]]
<1>1. m \in Nat /\ 2 * m \in Nat /\ \A j \in 1 .. m : p[j] \in Word
  BY DEF Path
<1> HIDE DEF m
<1>2. ASSUME NEW k \in 1 .. 2 * m PROVE f[k] \in Piece
  <2>1. CASE k % 2 = 1
    BY <2>1 DEF Piece
  <2>2. CASE k % 2 # 1
    <3>1. k \div 2 \in 1 .. m
      BY <1>1, <2>2
    <3> QED BY <1>1, <2>2, <3>1 DEF Piece
  <2> QED BY <2>1, <2>2
<1>3. f \in [1 .. 2 * m -> Piece]
  BY <1>2
<1>4. f \in Texts /\ Len(f) = 2 * m
  BY <1>1, <1>3 DEF Texts
<1>5. ASSUME NEW j \in 1 .. m PROVE f[2 * j - 1] = "/" /\ f[2 * j] = p[j]
  <2>1. /\ 2 * j - 1 \in 1 .. 2 * m /\ 2 * j \in 1 .. 2 * m
        /\ (2 * j - 1) % 2 = 1 /\ (2 * j) % 2 # 1 /\ (2 * j) \div 2 = j
    BY <1>1
  <2> QED BY <2>1
<1>6. to_string(p) = f
  BY DEF to_string, m
<1> HIDE DEF f
<1> QED BY <1>1, <1>4, <1>5, <1>6 DEF m

LEMMA StringOfAppend ==
  ASSUME NEW p \in Path, NEW n \in Word
  PROVE  to_string(Append(p, n)) = Append(Append(to_string(p), "/"), n)
<1> DEFINE q == Append(p, n)
           m == Len(p)
           a == to_string(q)
           b == to_string(p)
           c == Append(b, "/")
           d == Append(c, n)
<1>1. /\ q \in Path /\ m \in Nat /\ Len(q) = m + 1 /\ q[m + 1] = n
      /\ \A j \in 1 .. m : q[j] = p[j]
  BY AppendedName
<1> HIDE DEF q
<1>2. /\ a \in Texts /\ Len(a) = 2 * (m + 1)
      /\ \A j \in 1 .. m + 1 : a[2 * j - 1] = "/" /\ a[2 * j] = q[j]
  BY <1>1, StringOfPath
<1> HIDE DEF a, c, d
<1>3. /\ b \in Texts /\ Len(b) = 2 * m
      /\ \A j \in 1 .. m : b[2 * j - 1] = "/" /\ b[2 * j] = p[j]
  <2>1. b \in Texts /\ Len(b) = 2 * m
    BY StringOfPath
  <2>2. \A j \in 1 .. m : b[2 * j - 1] = "/" /\ b[2 * j] = p[j]
    BY StringOfPath
  <2> QED BY <2>1, <2>2
<1> HIDE DEF b
<1>4. "/" \in Piece /\ n \in Piece
  BY DEF Piece
<1>5. /\ c \in Seq(Piece) /\ Len(c) = Len(b) + 1 /\ c[Len(b) + 1] = "/"
      /\ \A i \in 1 .. Len(b) : c[i] = b[i]
  <2>1. b \in Seq(Piece) /\ "/" \in Piece
    BY <1>3, <1>4 DEF Texts
  <2> QED BY <2>1, AppendProperties DEF c
<1>6. /\ d \in Seq(Piece) /\ Len(d) = Len(c) + 1 /\ d[Len(c) + 1] = n
      /\ \A i \in 1 .. Len(c) : d[i] = c[i]
  BY <1>4, <1>5, AppendProperties DEF d
<1> HIDE DEF m
<1>7. Len(d) = 2 * m + 2 /\ Len(a) = 2 * m + 2 /\ Len(c) = 2 * m + 1 /\ Len(b) = 2 * m
  BY <1>1, <1>2, <1>3, <1>5, <1>6
<1>8. ASSUME NEW i \in 1 .. 2 * m + 2 PROVE a[i] = d[i]
  <2>1. CASE i = 2 * m + 2
    <3>1. m + 1 \in 1 .. m + 1 /\ 2 * (m + 1) = i
      BY <1>1, <2>1
    <3> QED BY <1>1, <1>2, <1>6, <1>7, <2>1, <3>1
  <2>2. CASE i = 2 * m + 1
    <3>1. m + 1 \in 1 .. m + 1 /\ 2 * (m + 1) - 1 = i /\ i \in 1 .. 2 * m + 1
      BY <1>1, <2>2
    <3>2. a[i] = "/"
      BY <1>2, <3>1
    <3>3. d[i] = c[i] /\ c[i] = "/"
      BY <1>5, <1>6, <1>7, <2>2, <3>1
    <3> QED BY <3>2, <3>3
  <2>3. CASE i \in 1 .. 2 * m
    <3>1. d[i] = c[i] /\ c[i] = b[i]
      BY <1>1, <1>5, <1>6, <1>7, <2>3
    <3>2. PICK j \in 1 .. m : i = 2 * j - 1 \/ i = 2 * j
      <4>1. CASE i % 2 = 1
        <5>1. (i + 1) \div 2 \in 1 .. m /\ i = 2 * ((i + 1) \div 2) - 1
          BY <1>1, <2>3, <4>1
        <5> QED BY <5>1
      <4>2. CASE i % 2 # 1
        <5>1. i \div 2 \in 1 .. m /\ i = 2 * (i \div 2)
          BY <1>1, <2>3, <4>2
        <5> QED BY <5>1
      <4> QED BY <4>1, <4>2
    <3>3. j \in 1 .. m + 1
      BY <1>1, <3>2
    <3>4. CASE i = 2 * j - 1
      <4>1. a[2 * j - 1] = "/" /\ b[2 * j - 1] = "/"
        BY <1>2, <1>3, <3>2, <3>3
      <4> QED BY <3>1, <3>4, <4>1
    <3>5. CASE i = 2 * j
      <4>1. a[2 * j] = q[j] /\ b[2 * j] = p[j] /\ q[j] = p[j]
        BY <1>1, <1>2, <1>3, <3>2, <3>3
      <4> QED BY <3>1, <3>5, <4>1
    <3> QED BY <3>2, <3>4, <3>5
  <2> QED BY <1>1, <2>1, <2>2, <2>3
<1>9. a = d
  BY <1>2, <1>6, <1>7, <1>8, SeqEqual DEF Texts
<1> QED BY <1>9 DEF a, b, c, d, q

(* path_t makes of to_string's text the names it was made of.              *)
LEMMA StringIsReadBack ==
  ASSUME NEW p \in Path
  PROVE  path_t(to_string(p)) = p
<1> DEFINE P == {q \in Path : path_t(to_string(q)) = q}
<1>1. P \in SUBSET Path
  OBVIOUS
<1>2. <<>> \in P
  <2>1. to_string(<<>>) = <<>>
    <3>1. to_string(<<>>) \in Seq(Piece) /\ Len(to_string(<<>>)) = 0
      BY EmptyPath, StringOfPath DEF Texts
    <3> QED BY <3>1
  <2> QED BY <2>1, EmptyPath, EmptyText
<1>3. ASSUME NEW q \in Path, q # <<>> /\ Front(q) \in P PROVE q \in P
  <2> DEFINE f == Front(q)
             n == Last(q)
             t == to_string(f)
  <2>1. f \in Path /\ n \in Word /\ q = Append(f, n) /\ path_t(t) = f
    BY <1>3, PathFront
  <2> HIDE DEF f, n
  <2>2. t \in Texts /\ "/" \in Piece /\ n \in Piece /\ n # "/"
    BY <2>1, StringOfPath, NoWordIsSlash DEF Piece
  <2>3. to_string(q) = Append(Append(t, "/"), n)
    BY <2>1, StringOfAppend
  <2> HIDE DEF t
  <2>4. Append(t, "/") \in Texts /\ path_t(Append(t, "/")) = f
    BY <2>1, <2>2, TextStep DEF Cut
  <2>5. path_t(Append(Append(t, "/"), n)) = Append(f, n)
    BY <2>2, <2>4, TextStep DEF Cut
  <2> QED BY <2>1, <2>3, <2>5
<1> HIDE DEF P
<1>4. P = Path
  BY <1>1, <1>2, <1>3, PathInduction
<1> QED BY <1>4 DEF P

(* ------------------------- paths of the worklist ----------------------- *)

(* The text of a path in the worklist: the root's is a slash.              *)
Text(p) == IF p = <<>> THEN Slash ELSE to_string(p)

LEMMA SlashIsText ==
  /\ Slash \in Texts /\ path_t(Slash) = <<>> /\ Slash = Append(<<>>, "/")
  /\ to_string(<<>>) = <<>>
<1>1. Slash = Append(<<>>, "/")
  BY DEF Slash
<1>2. Append(<<>>, "/") \in Texts /\ path_t(Append(<<>>, "/")) = Cut(path_t(<<>>), "/")
  BY EmptyText, TextStep DEF Piece
<1>3. to_string(<<>>) = <<>>
  <2>1. to_string(<<>>) \in Seq(Piece) /\ Len(to_string(<<>>)) = 0
    BY EmptyPath, StringOfPath DEF Texts
  <2> QED BY <2>1
<1> QED BY <1>1, <1>2, <1>3, EmptyText DEF Cut

LEMMA TextOfPath ==
  ASSUME NEW p \in Path
  PROVE  /\ Text(p) \in Texts /\ path_t(Text(p)) = p
         /\ Prefix(Text(p)) \in Texts /\ path_t(Prefix(Text(p))) = p
<1>1. Text(p) \in Texts /\ path_t(Text(p)) = p
  BY SlashIsText, StringOfPath, StringIsReadBack DEF Text
<1>2. CASE Text(p) = Slash
  BY <1>1, <1>2 DEF Prefix
<1>3. CASE Text(p) # Slash
  <2>1. /\ Text(p) \o Slash \in Texts
        /\ path_t(Text(p) \o Slash) = path_t(Text(p)) \o path_t(Slash)
    BY <1>1, SlashIsText, NamesOfConcat
  <2>2. p \o <<>> = p
    BY ConcatEmptySeq DEF Path
  <2> QED BY <1>1, <1>3, <2>1, <2>2, SlashIsText DEF Prefix
<1> QED BY <1>1, <1>2, <1>3

(* make_path_for_current_dentry: one more name behind a text is the text   *)
(* of the path with one more name.                                         *)
LEMMA ChildText ==
  ASSUME NEW p \in Path, NEW n \in Word
  PROVE  Append(Prefix(Text(p)), n) = Text(Append(p, n))
<1>1. Text(Append(p, n)) = Append(Append(to_string(p), "/"), n)
  BY StringOfAppend, PathAppend DEF Text
<1>2. CASE p = <<>>
  BY <1>1, <1>2, SlashIsText DEF Text, Prefix
<1>3. CASE p # <<>>
  <2>1. Text(p) = to_string(p) /\ to_string(p) \in Seq(Piece)
    BY <1>3, StringOfPath DEF Text, Texts
  <2>2. to_string(p) # Slash
    BY <1>3, SlashIsText, StringIsReadBack
  <2>3. Append(to_string(p), "/") = to_string(p) \o <<"/">>
    BY <2>1, AppendIsConcat DEF Piece
  <2> QED BY <1>1, <2>1, <2>2, <2>3 DEF Prefix, Slash
<1> QED BY <1>2, <1>3

(* A path that is joined with a snapshot is split into the two again.      *)
LEMMA SplitInSnapshot ==
  ASSUME NEW p \in Path, NEW v \in Word, v # Current
  PROVE  LET split == if_snapshot(make_path_with_version(Prefix(Text(p)), v))
         IN  ~split.throws /\ split.version = v /\ path_t(split.output) = p
<1> DEFINE e == <<SNAPSHOT_ENTRY, v>>
           t == Prefix(Text(p))
           text == to_string(e) \o t
           names == path_t(text)
<1>1. e \in Path /\ Len(e) = 2 /\ e[1] = SNAPSHOT_ENTRY /\ e[2] = v
  BY DEF Path, Word
<1>2. t \in Texts /\ path_t(t) = p
  BY TextOfPath
<1> HIDE DEF e, t
<1>3. to_string(e) \in Texts /\ path_t(to_string(e)) = e
  BY <1>1, StringOfPath, StringIsReadBack
<1>4. names = e \o p
  BY <1>2, <1>3, NamesOfConcat
<1>5. make_path_with_version(t, v) = text
  BY DEF make_path_with_version, e
<1> HIDE DEF text, names
<1>6. /\ names \in Seq(Word) /\ Len(names) = Len(e) + Len(p) /\ Len(p) \in Nat
      /\ \A i \in 1 .. Len(e) + Len(p) : names[i] = IF i <= Len(e) THEN e[i] ELSE p[i - Len(e)]
  <2>1. e \in Seq(Word) /\ p \in Seq(Word) /\ Len(p) \in Nat
    BY <1>1 DEF Path
  <2>2. /\ e \o p \in Seq(Word) /\ Len(e \o p) = Len(e) + Len(p)
        /\ \A i \in 1 .. Len(e) + Len(p) : (e \o p)[i] = IF i <= Len(e) THEN e[i] ELSE p[i - Len(e)]
    BY <2>1, ConcatProperties
  <2> QED BY <1>4, <2>1, <2>2
<1>7. /\ names # <<>> /\ Len(names) # 1 /\ names[1] = SNAPSHOT_ENTRY /\ names[2] = v
  BY <1>1, <1>6
<1>8. SubSeq(names, 3, Len(names)) = p
  <2>1. Rest(e, e \o p) = p
    BY <1>1, PathConcat
  <2> QED BY <1>1, <1>4, <2>1 DEF Rest
<1>9. Head(names) = SNAPSHOT_ENTRY
  BY <1>6, <1>7
<1>10. if_snapshot(text) = [throws |-> FALSE, version |-> v, output |-> to_string(p)]
  BY <1>7, <1>8, <1>9 DEF if_snapshot, names
<1> QED BY <1>5, <1>10, StringIsReadBack DEF t

(* A path of version current is taken as it is, but for /.snapshot.        *)
LEMMA SplitInCurrent ==
  ASSUME NEW p \in Path
  PROVE  LET split == if_snapshot(make_path_with_version(Prefix(Text(p)), Current))
         IN  /\ ~Below(p) => ~split.throws /\ split.version = Current /\ path_t(split.output) = p
             /\ p = SnapshotRoot => split.throws
<1> DEFINE t == Prefix(Text(p))
<1>1. t \in Texts /\ path_t(t) = p /\ make_path_with_version(t, Current) = t
  BY TextOfPath DEF make_path_with_version
<1> HIDE DEF t
<1>2. ASSUME ~Below(p)
      PROVE  if_snapshot(t) = [throws |-> FALSE, version |-> Current, output |-> t]
  BY <1>1, <1>2 DEF if_snapshot, Below
<1>3. ASSUME p = SnapshotRoot PROVE if_snapshot(t).throws
  <2>1. p # <<>> /\ Head(p) = SNAPSHOT_ENTRY /\ Len(p) = 1
    BY <1>3 DEF SnapshotRoot
  <2> QED BY <1>1, <2>1 DEF if_snapshot
<1> QED BY <1>1, <1>2, <1>3 DEF t

(* What the walk finds at a path of its worklist: what is there in the     *)
(* version it walks, and nothing at a /.snapshot of version current.       *)
LEMMA LookedUp ==
  ASSUME NEW smi, NEW v \in DOMAIN smi.lists, v \in Word, NEW p \in Path
  PROVE  LET split == if_snapshot(make_path_with_version(Prefix(Text(p)), v))
             id    == LookUp(smi, split, path_t(split.output))
         IN  /\ v # Current \/ ~Below(p) => id = Resolve(smi, v, p)
             /\ v = Current /\ p = SnapshotRoot => id = Nowhere
<1> DEFINE text == make_path_with_version(Prefix(Text(p)), v)
           split == if_snapshot(text)
<1>1. /\ v # Current \/ ~Below(p) => ~split.throws /\ split.version = v /\ path_t(split.output) = p
      /\ v = Current /\ p = SnapshotRoot => split.throws
  BY SplitInSnapshot, SplitInCurrent
<1> HIDE DEF text
<1> QED BY <1>1 DEF LookUp, text

(* ------------------------ paths above each other ----------------------- *)

LEMMA PrefixOfPrefix ==
  ASSUME NEW p \in Path, NEW q \in Path, NEW r \in Path, IsPrefix(p, q), IsPrefix(q, r)
  PROVE  IsPrefix(p, r)
<1> DEFINE P == {x \in Path : IsPrefix(q, x) => IsPrefix(p, x)}
<1>1. P \in SUBSET Path
  OBVIOUS
<1>2. <<>> \in P
  BY EmptyPath, PathPrefix
<1>3. ASSUME NEW x \in Path, x # <<>> /\ Front(x) \in P PROVE x \in P
  <2>1. Front(x) \in Path
    BY <1>3, PathFront
  <2>2. IsPrefix(q, x) => IsPrefix(q, Front(x)) \/ q = x
    BY <1>3, PathPrefix
  <2>3. IsPrefix(p, Front(x)) => IsPrefix(p, x)
    BY <1>3, PathPrefix
  <2> QED BY <1>3, <2>2, <2>3
<1> HIDE DEF P
<1>4. P = Path
  BY <1>1, <1>2, <1>3, PathInduction
<1> QED BY <1>4 DEF P

(* A path and a child of it: what is above the one and above the other.    *)
LEMMA ChildPrefix ==
  ASSUME NEW d \in Path, NEW c \in Path, c # <<>>, Front(c) = d
  PROVE  /\ IsPrefix(d, c) /\ ~IsPrefix(c, d) /\ d # c
         /\ \A p \in Path : IsPrefix(p, c) => IsPrefix(p, d) \/ p = c
         /\ \A p \in Path : IsPrefix(c, p) => IsStrictPrefix(d, p)
<1>1. Len(c) \in Nat /\ Len(d) = Len(c) - 1
  BY PathFront
<1>2. IsPrefix(d, c) /\ (\A p \in Path : IsPrefix(p, c) => IsPrefix(p, d) \/ p = c)
  BY PathPrefix
<1>3. ~IsPrefix(c, d) /\ d # c
  BY <1>1 DEF IsPrefix
<1>4. ASSUME NEW p \in Path, IsPrefix(c, p) PROVE IsStrictPrefix(d, p)
  <2>1. IsPrefix(d, p)
    BY <1>2, <1>4, PrefixOfPrefix
  <2> QED BY <1>3, <1>4, <2>1 DEF IsStrictPrefix
<1> QED BY <1>2, <1>3, <1>4

(* Whatever is below a path is below a child of it, or is one.             *)
LEMMA ChildTowards ==
  ASSUME NEW d \in Path, NEW p \in Path, IsStrictPrefix(d, p)
  PROVE  \E c \in Path : c # <<>> /\ Front(c) = d /\ IsPrefix(c, p)
<1> DEFINE Leads(x) == \E c \in Path : c # <<>> /\ Front(c) = d /\ IsPrefix(c, x)
           P == {x \in Path : IsStrictPrefix(d, x) => Leads(x)}
<1>1. P \in SUBSET Path
  OBVIOUS
<1>2. <<>> \in P
  <2>1. ~IsStrictPrefix(d, <<>>)
    BY EmptyPath, PathPrefix DEF IsStrictPrefix
  <2> QED BY <2>1, EmptyPath
<1>3. ASSUME NEW x \in Path, x # <<>> /\ Front(x) \in P PROVE x \in P
  <2> SUFFICES ASSUME IsStrictPrefix(d, x) PROVE Leads(x)
    OBVIOUS
  <2>1. IsPrefix(d, Front(x)) /\ Front(x) \in Path
    BY <1>3, PathPrefix, PathFront DEF IsStrictPrefix
  <2>2. CASE d = Front(x)
    BY <1>3, <2>2, PathPrefix
  <2>3. CASE d # Front(x)
    <3>1. PICK c \in Path : c # <<>> /\ Front(c) = d /\ IsPrefix(c, Front(x))
      BY <1>3, <2>1, <2>3 DEF IsStrictPrefix
    <3>2. IsPrefix(c, x)
      BY <1>3, <3>1, PathPrefix
    <3> QED BY <3>1, <3>2
  <2> QED BY <2>2, <2>3
<1> HIDE DEF P
<1>4. P = Path
  BY <1>1, <1>2, <1>3, PathInduction
<1> QED BY <1>4 DEF P

(* ------------------------- steps of the worklist ----------------------- *)

(* The places of a sequence that is put together.                          *)
LEMMA ConcatPlaces ==
  ASSUME NEW S, NEW s \in Seq(S), NEW t \in Seq(S)
  PROVE  /\ s \o t \in Seq(S)
         /\ \A k \in DOMAIN s : k \in DOMAIN (s \o t) /\ (s \o t)[k] = s[k]
         /\ \A i \in DOMAIN t : Len(s) + i \in DOMAIN (s \o t) /\ (s \o t)[Len(s) + i] = t[i]
         /\ \A k \in DOMAIN (s \o t) : k \in DOMAIN s \/ \E i \in DOMAIN t : k = Len(s) + i
<1> DEFINE u == s \o t
<1>1. /\ u \in Seq(S) /\ Len(u) = Len(s) + Len(t) /\ Len(s) \in Nat /\ Len(t) \in Nat
      /\ \A i \in 1 .. Len(s) + Len(t) : u[i] = IF i <= Len(s) THEN s[i] ELSE t[i - Len(s)]
      /\ DOMAIN s = 1 .. Len(s) /\ DOMAIN t = 1 .. Len(t)
  BY ConcatProperties
<1> HIDE DEF u
<1>2. DOMAIN u = 1 .. Len(s) + Len(t)
  BY <1>1
<1>3. ASSUME NEW k \in DOMAIN s PROVE k \in DOMAIN u /\ u[k] = s[k]
  BY <1>1, <1>2
<1>4. ASSUME NEW i \in DOMAIN t PROVE Len(s) + i \in DOMAIN u /\ u[Len(s) + i] = t[i]
  <2>1. /\ Len(s) + i \in 1 .. Len(s) + Len(t) /\ ~(Len(s) + i <= Len(s))
        /\ (Len(s) + i) - Len(s) = i
    BY <1>1
  <2> QED BY <1>1, <1>2, <2>1
<1>5. ASSUME NEW k \in DOMAIN u, k \notin DOMAIN s PROVE \E i \in DOMAIN t : k = Len(s) + i
  <2>1. k - Len(s) \in DOMAIN t /\ k = Len(s) + (k - Len(s))
    BY <1>1, <1>2, <1>5
  <2> QED BY <2>1
<1> QED BY <1>1, <1>3, <1>4, <1>5 DEF u

LEMMA TailPlaces ==
  ASSUME NEW S, NEW s \in Seq(S), s # <<>>
  PROVE  /\ Tail(s) \in Seq(S) /\ 1 \in DOMAIN s /\ Head(s) = s[1]
         /\ \A i \in DOMAIN Tail(s) : i \in Nat \ {0} /\ i + 1 \in DOMAIN s /\ Tail(s)[i] = s[i + 1]
         /\ \A k \in DOMAIN s : k # 1 => k - 1 \in DOMAIN Tail(s) /\ Tail(s)[k - 1] = s[k]
<1>1. /\ Tail(s) \in Seq(S) /\ Len(s) \in Nat /\ Len(s) > 0 /\ Len(Tail(s)) = Len(s) - 1
      /\ DOMAIN s = 1 .. Len(s) /\ DOMAIN Tail(s) = 1 .. Len(s) - 1
      /\ \A i \in 1 .. Len(s) - 1 : Tail(s)[i] = s[i + 1]
  OBVIOUS
<1>2. Head(s) = s[1]
  OBVIOUS
<1>3. ASSUME NEW k \in DOMAIN s, k # 1 PROVE k - 1 \in DOMAIN Tail(s) /\ Tail(s)[k - 1] = s[k]
  <2>1. k - 1 \in 1 .. Len(s) - 1 /\ (k - 1) + 1 = k
    BY <1>1, <1>3
  <2> QED BY <1>1, <2>1
<1> QED BY <1>1, <1>2, <1>3

Paths == Seq(Path)

Found(v, p) == Resolve(Smi, v, p) # Nowhere

(* The paths in the worklist and in the map lead somewhere, and the map    *)
(* does not name the root.                                                 *)
AreFound(v, D, M) ==
  /\ \A k \in DOMAIN D : Found(v, D[k])
  /\ \A k \in DOMAIN M : M[k] # <<>> /\ Found(v, M[k])

(* No path of version current is looked up below its own /.snapshot.       *)
AreParsable(v, D) ==
  v = Current => \A k \in DOMAIN D : Below(D[k]) => D[k] = SnapshotRoot

(* What is found is in the map, or will be found below the worklist.       *)
Cover(v, D, M) ==
  \A p \in Path : p # <<>> /\ Found(v, p) =>
    \/ \E k \in DOMAIN M : M[k] = p
    \/ \E k \in DOMAIN D : IsStrictPrefix(D[k], p)

(* No path of the worklist is in another's subtree, and nothing in theirs  *)
(* is in the map.                                                          *)
AreApart(D, M) ==
  /\ \A j, k \in DOMAIN D : IsPrefix(D[j], D[k]) => j = k
  /\ \A k \in DOMAIN D, j \in DOMAIN M : ~IsStrictPrefix(D[k], M[j])

(* In the map a directory stands before what is in it, and all paths once. *)
ParentsFirst(M) == \A j, k \in DOMAIN M : IsPrefix(M[j], M[k]) => j <= k

WalksTree(v, D, M) ==
  /\ AreFound(v, D, M)
  /\ AreParsable(v, D)
  /\ Cover(v, D, M)
  /\ AreApart(D, M)
  /\ ParentsFirst(M)

(* The paths in a directory, each once.                                    *)
IsChildren(C, v, d) ==
  /\ \A k \in DOMAIN C : C[k] # <<>> /\ Front(C[k]) = d /\ Found(v, C[k])
  /\ \A p \in Path : p # <<>> /\ Front(p) = d /\ Found(v, p) => \E k \in DOMAIN C : C[k] = p
  /\ \A j, k \in DOMAIN C : C[j] = C[k] => j = k

(* The worklist and the map after a visit.                                 *)
ListAfter(D, C) == C \o Tail(D)
MapAfter(M, C) == M \o C

(* The worklist after a visit: the children, and all but the first path.   *)
LEMMA PendingPlaces ==
  ASSUME NEW D \in Paths, D # <<>>, NEW C \in Paths
  PROVE  LET E == ListAfter(D, C)
         IN  /\ E \in Paths /\ D[1] \in Path /\ 1 \in DOMAIN D
             /\ \A i \in DOMAIN C : i \in DOMAIN E /\ E[i] = C[i] /\ C[i] \in Path
             /\ \A i \in DOMAIN D : i # 1 => D[i] \in Path /\ \E k \in DOMAIN E : E[k] = D[i]
             /\ \A k \in DOMAIN E : \/ k \in DOMAIN C
                                    \/ \E i \in DOMAIN D : /\ i # 1 /\ k = Len(C) + (i - 1)
                                                           /\ E[k] = D[i]
<1> DEFINE t == Tail(D)
           E == C \o t
<1>1. /\ t \in Paths /\ 1 \in DOMAIN D
      /\ \A i \in DOMAIN t : i \in Nat \ {0} /\ i + 1 \in DOMAIN D /\ t[i] = D[i + 1]
      /\ \A k \in DOMAIN D : k # 1 => k - 1 \in DOMAIN t /\ t[k - 1] = D[k]
  BY TailPlaces DEF Paths
<1> HIDE DEF t
<1>2. /\ E \in Paths
      /\ \A k \in DOMAIN C : k \in DOMAIN E /\ E[k] = C[k]
      /\ \A i \in DOMAIN t : Len(C) + i \in DOMAIN E /\ E[Len(C) + i] = t[i]
      /\ \A k \in DOMAIN E : k \in DOMAIN C \/ \E i \in DOMAIN t : k = Len(C) + i
  BY <1>1, ConcatPlaces DEF Paths
<1> HIDE DEF E
<1>3. (\A i \in DOMAIN D : D[i] \in Path) /\ (\A i \in DOMAIN C : C[i] \in Path)
  BY DEF Paths
<1>4. ASSUME NEW i \in DOMAIN D, i # 1 PROVE \E k \in DOMAIN E : E[k] = D[i]
  BY <1>1, <1>2, <1>4
<1>5. ASSUME NEW k \in DOMAIN E, k \notin DOMAIN C
      PROVE  \E i \in DOMAIN D : i # 1 /\ k = Len(C) + (i - 1) /\ E[k] = D[i]
  <2>1. PICK i \in DOMAIN t : k = Len(C) + i
    BY <1>2, <1>5
  <2>2. i \in Nat \ {0} /\ i + 1 \in DOMAIN D /\ E[k] = D[i + 1]
    BY <1>1, <1>2, <2>1
  <2>3. i + 1 # 1 /\ (i + 1) - 1 = i
    BY <2>2
  <2> QED BY <2>1, <2>2, <2>3
<1> QED BY <1>1, <1>2, <1>3, <1>4, <1>5 DEF E, t, ListAfter

(* The place of a sequence's i-th element behind another sequence.          *)
Behind(s, i) == Len(s) + i

(* The map after a visit: what it had, and the children.                   *)
LEMMA ListedPlaces ==
  ASSUME NEW M \in Paths, NEW C \in Paths
  PROVE  LET N == MapAfter(M, C)
         IN  /\ N \in Paths /\ Len(M) \in Nat
             /\ \A k \in DOMAIN M : k \in DOMAIN N /\ N[k] = M[k] /\ M[k] \in Path /\ k \in Nat
                                    /\ k <= Len(M)
             /\ \A i \in DOMAIN C : Behind(M, i) \in DOMAIN N /\ N[Behind(M, i)] = C[i]
                                    /\ i \in Nat \ {0}
             /\ \A k \in DOMAIN N : k \in DOMAIN M \/ \E i \in DOMAIN C : k = Behind(M, i)
<1>1. /\ Len(M) \in Nat /\ (\A k \in DOMAIN M : M[k] \in Path /\ k \in Nat /\ k <= Len(M))
      /\ \A i \in DOMAIN C : i \in Nat \ {0}
  BY DEF Paths
<1> QED BY <1>1, ConcatPlaces DEF Paths, Behind, MapAfter

(* Two children of a directory are never above each other.                 *)
LEMMA ChildrenApart ==
  ASSUME NEW v, NEW d \in Path, NEW C \in Paths, IsChildren(C, v, d)
  PROVE  \A j, k \in DOMAIN C : IsPrefix(C[j], C[k]) => j = k
<1> TAKE j, k \in DOMAIN C
<1> HAVE IsPrefix(C[j], C[k])
<1>1. /\ C[j] \in Path /\ C[j] # <<>> /\ Front(C[j]) = d
      /\ C[k] \in Path /\ C[k] # <<>> /\ Front(C[k]) = d
  BY DEF IsChildren, Paths
<1>2. IsPrefix(C[j], d) \/ C[j] = C[k]
  BY <1>1, ChildPrefix
<1>3. ~IsPrefix(C[j], d)
  BY <1>1, ChildPrefix
<1> QED BY <1>2, <1>3 DEF IsChildren

(* The only child of a path of version current that is below /.snapshot is *)
(* /.snapshot.                                                             *)
LEMMA BelowByChild ==
  ASSUME NEW d \in Path, ~Below(d), NEW c \in Path, c # <<>>, Front(c) = d, Below(c)
  PROVE  c = SnapshotRoot
<1> DEFINE n == Last(c)
<1>1. n \in Word /\ c = Append(d, n)
  BY PathFront
<1>2. /\ Len(d) \in Nat /\ Len(c) = Len(d) + 1 /\ c[Len(d) + 1] = n
      /\ \A i \in 1 .. Len(d) : c[i] = d[i]
  BY <1>1, AppendedName
<1>3. c[1] = SNAPSHOT_ENTRY
  BY DEF Below
<1>4. CASE d = <<>>
  <2>1. Len(c) = 1
    BY <1>2, <1>4
  <2>2. c = <<c[1]>>
    BY <2>1 DEF Path
  <2> QED BY <1>3, <2>2 DEF SnapshotRoot
<1>5. CASE d # <<>>
  <2>1. 1 \in 1 .. Len(d) /\ Head(d) = d[1]
    BY <1>2, <1>5 DEF Path
  <2> QED BY <1>2, <1>3, <1>5, <2>1 DEF Below
<1> QED BY <1>4, <1>5

(* A visit keeps what holds of the worklist and the map: one lemma each.   *)
LEMMA VisitKeepsFound ==
  ASSUME NEW v, NEW D \in Paths, NEW M \in Paths, D # <<>>, AreFound(v, D, M),
         NEW C \in Paths, IsChildren(C, v, D[1])
  PROVE  AreFound(v, ListAfter(D, C), MapAfter(M, C))
<1> DEFINE E == ListAfter(D, C)
           N == MapAfter(M, C)
<1>1. ASSUME NEW k \in DOMAIN E PROVE Found(v, E[k])
  <2>1. CASE k \in DOMAIN C
    BY <2>1, PendingPlaces DEF IsChildren
  <2>2. CASE k \notin DOMAIN C
    <3>1. PICK i \in DOMAIN D : E[k] = D[i]
      BY <2>2, PendingPlaces
    <3> QED BY <3>1 DEF AreFound
  <2> QED BY <2>1, <2>2
<1>2. ASSUME NEW k \in DOMAIN N PROVE N[k] # <<>> /\ Found(v, N[k])
  <2>1. CASE k \in DOMAIN M
    BY <2>1, ListedPlaces DEF AreFound
  <2>2. CASE k \notin DOMAIN M
    <3>1. PICK i \in DOMAIN C : N[k] = C[i]
      BY <2>2, ListedPlaces
    <3> QED BY <3>1 DEF IsChildren
  <2> QED BY <2>1, <2>2
<1> HIDE DEF E, N
<1>3. AreFound(v, E, N)
  BY <1>1, <1>2 DEF AreFound
<1> QED BY <1>3 DEF E, N

LEMMA VisitKeepsParsable ==
  ASSUME NEW v, NEW D \in Paths, D # <<>>, AreParsable(v, D), v = Current => ~Below(D[1]),
         NEW C \in Paths, IsChildren(C, v, D[1])
  PROVE  AreParsable(v, ListAfter(D, C))
<1> DEFINE E == ListAfter(D, C)
<1>1. ASSUME v = Current, NEW k \in DOMAIN E, Below(E[k]) PROVE E[k] = SnapshotRoot
  <2>1. CASE k \in DOMAIN C
    <3>1. E[k] = C[k] /\ C[k] \in Path /\ D[1] \in Path
      BY <2>1, PendingPlaces
    <3>2. C[k] # <<>> /\ Front(C[k]) = D[1]
      BY <2>1 DEF IsChildren
    <3> HIDE DEF E
    <3> QED BY <1>1, <3>1, <3>2, BelowByChild
  <2>2. CASE k \notin DOMAIN C
    <3>1. PICK i \in DOMAIN D : E[k] = D[i]
      BY <2>2, PendingPlaces
    <3> HIDE DEF E
    <3> QED BY <1>1, <3>1 DEF AreParsable
  <2> QED BY <2>1, <2>2
<1> HIDE DEF E
<1>2. AreParsable(v, E)
  BY <1>1 DEF AreParsable
<1> QED BY <1>2 DEF E

LEMMA VisitKeepsCover ==
  ASSUME NEW v, IsForest(Smi, v), NEW D \in Paths, NEW M \in Paths, D # <<>>, Cover(v, D, M),
         NEW C \in Paths, IsChildren(C, v, D[1])
  PROVE  Cover(v, ListAfter(D, C), MapAfter(M, C))
<1> DEFINE E == ListAfter(D, C)
           N == MapAfter(M, C)
           d == D[1]
<1>1. /\ d \in Path
      /\ \A k \in DOMAIN M : k \in DOMAIN N /\ N[k] = M[k]
      /\ \A i \in DOMAIN C : Behind(M, i) \in DOMAIN N /\ N[Behind(M, i)] = C[i]
      /\ \A i \in DOMAIN C : i \in DOMAIN E /\ E[i] = C[i]
      /\ \A i \in DOMAIN D : i # 1 => \E k \in DOMAIN E : E[k] = D[i]
  BY PendingPlaces, ListedPlaces
<1> HIDE DEF E, N
<1>2. SUFFICES ASSUME NEW p \in Path, p # <<>>, Found(v, p)
               PROVE  \/ \E k \in DOMAIN N : N[k] = p
                      \/ \E k \in DOMAIN E : IsStrictPrefix(E[k], p)
  BY DEF Cover, E, N
<1>3. CASE \E k \in DOMAIN M : M[k] = p
  BY <1>1, <1>3
<1>4. ASSUME NEW k \in DOMAIN D, IsStrictPrefix(D[k], p), k # 1
      PROVE  \E j \in DOMAIN E : IsStrictPrefix(E[j], p)
  BY <1>1, <1>4
<1>5. CASE IsStrictPrefix(d, p)
  <2>1. PICK c \in Path : c # <<>> /\ Front(c) = d /\ IsPrefix(c, p)
    BY <1>1, <1>5, ChildTowards
  <2>2. Found(v, c)
    BY <1>2, <2>1, ResolvePrefix DEF Found
  <2>3. PICK i \in DOMAIN C : C[i] = c
    BY <2>1, <2>2 DEF IsChildren
  <2>4. CASE c = p
    BY <1>1, <2>3, <2>4
  <2>5. CASE c # p
    BY <1>1, <2>1, <2>3, <2>5 DEF IsStrictPrefix
  <2> QED BY <2>4, <2>5
<1> QED BY <1>2, <1>3, <1>4, <1>5 DEF Cover

LEMMA VisitKeepsParents ==
  ASSUME NEW v, NEW D \in Paths, NEW M \in Paths, D # <<>>, AreApart(D, M), ParentsFirst(M),
         NEW C \in Paths, IsChildren(C, v, D[1])
  PROVE  ParentsFirst(MapAfter(M, C))
<1> DEFINE N == MapAfter(M, C)
           d == D[1]
<1>1. /\ Len(M) \in Nat
      /\ \A k \in DOMAIN M : N[k] = M[k] /\ M[k] \in Path /\ k \in Nat /\ k <= Len(M)
      /\ \A i \in DOMAIN C : N[Behind(M, i)] = C[i] /\ i \in Nat \ {0}
      /\ \A k \in DOMAIN N : k \in DOMAIN M \/ \E i \in DOMAIN C : k = Behind(M, i)
  BY ListedPlaces
<1>2. d \in Path /\ 1 \in DOMAIN D /\ \A i \in DOMAIN C : C[i] \in Path
  BY PendingPlaces
<1> HIDE DEF N
<1>3. ASSUME NEW j \in DOMAIN N, NEW k \in DOMAIN N, IsPrefix(N[j], N[k]) PROVE j <= k
  <2>1. CASE j \in DOMAIN M /\ k \in DOMAIN M
    BY <1>1, <1>3, <2>1 DEF ParentsFirst
  <2>2. ASSUME j \in DOMAIN M, NEW i \in DOMAIN C, k = Behind(M, i) PROVE j <= k
    BY <1>1, <2>2 DEF Behind
  <2>3. ASSUME NEW i \in DOMAIN C, j = Behind(M, i), k \in DOMAIN M PROVE FALSE
    <3>1. IsPrefix(C[i], M[k])
      BY <1>1, <1>3, <2>3
    <3>2. IsStrictPrefix(d, M[k])
      BY <1>1, <1>2, <2>3, <3>1, ChildPrefix DEF IsChildren
    <3> QED BY <1>2, <2>3, <3>2 DEF AreApart
  <2>4. ASSUME NEW i \in DOMAIN C, j = Behind(M, i), NEW h \in DOMAIN C, k = Behind(M, h)
        PROVE  j <= k
    <3>1. IsPrefix(C[i], C[h])
      BY <1>1, <1>3, <2>4
    <3>2. i = h
      BY <1>2, <3>1, ChildrenApart
    <3> QED BY <1>1, <2>4, <3>2 DEF Behind
  <2> QED BY <1>1, <2>1, <2>2, <2>3, <2>4
<1> QED BY <1>3 DEF ParentsFirst, N

LEMMA VisitKeepsApart ==
  ASSUME NEW v, NEW D \in Paths, NEW M \in Paths, D # <<>>, AreApart(D, M),
         NEW C \in Paths, IsChildren(C, v, D[1])
  PROVE  AreApart(ListAfter(D, C), MapAfter(M, C))
<1> DEFINE E == ListAfter(D, C)
           N == MapAfter(M, C)
           d == D[1]
<1>1. /\ d \in Path /\ 1 \in DOMAIN D
      /\ \A i \in DOMAIN C : E[i] = C[i] /\ C[i] \in Path
      /\ \A i \in DOMAIN D : i # 1 => D[i] \in Path
      /\ \A k \in DOMAIN E : \/ k \in DOMAIN C
                             \/ \E i \in DOMAIN D : /\ i # 1 /\ k = Len(C) + (i - 1)
                                                    /\ E[k] = D[i]
  BY PendingPlaces
<1>2. /\ \A k \in DOMAIN M : N[k] = M[k] /\ M[k] \in Path
      /\ \A k \in DOMAIN N : k \in DOMAIN M \/ \E i \in DOMAIN C : N[k] = C[i]
  BY ListedPlaces
<1> HIDE DEF E, N
<1>3. \A i \in DOMAIN C :
        /\ C[i] \in Path /\ IsPrefix(d, C[i]) /\ ~IsPrefix(C[i], d) /\ d # C[i]
        /\ \A p \in Path : IsPrefix(p, C[i]) => IsPrefix(p, d) \/ p = C[i]
        /\ \A p \in Path : IsPrefix(C[i], p) => IsStrictPrefix(d, p)
  <2> TAKE i \in DOMAIN C
  <2>1. C[i] \in Path /\ C[i] # <<>> /\ Front(C[i]) = d
    BY <1>1 DEF IsChildren
  <2> QED BY <1>1, <2>1, ChildPrefix
<1>4. ASSUME NEW i \in DOMAIN D, i # 1 PROVE ~IsPrefix(d, D[i]) /\ ~IsPrefix(D[i], d)
  BY <1>1, <1>4 DEF AreApart
<1>5. \A i, j \in DOMAIN C : IsPrefix(C[i], C[j]) => i = j
  BY <1>1, ChildrenApart
<1>6. ASSUME NEW i \in DOMAIN C, NEW j \in DOMAIN D, j # 1
      PROVE  ~IsPrefix(C[i], D[j]) /\ ~IsPrefix(D[j], C[i])
  <2>1. D[j] \in Path
    BY <1>1, <1>6
  <2>2. ~IsPrefix(C[i], D[j])
    BY <1>3, <1>4, <1>6, <2>1 DEF IsStrictPrefix
  <2>3. ~IsPrefix(D[j], C[i])
    BY <1>3, <1>4, <1>6, <2>1
  <2> QED BY <2>2, <2>3
<1>7. ASSUME NEW j \in DOMAIN E, NEW k \in DOMAIN E, IsPrefix(E[j], E[k]) PROVE j = k
  <2>1. CASE j \in DOMAIN C /\ k \in DOMAIN C
    BY <1>1, <1>5, <1>7, <2>1
  <2>2. CASE j \in DOMAIN C /\ k \notin DOMAIN C
    BY <1>1, <1>6, <1>7, <2>2
  <2>3. CASE j \notin DOMAIN C /\ k \in DOMAIN C
    BY <1>1, <1>6, <1>7, <2>3
  <2>4. CASE j \notin DOMAIN C /\ k \notin DOMAIN C
    <3>1. PICK i \in DOMAIN D : i # 1 /\ j = Len(C) + (i - 1) /\ E[j] = D[i]
      BY <1>1, <2>4
    <3>2. PICK h \in DOMAIN D : h # 1 /\ k = Len(C) + (h - 1) /\ E[k] = D[h]
      BY <1>1, <2>4
    <3>3. i = h
      BY <1>7, <3>1, <3>2 DEF AreApart
    <3> QED BY <3>1, <3>2, <3>3
  <2> QED BY <2>1, <2>2, <2>3, <2>4
<1>8. ASSUME NEW k \in DOMAIN E, NEW j \in DOMAIN N PROVE ~IsStrictPrefix(E[k], N[j])
  <2>1. CASE k \in DOMAIN C /\ j \in DOMAIN M
    <3>1. ~IsStrictPrefix(d, M[j])
      BY <1>1, <2>1 DEF AreApart
    <3>2. ~IsPrefix(C[k], M[j])
      BY <1>2, <1>3, <2>1, <3>1
    <3> QED BY <1>1, <1>2, <2>1, <3>2 DEF IsStrictPrefix
  <2>2. CASE k \in DOMAIN C /\ j \notin DOMAIN M
    <3>1. PICK i \in DOMAIN C : N[j] = C[i]
      BY <1>2, <2>2
    <3> QED BY <1>1, <1>5, <2>2, <3>1 DEF IsStrictPrefix
  <2>3. CASE k \notin DOMAIN C
    <3>1. PICK h \in DOMAIN D : h # 1 /\ E[k] = D[h]
      BY <1>1, <2>3
    <3>2. CASE j \in DOMAIN M
      BY <1>2, <3>1, <3>2 DEF AreApart
    <3>3. CASE j \notin DOMAIN M
      <4>1. PICK i \in DOMAIN C : N[j] = C[i]
        BY <1>2, <3>3
      <4> QED BY <1>6, <3>1, <4>1 DEF IsStrictPrefix
    <3> QED BY <3>2, <3>3
  <2> QED BY <2>1, <2>2, <2>3
<1>9. AreApart(E, N)
  BY <1>7, <1>8 DEF AreApart
<1> QED BY <1>9 DEF E, N

LEMMA VisitKeepsTree ==
  ASSUME NEW v, IsForest(Smi, v), NEW D \in Paths, NEW M \in Paths, D # <<>>,
         WalksTree(v, D, M), v = Current => ~Below(D[1]),
         NEW C \in Paths, IsChildren(C, v, D[1])
  PROVE  /\ C \o Tail(D) \in Paths /\ M \o C \in Paths
         /\ WalksTree(v, C \o Tail(D), M \o C)
<1>1. ListAfter(D, C) \in Paths /\ MapAfter(M, C) \in Paths
  BY PendingPlaces, ListedPlaces
<1>2. WalksTree(v, ListAfter(D, C), MapAfter(M, C))
  BY VisitKeepsFound, VisitKeepsParsable, VisitKeepsCover, VisitKeepsParents, VisitKeepsApart
     DEF WalksTree
<1> QED BY <1>1, <1>2 DEF ListAfter, MapAfter

(* ------------------------- a directory in order ------------------------ *)

(* A finite set in some order: every element has one place.                *)
LEMMA InSomeOrder ==
  ASSUME NEW S, IsFiniteSet(S), NEW f \in SetToSeqs(S)
  PROVE  /\ f \in Seq(S)
         /\ \A i, j \in DOMAIN f : f[i] = f[j] => i = j
         /\ \A x \in S : \E i \in DOMAIN f : f[i] = x
<1> DEFINE n == Cardinality(S)
           D == 1 .. n
<1>1. n \in Nat
  BY FS_CardinalityType
<1>2. f \in [D -> S] /\ \A i, j \in D : i # j => f[i] # f[j]
  BY DEF SetToSeqs
<1>3. f \in Injection(D, S)
  BY <1>2 DEF Injection, IsInjective
<1>4. Cardinality(D) = n
  BY <1>1, FS_Interval
<1>5. f \in Surjection(D, S)
  BY <1>3, <1>4, FS_Injection
<1> HIDE DEF n
<1>6. \A x \in S : \E i \in D : f[i] = x
  BY <1>5 DEF Surjection
<1> QED BY <1>1, <1>2, <1>6

(* A directory has finitely many dentries: they name different inodes.     *)
LEMMA FiniteListing ==
  ASSUME IInv, NEW v \in Versions, NEW id \in Smi.lists[v], IsDir(Smi, id)
  PROVE  IsFiniteSet(DOMAIN Dentries(Smi, id, v))
<1> DEFINE S == DOMAIN Dentries(Smi, id, v)
           f == [n \in S |-> Child(Smi, v, id, n)]
<1>1. /\ IsSmi(Smi) /\ IsForest(Smi, v) /\ v \in DOMAIN Smi.lists
  BY DEF IInv, SmiInv, IsVersionTree, Versions, Smi
<1>2. /\ id \in DOMAIN Smi.pool /\ v \in DOMAIN Smi.pool[id].buffer_map
      /\ Smi.lists[v] \subseteq DOMAIN Smi.pool /\ IsFiniteSet(DOMAIN Smi.pool)
  BY <1>1 DEF IsSmi, IsCounted, Holders, IInv, Bounded
<1>3. \A m : HasDentry(Smi, id, v, m) <=> m \in S
  BY <1>2 DEF HasDentry
<1> HIDE DEF S
<1>4. S \subseteq Word /\ \A n \in S : Child(Smi, v, id, n) # Nowhere
  BY <1>1, <1>3, ChildIsDentry DEF Word
<1>5. \A n \in S : Child(Smi, v, id, n) \in Smi.lists[v]
  BY <1>1, <1>4 DEF IsForest
<1>6. ASSUME NEW m \in S, NEW n \in S, Child(Smi, v, id, m) = Child(Smi, v, id, n) PROVE m = n
  BY <1>1, <1>4, <1>6 DEF IsForest
<1>7. f \in [S -> Smi.lists[v]] /\ \A m, n \in DOMAIN f : f[m] = f[n] => m = n
  BY <1>5, <1>6
<1> HIDE DEF f
<1>8. f \in Injection(S, Smi.lists[v])
  BY <1>7 DEF Injection, IsInjective
<1>9. IsFiniteSet(Smi.lists[v])
  BY <1>2, FS_Subset
<1>10. IsFiniteSet(S)
  BY <1>8, <1>9, FS_Injection
<1> QED BY <1>10 DEF S

(* The texts of some paths.                                                *)
TextsOf(paths) == [k \in DOMAIN paths |-> Text(paths[k])]

(* The children of a directory in the order of its dentries.               *)
ChildrenOf(d, names) == [k \in DOMAIN names |-> Append(d, names[k])]

LEMMA DirectoryInOrder ==
  ASSUME IInv, NEW v \in Versions, NEW d \in Path, Found(v, d),
         NEW id, id = Resolve(Smi, v, d), IsDir(Smi, id),
         NEW names \in SetToSeqs(DOMAIN Dentries(Smi, id, v))
  PROVE  LET C == ChildrenOf(d, names)
         IN  /\ C \in Paths /\ IsChildren(C, v, d)
             /\ [k \in DOMAIN names |-> Append(Prefix(Text(d)), names[k])] = TextsOf(C)
<1> DEFINE S == DOMAIN Dentries(Smi, id, v)
           C == ChildrenOf(d, names)
<1>1. IsForest(Smi, v) /\ id \in Smi.lists[v]
  BY ResolveInVersion DEF IInv, SmiInv, IsVersionTree, Versions, Smi, Found
<1>2. S \subseteq Name /\ \A n \in Word : Found(v, Append(d, n)) <=> n \in S
  <2>1. Resolve(Smi, v, d) # Nowhere /\ IsDir(Smi, Resolve(Smi, v, d))
    BY DEF Found
  <2>2. \A n \in Word : Found(v, Append(d, n)) <=> n \in S
    BY <2>1, FoundIsListed DEF Found
  <2>3. SNAPSHOT_ENTRY \in Word
    BY DEF Word
  <2>4. S \subseteq Name
    BY <2>1, <2>3, FoundIsListed
  <2> QED BY <2>2, <2>4
<1>3. IsFiniteSet(S)
  BY <1>1, FiniteListing
<1> HIDE DEF S
<1>4. /\ names \in Seq(S)
      /\ \A i, j \in DOMAIN names : names[i] = names[j] => i = j
      /\ \A x \in S : \E i \in DOMAIN names : names[i] = x
  BY <1>3, InSomeOrder DEF S
<1>5. DOMAIN C = DOMAIN names /\ \A k \in DOMAIN names : C[k] = Append(d, names[k])
  BY DEF ChildrenOf
<1>6. \A k \in DOMAIN names : names[k] \in S /\ names[k] \in Word
  BY <1>2, <1>4 DEF Word
<1>7. \A k \in DOMAIN names : /\ C[k] \in Path /\ C[k] # <<>> /\ Front(C[k]) = d
                              /\ Last(C[k]) = names[k] /\ Found(v, C[k])
  BY <1>2, <1>5, <1>6, PathAppend
<1>8. C \in Paths
  <2>1. Len(names) \in Nat /\ DOMAIN names = 1 .. Len(names)
    BY <1>4
  <2>2. C = [k \in 1 .. Len(names) |-> C[k]]
    BY <2>1 DEF ChildrenOf
  <2> HIDE DEF C
  <2>3. C \in [1 .. Len(names) -> Path]
    BY <1>7, <2>1, <2>2
  <2> QED BY <2>1, <2>3 DEF Paths
<1> HIDE DEF C
<1>9. ASSUME NEW p \in Path, p # <<>>, Front(p) = d, Found(v, p)
      PROVE  \E k \in DOMAIN C : C[k] = p
  <2>1. Last(p) \in Word /\ p = Append(d, Last(p))
    BY <1>9, PathFront
  <2>2. Last(p) \in S
    BY <1>2, <1>9, <2>1
  <2>3. PICK i \in DOMAIN names : names[i] = Last(p)
    BY <1>4, <2>2
  <2> QED BY <1>5, <2>1, <2>3
<1>10. IsChildren(C, v, d)
  BY <1>4, <1>5, <1>7, <1>9 DEF IsChildren
<1>11. [k \in DOMAIN names |-> Append(Prefix(Text(d)), names[k])] = TextsOf(C)
  BY <1>5, <1>6, ChildText DEF TextsOf
<1> QED BY <1>8, <1>10, <1>11 DEF C

(* ------------------------------- the walk ------------------------------ *)

LEMMA TextsAreTexts ==
  ASSUME NEW s \in Paths
  PROVE  /\ TextsOf(s) \in Seq(Texts) /\ DOMAIN TextsOf(s) = DOMAIN s
         /\ Len(TextsOf(s)) = Len(s) /\ Len(s) \in Nat /\ DOMAIN s = 1 .. Len(s)
         /\ \A k \in DOMAIN s : s[k] \in Path /\ TextsOf(s)[k] = Text(s[k])
         /\ TextsOf(s) = <<>> <=> s = <<>>
<1> DEFINE t == TextsOf(s)
<1>1. /\ s \in Seq(Path) /\ Len(s) \in Nat /\ DOMAIN s = 1 .. Len(s)
      /\ \A k \in DOMAIN s : s[k] \in Path
  BY DEF Paths
<1>2. DOMAIN t = DOMAIN s /\ \A k \in DOMAIN s : t[k] = Text(s[k])
  BY DEF TextsOf
<1>3. t = [k \in 1 .. Len(s) |-> t[k]]
  BY <1>1 DEF TextsOf
<1> HIDE DEF t
<1>4. \A k \in 1 .. Len(s) : t[k] \in Texts
  BY <1>1, <1>2, TextOfPath
<1>5. t \in [1 .. Len(s) -> Texts]
  BY <1>3, <1>4
<1>6. t \in Seq(Texts) /\ Len(t) = Len(s)
  BY <1>1, <1>5
<1>7. t = <<>> <=> Len(t) = 0
  BY <1>6
<1>8. s = <<>> <=> Len(s) = 0
  BY <1>1
<1> QED BY <1>1, <1>2, <1>6, <1>7, <1>8 DEF t

LEMMA TextsOfConcat ==
  ASSUME NEW s \in Paths, NEW t \in Paths
  PROVE  s \o t \in Paths /\ TextsOf(s \o t) = TextsOf(s) \o TextsOf(t)
<1> DEFINE u == s \o t
           a == TextsOf(u)
           x == TextsOf(s)
           y == TextsOf(t)
           b == x \o y
           m == Len(s)
           n == Len(t)
<1>1. /\ u \in Paths /\ Len(u) = m + n /\ m \in Nat /\ n \in Nat
      /\ \A i \in 1 .. m + n : u[i] = IF i <= m THEN s[i] ELSE t[i - m]
  BY ConcatProperties DEF Paths
<1> HIDE DEF u
<1>2. /\ a \in Seq(Texts) /\ Len(a) = m + n
      /\ \A i \in 1 .. m + n : a[i] = Text(u[i])
  BY <1>1, TextsAreTexts
<1>3. /\ x \in Seq(Texts) /\ Len(x) = m /\ \A i \in 1 .. m : x[i] = Text(s[i])
  BY TextsAreTexts
<1> HIDE DEF a, x
<1>4. /\ y \in Seq(Texts) /\ Len(y) = n /\ \A i \in 1 .. n : y[i] = Text(t[i])
  BY TextsAreTexts
<1> HIDE DEF y
<1>5. /\ b \in Seq(Texts) /\ Len(b) = m + n
      /\ \A i \in 1 .. m + n : b[i] = IF i <= m THEN x[i] ELSE y[i - m]
  <2>1. x \in Seq(Texts) /\ y \in Seq(Texts) /\ Len(x) = m /\ Len(y) = n
    BY <1>3, <1>4
  <2>2. /\ b \in Seq(Texts) /\ Len(b) = Len(x) + Len(y)
        /\ \A i \in 1 .. Len(x) + Len(y) : b[i] = IF i <= Len(x) THEN x[i] ELSE y[i - Len(x)]
    BY <2>1, ConcatProperties
  <2> HIDE DEF b, m, n
  <2> QED BY <2>1, <2>2
<1> HIDE DEF b, m, n
<1>6. ASSUME NEW i \in 1 .. m + n PROVE a[i] = b[i]
  <2>1. CASE i <= m
    <3>1. i \in 1 .. m
      BY <1>1, <2>1
    <3> QED BY <1>1, <1>2, <1>3, <1>5, <2>1, <3>1
  <2>2. CASE ~(i <= m)
    <3>1. i - m \in 1 .. n
      BY <1>1, <2>2
    <3> QED BY <1>1, <1>2, <1>4, <1>5, <2>2, <3>1
  <2> QED BY <2>1, <2>2
<1>7. a = b
  BY <1>2, <1>5, <1>6, SeqEqual
<1> QED BY <1>1, <1>7 DEF a, b, x, y, u

LEMMA TextsOfTail ==
  ASSUME NEW s \in Paths, s # <<>>
  PROVE  /\ Tail(s) \in Paths /\ TextsOf(Tail(s)) = Tail(TextsOf(s))
         /\ Head(TextsOf(s)) = Text(s[1]) /\ s[1] \in Path
<1> DEFINE t == Tail(s)
           a == TextsOf(t)
           x == TextsOf(s)
           b == Tail(x)
           m == Len(s)
<1>1. /\ t \in Paths /\ Len(t) = m - 1 /\ m \in Nat /\ m > 0 /\ s[1] \in Path
      /\ \A i \in 1 .. m - 1 : t[i] = s[i + 1]
  BY DEF Paths
<1> HIDE DEF t
<1>2. /\ a \in Seq(Texts) /\ Len(a) = m - 1 /\ \A i \in 1 .. m - 1 : a[i] = Text(t[i])
  BY <1>1, TextsAreTexts
<1>3. /\ x \in Seq(Texts) /\ Len(x) = m /\ x # <<>> /\ \A i \in 1 .. m : x[i] = Text(s[i])
  BY TextsAreTexts
<1> HIDE DEF a, x, m
<1>4. /\ b \in Seq(Texts) /\ Len(b) = m - 1 /\ \A i \in 1 .. m - 1 : b[i] = x[i + 1]
      /\ Head(x) = x[1]
  BY <1>1, <1>3
<1> HIDE DEF b
<1>5. ASSUME NEW i \in 1 .. m - 1 PROVE a[i] = b[i]
  <2>1. i + 1 \in 1 .. m
    BY <1>1
  <2> QED BY <1>1, <1>2, <1>3, <1>4, <2>1
<1>6. a = b
  BY <1>2, <1>4, <1>5, SeqEqual
<1>7. Head(x) = Text(s[1])
  BY <1>1, <1>3, <1>4
<1> QED BY <1>1, <1>6, <1>7 DEF a, b, x, t

LEMMA EmptyIsPrefix ==
  ASSUME NEW p \in Path
  PROVE  IsPrefix(<<>>, p)
<1>1. IsPrefix(<<>>, <<>> \o p)
  BY EmptyPath, PathConcat
<1>2. <<>> \o p = p
  BY ConcatEmptySeq DEF Path
<1> QED BY <1>1, <1>2

(* What is walked is the tree of a version; nothing is, without an export. *)
Walked(v, list, map) ==
  \E D, M \in Paths : list = TextsOf(D) /\ map = TextsOf(M) /\ WalksTree(v, D, M)

WalkInv ==
  /\ version \in Versions \cup {Idle}
  /\ version = Idle => dentry_list = <<>> /\ filesystem_map = <<>>
  /\ version # Idle => Walked(version, dentry_list, filesystem_map)

(* A walk begins at the root.                                              *)
LEMMA BeginsAtRoot ==
  ASSUME NEW v
  PROVE  Walked(v, <<Slash>>, <<>>)
<1> DEFINE e == <<>>
           D == <<e>>
           M == <<>>
<1>1. /\ D \in Paths /\ M \in Paths /\ e \in Path /\ DOMAIN D = {1} /\ DOMAIN M = {} /\ D[1] = e
  BY EmptyPath DEF Paths
<1>2. TextsOf(D) = <<Slash>> /\ TextsOf(M) = <<>>
  <2>1. Text(e) = Slash
    BY DEF Text
  <2> QED BY <2>1 DEF TextsOf
<1>3. ~Below(e) /\ Found(v, e)
  BY ResolveEmpty DEF Below, Found, Root, Nowhere
<1>4. IsPrefix(e, e) /\ \A p \in Path : p # e => IsStrictPrefix(e, p)
  BY EmptyIsPrefix, EmptyPath DEF IsStrictPrefix
<1>5. e = <<>>
  OBVIOUS
<1> HIDE DEF e, D, M
<1>6. AreFound(v, D, M) /\ AreParsable(v, D) /\ AreApart(D, M) /\ ParentsFirst(M)
  BY <1>1, <1>3 DEF AreFound, AreParsable, AreApart, ParentsFirst
<1>7. Cover(v, D, M)
  BY <1>1, <1>4, <1>5 DEF Cover
<1> QED BY <1>1, <1>2, <1>6, <1>7 DEF Walked, WalksTree

(* Without a step of a handler the tree that is walked stays as it is.     *)
LEMMA WalkedStays ==
  ASSUME UNCHANGED vars, NEW v, NEW list, NEW map, Walked(v, list, map)
  PROVE  Walked(v, list, map)'
<1>1. Smi' = Smi
  BY DEF vars, Smi
<1>2. PICK D \in Paths, M \in Paths :
        list = TextsOf(D) /\ map = TextsOf(M) /\ WalksTree(v, D, M)
  BY DEF Walked
<1>3. (AreFound(v, D, M) /\ Cover(v, D, M))'
  BY <1>1, <1>2 DEF WalksTree, AreFound, Cover, Found
<1>4. WalksTree(v, D, M)'
  BY <1>2, <1>3 DEF WalksTree, AreParsable, AreApart, ParentsFirst
<1> QED BY <1>2, <1>4 DEF Walked

(* What is looked up is the first path of the worklist in the version that *)
(* is walked, or else nothing is found and the walk ends.                  *)
LEMMA FirstIsLookedUp ==
  ASSUME IInv, NEW v \in Versions, v \in Word, NEW D \in Paths, D # <<>>, AreParsable(v, D)
  PROVE  LET split == if_snapshot(make_path_with_version(Prefix(Text(D[1])), v))
             id    == LookUp(Smi, split, path_t(split.output))
         IN  id # Nowhere => id = Resolve(Smi, v, D[1]) /\ (v = Current => ~Below(D[1]))
<1>1. D[1] \in Path /\ 1 \in DOMAIN D
  BY DEF Paths
<1>2. v = Current /\ Below(D[1]) => D[1] = SnapshotRoot
  BY <1>1 DEF AreParsable
<1>3. v \in DOMAIN Smi.lists
  BY DEF Versions, Smi
<1> QED BY <1>1, <1>2, <1>3, LookedUp

(* What is no directory has no children.                                   *)
LEMMA NothingInFile ==
  ASSUME IInv, NEW v, NEW d \in Path, ~IsDir(Smi, Resolve(Smi, v, d))
  PROVE  <<>> \in Paths /\ IsChildren(<<>>, v, d)
<1>1. ASSUME NEW p \in Path, p # <<>>, Front(p) = d, Found(v, p) PROVE FALSE
  <2>1. Child(Smi, v, Resolve(Smi, v, d), Last(p)) # Nowhere
    BY <1>1, ResolvePath DEF Found
  <2>2. HasDentry(Smi, Resolve(Smi, v, d), v, Last(p))
    BY <2>1, ChildIsDentry DEF IInv, SmiInv
  <2> QED BY <2>2 DEF HasDentry
<1> DEFINE C == <<>>
<1>2. C \in Paths /\ DOMAIN C = {}
  BY DEF Paths
<1> HIDE DEF C
<1>3. IsChildren(C, v, d)
  BY <1>1, <1>2 DEF IsChildren
<1> QED BY <1>2, <1>3 DEF C

(* The children of the first path stand before the other paths.            *)
LEMMA WalkGoesOn ==
  ASSUME IInv, NEW v \in Versions, NEW D \in Paths, NEW M \in Paths, D # <<>>,
         WalksTree(v, D, M), v = Current => ~Below(D[1]),
         NEW C \in Paths, IsChildren(C, v, D[1])
  PROVE  Walked(v, TextsOf(C) \o Tail(TextsOf(D)), TextsOf(M) \o TextsOf(C))
<1>1. IsForest(Smi, v)
  BY DEF IInv, SmiInv, IsVersionTree, Versions, Smi
<1>2. /\ C \o Tail(D) \in Paths /\ M \o C \in Paths
      /\ WalksTree(v, C \o Tail(D), M \o C)
  BY <1>1, VisitKeepsTree
<1> DEFINE t == Tail(D)
<1>3. t \in Paths /\ TextsOf(t) = Tail(TextsOf(D))
  BY TextsOfTail
<1> HIDE DEF t
<1>4. TextsOf(C \o t) = TextsOf(C) \o TextsOf(t)
  BY <1>3, TextsOfConcat
<1>5. TextsOf(M \o C) = TextsOf(M) \o TextsOf(C)
  BY TextsOfConcat
<1> QED BY <1>2, <1>3, <1>4, <1>5 DEF Walked, t

(* A visit of the first path: its children join the worklist and the map,  *)
(* if it is a directory, or it only leaves the worklist, or the walk ends. *)
IsVisit(v, D, M, C) ==
  /\ v = version /\ D # <<>> /\ WalksTree(v, D, M)
  /\ dentry_list = TextsOf(D) /\ filesystem_map = TextsOf(M)
  /\ IsChildren(C, v, D[1]) /\ (v = Current => ~Below(D[1]))
  /\ version' = v /\ dentry_list' = TextsOf(C) \o Tail(TextsOf(D))
  /\ filesystem_map' = TextsOf(M) \o TextsOf(C)

LEMMA VisitOutcomes ==
  ASSUME IInv, Versions \subseteq Word, WalkInv, Visit
  PROVE  \/ At(Idle, <<>>, <<>>)
         \/ \E v \in Versions : \E D, M, C \in Paths : IsVisit(v, D, M, C)
<1>1. PICK v \in Versions : v = version
  BY DEF WalkInv, Visit
<1>2. PICK D \in Paths, M \in Paths :
        dentry_list = TextsOf(D) /\ filesystem_map = TextsOf(M) /\ WalksTree(v, D, M)
  BY <1>1 DEF WalkInv, Walked, Visit
<1>3. PICK id : /\ id = LookUp(Smi, Split, path_t(Split.output))
                /\ ListDirectory(id) \/ SkipFile(id) \/ Throw(id)
  BY DEF Visit
<1>4. D # <<>> /\ Head(dentry_list) = Text(D[1]) /\ D[1] \in Path /\ v \in Word
  <2>1. D # <<>>
    BY <1>2, TextsAreTexts DEF Visit
  <2> QED BY <1>2, <2>1, TextsOfTail
<1>5. AreFound(v, D, M) /\ AreParsable(v, D)
  BY <1>2 DEF WalksTree
<1>6. id # Nowhere => id = Resolve(Smi, v, D[1]) /\ (v = Current => ~Below(D[1]))
  BY <1>1, <1>3, <1>4, <1>5, FirstIsLookedUp DEF Split
<1>7. Found(v, D[1])
  <2>1. 1 \in DOMAIN D
    BY <1>4 DEF Paths
  <2> QED BY <1>5, <2>1 DEF AreFound
<1>8. ASSUME NEW C \in Paths, IsChildren(C, v, D[1]), id # Nowhere,
             At(version, TextsOf(C) \o Tail(dentry_list), filesystem_map \o TextsOf(C))
      PROVE  IsVisit(v, D, M, C)
  BY <1>1, <1>2, <1>4, <1>6, <1>8 DEF IsVisit, At
<1>9. CASE ListDirectory(id)
  <2>1. IsDir(Smi, id)
    BY <1>9 DEF ListDirectory
  <2>2. id # Nowhere
    BY <2>1 DEF IsDir, IInv, SmiInv, IsSmi, Nowhere
  <2>3. PICK names \in SetToSeqs(Listed(id)) :
          LET children == [k \in DOMAIN names |-> Append(Prefix(Head(dentry_list)), names[k])]
          IN  At(version, Pending(children), filesystem_map \o children)
    BY <1>9 DEF ListDirectory
  <2> DEFINE C == ChildrenOf(D[1], names)
  <2>4. names \in SetToSeqs(DOMAIN Dentries(Smi, id, v))
    BY <1>1, <2>3 DEF Listed
  <2>5. /\ C \in Paths /\ IsChildren(C, v, D[1])
        /\ [k \in DOMAIN names |-> Append(Prefix(Text(D[1])), names[k])] = TextsOf(C)
    BY <1>4, <1>6, <1>7, <2>1, <2>2, <2>4, DirectoryInOrder
  <2> HIDE DEF C
  <2>6. At(version, TextsOf(C) \o Tail(dentry_list), filesystem_map \o TextsOf(C))
    BY <1>4, <2>3, <2>5 DEF Pending
  <2> QED BY <1>8, <2>2, <2>5, <2>6
<1>10. CASE SkipFile(id)
  <2>1. /\ id # Nowhere /\ ~IsDir(Smi, id)
        /\ At(version, <<>> \o Tail(dentry_list), filesystem_map)
    BY <1>10 DEF SkipFile, Pending
  <2>2. <<>> \in Paths /\ IsChildren(<<>>, v, D[1])
    BY <1>4, <1>6, <2>1, NothingInFile
  <2>3. TextsOf(<<>>) = <<>> /\ filesystem_map \o <<>> = filesystem_map
    BY <1>2, <2>2, TextsAreTexts, ConcatEmptySeq
  <2>4. At(version, TextsOf(<<>>) \o Tail(dentry_list), filesystem_map \o TextsOf(<<>>))
    BY <2>1, <2>3
  <2> QED BY <1>8, <2>1, <2>2, <2>4
<1>11. CASE Throw(id)
  BY <1>11 DEF Throw
<1> QED BY <1>3, <1>9, <1>10, <1>11

LEMMA VisitKeepsWalk ==
  ASSUME IInv, Versions \subseteq Word, WalkInv, Visit
  PROVE  WalkInv'
<1>1. UNCHANGED vars /\ Versions' = Versions
  BY DEF Visit, vars, Versions
<1>2. CASE At(Idle, <<>>, <<>>)
  BY <1>2 DEF At, WalkInv
<1>3. ASSUME NEW v \in Versions, NEW D \in Paths, NEW M \in Paths, NEW C \in Paths,
             IsVisit(v, D, M, C)
      PROVE  WalkInv'
  <2> DEFINE list == TextsOf(C) \o Tail(TextsOf(D))
             map  == TextsOf(M) \o TextsOf(C)
  <2>1. version' = v /\ dentry_list' = list /\ filesystem_map' = map /\ v # Idle
    BY <1>3 DEF IsVisit, Visit
  <2>2. Walked(v, list, map)
    BY <1>3, WalkGoesOn DEF IsVisit
  <2> HIDE DEF list, map
  <2>3. Walked(v, list, map)'
    BY <1>1, <2>2, WalkedStays
  <2>4. Walked(version, dentry_list, filesystem_map)'
    BY <2>1, <2>3 DEF Walked
  <2> QED BY <1>1, <2>1, <2>4 DEF WalkInv
<1> QED BY <1>2, <1>3, VisitOutcomes

(* The paths in the map, and the root, lead to different inodes: a version *)
(* has more inodes than the map has paths.                                 *)
LEMMA MapIsBounded ==
  ASSUME IInv, NEW v \in DOMAIN Smi.lists, NEW D, NEW M \in Paths,
         AreFound(v, D, M), ParentsFirst(M)
  PROVE  /\ Cardinality(Smi.lists[v]) \in Nat /\ Len(M) \in Nat
         /\ Len(M) + 1 <= Cardinality(Smi.lists[v])
<1> DEFINE S == Smi.lists[v]
           n == Len(M)
           P == [k \in 0 .. n |-> IF k = 0 THEN <<>> ELSE M[k]]
           f == [k \in 0 .. n |-> Resolve(Smi, v, P[k])]
<1>1. /\ IsForest(Smi, v) /\ S \subseteq DOMAIN Smi.pool /\ IsFiniteSet(DOMAIN Smi.pool)
  BY DEF IInv, SmiInv, IsVersionTree, IsSmi
<1>2. IsFiniteSet(S) /\ Cardinality(S) \in Nat
  BY <1>1, FS_Subset, FS_CardinalityType
<1>3. n \in Nat /\ \A k \in 1 .. n : M[k] \in Path /\ M[k] # <<>> /\ Found(v, M[k])
  BY DEF Paths, AreFound
<1>4. \A k \in 0 .. n : P[k] \in Path /\ (P[k] = <<>> <=> k = 0) /\ (k # 0 => P[k] = M[k])
  BY <1>3, EmptyPath
<1>5. \A k \in 0 .. n : Resolve(Smi, v, P[k]) # Nowhere
  BY <1>3, <1>4, ResolveEmpty DEF Found, Root, Nowhere
<1> HIDE DEF P, S
<1>6. \A k \in 0 .. n : f[k] \in S
  BY <1>1, <1>4, <1>5, ResolveInVersion DEF S
<1>7. ASSUME NEW j \in 0 .. n, NEW k \in 0 .. n, f[j] = f[k] PROVE j = k
  <2>1. P[j] = P[k]
    BY <1>1, <1>4, <1>5, <1>7, ResolveIsInjective
  <2>2. CASE j = 0 \/ k = 0
    BY <1>4, <2>1, <2>2
  <2>3. CASE j # 0 /\ k # 0
    <3>1. j \in DOMAIN M /\ k \in DOMAIN M /\ M[j] = M[k] /\ M[j] \in Path
      BY <1>3, <1>4, <2>1, <2>3 DEF Paths
    <3>2. IsPrefix(M[j], M[k]) /\ IsPrefix(M[k], M[j])
      BY <3>1, PathPrefix
    <3>3. j <= k /\ k <= j
      BY <3>1, <3>2 DEF ParentsFirst
    <3> QED BY <3>3
  <2> QED BY <2>2, <2>3
<1>8. f \in [0 .. n -> S] /\ DOMAIN f = 0 .. n
  BY <1>6
<1> HIDE DEF f
<1>9. f \in Injection(0 .. n, S)
  BY <1>7, <1>8 DEF Injection, IsInjective
<1>10. Cardinality(0 .. n) <= Cardinality(S)
  BY <1>2, <1>9, FS_Injection
<1>11. Cardinality(0 .. n) = n + 1
  BY <1>3, FS_Interval
<1> QED BY <1>2, <1>3, <1>10, <1>11 DEF S

(* ---------------------------- the theorems ----------------------------- *)

(* What every state has: the invariant of the handlers, names of versions  *)
(* that are names, and a walk that is in the midst of a version's tree.    *)
ExportInv == IInv /\ Versions \subseteq Word /\ WalkInv

LEMMA IdleIsNoWord == Idle \notin Word
BY ExportMapAssumption DEF Idle, Word, Current, SNAPSHOT_ENTRY

LEMMA StepKeepsWalk ==
  ASSUME IInv, Versions \subseteq Word, WalkInv, [ExportNext]_allvars
  PROVE  WalkInv'
<1>1. ASSUME Handler PROVE WalkInv'
  <2>1. version' = Idle /\ dentry_list' = <<>> /\ filesystem_map' = <<>>
    BY <1>1 DEF Handler, WalkInv, walk
  <2> QED BY <2>1 DEF WalkInv
<1>2. ASSUME NEW v \in Version \cup {Current}, export_as_filesystem_map(v) PROVE WalkInv'
  <2>1. v \in Versions /\ version' = v /\ dentry_list' = <<Slash>> /\ filesystem_map' = <<>>
    BY <1>2 DEF export_as_filesystem_map, At, Versions
  <2>2. UNCHANGED vars /\ Versions' = Versions
    BY <1>2 DEF export_as_filesystem_map, vars, Versions
  <2>3. v # Idle
    BY <2>1, IdleIsNoWord
  <2> DEFINE list == <<Slash>>
             map  == <<>>
  <2>4. Walked(v, list, map)
    BY BeginsAtRoot
  <2>5. dentry_list' = list /\ filesystem_map' = map
    BY <2>1
  <2> HIDE DEF list, map
  <2>6. Walked(v, list, map)'
    BY <2>2, <2>4, WalkedStays
  <2>7. Walked(version, dentry_list, filesystem_map)'
    BY <2>1, <2>5, <2>6 DEF Walked
  <2> QED BY <2>1, <2>2, <2>3, <2>7 DEF WalkInv
<1>3. ASSUME Return PROVE WalkInv'
  BY <1>3 DEF Return, At, WalkInv
<1>4. ASSUME UNCHANGED allvars PROVE WalkInv'
  <2>1. /\ UNCHANGED vars /\ Versions' = Versions
        /\ version' = version /\ dentry_list' = dentry_list /\ filesystem_map' = filesystem_map
    BY <1>4 DEF allvars, walk, vars, Versions
  <2>2. CASE version = Idle
    BY <2>1, <2>2 DEF WalkInv
  <2>3. CASE version # Idle
    <3>1. PICK v, list, map : v = version /\ list = dentry_list /\ map = filesystem_map
      OBVIOUS
    <3>2. Walked(v, list, map)
      BY <2>3, <3>1 DEF WalkInv
    <3>3. Walked(v, list, map)'
      BY <2>1, <3>2, WalkedStays
    <3>4. Walked(version, dentry_list, filesystem_map)'
      BY <2>1, <3>1, <3>3 DEF Walked
    <3> QED BY <2>1, <2>3, <3>4 DEF WalkInv
  <2> QED BY <2>2, <2>3
<1> QED BY <1>1, <1>2, <1>3, <1>4, VisitKeepsWalk DEF ExportNext, Walk

(* A step of an export is a step of a handler, or changes no inode.        *)
LEMMA ExportStepsAreSteps ==
  ASSUME [ExportNext]_allvars
  PROVE  [Next]_vars
BY DEF ExportNext, allvars, Handler, export_as_filesystem_map, Walk, Visit, Return

LEMMA ExportKeepsInvariant == ExportSpec => []ExportInv
<1>1. ExportInit => ExportInv
  BY InvariantInit DEF ExportInit, ExportInv, WalkInv, Init, Formatted, Versions, Word
<1>2. ExportInv /\ [ExportNext]_allvars => ExportInv'
  BY ExportStepsAreSteps, InvariantStep, VersionsStayWords, StepKeepsWalk DEF ExportInv
<1> QED BY <1>1, <1>2, PTL DEF ExportSpec

(* The walk, where it is not Idle, in the words of WalksTree.              *)
LEMMA WalkIsWalked ==
  ASSUME ExportInv, version # Idle
  PROVE  /\ version \in Versions /\ version \in Word /\ version \in DOMAIN Smi.lists
         /\ \E D, M \in Paths :
              dentry_list = TextsOf(D) /\ filesystem_map = TextsOf(M) /\ WalksTree(version, D, M)
BY DEF ExportInv, WalkInv, Walked, Versions, Smi

(* A path that is found is one of the tree, and its text is read back.     *)
LEMMA FoundIsText ==
  ASSUME IInv, NEW v \in DOMAIN Smi.lists, NEW p \in Path, Found(v, p)
  PROVE  p \in InTree /\ (p # <<>> => IsText(Text(p)))
<1>1. p \in InTree
  BY ResolvedInTree DEF IInv, Found
<1>2. p # <<>> => Text(p) = to_string(p) /\ path_t(Text(p)) = p
  BY TextOfPath DEF Text
<1> QED BY <1>1, <1>2 DEF IsText

LEMMA WalkHoldsTexts ==
  ASSUME ExportInv
  PROVE  WalkTypeOK
<1>1. version \in Versions \cup {Idle} /\ (version = Idle => dentry_list = <<>> /\ filesystem_map = <<>>)
  BY DEF ExportInv, WalkInv
<1>2. CASE version = Idle
  BY <1>1, <1>2 DEF WalkTypeOK
<1>3. CASE version # Idle
  <2>1. PICK D \in Paths, M \in Paths :
          dentry_list = TextsOf(D) /\ filesystem_map = TextsOf(M) /\ WalksTree(version, D, M)
    BY <1>3, WalkIsWalked
  <2>2. version \in DOMAIN Smi.lists /\ IInv /\ AreFound(version, D, M)
    BY <1>3, <2>1, WalkIsWalked DEF ExportInv, WalksTree
  <2>3. ASSUME NEW k \in DOMAIN dentry_list
        PROVE  dentry_list[k] = Slash \/ IsText(dentry_list[k])
    <3>1. k \in DOMAIN D /\ dentry_list[k] = Text(D[k]) /\ D[k] \in Path
      BY <2>1, <2>3, TextsAreTexts
    <3>2. Found(version, D[k])
      BY <2>2, <3>1 DEF AreFound
    <3>3. D[k] # <<>> => IsText(Text(D[k]))
      BY <2>2, <3>1, <3>2, FoundIsText
    <3> QED BY <3>1, <3>3 DEF Text
  <2>4. ASSUME NEW k \in DOMAIN filesystem_map PROVE IsText(filesystem_map[k])
    <3>1. k \in DOMAIN M /\ filesystem_map[k] = Text(M[k]) /\ M[k] \in Path
      BY <2>1, <2>4, TextsAreTexts
    <3>2. Found(version, M[k]) /\ M[k] # <<>>
      BY <2>2, <3>1 DEF AreFound
    <3> QED BY <2>2, <3>1, <3>2, FoundIsText
  <2> QED BY <1>1, <2>3, <2>4 DEF WalkTypeOK
<1> QED BY <1>2, <1>3

LEMMA WalkReadsBack ==
  ASSUME ExportInv
  PROVE  VersionIsReadBack
<1> SUFFICES ASSUME NEW k \in DOMAIN dentry_list
             PROVE  LET prefix == Prefix(dentry_list[k])
                        split  == if_snapshot(make_path_with_version(prefix, version))
                    IN  \/ /\ ~split.throws /\ split.version = version
                           /\ path_t(split.output) = path_t(prefix)
                        \/ version = Current /\ Head(path_t(prefix)) = SNAPSHOT_ENTRY
  BY DEF VersionIsReadBack
<1>1. version # Idle
  BY DEF ExportInv, WalkInv
<1>2. PICK D \in Paths, M \in Paths :
        dentry_list = TextsOf(D) /\ filesystem_map = TextsOf(M) /\ WalksTree(version, D, M)
  BY <1>1, WalkIsWalked
<1>3. k \in DOMAIN D /\ dentry_list[k] = Text(D[k]) /\ D[k] \in Path /\ version \in Word
  BY <1>1, <1>2, WalkIsWalked, TextsAreTexts
<1> DEFINE p == D[k]
<1>4. path_t(Prefix(Text(p))) = p
  BY <1>3, TextOfPath
<1>5. CASE version # Current
  BY <1>3, <1>4, <1>5, SplitInSnapshot
<1>6. CASE version = Current /\ ~Below(p)
  BY <1>3, <1>4, <1>6, SplitInCurrent
<1>7. CASE version = Current /\ Below(p)
  BY <1>3, <1>4, <1>7 DEF Below
<1> QED BY <1>5, <1>6, <1>7

LEMMA WalkIsExact ==
  ASSUME ExportInv
  PROVE  ExportIsExact
<1> DEFINE paths == [k \in DOMAIN filesystem_map |-> path_t(filesystem_map[k])]
<1> SUFFICES ASSUME version # Idle, dentry_list = <<>>
             PROVE  /\ Range(paths) = {p \in InTree \ {<<>>} : Resolve(Smi, version, p) # Nowhere}
                    /\ \A j, k \in DOMAIN paths : /\ paths[j] = paths[k] => j = k
                                                  /\ IsPrefix(paths[j], paths[k]) => j <= k
  BY DEF ExportIsExact
<1>1. PICK D \in Paths, M \in Paths :
        dentry_list = TextsOf(D) /\ filesystem_map = TextsOf(M) /\ WalksTree(version, D, M)
  BY WalkIsWalked
<1>2. D = <<>> /\ DOMAIN D = {}
  BY <1>1, TextsAreTexts
<1>3. /\ DOMAIN filesystem_map = DOMAIN M /\ DOMAIN M \subseteq Nat
      /\ \A k \in DOMAIN M : M[k] \in Path /\ filesystem_map[k] = Text(M[k])
  BY <1>1, TextsAreTexts
<1>4. DOMAIN paths = DOMAIN M /\ \A k \in DOMAIN M : paths[k] = M[k] /\ M[k] \in Path
  BY <1>3, TextOfPath
<1> HIDE DEF paths
<1>5. version \in DOMAIN Smi.lists /\ IInv
  BY WalkIsWalked DEF ExportInv
<1>6. /\ \A k \in DOMAIN M : M[k] # <<>> /\ Found(version, M[k])
      /\ \A p \in Path : p # <<>> /\ Found(version, p) => \E k \in DOMAIN M : M[k] = p
      /\ \A j, k \in DOMAIN M : IsPrefix(M[j], M[k]) => j <= k
  BY <1>1, <1>2 DEF WalksTree, AreFound, Cover, ParentsFirst
<1>7. \A p \in InTree : p \in Path
  BY InTreeIsNames
<1>8. ASSUME NEW k \in DOMAIN paths
      PROVE  paths[k] \in {p \in InTree \ {<<>>} : Resolve(Smi, version, p) # Nowhere}
  BY <1>4, <1>5, <1>6, <1>8, FoundIsText DEF Found
<1>9. ASSUME NEW p \in InTree, p # <<>>, Resolve(Smi, version, p) # Nowhere
      PROVE  \E k \in DOMAIN paths : paths[k] = p
  BY <1>4, <1>6, <1>7, <1>9 DEF Found
<1>10. Range(paths) = {p \in InTree \ {<<>>} : Resolve(Smi, version, p) # Nowhere}
  BY <1>8, <1>9 DEF Range
<1>11. ASSUME NEW j \in DOMAIN paths, NEW k \in DOMAIN paths, paths[j] = paths[k] PROVE j = k
  <2>1. IsPrefix(M[j], M[k]) /\ IsPrefix(M[k], M[j])
    BY <1>4, <1>11, PathPrefix
  <2> QED BY <1>3, <1>4, <1>6, <2>1
<1>12. ASSUME NEW j \in DOMAIN paths, NEW k \in DOMAIN paths, IsPrefix(paths[j], paths[k])
       PROVE  j <= k
  BY <1>4, <1>6, <1>12
<1> QED BY <1>10, <1>11, <1>12

(* The worklist and the map of export_as_filesystem_map hold texts that    *)
(* to_string makes of paths of the tree, and nothing when no export runs.  *)
THEOREM WalksHoldTexts == ExportSpec => []WalkTypeOK
BY ExportKeepsInvariant, WalkHoldsTexts, PTL

(* if_snapshot finds in every path that make_path_with_version joins the   *)
(* version and the path again, but for /.snapshot in version current.      *)
THEOREM WalksReadBackTheirVersion == ExportSpec => []VersionIsReadBack
BY ExportKeepsInvariant, WalkReadsBack, PTL

(* An export that returns has listed every path of the version, each once, *)
(* and a directory before what is in it, on every tree the handlers build. *)
THEOREM ExportsListWholeTrees == ExportSpec => []ExportIsExact
BY ExportKeepsInvariant, WalkIsExact, PTL

LEMMA VisitComesNearer ==
  ASSUME ExportInv, Visit
  PROVE  Unvisited' \in Nat /\ Unvisited' < Unvisited
<1>1. IInv /\ Versions \subseteq Word /\ WalkInv /\ version # Idle /\ dentry_list # <<>>
  BY DEF ExportInv, Visit
<1>2. Held(version) = Smi.lists[version] /\ version \in DOMAIN Smi.lists
  BY <1>1, WalkIsWalked DEF Held, Smi
<1>3. PICK D \in Paths, M \in Paths :
        dentry_list = TextsOf(D) /\ filesystem_map = TextsOf(M) /\ WalksTree(version, D, M)
  BY <1>1, WalkIsWalked
<1> DEFINE c == Cardinality(Held(version))
<1>4. /\ c \in Nat /\ Len(M) \in Nat /\ Len(M) + 1 <= c
  BY <1>1, <1>2, <1>3, MapIsBounded DEF WalksTree
<1>5. /\ Len(dentry_list) \in Nat /\ Len(dentry_list) > 0 /\ Len(filesystem_map) = Len(M)
  BY <1>1, <1>3, TextsAreTexts
<1>6. Unvisited = (c + Len(dentry_list)) - (Len(filesystem_map) + 1)
  BY <1>1 DEF Unvisited
<1>7. CASE At(Idle, <<>>, <<>>)
  <2>1. Unvisited' = 0
    BY <1>7 DEF At, Unvisited
  <2> QED BY <1>4, <1>5, <1>6, <2>1
<1>8. ASSUME NEW v \in Versions, NEW E \in Paths, NEW N \in Paths, NEW C \in Paths,
             IsVisit(v, E, N, C)
      PROVE  Unvisited' \in Nat /\ Unvisited' < Unvisited
  <2> DEFINE x == TextsOf(C)
             y == TextsOf(E)
             z == TextsOf(N)
  <2>1. /\ version' = version /\ dentry_list = y /\ filesystem_map = z
        /\ dentry_list' = x \o Tail(y) /\ filesystem_map' = z \o x
    BY <1>8 DEF IsVisit
  <2>2. /\ x \in Seq(Texts) /\ y \in Seq(Texts) /\ z \in Seq(Texts) /\ y # <<>>
    BY <1>1, <2>1, TextsAreTexts
  <2> HIDE DEF x, y, z
  <2>3. /\ Tail(y) \in Seq(Texts) /\ Len(Tail(y)) = Len(y) - 1 /\ Len(y) \in Nat
        /\ Len(x) \in Nat /\ Len(z) \in Nat
    BY <2>2
  <2>4. Len(x \o Tail(y)) = Len(x) + Len(Tail(y)) /\ Len(z \o x) = Len(z) + Len(x)
    BY <2>2, <2>3, ConcatProperties
  <2>5. Held(version)' = Held(version)
    BY <2>1 DEF Held, Visit, vars
  <2>6. Unvisited' = (c + Len(dentry_list')) - (Len(filesystem_map') + 1)
    BY <1>1, <2>1, <2>5 DEF Unvisited
  <2> HIDE DEF c
  <2>7. /\ Len(dentry_list') = Len(x) + (Len(y) - 1) /\ Len(filesystem_map') = Len(z) + Len(x)
        /\ Len(dentry_list) = Len(y) /\ Len(filesystem_map) = Len(z)
    BY <2>1, <2>3, <2>4
  <2>8. Unvisited' = Unvisited - 1
    BY <1>4, <1>6, <2>3, <2>6, <2>7
  <2> QED BY <1>4, <1>5, <1>6, <2>8
<1> QED BY <1>1, <1>7, <1>8, VisitOutcomes

(* An export changes no inode: whatever is proved of the handlers holds    *)
(* with exports between them.                                              *)
THEOREM ExportsChangeNothing == ExportSpec => Spec
<1>1. ExportInit => Init
  BY DEF ExportInit
<1>2. [ExportNext]_allvars => [Next]_vars
  BY ExportStepsAreSteps
<1> QED BY <1>1, <1>2, PTL DEF ExportSpec, Spec

(* Every visit of export_as_filesystem_map leaves one inode less of those  *)
(* the version has, which are finitely many: the recursion that nothing in *)
(* the code bounds is bounded by the tree.                                 *)
THEOREM WalksComeNearer == ExportSpec => WalkComesNearer
<1>1. ExportInv /\ [ExportNext]_allvars
        => [Visit => Unvisited' \in Nat /\ Unvisited' < Unvisited]_allvars
  BY VisitComesNearer
<1> QED BY <1>1, ExportKeepsInvariant, PTL DEF ExportSpec, WalkComesNearer
=============================================================================
