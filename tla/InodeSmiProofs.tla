--------------------------- MODULE InodeSmiProofs ---------------------------
(***************************************************************************)
(* What get_inode_id_by_path finds in a version that is a tree, and how    *)
(* the operations of inode_smi_t change what it finds.                     *)
(***************************************************************************)
EXTENDS InodeSmi, SequencesExt, SequenceTheorems, FiniteSetTheorems, TLAPS

(* ------------------------- induction on a length ----------------------- *)

(* Every set of numbers has a least one: what is false of some path is     *)
(* false of a shortest path.                                               *)
LEMMA LeastNumber ==
  ASSUME NEW T \in SUBSET Nat, T # {}
  PROVE  \E n \in T : \A m \in T : n <= m
<1> DEFINE R == OpToRel(<, Nat)
<1>1. IsWellFoundedOn(R, Nat)
  BY NatLessThanWellFounded
<1>2. R = {p \in Nat \X Nat : p[1] < p[2]}
  BY DEF OpToRel
<1> HIDE DEF R
<1>3. PICK n \in T : \A m \in T : ~(<<m, n>> \in R)
  BY <1>1, WFMin
<1>4. \A m \in T : ~(m < n)
  <2> TAKE m \in T
  <2>1. <<m, n>> \in Nat \X Nat /\ <<m, n>>[1] = m /\ <<m, n>>[2] = n
    OBVIOUS
  <2> QED BY <2>1, <1>2, <1>3
<1> QED BY <1>4

(* A set of paths that has no shortest member is empty: the form in which  *)
(* induction on paths is used below.                                       *)
LEMMA ShortestPath ==
  ASSUME NEW S, NEW P \in SUBSET Seq(S), P # {}
  PROVE  \E p \in P : \A q \in P : Len(p) <= Len(q)
<1> DEFINE T == {Len(p) : p \in P}
<1>1. T \in SUBSET Nat /\ T # {}
  <2>1. \A p \in P : Len(p) \in Nat
    OBVIOUS
  <2> QED BY <2>1
<1>2. PICK n \in T : \A m \in T : n <= m
  BY <1>1, LeastNumber
<1> QED BY <1>2

(* ------------------------------- paths --------------------------------- *)

(* A path that is not empty is its Front with its Last appended.           *)
LEMMA FrontAndLast ==
  ASSUME NEW S, NEW p \in Seq(S), p # <<>>
  PROVE  /\ Front(p) \in Seq(S) /\ Last(p) \in S
         /\ Len(Front(p)) = Len(p) - 1
         /\ p = Append(Front(p), Last(p))
<1>1. Len(p) \in Nat /\ Len(p) > 0
  OBVIOUS
<1>2. Front(p) \in Seq(S) /\ Len(Front(p)) = Len(p) - 1
  <2> DEFINE m == Len(p) - 1
  <2>1. m \in Nat /\ \A i \in 1 .. m : p[i] \in S
    BY <1>1
  <2> HIDE DEF m
  <2>2. SubSeq(p, 1, m) \in Seq(S) /\ Len(SubSeq(p, 1, m)) = m
    BY <2>1, SubSeqProperties
  <2>3. Front(p) = SubSeq(p, 1, m)
    BY DEF Front, m
  <2> QED BY <2>2, <2>3 DEF m
<1>3. Last(p) \in S
  BY <1>1 DEF Last
<1>4. \A i \in 1 .. Len(p) - 1 : Front(p)[i] = p[i]
  BY <1>1 DEF Front
<1>5. Append(Front(p), Last(p)) \in Seq(S) /\ Len(Append(Front(p), Last(p))) = Len(p)
  BY <1>1, <1>2, <1>3
<1>6. \A i \in 1 .. Len(p) : Append(Front(p), Last(p))[i] = p[i]
  <2> SUFFICES ASSUME NEW i \in 1 .. Len(p) PROVE Append(Front(p), Last(p))[i] = p[i]
    OBVIOUS
  <2>1. CASE i = Len(p)
    BY <1>1, <1>2, <2>1 DEF Last
  <2>2. CASE i # Len(p)
    BY <1>1, <1>2, <1>4, <2>2
  <2> QED BY <2>1, <2>2
<1>7. p = Append(Front(p), Last(p))
  BY <1>5, <1>6, SeqEqual
<1> QED BY <1>2, <1>3, <1>7

LEMMA FrontOfAppend ==
  ASSUME NEW S, NEW p \in Seq(S), NEW n \in S
  PROVE  /\ Append(p, n) \in Seq(S) /\ Append(p, n) # <<>>
         /\ Len(Append(p, n)) = Len(p) + 1
         /\ Front(Append(p, n)) = p /\ Last(Append(p, n)) = n
<1>1. /\ Append(p, n) \in Seq(S) /\ Append(p, n) # <<>> /\ Len(Append(p, n)) = Len(p) + 1
      /\ Last(Append(p, n)) = n
  BY DEF Last
<1>2. Front(Append(p, n)) \in Seq(S) /\ Len(Front(Append(p, n))) = Len(p)
  <2>1. Len(p) \in Nat
    OBVIOUS
  <2>2. Front(Append(p, n)) \in Seq(S) /\ Len(Front(Append(p, n))) = Len(Append(p, n)) - 1
    BY <1>1, FrontAndLast
  <2> QED BY <1>1, <2>1, <2>2
<1>3. \A i \in 1 .. Len(p) : Front(Append(p, n))[i] = p[i]
  BY <1>1 DEF Front
<1>4. Front(Append(p, n)) = p
  BY <1>2, <1>3, SeqEqual
<1> QED BY <1>1, <1>4

(* What a prefix of a longer path is a prefix of.                          *)
LEMMA PrefixOfAppend ==
  ASSUME NEW S, NEW p \in Seq(S), NEW q \in Seq(S), NEW n \in S
  PROVE  IsPrefix(p, Append(q, n)) <=> IsPrefix(p, q) \/ p = Append(q, n)
<1> DEFINE r == Append(q, n)
<1>1. /\ r \in Seq(S) /\ Len(r) = Len(q) + 1 /\ Len(p) \in Nat /\ Len(q) \in Nat
      /\ \A i \in 1 .. Len(q) : r[i] = q[i]
  OBVIOUS
<1> HIDE DEF r
<1>2. SubSeq(p, 1, Len(p)) = p
  BY SubSeqFull
<1>3. CASE Len(p) <= Len(q)
  <2>1. SubSeq(r, 1, Len(p)) = SubSeq(q, 1, Len(p))
    <3>1. /\ SubSeq(r, 1, Len(p)) \in Seq(S) /\ Len(SubSeq(r, 1, Len(p))) = Len(p)
          /\ SubSeq(q, 1, Len(p)) \in Seq(S) /\ Len(SubSeq(q, 1, Len(p))) = Len(p)
      BY <1>1, <1>3
    <3>2. \A i \in 1 .. Len(p) : SubSeq(r, 1, Len(p))[i] = SubSeq(q, 1, Len(p))[i]
      BY <1>1, <1>3
    <3> QED BY <3>1, <3>2, SeqEqual
  <2>2. p # r
    BY <1>1, <1>3
  <2> QED BY <1>1, <1>3, <2>1, <2>2 DEF IsPrefix, r
<1>4. CASE Len(p) = Len(q) + 1
  <2>1. SubSeq(r, 1, Len(p)) = r
    BY <1>1, <1>4, SubSeqFull
  <2> QED BY <1>1, <1>2, <1>4, <2>1 DEF IsPrefix, r
<1>5. CASE Len(p) > Len(q) + 1
  BY <1>1, <1>5 DEF IsPrefix, r
<1> QED BY <1>1, <1>3, <1>4, <1>5

LEMMA PrefixOfItself ==
  ASSUME NEW S, NEW p \in Seq(S)
  PROVE  IsPrefix(p, p) /\ (IsPrefix(p, <<>>) => p = <<>>)
BY DEF IsPrefix

(* ------------------------------- walks --------------------------------- *)

(* What namei finds in a directory, or Nowhere.                            *)
Child(smi, v, id, n) == IF HasDentry(smi, id, v, n) THEN Dentries(smi, id, v)[n] ELSE Nowhere

(* The inodes along a path, as Resolve's walk collects them.               *)
IsWalk(f, smi, v, names) ==
  f = [k \in 0 .. Len(names) |-> IF k = 0 THEN Root ELSE Child(smi, v, f[k - 1], names[k])]

(* The first m steps of a walk along a path are determined.                *)
WalksTo(g, m, smi, v, names) ==
  \A k \in 0 .. m : g[k] = IF k = 0 THEN Root ELSE Child(smi, v, g[k - 1], names[k])

LEMMA WalkIsUnique ==
  ASSUME NEW S, NEW smi, NEW v, NEW names \in Seq(S), NEW f, NEW g,
         IsWalk(f, smi, v, names),
         NEW m \in 0 .. Len(names), WalksTo(g, m, smi, v, names)
  PROVE  \A k \in 0 .. m : f[k] = g[k]
<1> DEFINE T == {k \in 0 .. m : f[k] # g[k]}
<1>1. Len(names) \in Nat
  OBVIOUS
<1>2. SUFFICES ASSUME T # {} PROVE FALSE
  OBVIOUS
<1>3. T \in SUBSET Nat
  BY <1>1
<1>4. PICK k \in T : \A j \in T : k <= j
  BY <1>2, <1>3, LeastNumber
<1>5. \A j \in 0 .. Len(names) : f[j] = IF j = 0 THEN Root ELSE Child(smi, v, f[j - 1], names[j])
  BY DEF IsWalk
<1>6. k # 0
  BY <1>1, <1>5 DEF WalksTo
<1>7. k - 1 \in 0 .. m /\ k - 1 \notin T
  BY <1>1, <1>4, <1>6
<1>8. f[k - 1] = g[k - 1]
  BY <1>7
<1> QED BY <1>1, <1>5, <1>6, <1>8 DEF WalksTo

(* Every path has its walk, and the recursion of Resolve defines it.       *)
LEMMA WalkExists ==
  ASSUME NEW S, NEW smi, NEW v, NEW names \in Seq(S)
  PROVE  \E f : IsWalk(f, smi, v, names)
<1> DEFINE P == {p \in Seq(S) : ~\E f : IsWalk(f, smi, v, p)}
<1>1. SUFFICES ASSUME P # {} PROVE FALSE
  OBVIOUS
<1>2. P \in SUBSET Seq(S)
  OBVIOUS
<1>3. PICK p \in P : \A q \in P : Len(p) <= Len(q)
  BY <1>1, <1>2, ShortestPath
<1>4. p # <<>>
  <2> SUFFICES \E f : IsWalk(f, smi, v, <<>>)
    BY <1>3
  <2> DEFINE f == [k \in 0 .. 0 |-> Root]
  <2>1. IsWalk(f, smi, v, <<>>)
    <3>1. 0 .. Len(<<>>) = 0 .. 0 /\ \A k \in 0 .. 0 : k = 0
      OBVIOUS
    <3> QED BY <3>1 DEF IsWalk
  <2> QED BY <2>1
<1>5. /\ Front(p) \in Seq(S) /\ Len(Front(p)) = Len(p) - 1 /\ Len(p) \in Nat /\ Len(p) > 0
  BY <1>4, FrontAndLast
<1>6. PICK f : IsWalk(f, smi, v, Front(p))
  BY <1>3, <1>5
<1> DEFINE n == Len(p)
           g == [k \in 0 .. n |-> IF k = n THEN Child(smi, v, f[n - 1], p[n]) ELSE f[k]]
<1>7. \A k \in 0 .. n - 1 : f[k] = IF k = 0 THEN Root ELSE Child(smi, v, f[k - 1], p[k])
  <2>1. \A k \in 1 .. n - 1 : Front(p)[k] = p[k]
    BY <1>5 DEF Front
  <2> QED BY <1>5, <1>6, <2>1 DEF IsWalk
<1>8. \A k \in 0 .. n : g[k] = IF k = 0 THEN Root ELSE Child(smi, v, g[k - 1], p[k])
  <2> SUFFICES ASSUME NEW k \in 0 .. n
               PROVE  g[k] = IF k = 0 THEN Root ELSE Child(smi, v, g[k - 1], p[k])
    OBVIOUS
  <2>1. CASE k = n
    BY <1>5, <2>1
  <2>2. CASE k # n
    <3>1. k \in 0 .. n - 1 /\ g[k] = f[k] /\ (k # 0 => k - 1 \in 0 .. n - 1 /\ g[k - 1] = f[k - 1])
      BY <1>5, <2>2
    <3> QED BY <1>7, <3>1
  <2> QED BY <2>1, <2>2
<1>9. IsWalk(g, smi, v, p)
  <2>1. g = [k \in 0 .. n |-> g[k]]
    OBVIOUS
  <2> HIDE DEF g
  <2> QED BY <1>8, <2>1 DEF IsWalk
<1> QED BY <1>3, <1>9

WalkAlong(smi, v, names) == CHOOSE f : IsWalk(f, smi, v, names)

LEMMA ResolveIsWalk ==
  ASSUME NEW S, NEW smi, NEW v, NEW names \in Seq(S)
  PROVE  /\ IsWalk(WalkAlong(smi, v, names), smi, v, names)
         /\ Resolve(smi, v, names) = WalkAlong(smi, v, names)[Len(names)]
<1>1. IsWalk(WalkAlong(smi, v, names), smi, v, names)
  BY WalkExists DEF WalkAlong
<1>2. Resolve(smi, v, names) = WalkAlong(smi, v, names)[Len(names)]
  BY DEF Resolve, IsWalk, Child, WalkAlong
<1> QED BY <1>1, <1>2

(* The root is where the empty path leads.                                 *)
LEMMA ResolveEmpty ==
  ASSUME NEW smi, NEW v
  PROVE  Resolve(smi, v, <<>>) = Root
<1> DEFINE e == <<>>
<1>1. e \in Seq(Nat) /\ Len(e) = 0
  OBVIOUS
<1> HIDE DEF e
<1>2. IsWalk(WalkAlong(smi, v, e), smi, v, e) /\ Resolve(smi, v, e) = WalkAlong(smi, v, e)[Len(e)]
  BY <1>1, ResolveIsWalk
<1>3. WalkAlong(smi, v, e)[0] = Root
  BY <1>1, <1>2 DEF IsWalk
<1>4. Resolve(smi, v, e) = Root
  BY <1>1, <1>2, <1>3
<1> QED BY <1>4 DEF e

(* One more name is one more namei.                                        *)
LEMMA ResolveStep ==
  ASSUME NEW S, NEW smi, NEW v, NEW p \in Seq(S), NEW n \in S
  PROVE  Resolve(smi, v, Append(p, n)) = Child(smi, v, Resolve(smi, v, p), n)
<1> DEFINE q == Append(p, n)
           m == Len(p)
           f == WalkAlong(smi, v, p)
           g == WalkAlong(smi, v, q)
<1>1. /\ q \in Seq(S) /\ Len(q) = m + 1 /\ m \in Nat /\ q[m + 1] = n
      /\ \A k \in 1 .. m : q[k] = p[k]
  OBVIOUS
<1> HIDE DEF q
<1>2. IsWalk(f, smi, v, p) /\ Resolve(smi, v, p) = f[m]
  BY ResolveIsWalk
<1>3. IsWalk(g, smi, v, q) /\ Resolve(smi, v, q) = g[Len(q)]
  BY <1>1, ResolveIsWalk
<1> HIDE DEF m, f, g
<1>4. WalksTo(f, m, smi, v, q)
  BY <1>1, <1>2 DEF IsWalk, WalksTo, m
<1>5. m \in 0 .. Len(q)
  BY <1>1
<1>6. \A k \in 0 .. m : g[k] = f[k]
  BY <1>1, <1>3, <1>4, <1>5, WalkIsUnique
<1>7. g[m + 1] = Child(smi, v, g[m], n)
  <2>1. m + 1 \in 0 .. Len(q) /\ m + 1 # 0 /\ (m + 1) - 1 = m
    BY <1>1
  <2> QED BY <1>1, <1>3, <2>1 DEF IsWalk
<1> QED BY <1>1, <1>2, <1>3, <1>6, <1>7 DEF q, m

(* The same, from the end of a path that is not empty.                     *)
LEMMA ResolveFront ==
  ASSUME NEW S, NEW smi, NEW v, NEW p \in Seq(S), p # <<>>
  PROVE  Resolve(smi, v, p) = Child(smi, v, Resolve(smi, v, Front(p)), Last(p))
<1>1. Front(p) \in Seq(S) /\ Last(p) \in S /\ p = Append(Front(p), Last(p))
  BY FrontAndLast
<1>2. Resolve(smi, v, Append(Front(p), Last(p))) = Child(smi, v, Resolve(smi, v, Front(p)), Last(p))
  BY <1>1, ResolveStep
<1> QED BY <1>1, <1>2

(* ------------------------- induction on a path ------------------------- *)

(* What a path is made of: names of the tree, and the words of /.snapshot. *)
Word == Name \cup Version \cup {Current, SNAPSHOT_ENTRY}
Path == Seq(Word)

LEMMA PathInduction ==
  ASSUME NEW P \in SUBSET Path, <<>> \in P,
         \A p \in Path : p # <<>> /\ Front(p) \in P => p \in P
  PROVE  P = Path
<1> DEFINE B == Path \ P
<1>1. SUFFICES ASSUME B # {} PROVE FALSE
  OBVIOUS
<1>2. B \in SUBSET Seq(Word)
  BY DEF Path
<1> HIDE DEF B
<1>3. PICK p \in B : \A q \in B : Len(p) <= Len(q)
  BY <1>1, <1>2, ShortestPath
<1>4. p \in Seq(Word) /\ p # <<>> /\ p \notin P
  BY <1>2, <1>3 DEF B
<1>5. Front(p) \in Seq(Word) /\ Len(Front(p)) = Len(p) - 1 /\ Len(p) \in Nat
  BY <1>4, FrontAndLast
<1>6. Front(p) \notin B
  BY <1>3, <1>5
<1> QED BY <1>4, <1>5, <1>6 DEF B, Path

(* What the proofs use of a path.                                          *)
LEMMA PathFront ==
  ASSUME NEW p \in Path, p # <<>>
  PROVE  /\ Front(p) \in Path /\ Last(p) \in Word
         /\ p = Append(Front(p), Last(p))
         /\ Len(p) \in Nat /\ Len(Front(p)) = Len(p) - 1
BY FrontAndLast DEF Path

LEMMA PathAppend ==
  ASSUME NEW p \in Path, NEW n \in Word
  PROVE  /\ Append(p, n) \in Path /\ Append(p, n) # <<>>
         /\ Front(Append(p, n)) = p /\ Last(Append(p, n)) = n
BY FrontOfAppend DEF Path

LEMMA PathPrefix ==
  ASSUME NEW p \in Path, NEW q \in Path
  PROVE  /\ IsPrefix(p, p)
         /\ IsPrefix(p, <<>>) => p = <<>>
         /\ q # <<>> => (IsPrefix(p, q) <=> IsPrefix(p, Front(q)) \/ p = q)
<1>1. IsPrefix(p, p) /\ (IsPrefix(p, <<>>) => p = <<>>)
  BY PrefixOfItself DEF Path
<1>2. ASSUME q # <<>> PROVE IsPrefix(p, q) <=> IsPrefix(p, Front(q)) \/ p = q
  <2>1. Front(q) \in Seq(Word) /\ Last(q) \in Word /\ q = Append(Front(q), Last(q))
    BY <1>2, FrontAndLast DEF Path
  <2>2. IsPrefix(p, Append(Front(q), Last(q))) <=>
          IsPrefix(p, Front(q)) \/ p = Append(Front(q), Last(q))
    BY <2>1, PrefixOfAppend DEF Path
  <2> QED BY <2>1, <2>2
<1> QED BY <1>1, <1>2

LEMMA EmptyPath == <<>> \in Path
BY DEF Path

(* A path leads where its last name leads from where its front leads.      *)
LEMMA ResolvePath ==
  ASSUME NEW smi, NEW v, NEW p \in Path, p # <<>>
  PROVE  Resolve(smi, v, p) = Child(smi, v, Resolve(smi, v, Front(p)), Last(p))
BY ResolveFront DEF Path

(* -------------------------- a version as a tree ------------------------ *)

(* What namei finds from the inodes a version holds: nothing outside the   *)
(* version, never the root, and no inode from two places.  (Nowhere has no *)
(* dentries.)                                                              *)
IsForest(smi, v) ==
  /\ Root \in smi.lists[v] /\ Nowhere \notin smi.lists[v]
  /\ \A n \in Word : Child(smi, v, Nowhere, n) = Nowhere
  /\ \A id \in smi.lists[v], n \in Word :
       Child(smi, v, id, n) \in (smi.lists[v] \ {Root}) \cup {Nowhere}
  /\ \A id1, id2 \in smi.lists[v], n1, n2 \in Word :
       Child(smi, v, id1, n1) = Child(smi, v, id2, n2) /\ Child(smi, v, id1, n1) # Nowhere
         => id1 = id2 /\ n1 = n2

(* Every inode of the version is at the end of a path.                     *)
IsReached(smi, v) == \A id \in smi.lists[v] : \E p \in Path : Resolve(smi, v, p) = id

(* A path leads to an inode of the version, or nowhere.                    *)
LEMMA ResolveInVersion ==
  ASSUME NEW smi, NEW v, IsForest(smi, v), NEW p \in Path
  PROVE  Resolve(smi, v, p) \in smi.lists[v] \cup {Nowhere}
<1> DEFINE P == {q \in Path : Resolve(smi, v, q) \in smi.lists[v] \cup {Nowhere}}
<1>1. P \in SUBSET Path
  OBVIOUS
<1>2. <<>> \in P
  BY EmptyPath, ResolveEmpty DEF IsForest
<1>3. ASSUME NEW q \in Path, q # <<>> /\ Front(q) \in P PROVE q \in P
  <2>1. Last(q) \in Word /\ Resolve(smi, v, Front(q)) \in smi.lists[v] \cup {Nowhere}
    BY <1>3, PathFront
  <2>2. Child(smi, v, Resolve(smi, v, Front(q)), Last(q)) \in smi.lists[v] \cup {Nowhere}
    BY <2>1 DEF IsForest
  <2> QED BY <1>3, <2>2, ResolvePath
<1> HIDE DEF P
<1>4. P = Path
  BY <1>1, <1>2, <1>3, PathInduction
<1> QED BY <1>4 DEF P

(* What is found at the end of a path that is not empty has a place.       *)
LEMMA ResolvePlace ==
  ASSUME NEW smi, NEW v, IsForest(smi, v), NEW p \in Path, p # <<>>,
         Resolve(smi, v, p) # Nowhere
  PROVE  /\ Resolve(smi, v, Front(p)) \in smi.lists[v]
         /\ Resolve(smi, v, p) = Child(smi, v, Resolve(smi, v, Front(p)), Last(p))
         /\ Resolve(smi, v, p) \in smi.lists[v] \ {Root}
<1>1. Front(p) \in Path /\ Last(p) \in Word
  BY PathFront
<1>2. Resolve(smi, v, Front(p)) \in smi.lists[v] \cup {Nowhere}
  BY <1>1, ResolveInVersion
<1>3. Resolve(smi, v, p) = Child(smi, v, Resolve(smi, v, Front(p)), Last(p))
  BY ResolvePath
<1> QED BY <1>1, <1>2, <1>3 DEF IsForest

(* Two paths to one inode are the same path.                               *)
LEMMA ResolveIsInjective ==
  ASSUME NEW smi, NEW v, IsForest(smi, v), NEW p \in Path, NEW q \in Path,
         Resolve(smi, v, p) = Resolve(smi, v, q), Resolve(smi, v, p) # Nowhere
  PROVE  p = q
<1> DEFINE Unique(r) == \A x \in Path : /\ Resolve(smi, v, r) = Resolve(smi, v, x)
                                        /\ Resolve(smi, v, r) # Nowhere
                                        => r = x
           P == {r \in Path : Unique(r)}
<1>1. P \in SUBSET Path
  OBVIOUS
<1>2. <<>> \in P
  BY EmptyPath, ResolveEmpty, ResolvePlace
<1>3. ASSUME NEW r \in Path, r # <<>> /\ Front(r) \in P PROVE r \in P
  <2> SUFFICES ASSUME NEW x \in Path, Resolve(smi, v, r) = Resolve(smi, v, x),
                      Resolve(smi, v, r) # Nowhere
               PROVE  r = x
    OBVIOUS
  <2>1. /\ Resolve(smi, v, Front(r)) \in smi.lists[v]
        /\ Resolve(smi, v, r) = Child(smi, v, Resolve(smi, v, Front(r)), Last(r))
        /\ Resolve(smi, v, r) # Root
    BY <1>3, ResolvePlace
  <2>2. x # <<>>
    BY <2>1, ResolveEmpty
  <2>3. /\ Resolve(smi, v, Front(x)) \in smi.lists[v]
        /\ Resolve(smi, v, x) = Child(smi, v, Resolve(smi, v, Front(x)), Last(x))
    BY <2>2, ResolvePlace
  <2>4. /\ Last(r) \in Word /\ Last(x) \in Word /\ Front(x) \in Path
        /\ r = Append(Front(r), Last(r)) /\ x = Append(Front(x), Last(x))
    BY <1>3, <2>2, PathFront
  <2>5. Resolve(smi, v, Front(r)) = Resolve(smi, v, Front(x)) /\ Last(r) = Last(x)
    <3>1. \A id1, id2 \in smi.lists[v], n1, n2 \in Word :
            Child(smi, v, id1, n1) = Child(smi, v, id2, n2) /\ Child(smi, v, id1, n1) # Nowhere
              => id1 = id2 /\ n1 = n2
      BY DEF IsForest
    <3>2. /\ Child(smi, v, Resolve(smi, v, Front(r)), Last(r)) # Nowhere
          /\ Child(smi, v, Resolve(smi, v, Front(r)), Last(r))
               = Child(smi, v, Resolve(smi, v, Front(x)), Last(x))
      BY <2>1, <2>3
    <3> QED BY <2>1, <2>3, <2>4, <3>1, <3>2
  <2>6. Resolve(smi, v, Front(r)) # Nowhere
    BY <2>1 DEF IsForest
  <2>7. Front(r) = Front(x)
    BY <1>3, <2>4, <2>5, <2>6
  <2> QED BY <2>4, <2>5, <2>7
<1> HIDE DEF P
<1>4. P = Path
  BY <1>1, <1>2, <1>3, PathInduction
<1> QED BY <1>4 DEF P

(* What a path that leads somewhere goes through leads somewhere.          *)
LEMMA ResolvePrefix ==
  ASSUME NEW smi, NEW v, IsForest(smi, v), NEW p \in Path, NEW q \in Path,
         IsPrefix(p, q), Resolve(smi, v, q) # Nowhere
  PROVE  Resolve(smi, v, p) # Nowhere
<1> DEFINE P == {r \in Path : IsPrefix(p, r) /\ Resolve(smi, v, r) # Nowhere
                                => Resolve(smi, v, p) # Nowhere}
<1>1. P \in SUBSET Path
  OBVIOUS
<1>2. <<>> \in P
  BY EmptyPath, PathPrefix
<1>3. ASSUME NEW r \in Path, r # <<>> /\ Front(r) \in P PROVE r \in P
  <2> SUFFICES ASSUME IsPrefix(p, r), Resolve(smi, v, r) # Nowhere
               PROVE  Resolve(smi, v, p) # Nowhere
    OBVIOUS
  <2>1. CASE p = r
    BY <2>1
  <2>2. CASE p # r
    <3>1. IsPrefix(p, Front(r))
      BY <1>3, <2>2, PathPrefix
    <3>2. Resolve(smi, v, Front(r)) # Nowhere
      BY <1>3, ResolvePlace DEF IsForest
    <3> QED BY <1>3, <3>1, <3>2
  <2> QED BY <2>1, <2>2
<1> HIDE DEF P
<1>4. P = Path
  BY <1>1, <1>2, <1>3, PathInduction
<1> QED BY <1>4 DEF P

(* ------------------- what a change does to the walks ------------------- *)

IsVersionTree(smi, v) == IsForest(smi, v) /\ IsReached(smi, v)

(* A change that shows only at the ends of the paths of Q is not seen on a *)
(* path none of them is a prefix of.                                       *)
SameChildOutside(smi, v, t, w, Q) ==
  \A r \in Path : r # <<>> /\ r \notin Q =>
    Child(t, w, Resolve(smi, v, Front(r)), Last(r)) = Child(smi, v, Resolve(smi, v, Front(r)), Last(r))

LEMMA ResolveOutside ==
  ASSUME NEW smi, NEW v, NEW t, NEW w, NEW Q \in SUBSET Path,
         SameChildOutside(smi, v, t, w, Q),
         NEW p \in Path, \A q \in Q : ~IsPrefix(q, p)
  PROVE  Resolve(t, w, p) = Resolve(smi, v, p)
<1> DEFINE P == {r \in Path : (\A q \in Q : ~IsPrefix(q, r)) => Resolve(t, w, r) = Resolve(smi, v, r)}
<1>1. P \in SUBSET Path
  OBVIOUS
<1>2. <<>> \in P
  BY EmptyPath, ResolveEmpty
<1>3. ASSUME NEW r \in Path, r # <<>> /\ Front(r) \in P PROVE r \in P
  <2> SUFFICES ASSUME \A q \in Q : ~IsPrefix(q, r) PROVE Resolve(t, w, r) = Resolve(smi, v, r)
    OBVIOUS
  <2>1. r \notin Q
    BY <1>3, PathPrefix
  <2>2. \A q \in Q : ~IsPrefix(q, Front(r))
    BY <1>3, PathPrefix
  <2>3. Resolve(t, w, Front(r)) = Resolve(smi, v, Front(r))
    BY <1>3, <2>2
  <2>4. /\ Resolve(t, w, r) = Child(t, w, Resolve(t, w, Front(r)), Last(r))
        /\ Resolve(smi, v, r) = Child(smi, v, Resolve(smi, v, Front(r)), Last(r))
    BY <1>3, ResolvePath
  <2> QED BY <1>3, <2>1, <2>3, <2>4 DEF SameChildOutside
<1> HIDE DEF P
<1>4. P = Path
  BY <1>1, <1>2, <1>3, PathInduction
<1> QED BY <1>4 DEF P

(* Version w of t has the inodes and the dentries of version v of smi.     *)
SameVersion(smi, v, t, w) ==
  /\ t.lists[w] = smi.lists[v]
  /\ \A id \in smi.lists[v] \cup {Nowhere}, n \in Word : Child(t, w, id, n) = Child(smi, v, id, n)

LEMMA SameVersionIsTree ==
  ASSUME NEW smi, NEW v, NEW t, NEW w, IsVersionTree(smi, v), SameVersion(smi, v, t, w)
  PROVE  /\ IsVersionTree(t, w)
         /\ \A p \in Path : Resolve(t, w, p) = Resolve(smi, v, p)
<1>1. SameChildOutside(smi, v, t, w, {})
  <2> SUFFICES ASSUME NEW r \in Path, r # <<>>
               PROVE  Child(t, w, Resolve(smi, v, Front(r)), Last(r))
                        = Child(smi, v, Resolve(smi, v, Front(r)), Last(r))
    BY DEF SameChildOutside
  <2>1. Front(r) \in Path /\ Last(r) \in Word
    BY PathFront
  <2>2. Resolve(smi, v, Front(r)) \in smi.lists[v] \cup {Nowhere}
    BY <2>1, ResolveInVersion DEF IsVersionTree
  <2> QED BY <2>1, <2>2 DEF SameVersion
<1>2. \A p \in Path : Resolve(t, w, p) = Resolve(smi, v, p)
  BY <1>1, ResolveOutside
<1>3. IsForest(t, w)
  BY DEF IsForest, IsVersionTree, SameVersion
<1>4. IsReached(t, w)
  BY <1>2 DEF IsReached, IsVersionTree, SameVersion
<1> QED BY <1>2, <1>3, <1>4 DEF IsVersionTree

(* add_path of a new inode: dentry n of dir leads to id, which is empty.   *)
AddsChild(smi, t, v, dir, n, id) ==
  /\ dir \in smi.lists[v] /\ n \in Word /\ Child(smi, v, dir, n) = Nowhere
  /\ id \notin smi.lists[v] \cup {Nowhere}
  /\ t.lists[v] = smi.lists[v] \cup {id}
  /\ \A m \in Word : Child(t, v, Nowhere, m) = Nowhere /\ Child(t, v, id, m) = Nowhere
  /\ \A x \in smi.lists[v], m \in Word :
       Child(t, v, x, m) = IF x = dir /\ m = n THEN id ELSE Child(smi, v, x, m)

LEMMA AddedChildResolves ==
  ASSUME NEW smi, NEW t, NEW v, NEW dir, NEW n, NEW id,
         IsForest(smi, v), AddsChild(smi, t, v, dir, n, id),
         NEW q \in Path, q # <<>>, Resolve(smi, v, Front(q)) = dir, Last(q) = n,
         NEW p \in Path
  PROVE  Resolve(t, v, p) = IF p = q THEN id ELSE Resolve(smi, v, p)
<1> DEFINE P == {r \in Path : Resolve(t, v, r) = IF r = q THEN id ELSE Resolve(smi, v, r)}
<1>1. P \in SUBSET Path
  OBVIOUS
<1>2. <<>> \in P
  BY EmptyPath, ResolveEmpty
<1>3. ASSUME NEW r \in Path, r # <<>> /\ Front(r) \in P PROVE r \in P
  <2>1. /\ Front(r) \in Path /\ Last(r) \in Word /\ r = Append(Front(r), Last(r))
        /\ Front(q) \in Path /\ q = Append(Front(q), Last(q))
        /\ Len(q) \in Nat /\ Len(Front(q)) = Len(q) - 1
    BY <1>3, PathFront
  <2>2. /\ Resolve(t, v, r) = Child(t, v, Resolve(t, v, Front(r)), Last(r))
        /\ Resolve(smi, v, r) = Child(smi, v, Resolve(smi, v, Front(r)), Last(r))
    BY <1>3, ResolvePath
  <2>3. Resolve(smi, v, Front(r)) \in smi.lists[v] \cup {Nowhere}
    BY <2>1, ResolveInVersion
  <2>4. CASE r = q
    <3>1. Front(q) # q
      BY <2>1
    <3>2. Resolve(t, v, Front(q)) = dir
      BY <1>3, <2>4, <3>1
    <3>3. Child(t, v, dir, n) = id
      BY DEF AddsChild
    <3> QED BY <2>2, <2>4, <3>2, <3>3
  <2>5. CASE r # q /\ Front(r) = q
    <3>1. Resolve(t, v, Front(r)) = id
      BY <1>3, <2>5
    <3>2. Resolve(smi, v, q) = Child(smi, v, dir, n)
      BY ResolvePath
    <3>3. Resolve(smi, v, Front(r)) = Nowhere
      BY <2>5, <3>2 DEF AddsChild
    <3>4. Resolve(t, v, r) = Nowhere
      BY <2>1, <2>2, <3>1 DEF AddsChild
    <3>5. Resolve(smi, v, r) = Nowhere
      BY <2>1, <2>2, <3>3 DEF IsForest
    <3> QED BY <2>5, <3>4, <3>5
  <2>6. CASE r # q /\ Front(r) # q
    <3>1. Resolve(t, v, Front(r)) = Resolve(smi, v, Front(r))
      BY <1>3, <2>6
    <3>2. ~(Resolve(smi, v, Front(r)) = dir /\ Last(r) = n)
      <4>1. dir # Nowhere
        BY DEF AddsChild, IsForest
      <4>2. ASSUME Resolve(smi, v, Front(r)) = dir PROVE Front(r) = Front(q)
        BY <2>1, <4>1, <4>2, ResolveIsInjective
      <4> QED BY <2>1, <2>6, <4>2
    <3>3. Child(t, v, Resolve(smi, v, Front(r)), Last(r))
            = Child(smi, v, Resolve(smi, v, Front(r)), Last(r))
      <4>1. CASE Resolve(smi, v, Front(r)) = Nowhere
        BY <2>1, <4>1 DEF AddsChild, IsForest
      <4>2. CASE Resolve(smi, v, Front(r)) \in smi.lists[v]
        BY <2>1, <3>2, <4>2 DEF AddsChild
      <4> QED BY <2>3, <4>1, <4>2
    <3> QED BY <2>2, <2>6, <3>1, <3>3
  <2> QED BY <2>4, <2>5, <2>6
<1> HIDE DEF P
<1>4. P = Path
  BY <1>1, <1>2, <1>3, PathInduction
<1> QED BY <1>4 DEF P

LEMMA AddedChildIsTree ==
  ASSUME NEW smi, NEW t, NEW v, NEW dir, NEW n, NEW id,
         IsVersionTree(smi, v), AddsChild(smi, t, v, dir, n, id)
  PROVE  IsVersionTree(t, v)
<1>1. IsForest(smi, v) /\ IsReached(smi, v)
  BY DEF IsVersionTree
<1>2. IsForest(t, v)
  <2>1. Root \in t.lists[v] /\ Nowhere \notin t.lists[v]
    BY <1>1 DEF AddsChild, IsForest
  <2>2. \A m \in Word : Child(t, v, Nowhere, m) = Nowhere
    BY DEF AddsChild
  <2>3. \A x \in t.lists[v], m \in Word :
          Child(t, v, x, m) \in (t.lists[v] \ {Root}) \cup {Nowhere}
    BY <1>1 DEF AddsChild, IsForest
  <2>4. ASSUME NEW x1 \in t.lists[v], NEW x2 \in t.lists[v], NEW n1 \in Word, NEW n2 \in Word,
               Child(t, v, x1, n1) = Child(t, v, x2, n2), Child(t, v, x1, n1) # Nowhere
        PROVE  x1 = x2 /\ n1 = n2
    <3>1. x1 \in smi.lists[v] /\ x2 \in smi.lists[v]
      BY <2>4 DEF AddsChild
    <3>2. /\ Child(t, v, x1, n1) = IF x1 = dir /\ n1 = n THEN id ELSE Child(smi, v, x1, n1)
          /\ Child(t, v, x2, n2) = IF x2 = dir /\ n2 = n THEN id ELSE Child(smi, v, x2, n2)
      BY <3>1 DEF AddsChild
    <3>3. Child(smi, v, x1, n1) # id /\ Child(smi, v, x2, n2) # id
      BY <1>1, <3>1 DEF AddsChild, IsForest
    <3>4. Child(smi, v, x1, n1) = Child(smi, v, x2, n2) /\ Child(smi, v, x1, n1) # Nowhere
            => x1 = x2 /\ n1 = n2
      BY <1>1, <3>1 DEF IsForest
    <3> QED BY <2>4, <3>2, <3>3, <3>4
  <2> QED BY <2>1, <2>2, <2>3, <2>4 DEF IsForest
<1>3. IsReached(t, v)
  <2>1. dir \in smi.lists[v] /\ n \in Word /\ t.lists[v] = smi.lists[v] \cup {id}
    BY DEF AddsChild
  <2>2. PICK p \in Path : Resolve(smi, v, p) = dir
    BY <1>1, <2>1 DEF IsReached
  <2> DEFINE q == Append(p, n)
  <2>3. q \in Path /\ q # <<>> /\ Front(q) = p /\ Last(q) = n
    BY <2>1, PathAppend
  <2> HIDE DEF q
  <2>4. \A r \in Path : Resolve(t, v, r) = IF r = q THEN id ELSE Resolve(smi, v, r)
    BY <1>1, <2>2, <2>3, AddedChildResolves
  <2>5. Resolve(smi, v, q) \notin smi.lists[v]
    <3>1. Resolve(smi, v, q) = Child(smi, v, dir, n)
      BY <2>2, <2>3, ResolvePath
    <3> QED BY <1>1, <3>1 DEF AddsChild, IsForest
  <2>6. \A x \in smi.lists[v] : \E r \in Path : Resolve(t, v, r) = x
    BY <1>1, <2>4, <2>5 DEF IsReached
  <2> QED BY <2>1, <2>3, <2>4, <2>6 DEF IsReached
<1> QED BY <1>2, <1>3 DEF IsVersionTree

(* remove_path of the dentry n of dir, which leads to id: id is a file or  *)
(* an empty directory, and leaves the version.                             *)
TakesChild(smi, t, v, dir, n, id) ==
  /\ dir \in smi.lists[v] /\ n \in Word /\ Child(smi, v, dir, n) = id
  /\ id \in smi.lists[v] /\ \A m \in Word : Child(smi, v, id, m) = Nowhere
  /\ t.lists[v] = smi.lists[v] \ {id}
  /\ \A m \in Word : Child(t, v, Nowhere, m) = Nowhere
  /\ \A x \in smi.lists[v] \ {id}, m \in Word :
       Child(t, v, x, m) = IF x = dir /\ m = n THEN Nowhere ELSE Child(smi, v, x, m)

LEMMA TakenChildResolves ==
  ASSUME NEW smi, NEW t, NEW v, NEW dir, NEW n, NEW id,
         IsForest(smi, v), TakesChild(smi, t, v, dir, n, id),
         NEW q \in Path, Resolve(smi, v, q) = id,
         NEW p \in Path
  PROVE  Resolve(t, v, p) = IF p = q THEN Nowhere ELSE Resolve(smi, v, p)
<1> DEFINE P == {r \in Path : Resolve(t, v, r) = IF r = q THEN Nowhere ELSE Resolve(smi, v, r)}
<1>1. id # Nowhere /\ id # Root /\ id \in smi.lists[v] /\ dir # id
  BY DEF IsForest, TakesChild
<1>2. P \in SUBSET Path
  OBVIOUS
<1>3. <<>> \in P
  BY <1>1, EmptyPath, ResolveEmpty
<1>4. ASSUME NEW r \in Path, r # <<>> /\ Front(r) \in P PROVE r \in P
  <2>1. /\ Front(r) \in Path /\ Last(r) \in Word /\ r = Append(Front(r), Last(r))
        /\ Len(r) \in Nat /\ Len(Front(r)) = Len(r) - 1
    BY <1>4, PathFront
  <2>2. /\ Resolve(t, v, r) = Child(t, v, Resolve(t, v, Front(r)), Last(r))
        /\ Resolve(smi, v, r) = Child(smi, v, Resolve(smi, v, Front(r)), Last(r))
    BY <1>4, ResolvePath
  <2>3. Resolve(smi, v, Front(r)) \in smi.lists[v] \cup {Nowhere}
    BY <2>1, ResolveInVersion
  <2>4. CASE Front(r) = q
    <3>1. Resolve(t, v, Front(r)) = Nowhere
      BY <1>4, <2>4
    <3>2. Resolve(t, v, r) = Nowhere
      BY <2>1, <2>2, <3>1 DEF TakesChild
    <3>3. Resolve(smi, v, r) = Nowhere
      BY <2>1, <2>2, <2>4 DEF TakesChild
    <3>4. r # q
      BY <2>1, <2>4
    <3> QED BY <3>2, <3>3, <3>4
  <2>5. CASE Front(r) # q
    <3> DEFINE y == Resolve(smi, v, Front(r))
    <3>1. Resolve(t, v, Front(r)) = y
      BY <1>4, <2>5
    <3>2. y # id
      BY <1>1, <2>1, <2>5, ResolveIsInjective
    <3>3. y = dir /\ Last(r) = n <=> r = q
      <4>1. ASSUME y = dir /\ Last(r) = n PROVE r = q
        <5>1. Resolve(smi, v, r) = id
          BY <2>2, <4>1 DEF TakesChild
        <5> QED BY <1>1, <5>1, ResolveIsInjective
      <4>2. ASSUME r = q PROVE y = dir /\ Last(r) = n
        <5>1. Child(smi, v, y, Last(r)) = Child(smi, v, dir, n) /\ Child(smi, v, dir, n) # Nowhere
          BY <1>1, <2>2, <4>2 DEF TakesChild
        <5>2. y \in smi.lists[v] /\ dir \in smi.lists[v] /\ n \in Word
          BY <2>1, <2>3, <5>1 DEF IsForest, TakesChild
        <5>3. \A id1, id2 \in smi.lists[v], m1, m2 \in Word :
                Child(smi, v, id1, m1) = Child(smi, v, id2, m2) /\ Child(smi, v, id1, m1) # Nowhere
                  => id1 = id2 /\ m1 = m2
          BY DEF IsForest
        <5> QED BY <2>1, <5>1, <5>2, <5>3
      <4> QED BY <4>1, <4>2
    <3>4. Resolve(t, v, r) = Child(t, v, y, Last(r)) /\ Resolve(smi, v, r) = Child(smi, v, y, Last(r))
      BY <2>2, <3>1
    <3>5. y \in (smi.lists[v] \ {id}) \cup {Nowhere}
      BY <2>3, <3>2
    <3> HIDE DEF y
    <3>6. CASE y = Nowhere
      <4>1. r # q
        BY <3>3, <3>6 DEF TakesChild, IsForest
      <4> QED BY <2>1, <3>4, <3>6, <4>1 DEF TakesChild, IsForest
    <3>7. CASE y \in smi.lists[v] \ {id}
      BY <2>1, <3>3, <3>4, <3>7 DEF TakesChild
    <3> QED BY <3>5, <3>6, <3>7
  <2> QED BY <2>4, <2>5
<1> HIDE DEF P
<1>5. P = Path
  BY <1>2, <1>3, <1>4, PathInduction
<1> QED BY <1>5 DEF P

LEMMA TakenChildIsTree ==
  ASSUME NEW smi, NEW t, NEW v, NEW dir, NEW n, NEW id,
         IsVersionTree(smi, v), TakesChild(smi, t, v, dir, n, id)
  PROVE  IsVersionTree(t, v)
<1>1. IsForest(smi, v) /\ IsReached(smi, v)
  BY DEF IsVersionTree
<1>2. IsForest(t, v)
  <2>1. Root \in t.lists[v] /\ Nowhere \notin t.lists[v]
    BY <1>1 DEF TakesChild, IsForest
  <2>2. \A m \in Word : Child(t, v, Nowhere, m) = Nowhere
    BY DEF TakesChild
  <2>3. ASSUME NEW x1 \in t.lists[v], NEW x2 \in t.lists[v], NEW n1 \in Word, NEW n2 \in Word
        PROVE  /\ Child(t, v, x1, n1) \in (t.lists[v] \ {Root}) \cup {Nowhere}
               /\ Child(t, v, x1, n1) = Child(t, v, x2, n2) /\ Child(t, v, x1, n1) # Nowhere
                    => x1 = x2 /\ n1 = n2
    <3>1. x1 \in smi.lists[v] \ {id} /\ x2 \in smi.lists[v] \ {id}
      BY DEF TakesChild
    <3>2. /\ Child(t, v, x1, n1) = IF x1 = dir /\ n1 = n THEN Nowhere ELSE Child(smi, v, x1, n1)
          /\ Child(t, v, x2, n2) = IF x2 = dir /\ n2 = n THEN Nowhere ELSE Child(smi, v, x2, n2)
      BY <3>1 DEF TakesChild
    <3>3. /\ Child(smi, v, x1, n1) = Child(smi, v, x2, n2) /\ Child(smi, v, x1, n1) # Nowhere
               => x1 = x2 /\ n1 = n2
          /\ Child(smi, v, x1, n1) \in (smi.lists[v] \ {Root}) \cup {Nowhere}
      BY <1>1, <3>1 DEF IsForest
    <3>4. Child(smi, v, x1, n1) = id => x1 = dir /\ n1 = n
      <4>1. /\ id \in smi.lists[v] /\ dir \in smi.lists[v] /\ n \in Word
            /\ Child(smi, v, dir, n) = id /\ id # Nowhere
        BY <1>1 DEF IsForest, TakesChild
      <4>2. \A id1, id2 \in smi.lists[v], m1, m2 \in Word :
              Child(smi, v, id1, m1) = Child(smi, v, id2, m2) /\ Child(smi, v, id1, m1) # Nowhere
                => id1 = id2 /\ m1 = m2
        BY <1>1 DEF IsForest
      <4> QED BY <3>1, <4>1, <4>2
    <3> QED BY <3>2, <3>3, <3>4 DEF TakesChild
  <2> QED BY <2>1, <2>2, <2>3 DEF IsForest
<1>3. IsReached(t, v)
  <2>1. id \in smi.lists[v] /\ t.lists[v] = smi.lists[v] \ {id}
    BY DEF TakesChild
  <2>2. PICK q \in Path : Resolve(smi, v, q) = id
    BY <1>1, <2>1 DEF IsReached
  <2>3. \A r \in Path : Resolve(t, v, r) = IF r = q THEN Nowhere ELSE Resolve(smi, v, r)
    BY <1>1, <2>2, TakenChildResolves
  <2> QED BY <1>1, <2>1, <2>2, <2>3 DEF IsReached
<1> QED BY <1>2, <1>3 DEF IsVersionTree

(* do_rename in one version: dentry n1 of dir1 goes, dentry n2 of dir2,    *)
(* which was free, leads where it led.                                     *)
MovesChild(smi, t, v, dir1, n1, dir2, n2, id) ==
  /\ dir1 \in smi.lists[v] /\ n1 \in Word /\ Child(smi, v, dir1, n1) = id
  /\ id \in smi.lists[v]
  /\ dir2 \in smi.lists[v] /\ n2 \in Word /\ Child(smi, v, dir2, n2) = Nowhere
  /\ t.lists[v] = smi.lists[v]
  /\ \A m \in Word : Child(t, v, Nowhere, m) = Nowhere
  /\ \A x \in smi.lists[v], m \in Word :
       Child(t, v, x, m) = IF x = dir1 /\ m = n1 THEN Nowhere
                           ELSE IF x = dir2 /\ m = n2 THEN id ELSE Child(smi, v, x, m)

(* p is the path of what moves, q its new path, which is not below p.      *)
MovesPath(smi, v, p, q, dir2, n2, id) ==
  /\ p \in Path /\ Resolve(smi, v, p) = id
  /\ q \in Path /\ q # <<>> /\ Resolve(smi, v, Front(q)) = dir2 /\ Last(q) = n2
  /\ ~IsPrefix(p, Front(q))

LEMMA MovedOutside ==
  ASSUME NEW smi, NEW t, NEW v, NEW dir1, NEW n1, NEW dir2, NEW n2, NEW id, NEW p, NEW q,
         IsForest(smi, v), MovesChild(smi, t, v, dir1, n1, dir2, n2, id),
         MovesPath(smi, v, p, q, dir2, n2, id),
         NEW r \in Path, ~IsPrefix(p, r), ~IsPrefix(q, r)
  PROVE  Resolve(t, v, r) = Resolve(smi, v, r)
<1>1. p \in Path /\ q \in Path
  BY DEF MovesPath
<1>2. SameChildOutside(smi, v, t, v, {p, q})
  <2> SUFFICES ASSUME NEW x \in Path, x # <<>>, x # p, x # q
               PROVE  Child(t, v, Resolve(smi, v, Front(x)), Last(x))
                        = Child(smi, v, Resolve(smi, v, Front(x)), Last(x))
    BY DEF SameChildOutside
  <2> DEFINE y == Resolve(smi, v, Front(x))
  <2>1. Front(x) \in Path /\ Last(x) \in Word /\ x = Append(Front(x), Last(x))
    BY PathFront
  <2>2. y \in smi.lists[v] \cup {Nowhere}
    BY <2>1, ResolveInVersion
  <2>3. ~(y = dir1 /\ Last(x) = n1)
    <3>1. Resolve(smi, v, x) = Child(smi, v, y, Last(x))
      BY ResolvePath
    <3>2. Child(smi, v, dir1, n1) = id /\ id # Nowhere /\ Resolve(smi, v, p) = id
      BY DEF MovesChild, MovesPath, IsForest
    <3>3. Resolve(smi, v, x) # id
      BY <1>1, <3>2, ResolveIsInjective
    <3> QED BY <3>1, <3>2, <3>3
  <2>4. ~(y = dir2 /\ Last(x) = n2)
    <3>1. /\ Front(q) \in Path /\ q = Append(Front(q), Last(q)) /\ Last(q) = n2
          /\ Resolve(smi, v, Front(q)) = dir2 /\ dir2 # Nowhere
      BY PathFront DEF MovesPath, MovesChild, IsForest
    <3>2. ASSUME y = dir2 PROVE Front(x) = Front(q)
      BY <2>1, <3>1, <3>2, ResolveIsInjective
    <3> QED BY <2>1, <3>1, <3>2
  <2> HIDE DEF y
  <2>5. ASSUME y = Nowhere PROVE Child(t, v, y, Last(x)) = Child(smi, v, y, Last(x))
    BY <2>1, <2>5 DEF MovesChild, IsForest
  <2>6. ASSUME y \in smi.lists[v] PROVE Child(t, v, y, Last(x)) = Child(smi, v, y, Last(x))
    BY <2>1, <2>3, <2>4, <2>6 DEF MovesChild
  <2>7. Child(t, v, y, Last(x)) = Child(smi, v, y, Last(x))
    BY <2>2, <2>5, <2>6
  <2> QED BY <2>7 DEF y
<1> QED BY <1>1, <1>2, ResolveOutside

(* The new path leads to what has moved.                                   *)
LEMMA MovedThere ==
  ASSUME NEW smi, NEW t, NEW v, NEW dir1, NEW n1, NEW dir2, NEW n2, NEW id, NEW p, NEW q,
         IsForest(smi, v), MovesChild(smi, t, v, dir1, n1, dir2, n2, id),
         MovesPath(smi, v, p, q, dir2, n2, id)
  PROVE  Resolve(t, v, q) = id /\ Resolve(smi, v, q) = Nowhere /\ q # p
<1>1. /\ q \in Path /\ q # <<>> /\ Resolve(smi, v, Front(q)) = dir2 /\ Last(q) = n2
      /\ ~IsPrefix(p, Front(q)) /\ p \in Path
  BY DEF MovesPath
<1>2. Front(q) \in Path
  BY <1>1, PathFront
<1>3. dir2 # Nowhere /\ id # Nowhere
  BY DEF MovesChild, IsForest
<1>4. Resolve(smi, v, q) = Nowhere
  BY <1>1, ResolvePath DEF MovesChild
<1>5. ~IsPrefix(q, Front(q))
  BY <1>1, <1>2, <1>3, <1>4, ResolvePrefix
<1>6. Resolve(t, v, Front(q)) = dir2
  BY <1>1, <1>2, <1>5, MovedOutside
<1>7. Resolve(t, v, q) = Child(t, v, dir2, n2)
  BY <1>1, <1>6, ResolvePath
<1>8. Child(t, v, dir2, n2) = id
  BY <1>3 DEF MovesChild
<1>9. q # p
  BY <1>3, <1>4 DEF MovesPath
<1> QED BY <1>4, <1>7, <1>8, <1>9

LEMMA MovedChildIsTree ==
  ASSUME NEW smi, NEW t, NEW v, NEW dir1, NEW n1, NEW dir2, NEW n2, NEW id, NEW p, NEW q,
         IsVersionTree(smi, v), MovesChild(smi, t, v, dir1, n1, dir2, n2, id),
         MovesPath(smi, v, p, q, dir2, n2, id)
  PROVE  IsVersionTree(t, v)
<1>1. IsForest(smi, v) /\ IsReached(smi, v)
  BY DEF IsVersionTree
<1>2. \A id1, id2 \in smi.lists[v], m1, m2 \in Word :
        Child(smi, v, id1, m1) = Child(smi, v, id2, m2) /\ Child(smi, v, id1, m1) # Nowhere
          => id1 = id2 /\ m1 = m2
  BY <1>1 DEF IsForest
<1>3. /\ dir1 \in smi.lists[v] /\ n1 \in Word /\ Child(smi, v, dir1, n1) = id
      /\ id \in smi.lists[v] /\ id # Nowhere /\ id # Root /\ t.lists[v] = smi.lists[v]
  BY <1>1 DEF MovesChild, IsForest
<1>4. IsForest(t, v)
  <2>1. Root \in t.lists[v] /\ Nowhere \notin t.lists[v]
    BY <1>1, <1>3 DEF IsForest
  <2>2. \A m \in Word : Child(t, v, Nowhere, m) = Nowhere
    BY DEF MovesChild
  <2>3. ASSUME NEW x1 \in t.lists[v], NEW x2 \in t.lists[v], NEW m1 \in Word, NEW m2 \in Word
        PROVE  /\ Child(t, v, x1, m1) \in (t.lists[v] \ {Root}) \cup {Nowhere}
               /\ Child(t, v, x1, m1) = Child(t, v, x2, m2) /\ Child(t, v, x1, m1) # Nowhere
                    => x1 = x2 /\ m1 = m2
    <3>1. x1 \in smi.lists[v] /\ x2 \in smi.lists[v]
      BY <1>3
    <3>2. /\ Child(t, v, x1, m1) = IF x1 = dir1 /\ m1 = n1 THEN Nowhere
                                   ELSE IF x1 = dir2 /\ m1 = n2 THEN id ELSE Child(smi, v, x1, m1)
          /\ Child(t, v, x2, m2) = IF x2 = dir1 /\ m2 = n1 THEN Nowhere
                                   ELSE IF x2 = dir2 /\ m2 = n2 THEN id ELSE Child(smi, v, x2, m2)
      BY <3>1 DEF MovesChild
    <3>3. /\ Child(smi, v, x1, m1) = Child(smi, v, x2, m2) /\ Child(smi, v, x1, m1) # Nowhere
               => x1 = x2 /\ m1 = m2
          /\ Child(smi, v, x1, m1) \in (smi.lists[v] \ {Root}) \cup {Nowhere}
      BY <1>1, <3>1 DEF IsForest
    <3>4. /\ Child(smi, v, x1, m1) = id => x1 = dir1 /\ m1 = n1
          /\ Child(smi, v, x2, m2) = id => x2 = dir1 /\ m2 = n1
      BY <1>2, <1>3, <3>1
    <3> QED BY <1>3, <3>2, <3>3, <3>4
  <2> QED BY <2>1, <2>2, <2>3 DEF IsForest
<1>5. IsReached(t, v)
  <2> DEFINE Reached(y) == \E x \in Path : Resolve(t, v, x) = y
             P == {r \in Path : Resolve(smi, v, r) # Nowhere => Reached(Resolve(smi, v, r))}
  <2>1. P \in SUBSET Path
    OBVIOUS
  <2>2. <<>> \in P
    BY EmptyPath, ResolveEmpty
  <2>3. ASSUME NEW r \in Path, r # <<>> /\ Front(r) \in P PROVE r \in P
    <3> SUFFICES ASSUME Resolve(smi, v, r) # Nowhere PROVE Reached(Resolve(smi, v, r))
      OBVIOUS
    <3> DEFINE y == Resolve(smi, v, Front(r))
    <3>1. Front(r) \in Path /\ Last(r) \in Word
      BY <2>3, PathFront
    <3>2. y \in smi.lists[v] /\ y # Nowhere /\ Resolve(smi, v, r) = Child(smi, v, y, Last(r))
      BY <1>1, <2>3, ResolvePlace DEF IsForest
    <3>3. PICK x \in Path : Resolve(t, v, x) = y
      BY <2>3, <3>2
    <3> DEFINE z == Append(x, Last(r))
    <3>4. z \in Path /\ Resolve(t, v, z) = Child(t, v, y, Last(r))
      <4>1. z \in Path /\ z # <<>> /\ Front(z) = x /\ Last(z) = Last(r)
        BY <3>1, PathAppend
      <4> HIDE DEF z
      <4>2. Resolve(t, v, z) = Child(t, v, Resolve(t, v, Front(z)), Last(z))
        BY <4>1, ResolvePath
      <4> QED BY <3>3, <4>1, <4>2
    <3> HIDE DEF y
    <3>5. CASE y = dir1 /\ Last(r) = n1
      <4>1. Resolve(t, v, q) = id /\ q \in Path
        BY <1>1, MovedThere DEF MovesPath
      <4> QED BY <1>3, <3>2, <3>5, <4>1
    <3>6. CASE ~(y = dir1 /\ Last(r) = n1)
      <4>1. ~(y = dir2 /\ Last(r) = n2)
        BY <3>2 DEF MovesChild
      <4>2. Child(t, v, y, Last(r)) = Child(smi, v, y, Last(r))
        BY <3>1, <3>2, <3>6, <4>1 DEF MovesChild
      <4> QED BY <3>2, <3>4, <4>2
    <3> QED BY <3>5, <3>6
  <2> HIDE DEF P
  <2>4. P = Path
    BY <2>1, <2>2, <2>3, PathInduction
  <2>5. ASSUME NEW x \in t.lists[v] PROVE Reached(x)
    <3>1. x \in smi.lists[v] /\ x # Nowhere
      BY <1>1, <1>3 DEF IsForest
    <3>2. PICK r \in Path : Resolve(smi, v, r) = x
      BY <1>1, <3>1 DEF IsReached
    <3> QED BY <2>4, <3>1, <3>2 DEF P
  <2> QED BY <2>5 DEF IsReached
<1> QED BY <1>4, <1>5 DEF IsVersionTree

(* ------------------------ states of inode_smi_t ------------------------ *)

(* What an inode may store for a version.                                  *)
IsContent(is_dir, content) ==
  IF is_dir THEN DOMAIN content \subseteq Name /\ \A n \in DOMAIN content : content[n] \in Nat
  ELSE content \in Data

IsInode(inode) ==
  /\ inode = [link_count |-> inode.link_count, is_dentry |-> inode.is_dentry,
              buffer_map |-> inode.buffer_map]
  /\ inode.is_dentry \in BOOLEAN
  /\ \A v \in DOMAIN inode.buffer_map : IsContent(inode.is_dentry, inode.buffer_map[v])

(* The versions that hold an inode: its links, and what it stores.         *)
Holders(smi, id) == {v \in DOMAIN smi.lists : id \in smi.lists[v]}

IsCounted(smi, id) ==
  /\ Holders(smi, id) # {}
  /\ smi.pool[id].link_count = Cardinality(Holders(smi, id))
  /\ DOMAIN smi.pool[id].buffer_map = {Current} \cup Holders(smi, id)

(* The part of the invariant that holds between the calls of a handler.    *)
IsSmi(smi) ==
  /\ smi = [pool |-> smi.pool, lists |-> smi.lists]
  /\ IsFiniteSet(DOMAIN smi.pool) /\ DOMAIN smi.pool \subseteq Nat
  /\ IsFiniteSet(DOMAIN smi.lists) /\ Current \in DOMAIN smi.lists
  /\ \A v \in DOMAIN smi.lists : smi.lists[v] \subseteq DOMAIN smi.pool
  /\ \A id \in DOMAIN smi.pool : IsInode(smi.pool[id]) /\ IsCounted(smi, id)

(* The invariant between handlers: every version is a tree, too.           *)
SmiInv(smi) == IsSmi(smi) /\ \A v \in DOMAIN smi.lists : IsVersionTree(smi, v)

(* Snapshot v of t is snapshot v of smi.                                   *)
SameSnapshot(smi, t, v) ==
  /\ t.lists[v] = smi.lists[v]
  /\ \A id \in smi.lists[v] :
       /\ id \in DOMAIN t.pool /\ t.pool[id].is_dentry = smi.pool[id].is_dentry
       /\ v \in DOMAIN t.pool[id].buffer_map
       /\ t.pool[id].buffer_map[v] = smi.pool[id].buffer_map[v]

(* Only version current of smi may have changed in t.                      *)
KeepsSnapshots(smi, t) ==
  /\ DOMAIN t.lists = DOMAIN smi.lists
  /\ \A v \in DOMAIN smi.lists \ {Current} : SameSnapshot(smi, t, v)

(* Two calls that keep the snapshots keep them one after the other.        *)
LEMMA KeepsSnapshotsTwice ==
  ASSUME NEW s, NEW t, NEW u, KeepsSnapshots(s, t), KeepsSnapshots(t, u)
  PROVE  KeepsSnapshots(s, u)
<1>1. \A v \in DOMAIN s.lists \ {Current} : SameSnapshot(s, t, v) /\ SameSnapshot(t, u, v)
  BY DEF KeepsSnapshots
<1>2. \A v \in DOMAIN s.lists \ {Current} : SameSnapshot(s, u, v)
  BY <1>1 DEF SameSnapshot
<1> QED BY <1>2 DEF KeepsSnapshots

(* Nowhere has no dentries: it is the id of no inode.                      *)
LEMMA NothingNowhere ==
  ASSUME NEW smi, IsSmi(smi), NEW v, NEW n
  PROVE  Nowhere \notin DOMAIN smi.pool /\ Child(smi, v, Nowhere, n) = Nowhere
BY DEF IsSmi, Nowhere, Child, HasDentry, IsDir

(* A dentry leads to a number, so to something.                            *)
LEMMA ChildIsDentry ==
  ASSUME NEW smi, IsSmi(smi), NEW v, NEW id, NEW n
  PROVE  /\ HasDentry(smi, id, v, n) <=> Child(smi, v, id, n) # Nowhere
         /\ HasDentry(smi, id, v, n) =>
              id \in DOMAIN smi.pool /\ n \in Name /\ Child(smi, v, id, n) = Dentries(smi, id, v)[n]
<1>1. ASSUME HasDentry(smi, id, v, n)
      PROVE  id \in DOMAIN smi.pool /\ n \in Name /\ Dentries(smi, id, v)[n] \in Nat
  <2>1. /\ id \in DOMAIN smi.pool /\ smi.pool[id].is_dentry
        /\ v \in DOMAIN smi.pool[id].buffer_map /\ n \in DOMAIN smi.pool[id].buffer_map[v]
    BY <1>1 DEF HasDentry, IsDir, Dentries
  <2>2. IsContent(smi.pool[id].is_dentry, smi.pool[id].buffer_map[v])
    BY <2>1 DEF IsSmi, IsInode
  <2> QED BY <2>1, <2>2 DEF IsContent, Dentries
<1> QED BY <1>1 DEF Child, Nowhere

(* What namei reads of an inode.                                           *)
LEMMA ChildOf ==
  ASSUME NEW smi, NEW id \in DOMAIN smi.pool, NEW v, NEW n,
         v \in DOMAIN smi.pool[id].buffer_map
  PROVE  Child(smi, v, id, n) = IF smi.pool[id].is_dentry /\ n \in DOMAIN smi.pool[id].buffer_map[v]
                                THEN smi.pool[id].buffer_map[v][n] ELSE Nowhere
BY DEF Child, HasDentry, Dentries, IsDir

(* A snapshot that is kept is the same tree.                               *)
LEMMA KeptSnapshot ==
  ASSUME NEW smi, NEW t, IsSmi(smi), IsSmi(t), NEW v \in DOMAIN smi.lists, SameSnapshot(smi, t, v)
  PROVE  SameVersion(smi, v, t, v)
<1>1. ASSUME NEW id \in smi.lists[v], NEW n \in Word
      PROVE  Child(t, v, id, n) = Child(smi, v, id, n)
  <2>1. /\ id \in DOMAIN t.pool /\ t.pool[id].is_dentry = smi.pool[id].is_dentry
        /\ v \in DOMAIN t.pool[id].buffer_map
        /\ t.pool[id].buffer_map[v] = smi.pool[id].buffer_map[v]
    BY DEF SameSnapshot
  <2>2. id \in DOMAIN smi.pool /\ v \in DOMAIN smi.pool[id].buffer_map
    BY DEF IsSmi, IsCounted, Holders
  <2> QED BY <2>1, <2>2, ChildOf
<1>2. \A n \in Word : Child(t, v, Nowhere, n) = Child(smi, v, Nowhere, n)
  BY NothingNowhere
<1> QED BY <1>1, <1>2 DEF SameVersion, SameSnapshot

LEMMA KeptTrees ==
  ASSUME NEW smi, NEW t, SmiInv(smi), IsSmi(t), KeepsSnapshots(smi, t)
  PROVE  \A v \in DOMAIN smi.lists \ {Current} :
           IsVersionTree(t, v) /\ \A p \in Path : Resolve(t, v, p) = Resolve(smi, v, p)
<1> TAKE v \in DOMAIN smi.lists \ {Current}
<1>1. SameVersion(smi, v, t, v)
  BY KeptSnapshot DEF SmiInv, KeepsSnapshots
<1> QED BY <1>1, SameVersionIsTree DEF SmiInv

(* ------------------------- save_current, a write ----------------------- *)

(* New content for version current of an inode.                            *)
Save(smi, id, content) == [smi EXCEPT !.pool[id].buffer_map[Current] = content]

(* What a call that saves new content of an inode may change.              *)
SavesAt(smi, t, id) ==
  /\ IsSmi(t) /\ KeepsSnapshots(smi, t)
  /\ t.lists = smi.lists /\ DOMAIN t.pool = DOMAIN smi.pool
  /\ \A x \in DOMAIN smi.pool : t.pool[x].is_dentry = smi.pool[x].is_dentry
  /\ \A x \in DOMAIN smi.pool \ {id} : t.pool[x] = smi.pool[x]

Stores(t, id, content) == t.pool[id].buffer_map[Current] = content
MayStore(smi, id, content) == id \in DOMAIN smi.pool /\ IsContent(smi.pool[id].is_dentry, content)

LEMMA SaveIsSmi ==
  ASSUME NEW smi, IsSmi(smi), NEW id, NEW content, MayStore(smi, id, content)
  PROVE  SavesAt(smi, Save(smi, id, content), id) /\ Stores(Save(smi, id, content), id, content)
<1> DEFINE t == Save(smi, id, content)
<1>0. id \in DOMAIN smi.pool /\ IsContent(smi.pool[id].is_dentry, content)
  BY DEF MayStore
<1>1. smi = [pool |-> smi.pool, lists |-> smi.lists] /\ \A x \in DOMAIN smi.pool :
        IsInode(smi.pool[x]) /\ IsCounted(smi, x)
  BY DEF IsSmi
<1>2. /\ t = [pool |-> t.pool, lists |-> t.lists]
      /\ t.lists = smi.lists /\ DOMAIN t.pool = DOMAIN smi.pool
      /\ \A x \in DOMAIN smi.pool \ {id} : t.pool[x] = smi.pool[x]
      /\ t.pool[id] = [smi.pool[id] EXCEPT !.buffer_map[Current] = content]
  BY <1>0, <1>1 DEF Save
<1> HIDE DEF t
<1>3. /\ t.pool[id] = [link_count |-> t.pool[id].link_count, is_dentry |-> t.pool[id].is_dentry,
                       buffer_map |-> t.pool[id].buffer_map]
      /\ t.pool[id].link_count = smi.pool[id].link_count
      /\ t.pool[id].is_dentry = smi.pool[id].is_dentry
      /\ t.pool[id].buffer_map = [smi.pool[id].buffer_map EXCEPT ![Current] = content]
  BY <1>0, <1>1, <1>2 DEF IsInode
<1>4. Current \in DOMAIN smi.pool[id].buffer_map
  BY <1>0, <1>1 DEF IsCounted
<1>5. /\ DOMAIN t.pool[id].buffer_map = DOMAIN smi.pool[id].buffer_map
      /\ t.pool[id].buffer_map[Current] = content
      /\ \A v \in DOMAIN smi.pool[id].buffer_map \ {Current} :
           t.pool[id].buffer_map[v] = smi.pool[id].buffer_map[v]
  BY <1>3, <1>4
<1>6. ASSUME NEW x \in DOMAIN t.pool PROVE IsInode(t.pool[x]) /\ IsCounted(t, x)
  <2>1. IsCounted(t, x)
    <3>1. Holders(t, x) = Holders(smi, x) /\ IsCounted(smi, x)
      BY <1>1, <1>2 DEF Holders
    <3>2. /\ t.pool[x].link_count = smi.pool[x].link_count
          /\ DOMAIN t.pool[x].buffer_map = DOMAIN smi.pool[x].buffer_map
      BY <1>2, <1>3, <1>5
    <3> QED BY <3>1, <3>2 DEF IsCounted
  <2>2. IsInode(t.pool[x])
    <3>1. CASE x = id
      <4>1. \A v \in DOMAIN t.pool[id].buffer_map :
              IsContent(t.pool[id].is_dentry, t.pool[id].buffer_map[v])
        BY <1>0, <1>1, <1>3, <1>5 DEF IsInode
      <4>2. t.pool[id].is_dentry \in BOOLEAN
        BY <1>0, <1>1, <1>3 DEF IsInode
      <4> QED BY <1>3, <3>1, <4>1, <4>2 DEF IsInode
    <3>2. CASE x # id
      BY <1>1, <1>2, <3>2
    <3> QED BY <3>1, <3>2
  <2> QED BY <2>1, <2>2
<1>7. IsSmi(t)
  BY <1>2, <1>6 DEF IsSmi
<1>8. KeepsSnapshots(smi, t)
  <2> SUFFICES ASSUME NEW v \in DOMAIN smi.lists \ {Current}, NEW x \in smi.lists[v]
               PROVE  /\ x \in DOMAIN t.pool /\ t.pool[x].is_dentry = smi.pool[x].is_dentry
                      /\ v \in DOMAIN t.pool[x].buffer_map
                      /\ t.pool[x].buffer_map[v] = smi.pool[x].buffer_map[v]
    BY <1>2 DEF KeepsSnapshots, SameSnapshot
  <2>1. x \in DOMAIN smi.pool /\ v \in DOMAIN smi.pool[x].buffer_map
    BY DEF IsSmi, IsCounted, Holders
  <2>2. CASE x = id
    BY <1>2, <1>3, <1>5, <2>1, <2>2
  <2>3. CASE x # id
    BY <1>2, <2>1, <2>3
  <2> QED BY <2>2, <2>3
<1> QED BY <1>2, <1>3, <1>5, <1>7, <1>8 DEF t, SavesAt, Stores

(* What add_path and remove_path do to the walks of version current.       *)
LEMMA AddDentryIsSmi ==
  ASSUME NEW smi, IsSmi(smi), NEW dir, IsDir(smi, dir), NEW n \in Name, NEW id \in Nat
  PROVE  LET t == AddDentry(smi, dir, n, id)
         IN  /\ SavesAt(smi, t, dir)
             /\ \A x \in DOMAIN smi.pool, m \in Word :
                  Child(t, Current, x, m) = IF x = dir /\ m = n THEN id ELSE Child(smi, Current, x, m)
<1> DEFINE old == smi.pool[dir].buffer_map[Current]
           new == [m \in DOMAIN old \cup {n} |-> IF m = n THEN id ELSE old[m]]
           t == Save(smi, dir, new)
<1>1. AddDentry(smi, dir, n, id) = t
  BY DEF AddDentry, Save
<1>2. dir \in DOMAIN smi.pool /\ smi.pool[dir].is_dentry
  BY DEF IsDir
<1>3. \A x \in DOMAIN smi.pool : Current \in DOMAIN smi.pool[x].buffer_map
  BY DEF IsSmi, IsCounted
<1>4. IsContent(smi.pool[dir].is_dentry, old)
  BY <1>2, <1>3 DEF IsSmi, IsInode
<1>5. MayStore(smi, dir, new)
  BY <1>2, <1>4 DEF IsContent, MayStore
<1> HIDE DEF new
<1>6. SavesAt(smi, t, dir) /\ Stores(t, dir, new)
  BY <1>5, SaveIsSmi
<1> HIDE DEF t
<1>7. ASSUME NEW x \in DOMAIN smi.pool, NEW m \in Word
      PROVE  Child(t, Current, x, m) = IF x = dir /\ m = n THEN id ELSE Child(smi, Current, x, m)
  <2>1. Current \in DOMAIN t.pool[x].buffer_map /\ Current \in DOMAIN smi.pool[x].buffer_map
    BY <1>3, <1>6 DEF IsSmi, IsCounted, SavesAt
  <2>2. x \in DOMAIN t.pool /\ t.pool[x].is_dentry = smi.pool[x].is_dentry
    BY <1>6 DEF SavesAt
  <2>3. CASE x = dir
    BY <1>2, <1>6, <2>1, <2>2, <2>3, ChildOf DEF new, Stores
  <2>4. CASE x # dir
    <3>1. t.pool[x] = smi.pool[x]
      BY <1>6, <2>4 DEF SavesAt
    <3> QED BY <2>1, <2>2, <2>4, <3>1, ChildOf
  <2> QED BY <2>3, <2>4
<1> QED BY <1>1, <1>6, <1>7

LEMMA DropDentryIsSmi ==
  ASSUME NEW smi, IsSmi(smi), NEW dir, IsDir(smi, dir), NEW n
  PROVE  LET t == DropDentry(smi, dir, n)
         IN  /\ SavesAt(smi, t, dir)
             /\ \A x \in DOMAIN smi.pool, m \in Word :
                  Child(t, Current, x, m) = IF x = dir /\ m = n THEN Nowhere
                                            ELSE Child(smi, Current, x, m)
<1> DEFINE old == smi.pool[dir].buffer_map[Current]
           new == [m \in DOMAIN old \ {n} |-> old[m]]
           t == Save(smi, dir, new)
<1>1. DropDentry(smi, dir, n) = t
  BY DEF DropDentry, Save
<1>2. dir \in DOMAIN smi.pool /\ smi.pool[dir].is_dentry
  BY DEF IsDir
<1>3. \A x \in DOMAIN smi.pool : Current \in DOMAIN smi.pool[x].buffer_map
  BY DEF IsSmi, IsCounted
<1>4. IsContent(smi.pool[dir].is_dentry, old)
  BY <1>2, <1>3 DEF IsSmi, IsInode
<1>5. MayStore(smi, dir, new)
  BY <1>2, <1>4 DEF IsContent, MayStore
<1> HIDE DEF new
<1>6. SavesAt(smi, t, dir) /\ Stores(t, dir, new)
  BY <1>5, SaveIsSmi
<1> HIDE DEF t
<1>7. ASSUME NEW x \in DOMAIN smi.pool, NEW m \in Word
      PROVE  Child(t, Current, x, m) = IF x = dir /\ m = n THEN Nowhere
                                       ELSE Child(smi, Current, x, m)
  <2>1. Current \in DOMAIN t.pool[x].buffer_map /\ Current \in DOMAIN smi.pool[x].buffer_map
    BY <1>3, <1>6 DEF IsSmi, IsCounted, SavesAt
  <2>2. x \in DOMAIN t.pool /\ t.pool[x].is_dentry = smi.pool[x].is_dentry
    BY <1>6 DEF SavesAt
  <2>3. CASE x = dir
    BY <1>2, <1>6, <2>1, <2>2, <2>3, ChildOf DEF new, Stores
  <2>4. CASE x # dir
    <3>1. t.pool[x] = smi.pool[x]
      BY <1>6, <2>4 DEF SavesAt
    <3> QED BY <2>1, <2>2, <2>4, <3>1, ChildOf
  <2> QED BY <2>3, <2>4
<1> QED BY <1>1, <1>6, <1>7

(* ------------------------------ new inodes ----------------------------- *)

(* get_free_id finds an id the pool does not have, among the first ids: n  *)
(* inodes cannot take all the n + 1 ids from n to 2 n.                     *)
LEMMA FreeIdIsFree ==
  ASSUME NEW pool, IsFiniteSet(DOMAIN pool), DOMAIN pool \subseteq Nat
  PROVE  /\ FreeId(pool) \in Nat \ DOMAIN pool
         /\ FreeId(pool) <= 2 * Cardinality(DOMAIN pool)
<1> DEFINE size == Cardinality(DOMAIN pool)
           ids == size .. 2 * size
           free == ids \ DOMAIN pool
<1>1. size \in Nat
  BY FS_CardinalityType
<1>2. free # {}
  <2> SUFFICES ASSUME ids \subseteq DOMAIN pool PROVE FALSE
    OBVIOUS
  <2>1. IsFiniteSet(ids) /\ Cardinality(ids) = size + 1
    <3> HIDE DEF size
    <3>1. size \in Int /\ 2 * size \in Int /\ size <= 2 * size
      BY <1>1
    <3>2. IsFiniteSet(ids) /\ Cardinality(ids) = 2 * size - size + 1
      BY <3>1, FS_Interval
    <3> QED BY <1>1, <3>2
  <2>2. Cardinality(ids) <= size
    BY FS_Subset
  <2> QED BY <1>1, <2>1, <2>2
<1>3. free \in SUBSET Nat
  <2> HIDE DEF size
  <2> QED BY <1>1
<1>4. PICK id \in free : \A x \in free : id <= x
  BY <1>2, <1>3, LeastNumber
<1>5. FreeId(pool) = CHOOSE x \in free : \A y \in free : x <= y
  BY DEF FreeId
<1> HIDE DEF free
<1>6. FreeId(pool) \in free
  BY <1>4, <1>5
<1>7. FreeId(pool) \in ids /\ FreeId(pool) \notin DOMAIN pool
  BY <1>6 DEF free
<1> HIDE DEF size
<1> QED BY <1>1, <1>7 DEF size

(* The pool with one more inode, held by version current.                  *)
AddInode(smi, id, inode) ==
  [smi EXCEPT !.pool = [x \in DOMAIN @ \cup {id} |-> IF x = id THEN inode ELSE @[x]],
              !.lists[Current] = @ \cup {id}]

LEMMA NewInodeIsInode ==
  ASSUME NEW is_dir \in BOOLEAN
  PROVE  IsInode(NewInode(is_dir))
<1>1. NoData \in Data
  BY InodeSmiAssumption
<1>2. IsContent(is_dir, IF is_dir THEN NoDentries ELSE NoData)
  BY <1>1 DEF IsContent, NoDentries
<1> QED BY <1>2 DEF NewInode, IsInode

LEMMA AddInodeIsSmi ==
  ASSUME NEW smi, IsSmi(smi), NEW id \in Nat \ DOMAIN smi.pool, NEW is_dir \in BOOLEAN
  PROVE  LET t == AddInode(smi, id, NewInode(is_dir))
         IN  /\ IsSmi(t) /\ KeepsSnapshots(smi, t)
             /\ DOMAIN t.lists = DOMAIN smi.lists
             /\ t.lists[Current] = smi.lists[Current] \cup {id}
             /\ DOMAIN t.pool = DOMAIN smi.pool \cup {id}
             /\ t.pool[id] = NewInode(is_dir)
             /\ \A x \in DOMAIN smi.pool : t.pool[x] = smi.pool[x]
<1> DEFINE t == AddInode(smi, id, NewInode(is_dir))
<1>1. /\ smi = [pool |-> smi.pool, lists |-> smi.lists] /\ Current \in DOMAIN smi.lists
      /\ \A x \in DOMAIN smi.pool : IsInode(smi.pool[x]) /\ IsCounted(smi, x)
      /\ \A v \in DOMAIN smi.lists : smi.lists[v] \subseteq DOMAIN smi.pool
  BY DEF IsSmi
<1> DEFINE pool == [x \in DOMAIN smi.pool \cup {id} |-> IF x = id THEN NewInode(is_dir) ELSE smi.pool[x]]
           list == smi.lists[Current] \cup {id}
<1>2. /\ t = [pool |-> t.pool, lists |-> t.lists]
      /\ t.pool = pool
      /\ t.lists = [smi.lists EXCEPT ![Current] = list]
  <2>1. t = [smi EXCEPT !.pool = pool, !.lists[Current] = list]
    BY DEF AddInode
  <2> HIDE DEF t, pool, list
  <2> QED BY <1>1, <2>1
<1> HIDE DEF t
<1>3. /\ DOMAIN t.pool = DOMAIN smi.pool \cup {id} /\ t.pool[id] = NewInode(is_dir)
      /\ \A x \in DOMAIN smi.pool : t.pool[x] = smi.pool[x]
  BY <1>2
<1>4. /\ DOMAIN t.lists = DOMAIN smi.lists /\ t.lists[Current] = smi.lists[Current] \cup {id}
      /\ \A v \in DOMAIN smi.lists \ {Current} : t.lists[v] = smi.lists[v]
  BY <1>1, <1>2
<1>5. \A x \in DOMAIN smi.pool : Holders(t, x) = Holders(smi, x)
  BY <1>1, <1>4 DEF Holders
<1>6. Holders(t, id) = {Current}
  BY <1>1, <1>4 DEF Holders
<1>7. ASSUME NEW x \in DOMAIN t.pool PROVE IsInode(t.pool[x]) /\ IsCounted(t, x)
  <2>1. CASE x = id
    <3>1. Cardinality({Current}) = 1
      BY FS_Singleton
    <3>2. IsCounted(t, id)
      BY <1>3, <1>6, <3>1 DEF IsCounted, NewInode
    <3> QED BY <1>3, <2>1, <3>2, NewInodeIsInode
  <2>2. CASE x # id
    BY <1>1, <1>3, <1>5, <2>2 DEF IsCounted
  <2> QED BY <2>1, <2>2
<1>8. IsSmi(t)
  <2>1. IsFiniteSet(DOMAIN t.pool) /\ DOMAIN t.pool \subseteq Nat
    BY <1>3, FS_AddElement DEF IsSmi
  <2>2. IsFiniteSet(DOMAIN t.lists) /\ Current \in DOMAIN t.lists
    BY <1>4 DEF IsSmi
  <2>3. \A v \in DOMAIN t.lists : t.lists[v] \subseteq DOMAIN t.pool
    BY <1>1, <1>3, <1>4
  <2> QED BY <1>2, <1>7, <2>1, <2>2, <2>3 DEF IsSmi
<1>9. KeepsSnapshots(smi, t)
  <2> SUFFICES ASSUME NEW v \in DOMAIN smi.lists \ {Current}, NEW x \in smi.lists[v]
               PROVE  /\ x \in DOMAIN t.pool /\ t.pool[x].is_dentry = smi.pool[x].is_dentry
                      /\ v \in DOMAIN t.pool[x].buffer_map
                      /\ t.pool[x].buffer_map[v] = smi.pool[x].buffer_map[v]
    BY <1>4 DEF KeepsSnapshots, SameSnapshot
  <2>1. x \in DOMAIN smi.pool /\ v \in DOMAIN smi.pool[x].buffer_map
    BY DEF IsSmi, IsCounted, Holders
  <2> QED BY <1>3, <2>1
<1> QED BY <1>3, <1>4, <1>8, <1>9 DEF t

(* make_child_dentry_under_parent: the new inode is the one thing that     *)
(* joins version current.                                                  *)
MakesChild(smi, t, dir, n, is_dir, id) ==
  /\ SmiInv(t) /\ KeepsSnapshots(smi, t)
  /\ id \notin DOMAIN smi.pool /\ DOMAIN t.pool = DOMAIN smi.pool \cup {id}
  /\ AddsChild(smi, t, Current, dir, n, id)
  /\ t.pool[id] = NewInode(is_dir)
  /\ \A x \in DOMAIN smi.pool : t.pool[x].is_dentry = smi.pool[x].is_dentry
  /\ \A x \in DOMAIN smi.pool \ {dir} : t.pool[x] = smi.pool[x]

LEMMA MakeChildInv ==
  ASSUME NEW smi, SmiInv(smi), NEW dir \in smi.lists[Current], NEW n \in Name,
         CanMakeChild(smi, dir, n), NEW is_dir \in BOOLEAN
  PROVE  MakesChild(smi, MakeChild(smi, dir, n, is_dir), dir, n, is_dir, FreeId(smi.pool))
<1> DEFINE id == FreeId(smi.pool)
           mid == AddInode(smi, id, NewInode(is_dir))
           t == AddDentry(mid, dir, n, id)
<1>1. MakeChild(smi, dir, n, is_dir) = t
  BY DEF MakeChild, AddInode
<1>2. IsSmi(smi) /\ IsForest(smi, Current) /\ IsVersionTree(smi, Current)
  BY DEF SmiInv, IsSmi, IsVersionTree
<1>3. id \in Nat \ DOMAIN smi.pool
  BY <1>2, FreeIdIsFree DEF IsSmi
<1> HIDE DEF id
<1>4. /\ IsSmi(mid) /\ KeepsSnapshots(smi, mid)
      /\ DOMAIN mid.lists = DOMAIN smi.lists
      /\ mid.lists[Current] = smi.lists[Current] \cup {id}
      /\ DOMAIN mid.pool = DOMAIN smi.pool \cup {id}
      /\ mid.pool[id] = NewInode(is_dir)
      /\ \A x \in DOMAIN smi.pool : mid.pool[x] = smi.pool[x]
  BY <1>2, <1>3, AddInodeIsSmi
<1> HIDE DEF mid
<1>5. IsDir(smi, dir) /\ IsDir(mid, dir) /\ dir \in DOMAIN smi.pool /\ id # dir
  BY <1>3, <1>4 DEF CanMakeChild, IsDir
<1>6. /\ SavesAt(mid, t, dir)
      /\ \A x \in DOMAIN mid.pool, m \in Word :
           Child(t, Current, x, m) = IF x = dir /\ m = n THEN id ELSE Child(mid, Current, x, m)
  BY <1>3, <1>4, <1>5, AddDentryIsSmi
<1> HIDE DEF t
<1>7. /\ IsSmi(t) /\ KeepsSnapshots(mid, t) /\ t.lists = mid.lists /\ DOMAIN t.pool = DOMAIN mid.pool
      /\ \A x \in DOMAIN mid.pool : t.pool[x].is_dentry = mid.pool[x].is_dentry
      /\ \A x \in DOMAIN mid.pool \ {dir} : t.pool[x] = mid.pool[x]
  BY <1>6 DEF SavesAt
<1>8. KeepsSnapshots(smi, t)
  BY <1>4, <1>7, KeepsSnapshotsTwice
<1>9. smi.lists[Current] \subseteq DOMAIN smi.pool
  BY <1>2 DEF IsSmi
<1>10. AddsChild(smi, t, Current, dir, n, id)
  <2>1. Child(smi, Current, dir, n) = Nowhere
    BY <1>2, ChildIsDentry DEF CanMakeChild
  <2>2. id \notin smi.lists[Current] \cup {Nowhere} /\ n \in Word
    BY <1>3, <1>9 DEF Nowhere, Word
  <2>3. ASSUME NEW m \in Word PROVE Child(t, Current, Nowhere, m) = Nowhere /\ Child(t, Current, id, m) = Nowhere
    <3>1. Child(t, Current, Nowhere, m) = Nowhere
      BY <1>7, NothingNowhere
    <3>2. Child(t, Current, id, m) = Child(mid, Current, id, m)
      BY <1>4, <1>5, <1>6
    <3>3. /\ id \in DOMAIN mid.pool /\ Current \in DOMAIN mid.pool[id].buffer_map
          /\ (mid.pool[id].is_dentry => mid.pool[id].buffer_map[Current] = NoDentries)
      BY <1>4 DEF NewInode
    <3>4. m \notin DOMAIN NoDentries
      BY DEF NoDentries
    <3> QED BY <3>1, <3>2, <3>3, <3>4, ChildOf
  <2>4. ASSUME NEW x \in smi.lists[Current], NEW m \in Word
        PROVE  Child(t, Current, x, m) = IF x = dir /\ m = n THEN id ELSE Child(smi, Current, x, m)
    <3>1. x \in DOMAIN smi.pool /\ x \in DOMAIN mid.pool /\ mid.pool[x] = smi.pool[x]
      BY <1>4, <1>9
    <3>2. Child(mid, Current, x, m) = Child(smi, Current, x, m)
      BY <3>1 DEF Child, HasDentry, Dentries, IsDir
    <3> QED BY <1>6, <3>1, <3>2
  <2> QED BY <1>4, <1>7, <2>1, <2>2, <2>3, <2>4 DEF AddsChild
<1>11. IsVersionTree(t, Current)
  BY <1>2, <1>10, AddedChildIsTree
<1>12. SmiInv(t)
  <2>1. \A v \in DOMAIN smi.lists \ {Current} : IsVersionTree(t, v)
    BY <1>7, <1>8, KeptTrees
  <2> QED BY <1>4, <1>7, <1>11, <2>1 DEF SmiInv
<1>13. /\ t.pool[id] = NewInode(is_dir)
       /\ \A x \in DOMAIN smi.pool : t.pool[x].is_dentry = smi.pool[x].is_dentry
       /\ \A x \in DOMAIN smi.pool \ {dir} : t.pool[x] = smi.pool[x]
  BY <1>4, <1>5, <1>7
<1>14. MakesChild(smi, t, dir, n, is_dir, id)
  BY <1>3, <1>4, <1>7, <1>8, <1>10, <1>12, <1>13 DEF MakesChild
<1> QED BY <1>1, <1>14 DEF id

(* ---------------------------- erased inodes ---------------------------- *)

(* One link less of an inode that leaves version current.                  *)
Release(smi, id) ==
  [pool |-> Unlink(smi.pool, id), lists |-> [smi.lists EXCEPT ![Current] = @ \ {id}]]

(* An inode has one link when version current alone holds it.              *)
LEMMA OneLink ==
  ASSUME NEW smi, IsSmi(smi), NEW v \in DOMAIN smi.lists, NEW id \in smi.lists[v]
  PROVE  /\ id \in DOMAIN smi.pool /\ v \in Holders(smi, id) /\ IsFiniteSet(Holders(smi, id))
         /\ smi.pool[id].link_count \in Nat \ {0}
         /\ smi.pool[id].link_count = 1 <=> Holders(smi, id) = {v}
         /\ smi.pool[id].link_count - 1 = Cardinality(Holders(smi, id) \ {v})
<1> DEFINE H == Holders(smi, id)
<1>1. id \in DOMAIN smi.pool /\ smi.pool[id].link_count = Cardinality(H) /\ v \in H
  BY DEF IsSmi, IsCounted, Holders
<1>2. IsFiniteSet(H)
  <2>1. H \subseteq DOMAIN smi.lists
    BY DEF Holders
  <2> QED BY <2>1, FS_Subset DEF IsSmi
<1> HIDE DEF H
<1>3. Cardinality(H) \in Nat /\ Cardinality(H \ {v}) = Cardinality(H) - 1
      /\ IsFiniteSet(H \ {v}) /\ Cardinality(H \ {v}) \in Nat
  BY <1>1, <1>2, FS_RemoveElement, FS_CardinalityType
<1>4. H \ {v} = {} <=> Cardinality(H \ {v}) = 0
  BY <1>3, FS_EmptySet
<1>5. H \ {v} = {} <=> H = {v}
  BY <1>1
<1> QED BY <1>1, <1>2, <1>3, <1>4, <1>5 DEF H

LEMMA ReleaseIsSmi ==
  ASSUME NEW smi, IsSmi(smi), NEW id \in smi.lists[Current]
  PROVE  LET t == Release(smi, id)
         IN  /\ IsSmi(t) /\ KeepsSnapshots(smi, t)
             /\ t.lists[Current] = smi.lists[Current] \ {id}
             /\ DOMAIN t.pool \subseteq DOMAIN smi.pool
             /\ \A x \in smi.lists[Current] \ {id} : x \in DOMAIN t.pool /\ t.pool[x] = smi.pool[x]
<1> DEFINE t == Release(smi, id)
           one == smi.pool[id].link_count = 1
<1>1. /\ Current \in DOMAIN smi.lists /\ DOMAIN smi.pool \subseteq Nat
      /\ IsFiniteSet(DOMAIN smi.pool) /\ IsFiniteSet(DOMAIN smi.lists)
      /\ \A x \in DOMAIN smi.pool : IsInode(smi.pool[x]) /\ IsCounted(smi, x)
      /\ \A v \in DOMAIN smi.lists : smi.lists[v] \subseteq DOMAIN smi.pool
  BY DEF IsSmi
<1>2. /\ id \in DOMAIN smi.pool /\ Current \in Holders(smi, id)
      /\ smi.pool[id].link_count \in Nat \ {0}
      /\ one <=> Holders(smi, id) = {Current}
      /\ smi.pool[id].link_count - 1 = Cardinality(Holders(smi, id) \ {Current})
  BY <1>1, OneLink
<1>3. t = [pool |-> t.pool, lists |-> t.lists] /\ t.pool = Unlink(smi.pool, id)
      /\ t.lists = [smi.lists EXCEPT ![Current] = @ \ {id}]
  BY DEF Release
<1> HIDE DEF t, one
<1>4. /\ DOMAIN t.lists = DOMAIN smi.lists /\ t.lists[Current] = smi.lists[Current] \ {id}
      /\ \A v \in DOMAIN smi.lists \ {Current} : t.lists[v] = smi.lists[v]
  BY <1>1, <1>3
<1>5. /\ \A x \in DOMAIN smi.pool \ {id} : x \in DOMAIN t.pool /\ t.pool[x] = smi.pool[x]
      /\ DOMAIN t.pool \subseteq DOMAIN smi.pool
      /\ id \in DOMAIN t.pool <=> ~one
  BY <1>2, <1>3 DEF Unlink, one
<1>6. ASSUME ~one
      PROVE  /\ t.pool[id] = [link_count |-> t.pool[id].link_count, is_dentry |-> t.pool[id].is_dentry,
                              buffer_map |-> t.pool[id].buffer_map]
             /\ t.pool[id].link_count = smi.pool[id].link_count - 1
             /\ t.pool[id].is_dentry = smi.pool[id].is_dentry
             /\ t.pool[id].buffer_map = smi.pool[id].buffer_map
  <2>1. t.pool[id] = [smi.pool[id] EXCEPT !.link_count = smi.pool[id].link_count - 1]
    BY <1>2, <1>3, <1>6 DEF Unlink, one
  <2>2. smi.pool[id] = [link_count |-> smi.pool[id].link_count, is_dentry |-> smi.pool[id].is_dentry,
                        buffer_map |-> smi.pool[id].buffer_map]
    BY <1>1, <1>2 DEF IsInode
  <2> QED BY <2>1, <2>2
<1>7. \A x \in DOMAIN smi.pool \ {id} : Holders(t, x) = Holders(smi, x)
  BY <1>1, <1>4 DEF Holders
<1>8. Holders(t, id) = Holders(smi, id) \ {Current}
  BY <1>1, <1>4 DEF Holders
<1>9. ASSUME NEW x \in DOMAIN t.pool PROVE IsInode(t.pool[x]) /\ IsCounted(t, x)
  <2>1. CASE x = id
    <3>1. ~one
      BY <1>5, <2>1
    <3>2. IsInode(t.pool[id])
      BY <1>1, <1>2, <1>6, <3>1 DEF IsInode
    <3>3. IsCounted(t, id)
      <4>1. Holders(t, id) # {}
        BY <1>2, <1>8, <3>1
      <4>2. IsCounted(smi, id)
        BY <1>1, <1>2
      <4>3. DOMAIN t.pool[id].buffer_map = {Current} \cup Holders(t, id)
        BY <1>6, <1>8, <3>1, <4>2 DEF IsCounted
      <4> QED BY <1>2, <1>6, <1>8, <3>1, <4>1, <4>3 DEF IsCounted
    <3> QED BY <2>1, <3>2, <3>3
  <2>2. CASE x # id
    BY <1>1, <1>5, <1>7, <2>2 DEF IsCounted
  <2> QED BY <2>1, <2>2
<1>10. \A v \in DOMAIN smi.lists \ {Current} : id \in smi.lists[v] => ~one
  BY <1>2 DEF Holders
<1>11. IsSmi(t)
  <2>1. IsFiniteSet(DOMAIN t.pool) /\ DOMAIN t.pool \subseteq Nat
    BY <1>1, <1>5, FS_Subset
  <2>2. \A v \in DOMAIN t.lists : t.lists[v] \subseteq DOMAIN t.pool
    BY <1>1, <1>4, <1>5, <1>10
  <2> QED BY <1>1, <1>3, <1>4, <1>9, <2>1, <2>2 DEF IsSmi
<1>12. KeepsSnapshots(smi, t)
  <2> SUFFICES ASSUME NEW v \in DOMAIN smi.lists \ {Current}, NEW x \in smi.lists[v]
               PROVE  /\ x \in DOMAIN t.pool /\ t.pool[x].is_dentry = smi.pool[x].is_dentry
                      /\ v \in DOMAIN t.pool[x].buffer_map
                      /\ t.pool[x].buffer_map[v] = smi.pool[x].buffer_map[v]
    BY <1>4 DEF KeepsSnapshots, SameSnapshot
  <2>1. x \in DOMAIN smi.pool /\ v \in DOMAIN smi.pool[x].buffer_map
    BY <1>1 DEF IsCounted, Holders
  <2>2. CASE x = id
    BY <1>5, <1>6, <1>10, <2>1, <2>2
  <2>3. CASE x # id
    BY <1>5, <2>1, <2>3
  <2> QED BY <2>2, <2>3
<1> QED BY <1>1, <1>4, <1>5, <1>11, <1>12 DEF t

(* remove_child_dentry_under_parent: the inode whose dentry goes is the    *)
(* one thing that leaves version current.                                  *)
RemovesChild(smi, t, dir, n, id) ==
  /\ SmiInv(t) /\ KeepsSnapshots(smi, t)
  /\ DOMAIN t.pool \subseteq DOMAIN smi.pool
  /\ TakesChild(smi, t, Current, dir, n, id)
  /\ \A x \in t.lists[Current] : t.pool[x].is_dentry = smi.pool[x].is_dentry
  /\ \A x \in t.lists[Current] \ {dir} : t.pool[x] = smi.pool[x]

LEMMA RemoveChildInv ==
  ASSUME NEW smi, SmiInv(smi), NEW dir \in smi.lists[Current], NEW n, CanRemoveChild(smi, dir, n)
  PROVE  RemovesChild(smi, RemoveChild(smi, dir, n), dir, n, Child(smi, Current, dir, n))
<1> DEFINE id == Child(smi, Current, dir, n)
           mid == DropDentry(smi, dir, n)
           t == Release(mid, id)
<1>1. /\ IsSmi(smi) /\ IsForest(smi, Current) /\ IsVersionTree(smi, Current)
      /\ Current \in DOMAIN smi.lists /\ smi.lists[Current] \subseteq DOMAIN smi.pool
  BY DEF SmiInv, IsSmi, IsVersionTree
<1>2. /\ HasDentry(smi, dir, Current, n) /\ IsDir(smi, dir)
      /\ dir \in DOMAIN smi.pool /\ n \in Name /\ n \in Word
      /\ id = Dentries(smi, dir, Current)[n] /\ id # Nowhere
  BY <1>1, ChildIsDentry DEF CanRemoveChild, HasDentry, Word
<1>3. RemoveChild(smi, dir, n) = t
  BY <1>2 DEF RemoveChild, Release
<1>4. id \in smi.lists[Current] \ {Root}
  BY <1>1, <1>2 DEF IsForest
<1>5. \A m \in Word : Child(smi, Current, id, m) = Nowhere
  <2> TAKE m \in Word
  <2>1. IsDir(smi, id) => Dentries(smi, id, Current) = NoDentries
    BY <1>2 DEF CanRemoveChild
  <2> QED BY <2>1 DEF Child, HasDentry, NoDentries
<1> HIDE DEF id
<1>6. /\ SavesAt(smi, mid, dir)
      /\ \A x \in DOMAIN smi.pool, m \in Word :
           Child(mid, Current, x, m) = IF x = dir /\ m = n THEN Nowhere ELSE Child(smi, Current, x, m)
  BY <1>1, <1>2, DropDentryIsSmi
<1> HIDE DEF mid
<1>7. /\ IsSmi(mid) /\ KeepsSnapshots(smi, mid) /\ mid.lists = smi.lists
      /\ DOMAIN mid.pool = DOMAIN smi.pool
      /\ \A x \in DOMAIN smi.pool : mid.pool[x].is_dentry = smi.pool[x].is_dentry
      /\ \A x \in DOMAIN smi.pool \ {dir} : mid.pool[x] = smi.pool[x]
  BY <1>6 DEF SavesAt
<1>8. id \in mid.lists[Current]
  BY <1>4, <1>7
<1>9. /\ IsSmi(t) /\ KeepsSnapshots(mid, t)
      /\ t.lists[Current] = mid.lists[Current] \ {id}
      /\ DOMAIN t.pool \subseteq DOMAIN mid.pool
      /\ \A x \in mid.lists[Current] \ {id} : x \in DOMAIN t.pool /\ t.pool[x] = mid.pool[x]
  BY <1>7, <1>8, ReleaseIsSmi
<1> HIDE DEF t
<1>10. KeepsSnapshots(smi, t)
  BY <1>7, <1>9, KeepsSnapshotsTwice
<1>11. TakesChild(smi, t, Current, dir, n, id)
  <2>1. ASSUME NEW x \in smi.lists[Current] \ {id}, NEW m \in Word
        PROVE  Child(t, Current, x, m) = IF x = dir /\ m = n THEN Nowhere ELSE Child(smi, Current, x, m)
    <3>1. x \in DOMAIN smi.pool /\ x \in DOMAIN mid.pool /\ x \in DOMAIN t.pool /\ t.pool[x] = mid.pool[x]
      BY <1>1, <1>7, <1>9
    <3>2. Child(t, Current, x, m) = Child(mid, Current, x, m)
      BY <3>1 DEF Child, HasDentry, Dentries, IsDir
    <3> QED BY <1>6, <3>1, <3>2
  <2>2. \A m \in Word : Child(t, Current, Nowhere, m) = Nowhere
    BY <1>9, NothingNowhere
  <2>3. Child(smi, Current, dir, n) = id
    BY DEF id
  <2> QED BY <1>2, <1>4, <1>5, <1>7, <1>9, <2>1, <2>2, <2>3 DEF TakesChild
<1>12. IsVersionTree(t, Current)
  BY <1>1, <1>11, TakenChildIsTree
<1>13. SmiInv(t)
  <2>1. \A v \in DOMAIN smi.lists \ {Current} : IsVersionTree(t, v)
    BY <1>9, <1>10, KeptTrees
  <2> QED BY <1>9, <1>10, <1>12, <2>1 DEF SmiInv, KeepsSnapshots
<1>14. /\ \A x \in t.lists[Current] : t.pool[x].is_dentry = smi.pool[x].is_dentry
       /\ \A x \in t.lists[Current] \ {dir} : t.pool[x] = smi.pool[x]
  BY <1>1, <1>7, <1>9
<1>15. RemovesChild(smi, t, dir, n, id)
  BY <1>7, <1>9, <1>10, <1>11, <1>13, <1>14 DEF RemovesChild
<1> QED BY <1>3, <1>15 DEF id

(* ------------------------------- renames ------------------------------- *)

(* The two halves of do_rename once nothing has the new name: the dentry   *)
(* moves, and what it leads to with it.                                    *)
Move(smi, dir1, n1, dir2, n2) ==
  DropDentry(AddDentry(smi, dir2, n2, Child(smi, Current, dir1, n1)), dir1, n1)

MovesDentry(smi, t, dir1, n1, dir2, n2) ==
  /\ SmiInv(t) /\ KeepsSnapshots(smi, t)
  /\ DOMAIN t.pool = DOMAIN smi.pool
  /\ MovesChild(smi, t, Current, dir1, n1, dir2, n2, Child(smi, Current, dir1, n1))
  /\ \A x \in DOMAIN smi.pool : t.pool[x].is_dentry = smi.pool[x].is_dentry
  /\ \A x \in DOMAIN smi.pool \ {dir1, dir2} : t.pool[x] = smi.pool[x]

LEMMA MoveInv ==
  ASSUME NEW smi, SmiInv(smi),
         NEW dir1 \in smi.lists[Current], NEW n1, HasDentry(smi, dir1, Current, n1),
         NEW dir2 \in smi.lists[Current], NEW n2 \in Name, IsDir(smi, dir2),
         ~HasDentry(smi, dir2, Current, n2),
         NEW p, NEW q, MovesPath(smi, Current, p, q, dir2, n2, Child(smi, Current, dir1, n1))
  PROVE  MovesDentry(smi, Move(smi, dir1, n1, dir2, n2), dir1, n1, dir2, n2)
<1> DEFINE id == Child(smi, Current, dir1, n1)
           mid == AddDentry(smi, dir2, n2, id)
           t == DropDentry(mid, dir1, n1)
<1>1. /\ IsSmi(smi) /\ IsForest(smi, Current) /\ IsVersionTree(smi, Current)
      /\ Current \in DOMAIN smi.lists /\ smi.lists[Current] \subseteq DOMAIN smi.pool
      /\ DOMAIN smi.pool \subseteq Nat
  BY DEF SmiInv, IsSmi, IsVersionTree
<1>2. /\ id # Nowhere /\ dir1 \in DOMAIN smi.pool /\ n1 \in Word /\ n2 \in Word
      /\ IsDir(smi, dir1) /\ Child(smi, Current, dir2, n2) = Nowhere
  BY <1>1, ChildIsDentry DEF HasDentry, Word
<1>3. id \in smi.lists[Current] /\ id \in Nat
  BY <1>1, <1>2 DEF IsForest
<1>4. Move(smi, dir1, n1, dir2, n2) = t
  BY DEF Move
<1> HIDE DEF id
<1>5. /\ SavesAt(smi, mid, dir2)
      /\ \A x \in DOMAIN smi.pool, m \in Word :
           Child(mid, Current, x, m) = IF x = dir2 /\ m = n2 THEN id ELSE Child(smi, Current, x, m)
  BY <1>1, <1>3, AddDentryIsSmi
<1> HIDE DEF mid
<1>6. /\ IsSmi(mid) /\ KeepsSnapshots(smi, mid) /\ mid.lists = smi.lists
      /\ DOMAIN mid.pool = DOMAIN smi.pool
      /\ \A x \in DOMAIN smi.pool : mid.pool[x].is_dentry = smi.pool[x].is_dentry
      /\ \A x \in DOMAIN smi.pool \ {dir2} : mid.pool[x] = smi.pool[x]
  BY <1>5 DEF SavesAt
<1>7. IsDir(mid, dir1)
  BY <1>2, <1>6 DEF IsDir
<1>8. /\ SavesAt(mid, t, dir1)
      /\ \A x \in DOMAIN mid.pool, m \in Word :
           Child(t, Current, x, m) = IF x = dir1 /\ m = n1 THEN Nowhere ELSE Child(mid, Current, x, m)
  BY <1>6, <1>7, DropDentryIsSmi
<1> HIDE DEF t
<1>9. /\ IsSmi(t) /\ KeepsSnapshots(mid, t) /\ t.lists = mid.lists
      /\ DOMAIN t.pool = DOMAIN mid.pool
      /\ \A x \in DOMAIN mid.pool : t.pool[x].is_dentry = mid.pool[x].is_dentry
      /\ \A x \in DOMAIN mid.pool \ {dir1} : t.pool[x] = mid.pool[x]
  BY <1>8 DEF SavesAt
<1>10. KeepsSnapshots(smi, t)
  BY <1>6, <1>9, KeepsSnapshotsTwice
<1>11. MovesChild(smi, t, Current, dir1, n1, dir2, n2, id)
  <2>1. \A x \in smi.lists[Current], m \in Word :
          Child(t, Current, x, m) = IF x = dir1 /\ m = n1 THEN Nowhere
                                    ELSE IF x = dir2 /\ m = n2 THEN id ELSE Child(smi, Current, x, m)
    BY <1>1, <1>5, <1>6, <1>8
  <2>2. \A m \in Word : Child(t, Current, Nowhere, m) = Nowhere
    BY <1>9, NothingNowhere
  <2>3. Child(smi, Current, dir1, n1) = id
    BY DEF id
  <2> QED BY <1>2, <1>3, <1>6, <1>9, <2>1, <2>2, <2>3 DEF MovesChild
<1>12. IsVersionTree(t, Current)
  <2>1. MovesPath(smi, Current, p, q, dir2, n2, id)
    BY DEF id
  <2> QED BY <1>1, <1>11, <2>1, MovedChildIsTree
<1>13. SmiInv(t)
  <2>1. \A v \in DOMAIN smi.lists \ {Current} : IsVersionTree(t, v)
    BY <1>9, <1>10, KeptTrees
  <2> QED BY <1>9, <1>10, <1>12, <2>1 DEF SmiInv, KeepsSnapshots
<1>14. MovesDentry(smi, t, dir1, n1, dir2, n2)
  <2>1. MovesChild(smi, t, Current, dir1, n1, dir2, n2, Child(smi, Current, dir1, n1))
    BY <1>11 DEF id
  <2> QED BY <1>6, <1>9, <1>10, <1>13, <2>1 DEF MovesDentry
<1> QED BY <1>4, <1>14

(* ------------------------------ snapshots ------------------------------ *)

(* create_snapshot_volume: version v is a second version current, nothing  *)
(* else changes.                                                           *)
TakesSnapshot(smi, t, v) ==
  /\ SmiInv(t) /\ DOMAIN t.pool = DOMAIN smi.pool
  /\ DOMAIN t.lists = DOMAIN smi.lists \cup {v}
  /\ t.lists[v] = smi.lists[Current]
  /\ \A w \in DOMAIN smi.lists : SameSnapshot(smi, t, w)
  /\ \A id \in smi.lists[Current] : t.pool[id].buffer_map[v] = smi.pool[id].buffer_map[Current]
  /\ SameVersion(smi, Current, t, v)

LEMMA CreateSnapshotInv ==
  ASSUME NEW smi, SmiInv(smi), NEW v, CanSnapshot(smi, v)
  PROVE  TakesSnapshot(smi, CreateSnapshot(smi, v), v)
<1> DEFINE held == smi.lists[Current]
           t == CreateSnapshot(smi, v)
<1>1. /\ Current \in DOMAIN smi.lists /\ DOMAIN smi.pool \subseteq Nat /\ IsSmi(smi)
      /\ IsFiniteSet(DOMAIN smi.pool) /\ IsFiniteSet(DOMAIN smi.lists)
      /\ \A x \in DOMAIN smi.pool : IsInode(smi.pool[x]) /\ IsCounted(smi, x)
      /\ \A w \in DOMAIN smi.lists : smi.lists[w] \subseteq DOMAIN smi.pool
      /\ \A w \in DOMAIN smi.lists : IsVersionTree(smi, w)
  BY DEF IsSmi, SmiInv
<1>2. v \notin DOMAIN smi.lists /\ v # Current
  BY <1>1 DEF CanSnapshot
<1>3. /\ t = [pool |-> t.pool, lists |-> t.lists]
      /\ t.lists = [w \in DOMAIN smi.lists \cup {v} |-> IF w = v THEN held ELSE smi.lists[w]]
      /\ DOMAIN t.pool = DOMAIN smi.pool
      /\ \A x \in DOMAIN smi.pool \ held : t.pool[x] = smi.pool[x]
      /\ \A x \in held : x \in DOMAIN smi.pool =>
           t.pool[x] = [smi.pool[x] EXCEPT !.link_count = @ + 1,
                          !.buffer_map = [w \in DOMAIN @ \cup {v} |-> IF w = v THEN @[Current] ELSE @[w]]]
  BY DEF CreateSnapshot
<1> HIDE DEF t, held
<1>4. /\ DOMAIN t.lists = DOMAIN smi.lists \cup {v} /\ t.lists[v] = held
      /\ \A w \in DOMAIN smi.lists : t.lists[w] = smi.lists[w]
  BY <1>2, <1>3
<1>5. ASSUME NEW x \in held
      PROVE  /\ x \in DOMAIN smi.pool
             /\ t.pool[x] = [link_count |-> t.pool[x].link_count, is_dentry |-> t.pool[x].is_dentry,
                             buffer_map |-> t.pool[x].buffer_map]
             /\ t.pool[x].link_count = smi.pool[x].link_count + 1
             /\ t.pool[x].is_dentry = smi.pool[x].is_dentry
             /\ DOMAIN t.pool[x].buffer_map = DOMAIN smi.pool[x].buffer_map \cup {v}
             /\ t.pool[x].buffer_map[v] = smi.pool[x].buffer_map[Current]
             /\ \A w \in DOMAIN smi.pool[x].buffer_map \ {v} :
                  t.pool[x].buffer_map[w] = smi.pool[x].buffer_map[w]
  <2> DEFINE old == smi.pool[x].buffer_map
             new == [w \in DOMAIN old \cup {v} |-> IF w = v THEN old[Current] ELSE old[w]]
  <2>1. x \in DOMAIN smi.pool
    BY <1>1 DEF held
  <2>2. smi.pool[x] = [link_count |-> smi.pool[x].link_count, is_dentry |-> smi.pool[x].is_dentry,
                       buffer_map |-> smi.pool[x].buffer_map]
    BY <1>1, <2>1 DEF IsInode
  <2>3. t.pool[x] = [smi.pool[x] EXCEPT !.link_count = smi.pool[x].link_count + 1, !.buffer_map = new]
    BY <1>3, <2>1
  <2> HIDE DEF new
  <2>4. /\ t.pool[x] = [link_count |-> t.pool[x].link_count, is_dentry |-> t.pool[x].is_dentry,
                        buffer_map |-> t.pool[x].buffer_map]
        /\ t.pool[x].link_count = smi.pool[x].link_count + 1
        /\ t.pool[x].is_dentry = smi.pool[x].is_dentry
        /\ t.pool[x].buffer_map = new
    BY <2>2, <2>3
  <2> QED BY <2>1, <2>4 DEF new
<1>6. \A x \in DOMAIN smi.pool : Holders(t, x) = IF x \in held THEN Holders(smi, x) \cup {v} ELSE Holders(smi, x)
  BY <1>2, <1>4 DEF Holders
<1>7. ASSUME NEW x \in DOMAIN t.pool PROVE IsInode(t.pool[x]) /\ IsCounted(t, x)
  <2>1. CASE x \in held
    <3>1. IsInode(smi.pool[x]) /\ IsCounted(smi, x) /\ Current \in DOMAIN smi.pool[x].buffer_map
      BY <1>1, <2>1, <1>5 DEF IsCounted
    <3>2. IsInode(t.pool[x])
      <4>1. ASSUME NEW w \in DOMAIN t.pool[x].buffer_map
            PROVE  IsContent(t.pool[x].is_dentry, t.pool[x].buffer_map[w])
        <5>1. \A u \in DOMAIN smi.pool[x].buffer_map :
                IsContent(smi.pool[x].is_dentry, smi.pool[x].buffer_map[u])
          BY <3>1 DEF IsInode
        <5>2. t.pool[x].is_dentry = smi.pool[x].is_dentry
          BY <1>5, <2>1
        <5>3. CASE w = v
          BY <1>5, <2>1, <3>1, <5>1, <5>2, <5>3
        <5>4. CASE w # v
          <6>1. w \in DOMAIN smi.pool[x].buffer_map \ {v}
            <7>1. DOMAIN t.pool[x].buffer_map = DOMAIN smi.pool[x].buffer_map \cup {v}
              BY <1>5, <2>1
            <7> QED BY <4>1, <5>4, <7>1
          <6>2. t.pool[x].buffer_map[w] = smi.pool[x].buffer_map[w]
            BY <1>5, <2>1, <6>1
          <6> QED BY <5>1, <5>2, <6>1, <6>2
        <5> QED BY <5>3, <5>4
      <4>2. t.pool[x].is_dentry \in BOOLEAN
        BY <1>5, <2>1, <3>1 DEF IsInode
      <4> QED BY <1>5, <2>1, <4>1, <4>2 DEF IsInode
    <3>3. IsCounted(t, x)
      <4>1. Holders(t, x) = Holders(smi, x) \cup {v} /\ v \notin Holders(smi, x)
        BY <1>2, <1>5, <1>6, <2>1 DEF Holders
      <4>2. Holders(smi, x) \subseteq DOMAIN smi.lists
        BY DEF Holders
      <4>3. Cardinality(Holders(t, x)) = Cardinality(Holders(smi, x)) + 1
        BY <1>1, <4>1, <4>2, FS_Subset, FS_AddElement
      <4> QED BY <1>5, <2>1, <3>1, <4>1, <4>3 DEF IsCounted
    <3> QED BY <3>2, <3>3
  <2>2. CASE x \notin held
    BY <1>1, <1>3, <1>6, <2>2 DEF IsCounted
  <2> QED BY <2>1, <2>2
<1>8. IsSmi(t)
  <2>1. IsFiniteSet(DOMAIN t.lists)
    BY <1>1, <1>4, FS_AddElement
  <2>2. \A w \in DOMAIN t.lists : t.lists[w] \subseteq DOMAIN t.pool
    BY <1>1, <1>3, <1>4 DEF held
  <2> QED BY <1>1, <1>3, <1>4, <1>7, <2>1, <2>2 DEF IsSmi
<1>9. ASSUME NEW w \in DOMAIN smi.lists PROVE SameSnapshot(smi, t, w)
  <2> SUFFICES ASSUME NEW x \in smi.lists[w]
               PROVE  /\ x \in DOMAIN t.pool /\ t.pool[x].is_dentry = smi.pool[x].is_dentry
                      /\ w \in DOMAIN t.pool[x].buffer_map
                      /\ t.pool[x].buffer_map[w] = smi.pool[x].buffer_map[w]
    BY <1>4 DEF SameSnapshot
  <2>1. x \in DOMAIN smi.pool /\ w \in DOMAIN smi.pool[x].buffer_map /\ w # v
    BY <1>1, <1>2 DEF IsCounted, Holders
  <2>2. CASE x \in held
    BY <1>3, <1>5, <2>1, <2>2
  <2>3. CASE x \notin held
    BY <1>3, <2>1, <2>3
  <2> QED BY <2>2, <2>3
<1>10. SameVersion(smi, Current, t, v)
  <2>1. ASSUME NEW x \in smi.lists[Current], NEW n \in Word
        PROVE  Child(t, v, x, n) = Child(smi, Current, x, n)
    <3>1. /\ x \in DOMAIN smi.pool /\ x \in DOMAIN t.pool
          /\ t.pool[x].is_dentry = smi.pool[x].is_dentry
          /\ v \in DOMAIN t.pool[x].buffer_map
          /\ t.pool[x].buffer_map[v] = smi.pool[x].buffer_map[Current]
      BY <1>3, <1>5 DEF held
    <3>2. Current \in DOMAIN smi.pool[x].buffer_map
      BY <1>1, <3>1 DEF IsCounted
    <3> QED BY <3>1, <3>2, ChildOf
  <2>2. \A n \in Word : Child(t, v, Nowhere, n) = Child(smi, Current, Nowhere, n)
    BY <1>1, <1>8, NothingNowhere
  <2> QED BY <1>4, <2>1, <2>2 DEF SameVersion, held
<1>11. SmiInv(t)
  <2>1. \A w \in DOMAIN smi.lists : IsVersionTree(t, w)
    <3> TAKE w \in DOMAIN smi.lists
    <3>1. SameVersion(smi, w, t, w)
      BY <1>1, <1>8, <1>9, KeptSnapshot
    <3> QED BY <1>1, <3>1, SameVersionIsTree
  <2>2. IsVersionTree(t, v)
    BY <1>1, <1>10, SameVersionIsTree
  <2> QED BY <1>4, <1>8, <2>1, <2>2 DEF SmiInv
<1>12. \A id \in smi.lists[Current] : t.pool[id].buffer_map[v] = smi.pool[id].buffer_map[Current]
  BY <1>5 DEF held
<1>13. TakesSnapshot(smi, t, v)
  BY <1>3, <1>4, <1>9, <1>10, <1>11, <1>12 DEF TakesSnapshot, held
<1> QED BY <1>13 DEF t

(* delete_snapshot_volume: no other version changes.                       *)
DropsSnapshot(smi, t, v) ==
  /\ SmiInv(t) /\ DOMAIN t.pool \subseteq DOMAIN smi.pool
  /\ DOMAIN t.lists = DOMAIN smi.lists \ {v}
  /\ \A w \in DOMAIN smi.lists \ {v} : SameSnapshot(smi, t, w)

LEMMA DeleteSnapshotInv ==
  ASSUME NEW smi, SmiInv(smi), NEW v, CanDropSnapshot(smi, v)
  PROVE  DropsSnapshot(smi, DeleteSnapshot(smi, v), v)
<1> DEFINE held == smi.lists[v]
           gone == {id \in held : smi.pool[id].link_count = 1}
           t == DeleteSnapshot(smi, v)
<1>1. /\ Current \in DOMAIN smi.lists /\ DOMAIN smi.pool \subseteq Nat /\ IsSmi(smi)
      /\ IsFiniteSet(DOMAIN smi.pool) /\ IsFiniteSet(DOMAIN smi.lists)
      /\ \A x \in DOMAIN smi.pool : IsInode(smi.pool[x]) /\ IsCounted(smi, x)
      /\ \A w \in DOMAIN smi.lists : smi.lists[w] \subseteq DOMAIN smi.pool
      /\ \A w \in DOMAIN smi.lists : IsVersionTree(smi, w)
  BY DEF IsSmi, SmiInv
<1>2. v # Current /\ v \in DOMAIN smi.lists
  BY DEF CanDropSnapshot
<1>3. /\ t = [pool |-> t.pool, lists |-> t.lists]
      /\ t.lists = [w \in DOMAIN smi.lists \ {v} |-> smi.lists[w]]
      /\ DOMAIN t.pool = DOMAIN smi.pool \ gone
      /\ \A x \in (DOMAIN smi.pool \ gone) \ held : t.pool[x] = smi.pool[x]
      /\ \A x \in (DOMAIN smi.pool \ gone) \cap held :
           t.pool[x] = [smi.pool[x] EXCEPT !.link_count = @ - 1,
                          !.buffer_map = [w \in DOMAIN @ \ {v} |-> @[w]]]
  BY DEF DeleteSnapshot
<1> HIDE DEF t
<1>4. /\ DOMAIN t.lists = DOMAIN smi.lists \ {v}
      /\ \A w \in DOMAIN smi.lists \ {v} : t.lists[w] = smi.lists[w]
  BY <1>3
<1>5. ASSUME NEW x \in held
      PROVE  /\ x \in DOMAIN smi.pool /\ v \in Holders(smi, x) /\ IsFiniteSet(Holders(smi, x))
             /\ smi.pool[x].link_count \in Nat \ {0}
             /\ smi.pool[x].link_count = 1 <=> Holders(smi, x) = {v}
             /\ smi.pool[x].link_count - 1 = Cardinality(Holders(smi, x) \ {v})
  BY <1>1, <1>2, OneLink
<1>6. \A x \in gone : Holders(smi, x) = {v} /\ x \in DOMAIN smi.pool /\ x \in held
  BY <1>5
<1>7. \A x \in held \ gone : Holders(smi, x) # {v}
  BY <1>5
<1> HIDE DEF gone
<1>8. ASSUME NEW x \in held \ gone
      PROVE  /\ t.pool[x] = [link_count |-> t.pool[x].link_count, is_dentry |-> t.pool[x].is_dentry,
                             buffer_map |-> t.pool[x].buffer_map]
             /\ t.pool[x].link_count = smi.pool[x].link_count - 1
             /\ t.pool[x].is_dentry = smi.pool[x].is_dentry
             /\ DOMAIN t.pool[x].buffer_map = DOMAIN smi.pool[x].buffer_map \ {v}
             /\ \A w \in DOMAIN smi.pool[x].buffer_map \ {v} :
                  t.pool[x].buffer_map[w] = smi.pool[x].buffer_map[w]
  <2> DEFINE old == smi.pool[x].buffer_map
             new == [w \in DOMAIN old \ {v} |-> old[w]]
  <2>1. x \in DOMAIN smi.pool
    BY <1>5
  <2>2. smi.pool[x] = [link_count |-> smi.pool[x].link_count, is_dentry |-> smi.pool[x].is_dentry,
                       buffer_map |-> smi.pool[x].buffer_map]
    BY <1>1, <2>1 DEF IsInode
  <2>3. t.pool[x] = [smi.pool[x] EXCEPT !.link_count = smi.pool[x].link_count - 1, !.buffer_map = new]
    BY <1>3, <2>1
  <2> HIDE DEF new
  <2>4. /\ t.pool[x] = [link_count |-> t.pool[x].link_count, is_dentry |-> t.pool[x].is_dentry,
                        buffer_map |-> t.pool[x].buffer_map]
        /\ t.pool[x].link_count = smi.pool[x].link_count - 1
        /\ t.pool[x].is_dentry = smi.pool[x].is_dentry
        /\ t.pool[x].buffer_map = new
    BY <2>2, <2>3
  <2> QED BY <2>4 DEF new
<1>9. \A x \in DOMAIN smi.pool : Holders(t, x) = Holders(smi, x) \ {v}
  BY <1>4 DEF Holders
<1>10. ASSUME NEW x \in DOMAIN t.pool PROVE IsInode(t.pool[x]) /\ IsCounted(t, x)
  <2>1. x \in DOMAIN smi.pool /\ x \notin gone /\ IsInode(smi.pool[x]) /\ IsCounted(smi, x)
    BY <1>1, <1>3
  <2>2. CASE x \in held
    <3>1. IsInode(t.pool[x])
      <4>1. \A w \in DOMAIN t.pool[x].buffer_map :
              IsContent(t.pool[x].is_dentry, t.pool[x].buffer_map[w])
        BY <1>8, <2>1, <2>2 DEF IsInode
      <4>2. t.pool[x].is_dentry \in BOOLEAN
        BY <1>8, <2>1, <2>2 DEF IsInode
      <4> QED BY <1>8, <2>1, <2>2, <4>1, <4>2 DEF IsInode
    <3>2. IsCounted(t, x)
      <4>1. Holders(t, x) = Holders(smi, x) \ {v} /\ Holders(t, x) # {}
        BY <1>5, <1>7, <1>9, <2>1, <2>2
      <4>2. t.pool[x].link_count = Cardinality(Holders(t, x))
        BY <1>5, <1>8, <2>1, <2>2, <4>1
      <4>3. DOMAIN t.pool[x].buffer_map = ({Current} \cup Holders(smi, x)) \ {v}
        BY <1>8, <2>1, <2>2 DEF IsCounted
      <4> QED BY <1>2, <4>1, <4>2, <4>3 DEF IsCounted
    <3> QED BY <3>1, <3>2
  <2>3. CASE x \notin held
    <3>1. t.pool[x] = smi.pool[x]
      BY <1>3, <2>1, <2>3
    <3>2. Holders(t, x) = Holders(smi, x)
      BY <1>9, <2>1, <2>3 DEF Holders
    <3> QED BY <2>1, <3>1, <3>2 DEF IsCounted
  <2> QED BY <2>2, <2>3
<1>11. IsSmi(t)
  <2>1. IsFiniteSet(DOMAIN t.lists) /\ IsFiniteSet(DOMAIN t.pool)
    BY <1>1, <1>3, <1>4, FS_Subset
  <2>2. ASSUME NEW w \in DOMAIN t.lists, NEW x \in t.lists[w] PROVE x \in DOMAIN t.pool
    <3>1. w \in DOMAIN smi.lists /\ w # v /\ x \in smi.lists[w] /\ x \in DOMAIN smi.pool
      BY <1>1, <1>4
    <3>2. w \in Holders(smi, x)
      BY <3>1 DEF Holders
    <3> QED BY <1>3, <1>6, <3>1, <3>2
  <2>3. DOMAIN t.pool \subseteq Nat /\ Current \in DOMAIN t.lists
    BY <1>1, <1>2, <1>3, <1>4
  <2> QED BY <1>3, <1>10, <2>1, <2>2, <2>3 DEF IsSmi
<1>12. ASSUME NEW w \in DOMAIN smi.lists \ {v} PROVE SameSnapshot(smi, t, w)
  <2> SUFFICES ASSUME NEW x \in smi.lists[w]
               PROVE  /\ x \in DOMAIN t.pool /\ t.pool[x].is_dentry = smi.pool[x].is_dentry
                      /\ w \in DOMAIN t.pool[x].buffer_map
                      /\ t.pool[x].buffer_map[w] = smi.pool[x].buffer_map[w]
    BY <1>4 DEF SameSnapshot
  <2>1. x \in DOMAIN smi.pool /\ w \in DOMAIN smi.pool[x].buffer_map /\ w # v
    BY <1>1 DEF IsCounted, Holders
  <2>2. x \in DOMAIN t.pool
    BY <1>4, <1>11 DEF IsSmi
  <2>3. CASE x \in held
    <3>1. x \in held \ gone
      BY <1>3, <2>2, <2>3
    <3>2. /\ t.pool[x].is_dentry = smi.pool[x].is_dentry
          /\ DOMAIN t.pool[x].buffer_map = DOMAIN smi.pool[x].buffer_map \ {v}
          /\ \A u \in DOMAIN smi.pool[x].buffer_map \ {v} :
               t.pool[x].buffer_map[u] = smi.pool[x].buffer_map[u]
      BY <1>8, <3>1
    <3> QED BY <2>1, <2>2, <3>2
  <2>4. CASE x \notin held
    BY <1>3, <2>1, <2>2, <2>4
  <2> QED BY <2>2, <2>3, <2>4
<1>13. SmiInv(t)
  <2>1. \A w \in DOMAIN smi.lists \ {v} : IsVersionTree(t, w)
    <3> TAKE w \in DOMAIN smi.lists \ {v}
    <3>1. SameVersion(smi, w, t, w)
      BY <1>1, <1>11, <1>12, KeptSnapshot
    <3> QED BY <1>1, <3>1, SameVersionIsTree
  <2> QED BY <1>4, <1>11, <2>1 DEF SmiInv
<1>14. DropsSnapshot(smi, t, v)
  BY <1>3, <1>4, <1>12, <1>13 DEF DropsSnapshot
<1> QED BY <1>14 DEF t

(* -------------------------- contents of files -------------------------- *)

(* New bytes in a file leave every version the tree it is.                 *)
WritesFile(smi, t, id, data) ==
  /\ SmiInv(t) /\ KeepsSnapshots(smi, t) /\ SavesAt(smi, t, id) /\ Stores(t, id, data)
  /\ SameVersion(smi, Current, t, Current)

LEMMA SaveFileInv ==
  ASSUME NEW smi, SmiInv(smi), NEW id \in DOMAIN smi.pool, ~smi.pool[id].is_dentry, NEW data \in Data
  PROVE  WritesFile(smi, Save(smi, id, data), id, data)
<1> DEFINE t == Save(smi, id, data)
<1>1. /\ IsSmi(smi) /\ IsVersionTree(smi, Current) /\ Current \in DOMAIN smi.lists
      /\ smi.lists[Current] \subseteq DOMAIN smi.pool
      /\ \A x \in DOMAIN smi.pool : Current \in DOMAIN smi.pool[x].buffer_map
  BY DEF SmiInv, IsSmi, IsCounted
<1>2. MayStore(smi, id, data)
  BY DEF MayStore, IsContent
<1>3. SavesAt(smi, t, id) /\ Stores(t, id, data)
  BY <1>1, <1>2, SaveIsSmi
<1> HIDE DEF t
<1>4. /\ IsSmi(t) /\ KeepsSnapshots(smi, t) /\ t.lists = smi.lists /\ DOMAIN t.pool = DOMAIN smi.pool
      /\ \A x \in DOMAIN smi.pool : t.pool[x].is_dentry = smi.pool[x].is_dentry
      /\ \A x \in DOMAIN smi.pool \ {id} : t.pool[x] = smi.pool[x]
  BY <1>3 DEF SavesAt
<1>5. SameVersion(smi, Current, t, Current)
  <2>1. ASSUME NEW x \in smi.lists[Current], NEW n \in Word
        PROVE  Child(t, Current, x, n) = Child(smi, Current, x, n)
    <3>1. x \in DOMAIN smi.pool /\ x \in DOMAIN t.pool
      BY <1>1, <1>4
    <3>2. CASE x = id
      BY <1>4, <3>1, <3>2 DEF Child, HasDentry, IsDir
    <3>3. CASE x # id
      BY <1>4, <3>1, <3>3 DEF Child, HasDentry, IsDir, Dentries
    <3> QED BY <3>2, <3>3
  <2>2. \A n \in Word : Child(t, Current, Nowhere, n) = Child(smi, Current, Nowhere, n)
    BY <1>1, <1>4, NothingNowhere
  <2> QED BY <1>4, <2>1, <2>2 DEF SameVersion
<1>6. IsVersionTree(t, Current)
  BY <1>1, <1>5, SameVersionIsTree
<1>7. SmiInv(t)
  <2>1. \A v \in DOMAIN smi.lists \ {Current} : IsVersionTree(t, v)
    BY <1>4, KeptTrees
  <2> QED BY <1>4, <1>6, <2>1 DEF SmiInv
<1>8. WritesFile(smi, t, id, data)
  BY <1>3, <1>4, <1>5, <1>7 DEF WritesFile
<1> QED BY <1>8 DEF t

(* --------------------------- depth of a tree --------------------------- *)

(* A path that leads somewhere is made of names of dentries.               *)
LEMMA ResolvedNames ==
  ASSUME NEW smi, IsSmi(smi), NEW v, IsForest(smi, v), NEW p \in Path, Resolve(smi, v, p) # Nowhere
  PROVE  p \in Seq(Name)
<1> DEFINE P == {r \in Path : Resolve(smi, v, r) # Nowhere => r \in Seq(Name)}
<1>1. P \in SUBSET Path
  OBVIOUS
<1>2. <<>> \in P
  BY EmptyPath
<1>3. ASSUME NEW r \in Path, r # <<>> /\ Front(r) \in P PROVE r \in P
  <2> SUFFICES ASSUME Resolve(smi, v, r) # Nowhere PROVE r \in Seq(Name)
    OBVIOUS
  <2>1. /\ Resolve(smi, v, Front(r)) \in smi.lists[v]
        /\ Resolve(smi, v, r) = Child(smi, v, Resolve(smi, v, Front(r)), Last(r))
    BY <1>3, ResolvePlace
  <2>2. Last(r) \in Name
    BY <2>1, ChildIsDentry
  <2>3. Front(r) \in Seq(Name)
    BY <1>3, <2>1 DEF IsForest
  <2>4. r = Append(Front(r), Last(r))
    BY <1>3, PathFront
  <2>5. Append(Front(r), Last(r)) \in Seq(Name)
    BY <2>2, <2>3
  <2> QED BY <2>4, <2>5
<1> HIDE DEF P
<1>4. P = Path
  BY <1>1, <1>2, <1>3, PathInduction
<1> QED BY <1>4 DEF P

(* The inodes a path goes through are as many as its names, and the root:  *)
(* no path is longer than the version has inodes.                          *)
Along(smi, v, p) == {Resolve(smi, v, q) : q \in {r \in Path : IsPrefix(r, p)}}

LEMMA AlongPath ==
  ASSUME NEW smi, NEW v, IsForest(smi, v), NEW p \in Path, Resolve(smi, v, p) # Nowhere
  PROVE  /\ Along(smi, v, p) \subseteq smi.lists[v] /\ IsFiniteSet(Along(smi, v, p))
         /\ Cardinality(Along(smi, v, p)) = Len(p) + 1
<1> DEFINE Count(r) == IsFiniteSet(Along(smi, v, r)) /\ Cardinality(Along(smi, v, r)) = Len(r) + 1
           P == {r \in Path : Resolve(smi, v, r) # Nowhere => Count(r)}
<1>1. P \in SUBSET Path
  OBVIOUS
<1>2. <<>> \in P
  <2>1. {r \in Path : IsPrefix(r, <<>>)} = {<<>>}
    BY EmptyPath, PathPrefix
  <2>2. Along(smi, v, <<>>) = {Resolve(smi, v, <<>>)}
    BY <2>1 DEF Along
  <2>3. IsFiniteSet({Resolve(smi, v, <<>>)}) /\ Cardinality({Resolve(smi, v, <<>>)}) = 1
    BY FS_Singleton
  <2>4. Len(<<>>) + 1 = 1
    OBVIOUS
  <2>5. Count(<<>>)
    BY <2>2, <2>3, <2>4
  <2> QED BY <2>5, EmptyPath
<1>3. ASSUME NEW r \in Path, r # <<>> /\ Front(r) \in P PROVE r \in P
  <2> SUFFICES ASSUME Resolve(smi, v, r) # Nowhere PROVE Count(r)
    OBVIOUS
  <2>1. Front(r) \in Path /\ Len(r) \in Nat /\ Len(Front(r)) = Len(r) - 1
    BY <1>3, PathFront
  <2>2. Resolve(smi, v, Front(r)) # Nowhere
    BY <1>3, ResolvePlace DEF IsForest
  <2>3. Count(Front(r))
    BY <1>3, <2>2
  <2>4. {x \in Path : IsPrefix(x, r)} = {x \in Path : IsPrefix(x, Front(r))} \cup {r}
    BY <1>3, PathPrefix
  <2>5. Along(smi, v, r) = Along(smi, v, Front(r)) \cup {Resolve(smi, v, r)}
    BY <2>4 DEF Along
  <2>6. Resolve(smi, v, r) \notin Along(smi, v, Front(r))
    <3> SUFFICES ASSUME NEW x \in Path, IsPrefix(x, Front(r)), Resolve(smi, v, x) = Resolve(smi, v, r)
                 PROVE  FALSE
      BY DEF Along
    <3>1. x = r
      BY ResolveIsInjective
    <3>2. Len(r) <= Len(Front(r))
      BY <3>1 DEF IsPrefix
    <3> QED BY <2>1, <3>2
  <2>7. /\ IsFiniteSet(Along(smi, v, Front(r)) \cup {Resolve(smi, v, r)})
        /\ Cardinality(Along(smi, v, Front(r)) \cup {Resolve(smi, v, r)}) = Len(Front(r)) + 1 + 1
    BY <2>3, <2>6, FS_AddElement
  <2> QED BY <2>1, <2>5, <2>7
<1> HIDE DEF P
<1>4. P = Path
  BY <1>1, <1>2, <1>3, PathInduction
<1>5. Along(smi, v, p) \subseteq smi.lists[v]
  <2> SUFFICES ASSUME NEW q \in Path, IsPrefix(q, p) PROVE Resolve(smi, v, q) \in smi.lists[v]
    BY DEF Along
  <2>1. Resolve(smi, v, q) # Nowhere
    BY ResolvePrefix
  <2> QED BY <2>1, ResolveInVersion
<1> QED BY <1>4, <1>5 DEF P
=============================================================================
