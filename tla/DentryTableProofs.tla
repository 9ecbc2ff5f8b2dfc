------------------------- MODULE DentryTableProofs -------------------------
(***************************************************************************)
(* Theorems about DentryTable: the resolvers of one handler, each with its *)
(* own copy of a directory, lose and double nothing.                       *)
(*                                                                         *)
(* The invariant, TableInv, says where the inode that do_rename moves is   *)
(* between two saves, and what of the copy of tag_directoryResolver is     *)
(* still true.  The other facts speak of a directory as a set of dentries  *)
(* (Has); that a vector is behind it matters to the lemmas on add_path and *)
(* remove_path only.                                                       *)
(***************************************************************************)
EXTENDS DentryTable, SequenceTheorems, TLAPS

(* flat_path_pack_t gives a name back as it was: what every theorem here   *)
(* supposes of the names.  One that fills its field comes back longer.     *)
NamesFit == \A n \in Name : Len(n) < Limit

Entry == [pathname : Name, inode_id : Id]
Dentry(n, id) == [pathname |-> n, inode_id |-> id]

(* ---------------------------- a directory ------------------------------ *)

IsList(s) == s \in Seq(Entry) /\ Len(s) <= MaxEntries
Has(s, n, id) == \E k \in DOMAIN s : s[k] = Dentry(n, id)
Names(s) == {s[k].pathname : k \in DOMAIN s}
UniqueNames(s) == \A j, k \in DOMAIN s : s[j].pathname = s[k].pathname => j = k

(* In t only what s has before it stands before an entry of s.             *)
InOrder(s, t) ==
  \A i, l \in DOMAIN t : \A k \in DOMAIN s :
    i < l /\ t[l] = s[k] => \E j \in DOMAIN s : j < k /\ t[i] = s[j]

LEMMA EntriesAreLists == \A s : s \in Entries(Entry) <=> IsList(s)
<1>1. MaxEntries \in Nat
  BY DentryTableAssumption
<1>2. ASSUME NEW s \in Entries(Entry) PROVE IsList(s)
  <2>1. PICK k \in 0..MaxEntries : s \in [1..k -> Entry]
    BY DEF Entries
  <2> QED BY <1>1, <2>1 DEF IsList
<1>3. ASSUME NEW s, IsList(s) PROVE s \in Entries(Entry)
  <2>1. Len(s) \in 0..MaxEntries /\ s \in [1..Len(s) -> Entry]
    BY <1>1, <1>3 DEF IsList
  <2> QED BY <2>1 DEF Entries
<1> QED BY <1>2, <1>3

LEMMA HasName ==
  ASSUME NEW s, IsList(s), NEW n
  PROVE  /\ Places(s, n) # {} <=> n \in Names(s)
         /\ n \in Names(s) <=> \E id \in Id : Has(s, n, id)
         /\ \A id : Has(s, n, id) => n \in Name /\ id \in Id
<1>1. \A k \in DOMAIN s : s[k] \in Entry
  BY DEF IsList
<1>2. \A k \in DOMAIN s : s[k] = Dentry(s[k].pathname, s[k].inode_id)
  BY <1>1 DEF Entry, Dentry
<1>3. Places(s, n) # {} <=> n \in Names(s)
  BY DEF Places, Names
<1>4. ASSUME n \in Names(s) PROVE \E id \in Id : Has(s, n, id)
  BY <1>1, <1>2, <1>4 DEF Names, Has, Entry
<1>5. ASSUME NEW id, Has(s, n, id) PROVE n \in Name /\ id \in Id /\ n \in Names(s)
  <2>1. PICK k \in DOMAIN s : s[k] = Dentry(n, id)
    BY <1>5 DEF Has
  <2>2. s[k].pathname = n /\ s[k].inode_id = id
    BY <2>1 DEF Dentry
  <2> QED BY <1>1, <2>2 DEF Names, Entry
<1> QED BY <1>3, <1>4, <1>5

(* namei: the first of a name is the only one.                             *)
LEMMA FirstIsTheOne ==
  ASSUME NEW s, IsList(s), UniqueNames(s), NEW k \in DOMAIN s
  PROVE  First(s, s[k].pathname) = k
<1> DEFINE n == s[k].pathname
<1>1. Places(s, n) = {k}
  BY DEF Places, UniqueNames
<1>2. k \in Nat /\ k <= k
  BY DEF IsList
<1>3. \A i : (i \in Places(s, n) /\ \A j \in Places(s, n) : i <= j) <=> i = k
  BY <1>1, <1>2
<1> HIDE DEF n
<1>4. First(s, n) = k
  BY <1>3, Zenon DEF First
<1> QED BY <1>4 DEF n

LEMMA NameiIsTheId ==
  ASSUME NEW s, IsList(s), UniqueNames(s), NEW n, NEW id, Has(s, n, id)
  PROVE  namei(s, n) = id
<1>1. PICK k \in DOMAIN s : s[k] = Dentry(n, id)
  BY DEF Has
<1>2. s[k].pathname = n /\ s[k].inode_id = id
  BY <1>1 DEF Dentry
<1> QED BY <1>2, FirstIsTheOne DEF namei

(* add_path of a name there was not.                                       *)
LEMMA AddPath ==
  ASSUME NEW s, IsList(s), UniqueNames(s), Len(s) < MaxEntries,
         NEW n \in Name, NEW id \in Id, Places(s, n) = {}
  PROVE  LET t == add_path(s, n, id)
         IN  /\ IsList(t) /\ UniqueNames(t) /\ InOrder(s, t)
             /\ \A m, x : Has(t, m, x) <=> Has(s, m, x) \/ (m = n /\ x = id)
<1> DEFINE t == add_path(s, n, id)
<1>1. Dentry(n, id) \in Entry /\ s \in Seq(Entry) /\ Len(s) \in Nat /\ MaxEntries \in Nat
  BY DentryTableAssumption DEF Dentry, Entry, IsList
<1>2. t = Append(s, Dentry(n, id))
  BY DEF add_path, Dentry
<1>3. /\ t \in Seq(Entry) /\ Len(t) = Len(s) + 1 /\ DOMAIN t = 1..Len(s) + 1 /\ DOMAIN s = 1..Len(s)
      /\ \A k \in 1..Len(s) : t[k] = s[k]
      /\ t[Len(s) + 1] = Dentry(n, id)
  BY <1>1, <1>2
<1> HIDE DEF t
<1>4. IsList(t)
  BY <1>1, <1>3 DEF IsList
<1>5. \A k \in DOMAIN s : s[k].pathname # n
  BY DEF Places
<1>6. Dentry(n, id).pathname = n
  BY DEF Dentry
<1>7. ASSUME NEW j \in DOMAIN t, NEW k \in DOMAIN t, t[j].pathname = t[k].pathname PROVE j = k
  <2>1. CASE j \in DOMAIN s /\ k \in DOMAIN s
    BY <1>3, <1>7, <2>1 DEF UniqueNames
  <2>2. CASE j \in DOMAIN s /\ k = Len(s) + 1
    BY <1>3, <1>5, <1>6, <1>7, <2>2
  <2>3. CASE k \in DOMAIN s /\ j = Len(s) + 1
    BY <1>3, <1>5, <1>6, <1>7, <2>3
  <2>4. (j \in DOMAIN s \/ j = Len(s) + 1) /\ (k \in DOMAIN s \/ k = Len(s) + 1)
    BY <1>1, <1>3
  <2> QED BY <2>1, <2>2, <2>3, <2>4
<1>8. UniqueNames(t)
  BY <1>7 DEF UniqueNames
<1>9. \A j \in DOMAIN s, l \in DOMAIN t : s[j] = t[l] => l = j
  BY <1>3, <1>8, <1>1 DEF UniqueNames
<1>10. InOrder(s, t)
  <2> SUFFICES ASSUME NEW i \in DOMAIN t, NEW l \in DOMAIN t, NEW k \in DOMAIN s, i < l, t[l] = s[k]
               PROVE  \E j \in DOMAIN s : j < k /\ t[i] = s[j]
    BY DEF InOrder
  <2>1. l = k
    BY <1>9
  <2>2. i \in DOMAIN s /\ i < k /\ t[i] = s[i]
    BY <1>1, <1>3, <2>1
  <2> QED BY <2>2
<1>11. ASSUME NEW m, NEW x PROVE Has(t, m, x) <=> Has(s, m, x) \/ (m = n /\ x = id)
  <2>1. Dentry(m, x) = Dentry(n, id) <=> m = n /\ x = id
    BY DEF Dentry
  <2>2. ASSUME Has(t, m, x) PROVE Has(s, m, x) \/ (m = n /\ x = id)
    <3>1. PICK k \in DOMAIN t : t[k] = Dentry(m, x)
      BY <2>2 DEF Has
    <3>2. CASE k \in DOMAIN s
      BY <1>3, <3>1, <3>2 DEF Has
    <3>3. CASE k = Len(s) + 1
      BY <1>3, <2>1, <3>1, <3>3
    <3> QED BY <1>1, <1>3, <3>2, <3>3
  <2>3. ASSUME Has(s, m, x) PROVE Has(t, m, x)
    <3>1. PICK k \in DOMAIN s : s[k] = Dentry(m, x)
      BY <2>3 DEF Has
    <3>2. k \in DOMAIN t /\ t[k] = s[k]
      BY <1>1, <1>3
    <3> QED BY <3>1, <3>2 DEF Has
  <2>4. Has(t, n, id)
    <3>1. Len(s) + 1 \in DOMAIN t
      BY <1>1, <1>3
    <3> QED BY <1>3, <3>1 DEF Has
  <2> QED BY <2>2, <2>3, <2>4
<1> QED BY <1>4, <1>8, <1>10, <1>11 DEF t

(* remove_path of a name there was.                                        *)
LEMMA RemovePath ==
  ASSUME NEW s, IsList(s), UniqueNames(s), NEW n, Places(s, n) # {}
  PROVE  LET t == remove_path(s, n)
         IN  /\ IsList(t) /\ UniqueNames(t) /\ InOrder(s, t) /\ Len(t) = Len(s) - 1
             /\ \A m, x : Has(t, m, x) <=> Has(s, m, x) /\ m # n
<1> DEFINE t == remove_path(s, n)
           f == First(s, n)
<1>1. s \in Seq(Entry) /\ Len(s) \in Nat /\ DOMAIN s = 1..Len(s) /\ MaxEntries \in Nat
  BY DentryTableAssumption DEF IsList
<1>2. f \in DOMAIN s /\ s[f].pathname = n
  <2>1. PICK k \in DOMAIN s : s[k].pathname = n
    BY DEF Places
  <2> QED BY <2>1, FirstIsTheOne
<1>3. \A k \in DOMAIN s : s[k].pathname = n => k = f
  BY <1>2 DEF UniqueNames
<1>4. t = [k \in 1..Len(s) - 1 |-> IF k < f THEN s[k] ELSE s[k + 1]]
  BY DEF remove_path
<1> HIDE DEF f, t
<1>5. f \in Nat /\ 1 <= f /\ f <= Len(s)
  BY <1>1, <1>2
<1>6. \A k \in 1..Len(s) - 1 : t[k] = IF k < f THEN s[k] ELSE s[k + 1]
  BY <1>4
<1>7. \A k \in 1..Len(s) - 1 : t[k] \in Entry
  BY <1>1, <1>5, <1>6
<1>8. t \in Seq(Entry) /\ Len(t) = Len(s) - 1 /\ DOMAIN t = 1..Len(s) - 1
  <2>1. Len(s) - 1 \in Nat
    BY <1>1, <1>5
  <2>2. t \in [1..Len(s) - 1 -> Entry]
    BY <1>4, <1>7
  <2> QED BY <2>1, <2>2
<1>9. IsList(t)
  BY <1>1, <1>8 DEF IsList
(* Where an entry of t stands in s.                                        *)
<1> DEFINE At(k) == IF k < f THEN k ELSE k + 1
<1>10. \A k \in DOMAIN t : At(k) \in DOMAIN s /\ At(k) # f /\ t[k] = s[At(k)]
  BY <1>1, <1>5, <1>6, <1>8
<1>11. \A j \in DOMAIN s : j # f => \E k \in DOMAIN t : At(k) = j
  <2> SUFFICES ASSUME NEW j \in DOMAIN s, j # f PROVE \E k \in DOMAIN t : At(k) = j
    OBVIOUS
  <2>1. CASE j < f
    <3>1. j \in DOMAIN t /\ At(j) = j
      BY <1>1, <1>5, <1>8, <2>1
    <3> QED BY <3>1
  <2>2. CASE f < j
    <3>1. j - 1 \in DOMAIN t /\ At(j - 1) = j
      BY <1>1, <1>5, <1>8, <2>2
    <3> QED BY <3>1
  <2> QED BY <1>1, <1>5, <2>1, <2>2
<1>12. \A j, k \in DOMAIN t : (At(j) < At(k) <=> j < k) /\ (At(j) = At(k) => j = k)
  BY <1>5, <1>8
<1> HIDE DEF At
<1>13. UniqueNames(t)
  BY <1>10, <1>12 DEF UniqueNames
<1>14. \A j \in DOMAIN s, l \in DOMAIN t : s[j] = t[l] => At(l) = j
  BY <1>10 DEF UniqueNames
<1>15. InOrder(s, t)
  <2> SUFFICES ASSUME NEW i \in DOMAIN t, NEW l \in DOMAIN t, NEW k \in DOMAIN s, i < l, t[l] = s[k]
               PROVE  \E j \in DOMAIN s : j < k /\ t[i] = s[j]
    BY DEF InOrder
  <2>1. At(l) = k /\ At(i) < At(l)
    BY <1>12, <1>14
  <2>2. At(i) \in DOMAIN s /\ t[i] = s[At(i)]
    BY <1>10
  <2> QED BY <2>1, <2>2
<1>16. ASSUME NEW m, NEW x PROVE Has(t, m, x) <=> Has(s, m, x) /\ m # n
  <2>1. Dentry(m, x).pathname = m
    BY DEF Dentry
  <2>2. ASSUME Has(t, m, x) PROVE Has(s, m, x) /\ m # n
    <3>1. PICK k \in DOMAIN t : t[k] = Dentry(m, x)
      BY <2>2 DEF Has
    <3>2. At(k) \in DOMAIN s /\ s[At(k)] = Dentry(m, x) /\ At(k) # f
      BY <1>10, <3>1
    <3> QED BY <1>3, <2>1, <3>2 DEF Has
  <2>3. ASSUME Has(s, m, x), m # n PROVE Has(t, m, x)
    <3>1. PICK j \in DOMAIN s : s[j] = Dentry(m, x)
      BY <2>3 DEF Has
    <3>2. j # f
      BY <1>2, <2>1, <2>3, <3>1
    <3>3. PICK k \in DOMAIN t : At(k) = j
      BY <1>11, <3>2
    <3> QED BY <1>10, <3>1, <3>3 DEF Has
  <2> QED BY <2>2, <2>3
<1> QED BY <1>8, <1>9, <1>13, <1>15, <1>16 DEF t

(* ------------------- resolvers, with names that fit -------------------- *)

LEMMA NamesComeBack ==
  ASSUME NamesFit, NEW s, IsList(s)
  PROVE  /\ [k \in DOMAIN s |-> Flat(s[k])] = s
         /\ [k \in DOMAIN s |-> Unflat(s[k])] = s
<1>1. ASSUME NEW e \in Entry PROVE Flat(e) = e /\ Unflat(e) = e
  <2>1. e.pathname \in Seq(1..255) /\ Len(e.pathname) < Limit
    BY DentryTableAssumption DEF NamesFit, Entry
  <2>2. SubSeq(e.pathname, 1, Len(e.pathname)) = e.pathname
    BY <2>1
  <2>3. [e EXCEPT !.pathname = e.pathname] = e
    BY DEF Entry
  <2> QED BY <2>1, <2>2, <2>3 DEF Flat, Unflat
<1>2. \A k \in DOMAIN s : s[k] \in Entry
  BY DEF IsList
<1>3. s = [k \in DOMAIN s |-> s[k]]
  BY DEF IsList
<1> QED BY <1>1, <1>2, <1>3

(* The directories: what NamesAreUnique says and what TypeOK says of them. *)
AreDirectories(dirs) ==
  /\ DOMAIN dirs = Dir /\ dirs = [d \in Dir |-> dirs[d]]
  /\ \A d \in Dir : IsList(dirs[d]) /\ UniqueNames(dirs[d])

(* A save changes one dentry of one directory, or none.                    *)
Adds(d, n, id) ==
  /\ AreDirectories(saved') /\ n \in Name /\ id \in Id
  /\ \A x : ~Has(saved[d], n, x)
  /\ \A e \in Dir : \A m, x : Has(saved'[e], m, x) <=> Has(saved[e], m, x) \/ (e = d /\ m = n /\ x = id)
  /\ \A e \in Dir : InOrder(saved[e], saved'[e])

Removes(d, n) ==
  /\ AreDirectories(saved') /\ n \in Name
  /\ \E x \in Id : Has(saved[d], n, x)
  /\ \A e \in Dir : \A m, x : Has(saved'[e], m, x) <=> Has(saved[e], m, x) /\ <<e, m>> # <<d, n>>
  /\ \A e \in Dir : InOrder(saved[e], saved'[e])
  /\ Len(saved'[d]) = Len(saved[d]) - 1

LEMMA SameOrder ==
  ASSUME NEW s, IsList(s), UniqueNames(s)
  PROVE  InOrder(s, s)
<1>1. \A l, k \in DOMAIN s : s[l] = s[k] => l = k
  BY DEF UniqueNames
<1> QED BY <1>1 DEF InOrder

LEMMA RefreshIsSaved ==
  ASSUME NamesFit, AreDirectories(saved), NEW d \in Dir
  PROVE  refresh(d) = saved[d]
BY NamesComeBack DEF AreDirectories, refresh

LEMMA SaveAdded ==
  ASSUME NamesFit, AreDirectories(saved), NEW d \in Dir, NEW n \in Name, NEW id \in Id,
         Len(saved[d]) < MaxEntries, check_availability(saved[d], n),
         save_current(d, add_path(saved[d], n, id))
  PROVE  Adds(d, n, id)
<1> DEFINE t == add_path(saved[d], n, id)
<1>1. IsList(saved[d]) /\ UniqueNames(saved[d]) /\ Places(saved[d], n) = {}
  BY DEF AreDirectories, check_availability
<1>2. /\ IsList(t) /\ UniqueNames(t) /\ InOrder(saved[d], t)
      /\ \A m, x : Has(t, m, x) <=> Has(saved[d], m, x) \/ (m = n /\ x = id)
  BY <1>1, AddPath
<1>3. saved' = [saved EXCEPT ![d] = [k \in DOMAIN t |-> Flat(t[k])]]
  BY DEF save_current
<1> HIDE DEF t
<1>4. saved' = [saved EXCEPT ![d] = t]
  BY <1>2, <1>3, NamesComeBack
<1>5. DOMAIN saved = Dir /\ \A e \in Dir : saved'[e] = IF e = d THEN t ELSE saved[e]
  BY <1>4 DEF AreDirectories
<1>6. AreDirectories(saved')
  BY <1>2, <1>4, <1>5 DEF AreDirectories
<1>7. \A x : ~Has(saved[d], n, x)
  BY <1>1, HasName
<1>8. \A e \in Dir : InOrder(saved[e], saved'[e])
  BY <1>2, <1>5, SameOrder DEF AreDirectories
<1>9. \A e \in Dir : \A m, x : Has(saved'[e], m, x) <=> Has(saved[e], m, x) \/ (e = d /\ m = n /\ x = id)
  BY <1>2, <1>5
<1> QED BY <1>6, <1>7, <1>8, <1>9 DEF Adds

LEMMA SaveRemoved ==
  ASSUME NamesFit, AreDirectories(saved), NEW d \in Dir, NEW n \in Name,
         ~check_availability(saved[d], n),
         save_current(d, remove_path(saved[d], n))
  PROVE  Removes(d, n)
<1> DEFINE t == remove_path(saved[d], n)
<1>1. IsList(saved[d]) /\ UniqueNames(saved[d]) /\ Places(saved[d], n) # {}
  BY DEF AreDirectories, check_availability
<1>2. /\ IsList(t) /\ UniqueNames(t) /\ InOrder(saved[d], t) /\ Len(t) = Len(saved[d]) - 1
      /\ \A m, x : Has(t, m, x) <=> Has(saved[d], m, x) /\ m # n
  BY <1>1, RemovePath
<1>3. saved' = [saved EXCEPT ![d] = [k \in DOMAIN t |-> Flat(t[k])]]
  BY DEF save_current
<1> HIDE DEF t
<1>4. saved' = [saved EXCEPT ![d] = t]
  BY <1>2, <1>3, NamesComeBack
<1>5. DOMAIN saved = Dir /\ \A e \in Dir : saved'[e] = IF e = d THEN t ELSE saved[e]
  BY <1>4 DEF AreDirectories
<1>6. AreDirectories(saved')
  BY <1>2, <1>4, <1>5 DEF AreDirectories
<1>7. \E x \in Id : Has(saved[d], n, x)
  BY <1>1, HasName
<1>8. \A e \in Dir : InOrder(saved[e], saved'[e])
  BY <1>2, <1>5, SameOrder DEF AreDirectories
<1>9. \A e \in Dir : \A m, x : Has(saved'[e], m, x) <=> Has(saved[e], m, x) /\ <<e, m>> # <<d, n>>
  BY <1>2, <1>5
<1> QED BY <1>2, <1>5, <1>6, <1>7, <1>8, <1>9 DEF Removes

(* ---------------------------- the invariant ---------------------------- *)

(* The do_rename in progress.                                              *)
CallOK ==
  \/ call = Idle
  \/ call \in [at : {"link", "relink", "second"}, from : Dir, name : Name, to : Dir, as : Name, id : Id]

(* An inode is in one place; after the first half of do_rename the one it  *)
(* moves is in the old and the new one, which are not the same.            *)
OnePlace ==
  \A d, e \in Dir, n, m \in Name, id \in Id :
    Has(saved[d], n, id) /\ Has(saved[e], m, id) =>
      \/ d = e /\ n = m
      \/ /\ call.at = "second" /\ id = call.id
         /\ <<d, n>> \in {<<call.from, call.name>>, <<call.to, call.as>>}
         /\ <<e, m>> \in {<<call.from, call.name>>, <<call.to, call.as>>}

(* What the rest of do_rename relies on.  The copy of tag is up to date    *)
(* until RemoveTaken saves behind it; what is relied on then is that the   *)
(* name is free, and that the dentry to be removed is still there.         *)
CallHolds ==
  call # Idle =>
    /\ <<call.from, call.name>> # <<call.to, call.as>>
    /\ Has(saved[call.from], call.name, call.id)
    /\ call.at = "link" => tag = saved[call.to] /\ Len(saved[call.to]) < MaxEntries
    /\ call.at = "relink" =>
         Len(saved[call.to]) < MaxEntries /\ \A x \in Id : ~Has(saved[call.to], call.as, x)
    /\ call.at = "second" => Has(saved[call.to], call.as, call.id)

TableInv == AreDirectories(saved) /\ IsList(tag) /\ CallOK /\ OnePlace /\ CallHolds

(* What one save does, and what it does to the directories.                *)
OneSave == \/ UNCHANGED saved
           \/ \E d \in Dir, n \in Name, id \in Id : Adds(d, n, id)
           \/ \E d \in Dir, n \in Name : Removes(d, n)

(* A do_rename that ends, ends with nothing at the old name and the inode  *)
(* at the new one.                                                         *)
RenameEnds ==
  call # Idle /\ call' = Idle =>
    /\ call.from \in Dir /\ call.to \in Dir
    /\ Has(saved'[call.to], call.as, call.id)
    /\ \A x \in Id : ~Has(saved'[call.from], call.name, x)

TableStep == TableInv' /\ OneSave /\ RenameEnds

LEMMA CallFields ==
  ASSUME CallOK, call # Idle
  PROVE  /\ call.at \in {"link", "relink", "second"}
         /\ call.from \in Dir /\ call.name \in Name /\ call.to \in Dir /\ call.as \in Name /\ call.id \in Id
         /\ \A at \in {"link", "relink", "second"} :
              LET next == [call EXCEPT !.at = at]
              IN  /\ next # Idle /\ next.at = at /\ next.from = call.from /\ next.name = call.name
                  /\ next.to = call.to /\ next.as = call.as /\ next.id = call.id
                  /\ next \in [at : {"link", "relink", "second"}, from : Dir, name : Name,
                               to : Dir, as : Name, id : Id]
BY DEF CallOK, Idle

(* ------------------------------ the steps ------------------------------ *)

(* make_child_dentry_under_parent: the id is a new one.                    *)
LEMMA MakeTable ==
  ASSUME NamesFit, TableInv, NEW d \in Dir, NEW n \in Name, NEW id \in Id, Make(d, n, id)
  PROVE  TableStep
<1> USE DEF TableInv
<1>1. call = Idle /\ call' = Idle /\ tag' = tag
  BY DEF Make
<1>2. Adds(d, n, id)
  BY RefreshIsSaved, SaveAdded DEF Make
<1>3. \A e \in Dir, m \in Name : ~Has(saved[e], m, id)
  <2>1. SUFFICES ASSUME NEW e \in Dir, NEW m \in Name, Has(saved[e], m, id) PROVE FALSE
    OBVIOUS
  <2>2. PICK k \in DOMAIN saved[e] : saved[e][k] = Dentry(m, id)
    BY <2>1 DEF Has
  <2>3. saved[e][k].inode_id = id
    BY <2>2 DEF Dentry
  <2> QED BY <2>3 DEF Make
<1>4. AreDirectories(saved')
  BY <1>2 DEF Adds
<1>5. OnePlace'
  BY <1>1, <1>2, <1>3 DEF OnePlace, Adds, Idle
<1>6. OneSave
  BY <1>2 DEF OneSave
<1> QED BY <1>1, <1>4, <1>5, <1>6 DEF TableStep, CallOK, CallHolds, RenameEnds

LEMMA RemoveTable ==
  ASSUME NamesFit, TableInv, NEW d \in Dir, NEW n \in Name, Remove(d, n)
  PROVE  TableStep
<1> USE DEF TableInv
<1>1. call = Idle /\ call' = Idle /\ tag' = tag
  BY DEF Remove
<1>2. Removes(d, n)
  BY RefreshIsSaved, SaveRemoved DEF Remove, RemoveChild
<1>3. AreDirectories(saved')
  BY <1>2 DEF Removes
<1>4. OnePlace'
  BY <1>1, <1>2 DEF OnePlace, Removes, Idle
<1>5. OneSave
  BY <1>2 DEF OneSave
<1> QED BY <1>1, <1>3, <1>4, <1>5 DEF TableStep, CallOK, CallHolds, RenameEnds

(* do_rename looks up what it moves, and copies the directory it moves to. *)
LEMMA RenameTable ==
  ASSUME NamesFit, TableInv, NEW from \in Dir, NEW name \in Name, NEW to \in Dir, NEW as \in Name,
         do_rename(from, name, to, as)
  PROVE  TableStep
<1> USE DEF TableInv
<1>1. /\ call = Idle /\ <<from, name>> # <<to, as>> /\ Len(saved[to]) < MaxEntries
      /\ saved' = saved /\ tag' = saved[to]
      /\ call' = [at |-> "link", from |-> from, name |-> name, to |-> to, as |-> as,
                  id |-> namei(saved[from], name)]
      /\ Places(saved[from], name) # {}
  BY RefreshIsSaved DEF do_rename, check_availability
<1>2. PICK id \in Id : Has(saved[from], name, id)
  BY <1>1, HasName DEF AreDirectories
<1>3. namei(saved[from], name) = id
  BY <1>2, NameiIsTheId DEF AreDirectories
<1>4. /\ call'.at = "link" /\ call'.from = from /\ call'.name = name
      /\ call'.to = to /\ call'.as = as /\ call'.id = id /\ call' # Idle
      /\ call' \in [at : {"link", "relink", "second"}, from : Dir, name : Name, to : Dir, as : Name, id : Id]
  BY <1>1, <1>3 DEF Idle
<1>5. AreDirectories(saved') /\ IsList(tag') /\ CallOK'
  BY <1>1, <1>4 DEF AreDirectories, CallOK
<1>6. OnePlace'
  BY <1>1 DEF OnePlace, Idle
<1>7. CallHolds'
  BY <1>1, <1>2, <1>4 DEF CallHolds
<1> QED BY <1>1, <1>5, <1>6, <1>7 DEF TableStep, OneSave, RenameEnds

(* The new dentry, put into the directory as it is: by LinkNew through the *)
(* copy of tag, which is up to date, by Relink through a new copy.         *)
LEMMA LinkedTable ==
  ASSUME TableInv, call # Idle, call.at \in {"link", "relink"},
         Adds(call.to, call.as, call.id), call' = [call EXCEPT !.at = "second"], IsList(tag')
  PROVE  TableStep
<1> USE DEF TableInv
<1>1. /\ call' # Idle /\ call'.at = "second" /\ call'.from = call.from /\ call'.name = call.name
      /\ call'.to = call.to /\ call'.as = call.as /\ call'.id = call.id /\ CallOK'
      /\ call.from \in Dir /\ call.name \in Name /\ call.to \in Dir /\ call.as \in Name /\ call.id \in Id
  BY CallFields DEF CallOK
<1>2. Has(saved[call.from], call.name, call.id) /\ <<call.from, call.name>> # <<call.to, call.as>>
  BY DEF CallHolds
<1>3. AreDirectories(saved')
  BY DEF Adds
<1>4. OnePlace'
  <2> SUFFICES ASSUME NEW d \in Dir, NEW e \in Dir, NEW n \in Name, NEW m \in Name, NEW id \in Id,
                      Has(saved'[d], n, id), Has(saved'[e], m, id)
               PROVE  \/ d = e /\ n = m
                      \/ /\ id = call.id
                         /\ <<d, n>> \in {<<call.from, call.name>>, <<call.to, call.as>>}
                         /\ <<e, m>> \in {<<call.from, call.name>>, <<call.to, call.as>>}
    BY <1>1 DEF OnePlace
  <2>1. Has(saved[d], n, id) \/ (d = call.to /\ n = call.as /\ id = call.id)
    BY DEF Adds
  <2>2. Has(saved[e], m, id) \/ (e = call.to /\ m = call.as /\ id = call.id)
    BY DEF Adds
  <2>3. ASSUME NEW b \in Dir, NEW k \in Name, Has(saved[b], k, call.id)
        PROVE  b = call.from /\ k = call.name
    BY <1>1, <1>2, <2>3 DEF OnePlace
  <2>4. Has(saved[d], n, id) /\ Has(saved[e], m, id) => d = e /\ n = m
    BY DEF OnePlace
  <2> QED BY <2>1, <2>2, <2>3, <2>4
<1>5. CallHolds'
  BY <1>1, <1>2 DEF CallHolds, Adds
<1>6. OneSave
  BY <1>1 DEF OneSave
<1> QED BY <1>1, <1>3, <1>4, <1>5, <1>6 DEF TableStep, RenameEnds

LEMMA LinkNewTable ==
  ASSUME NamesFit, TableInv, LinkNew
  PROVE  TableStep
<1> USE DEF TableInv
<1>1. call # Idle /\ call.at = "link" /\ call' = [call EXCEPT !.at = "second"]
  BY DEF LinkNew, Goto, Idle
<1>2. /\ tag = saved[call.to] /\ Len(saved[call.to]) < MaxEntries
      /\ call.to \in Dir /\ call.as \in Name /\ call.id \in Id
  BY <1>1, CallFields DEF CallHolds
<1>3. Adds(call.to, call.as, call.id)
  BY <1>2, SaveAdded DEF LinkNew
<1>4. IsList(tag')
  BY <1>2, AddPath DEF LinkNew, AreDirectories, check_availability
<1> QED BY <1>1, <1>3, <1>4, LinkedTable

LEMMA RelinkTable ==
  ASSUME NamesFit, TableInv, Relink
  PROVE  TableStep
<1> USE DEF TableInv
<1>1. call # Idle /\ call.at = "relink"
  BY DEF Relink, Idle
<1>2. /\ Len(saved[call.to]) < MaxEntries /\ \A x \in Id : ~Has(saved[call.to], call.as, x)
      /\ call.to \in Dir /\ call.as \in Name /\ call.id \in Id
  BY <1>1, CallFields DEF CallHolds
<1>3. tag' = saved[call.to]
  BY <1>2, RefreshIsSaved DEF Relink, Reloaded
<1>4. check_availability(saved[call.to], call.as)
  BY <1>2, HasName DEF AreDirectories, check_availability
<1>5. save_current(call.to, add_path(saved[call.to], call.as, call.id)) /\ call' = [call EXCEPT !.at = "second"]
  BY <1>3, <1>4 DEF Relink, Goto
<1>6. Adds(call.to, call.as, call.id)
  BY <1>2, <1>4, <1>5, SaveAdded
<1>7. IsList(tag')
  BY <1>2, <1>3 DEF AreDirectories
<1> QED BY <1>1, <1>5, <1>6, <1>7, LinkedTable

(* remove_child_dentry_under_parent behind the back of tag.                *)
LEMMA RemoveTakenTable ==
  ASSUME NamesFit, TableInv, RemoveTaken
  PROVE  TableStep
<1> USE DEF TableInv
<1>1. call # Idle /\ call.at = "link" /\ call' = [call EXCEPT !.at = "relink"] /\ tag' = tag
  BY DEF RemoveTaken, Goto, Idle
<1>2. /\ call' # Idle /\ call'.at = "relink" /\ call'.from = call.from /\ call'.name = call.name
      /\ call'.to = call.to /\ call'.as = call.as /\ call'.id = call.id /\ CallOK'
      /\ call.from \in Dir /\ call.name \in Name /\ call.to \in Dir /\ call.as \in Name /\ call.id \in Id
  BY <1>1, CallFields DEF CallOK
<1>3. Removes(call.to, call.as)
  BY <1>1, <1>2, RefreshIsSaved, SaveRemoved DEF RemoveTaken, RemoveChild
<1>4. Len(saved[call.to]) < MaxEntries /\ Has(saved[call.from], call.name, call.id)
      /\ <<call.from, call.name>> # <<call.to, call.as>>
  BY <1>1 DEF CallHolds
<1>5. Len(saved[call.to]) \in Nat /\ MaxEntries \in Nat
  BY <1>2, DentryTableAssumption DEF AreDirectories, IsList
<1>6. CallHolds'
  <2>1. Has(saved'[call.from], call.name, call.id) /\ \A x : ~Has(saved'[call.to], call.as, x)
    BY <1>2, <1>3, <1>4 DEF Removes
  <2>2. Len(saved'[call.to]) < MaxEntries
    BY <1>3, <1>4, <1>5 DEF Removes
  <2> QED BY <1>2, <1>4, <2>1, <2>2 DEF CallHolds
<1>7. OnePlace'
  <2>1. \A d \in Dir : \A n, x : Has(saved'[d], n, x) => Has(saved[d], n, x)
    BY <1>3 DEF Removes
  <2>2. \A d, e \in Dir, n, m \in Name, id \in Id :
           Has(saved[d], n, id) /\ Has(saved[e], m, id) => d = e /\ n = m
    BY <1>1 DEF OnePlace
  <2> QED BY <2>1, <2>2 DEF OnePlace
<1>8. AreDirectories(saved')
  BY <1>3 DEF Removes
<1>9. OneSave
  BY <1>2, <1>3 DEF OneSave
<1> QED BY <1>1, <1>2, <1>6, <1>7, <1>8, <1>9 DEF TableStep, RenameEnds

(* The second half of do_rename: the old dentry goes.                      *)
LEMMA RemoveOldTable ==
  ASSUME NamesFit, TableInv, RemoveOld
  PROVE  TableStep
<1> USE DEF TableInv
<1>1. call # Idle /\ call.at = "second" /\ call' = Idle /\ tag' = <<>>
  BY DEF RemoveOld, Idle
<1>2. /\ call.from \in Dir /\ call.name \in Name /\ call.to \in Dir /\ call.as \in Name /\ call.id \in Id
      /\ Has(saved[call.from], call.name, call.id) /\ Has(saved[call.to], call.as, call.id)
      /\ <<call.from, call.name>> # <<call.to, call.as>>
  BY <1>1, CallFields DEF CallHolds
<1>3. ~check_availability(saved[call.from], call.name)
  BY <1>2, HasName DEF AreDirectories, check_availability
<1>4. Reloaded(call.from) = saved[call.from]
  BY <1>2, RefreshIsSaved DEF Reloaded
<1>5. Removes(call.from, call.name)
  BY <1>2, <1>3, <1>4, SaveRemoved DEF RemoveOld
<1>6. OnePlace'
  <2> SUFFICES ASSUME NEW d \in Dir, NEW e \in Dir, NEW n \in Name, NEW m \in Name, NEW id \in Id,
                      Has(saved'[d], n, id), Has(saved'[e], m, id)
               PROVE  d = e /\ n = m
    BY DEF OnePlace
  <2>1. /\ Has(saved[d], n, id) /\ <<d, n>> # <<call.from, call.name>>
        /\ Has(saved[e], m, id) /\ <<e, m>> # <<call.from, call.name>>
    BY <1>5 DEF Removes
  <2> QED BY <2>1 DEF OnePlace
<1>7. AreDirectories(saved')
  BY <1>5 DEF Removes
<1>8. MaxEntries \in Nat
  BY DentryTableAssumption
<1>9. IsList(tag')
  BY <1>1, <1>8 DEF IsList
<1>10. RenameEnds
  BY <1>2, <1>5 DEF RenameEnds, Removes
<1>11. OneSave
  BY <1>2, <1>5 DEF OneSave
<1> QED BY <1>1, <1>6, <1>7, <1>9, <1>10, <1>11 DEF TableStep, CallOK, CallHolds

LEMMA NextTable ==
  ASSUME NamesFit, TableInv, [Next]_vars
  PROVE  TableStep
<1>1. CASE UNCHANGED vars
  BY <1>1 DEF vars, TableStep, TableInv, OneSave, RenameEnds, AreDirectories, CallOK, OnePlace, CallHolds
<1> QED BY <1>1, MakeTable, RemoveTable, RenameTable, LinkNewTable, RemoveTakenTable,
           RelinkTable, RemoveOldTable DEF Next

LEMMA InitTable ==
  ASSUME Init
  PROVE  TableInv
<1>1. saved = [d \in Dir |-> <<>>] /\ tag = <<>> /\ call = Idle
  BY DEF Init
<1>2. IsList(<<>>) /\ UniqueNames(<<>>) /\ \A n, id : ~Has(<<>>, n, id)
  BY DentryTableAssumption DEF IsList, UniqueNames, Has
<1> QED BY <1>1, <1>2 DEF TableInv, AreDirectories, CallOK, OnePlace, CallHolds

LEMMA TableInvariant ==
  ASSUME NamesFit
  PROVE  Spec => []TableInv
<1>1. Init => TableInv
  BY InitTable
<1>2. TableInv /\ [Next]_vars => TableInv'
  BY NextTable DEF TableStep
<1> QED BY <1>1, <1>2, PTL DEF Spec

(* ------------------------------- theorems ------------------------------ *)

(* Every name and id a resolver reads back is one that was written.        *)
THEOREM DentriesAreTyped ==
  ASSUME NamesFit
  PROVE  Spec => []TypeOK
<1>1. TableInv => TypeOK
  <2> SUFFICES ASSUME TableInv PROVE TypeOK
    OBVIOUS
  <2>1. /\ DOMAIN saved = Dir /\ saved = [d \in Dir |-> saved[d]]
        /\ \A d \in Dir : saved[d] \in Entries(Entry)
        /\ tag \in Entries(Entry)
    BY EntriesAreLists DEF TableInv, AreDirectories
  <2> HIDE DEF TableInv
  <2>2. saved \in [Dir -> Entries(Entry)]
    BY <2>1, Zenon
  <2> QED BY <2>1, <2>2 DEF TypeOK, Entry
<1> QED BY <1>1, TableInvariant, PTL

(* No directory ever has one name twice, whatever resolver saved it.       *)
THEOREM NamesStayUnique ==
  ASSUME NamesFit
  PROVE  Spec => []NamesAreUnique
<1>1. TableInv => NamesAreUnique
  BY DEF TableInv, AreDirectories, UniqueNames, NamesAreUnique
<1> QED BY <1>1, TableInvariant, PTL

(* Between two saves of do_rename its inode has a place, and after it one. *)
THEOREM RenamedIsNeverLost ==
  ASSUME NamesFit
  PROVE  Spec => []RenamedHasAPlace
<1> SUFFICES ASSUME TableInv PROVE RenamedHasAPlace
  BY TableInvariant, PTL
<1> USE DEF TableInv
<1>1. ASSUME NEW d \in Dir, NEW k \in DOMAIN saved[d]
      PROVE  /\ k \in 1..MaxEntries
             /\ \A id : saved[d][k].inode_id = id => Has(saved[d], saved[d][k].pathname, id)
             /\ saved[d][k].pathname \in Name
  <2>1. saved[d][k] \in Entry /\ k \in 1..MaxEntries
    BY DentryTableAssumption DEF AreDirectories, IsList
  <2> QED BY <2>1 DEF Has, Dentry, Entry
<1>2. ASSUME call # Idle PROVE Holds(call.id) # {}
  <2>1. call.from \in Dir /\ Has(saved[call.from], call.name, call.id)
    BY <1>2, CallFields DEF CallHolds
  <2>2. PICK k \in DOMAIN saved[call.from] : saved[call.from][k] = Dentry(call.name, call.id)
    BY <2>1 DEF Has
  <2>3. <<call.from, k>> \in Holds(call.id)
    BY <1>1, <2>1, <2>2 DEF Holds, Dentry
  <2> QED BY <2>3
<1>3. ASSUME call = Idle, NEW id \in Id, NEW p \in Holds(id), NEW q \in Holds(id) PROVE p = q
  <2> DEFINE d == p[1]
             e == q[1]
             j == p[2]
             k == q[2]
  <2>1. /\ d \in Dir /\ e \in Dir /\ p = <<d, j>> /\ q = <<e, k>>
        /\ j \in DOMAIN saved[d] /\ k \in DOMAIN saved[e]
        /\ saved[d][j].inode_id = id /\ saved[e][k].inode_id = id
    BY DEF Holds
  <2> HIDE DEF d, e, j, k
  <2>2. d = e /\ saved[d][j].pathname = saved[e][k].pathname
    BY <1>1, <1>3, <2>1 DEF OnePlace, Idle
  <2>3. j = k
    BY <2>1, <2>2 DEF AreDirectories, UniqueNames
  <2> QED BY <2>1, <2>2, <2>3
<1> QED BY <1>2, <1>3 DEF RenamedHasAPlace

(* A do_rename never stops half-way: remove_path finds the old name, and   *)
(* add_path the new one free, when their turn comes.                       *)
THEOREM RenamesMove ==
  ASSUME NamesFit
  PROVE  Spec => RenameMoves
<1> DEFINE Moves ==
      \A from, to \in Dir :
         call # Idle /\ call' = Idle /\ call.from = from /\ call.to = to =>
           /\ ~check_availability(refresh(to)', call.as)
           /\ namei(refresh(to)', call.as) = call.id
           /\ check_availability(refresh(from)', call.name)
<1>1. ASSUME TableInv, [Next]_vars PROVE Moves
  <2> SUFFICES ASSUME NEW from \in Dir, NEW to \in Dir,
                      call # Idle, call' = Idle, call.from = from, call.to = to
               PROVE  /\ ~check_availability(refresh(to)', call.as)
                      /\ namei(refresh(to)', call.as) = call.id
                      /\ check_availability(refresh(from)', call.name)
    OBVIOUS
  <2>1. /\ TableInv' /\ Has(saved'[to], call.as, call.id)
        /\ \A x \in Id : ~Has(saved'[from], call.name, x)
    BY <1>1, NextTable DEF TableStep, RenameEnds
  <2>2. \A d \in Dir : IsList(saved'[d]) /\ UniqueNames(saved'[d])
    BY <2>1 DEF TableInv, AreDirectories
  <2>3. \A d \in Dir : refresh(d)' = saved'[d]
    BY <2>2, NamesComeBack DEF refresh
  <2>4. Places(saved'[to], call.as) # {} /\ namei(saved'[to], call.as) = call.id
    BY <2>1, <2>2, HasName, NameiIsTheId
  <2>5. Places(saved'[from], call.name) = {}
    BY <2>1, <2>2, HasName
  <2> QED BY <2>3, <2>4, <2>5 DEF check_availability
<1>2. TableInv /\ [Next]_vars => [Moves]_vars
  BY <1>1
<1> HIDE DEF Moves
<1>3. Spec => [][Moves]_vars
  BY <1>2, TableInvariant, PTL DEF Spec
<1> QED BY <1>3 DEF Moves, RenameMoves

(* What stays in a directory stays in order, and what add_path adds comes  *)
(* behind it, between any two saves of any of the resolvers: the order of  *)
(* the dentries is that of their creation.                                 *)
THEOREM DentriesStayInOrder ==
  ASSUME NamesFit
  PROVE  Spec => OrderIsKept
<1> DEFINE Ordered ==
      \A d \in Dir :
         \A i, l \in DOMAIN saved'[d] : \A k \in DOMAIN saved[d] :
           i < l /\ saved'[d][l] = saved[d][k] =>
             \E j \in DOMAIN saved[d] : j < k /\ saved'[d][i] = saved[d][j]
<1>1. ASSUME TableInv, [Next]_vars PROVE Ordered
  <2>1. OneSave
    BY <1>1, NextTable DEF TableStep
  <2>2. \A d \in Dir : InOrder(saved[d], saved[d])
    BY <1>1, SameOrder DEF TableInv, AreDirectories
  <2>3. \A d \in Dir : InOrder(saved[d], saved'[d])
    BY <2>1, <2>2 DEF OneSave, Adds, Removes
  <2> QED BY <2>3 DEF InOrder
<1>2. TableInv /\ [Next]_vars => [Ordered]_vars
  BY <1>1
<1> HIDE DEF Ordered
<1>3. Spec => [][Ordered]_vars
  BY <1>2, TableInvariant, PTL DEF Spec
<1> QED BY <1>3 DEF Ordered, OrderIsKept

(* --------------------------- the refinement ---------------------------- *)

(* The directories as functions from names to ids.                         *)
MapOf(s) == [n \in Names(s) |-> namei(s, n)]
MapsOf(dirs) == [d \in Dir |-> MapOf(dirs[d])]

LEMMA MapHas ==
  ASSUME NEW s, IsList(s), UniqueNames(s)
  PROVE  /\ \A n : n \in DOMAIN MapOf(s) <=> \E x \in Id : Has(s, n, x)
         /\ \A n, x : Has(s, n, x) => n \in DOMAIN MapOf(s) /\ MapOf(s)[n] = x
<1>1. \A n : n \in Names(s) <=> \E x \in Id : Has(s, n, x)
  BY HasName
<1>2. \A n, x : Has(s, n, x) => n \in Names(s) /\ namei(s, n) = x
  BY <1>1, HasName, NameiIsTheId
<1> QED BY <1>1, <1>2 DEF MapOf

(* Two vectors with the same dentries are the same function.               *)
LEMMA SameMap ==
  ASSUME NEW s, IsList(s), UniqueNames(s), NEW t, IsList(t), UniqueNames(t),
         \A n, x : Has(s, n, x) <=> Has(t, n, x)
  PROVE  MapOf(s) = MapOf(t)
<1>1. DOMAIN MapOf(s) = DOMAIN MapOf(t)
  BY MapHas
<1>2. \A n \in DOMAIN MapOf(s) : MapOf(s)[n] = MapOf(t)[n]
  BY MapHas
<1>3. MapOf(s) = [n \in DOMAIN MapOf(s) |-> MapOf(s)[n]] /\ MapOf(t) = [n \in DOMAIN MapOf(t) |-> MapOf(t)[n]]
  BY DEF MapOf
<1> QED BY <1>1, <1>2, <1>3

LEMMA EntriesAreMaps ==
  ASSUME NamesFit, AreDirectories(saved)
  PROVE  [d \in Dir |-> [n \in {refresh(d)[k].pathname : k \in DOMAIN saved[d]} |-> namei(refresh(d), n)]]
           = MapsOf(saved)
BY RefreshIsSaved DEF MapsOf, MapOf, Names

LEMMA AddsIsLink ==
  ASSUME AreDirectories(saved), NEW d \in Dir, NEW n \in Name, NEW id \in Id, Adds(d, n, id)
  PROVE  /\ n \notin DOMAIN MapsOf(saved)[d]
         /\ MapsOf(saved') = [MapsOf(saved) EXCEPT ![d] =
              [m \in DOMAIN @ \cup {n} |-> IF m = n THEN id ELSE @[m]]]
<1> DEFINE s == saved[d]
           t == saved'[d]
<1>1. IsList(s) /\ UniqueNames(s) /\ IsList(t) /\ UniqueNames(t)
  BY DEF AreDirectories, Adds
<1>2. \A x : ~Has(s, n, x)
  BY DEF Adds
<1>3. \A m, x : Has(t, m, x) <=> Has(s, m, x) \/ (m = n /\ x = id)
  BY DEF Adds
<1>4. ASSUME NEW e \in Dir, e # d PROVE MapOf(saved'[e]) = MapOf(saved[e])
  <2>1. \A m, x : Has(saved'[e], m, x) <=> Has(saved[e], m, x)
    BY <1>4 DEF Adds
  <2> QED BY <2>1, SameMap DEF AreDirectories, Adds
<1> HIDE DEF s, t
<1>5. n \notin DOMAIN MapOf(s)
  BY <1>1, <1>2, MapHas
<1>6. DOMAIN MapOf(t) = DOMAIN MapOf(s) \cup {n}
  BY <1>1, <1>3, MapHas
<1>7. \A m \in DOMAIN MapOf(t) : MapOf(t)[m] = IF m = n THEN id ELSE MapOf(s)[m]
  <2> SUFFICES ASSUME NEW m \in DOMAIN MapOf(t)
               PROVE  MapOf(t)[m] = IF m = n THEN id ELSE MapOf(s)[m]
    OBVIOUS
  <2>1. PICK x \in Id : Has(t, m, x)
    BY <1>1, MapHas
  <2>2. MapOf(t)[m] = x
    BY <1>1, <2>1, MapHas
  <2>3. CASE m = n
    BY <1>2, <1>3, <2>1, <2>2, <2>3
  <2>4. CASE m # n
    BY <1>1, <1>3, <2>1, <2>2, <2>4, MapHas
  <2> QED BY <2>3, <2>4
<1>8. MapOf(t) = [m \in DOMAIN MapOf(s) \cup {n} |-> IF m = n THEN id ELSE MapOf(s)[m]]
  <2>1. MapOf(t) = [m \in DOMAIN MapOf(t) |-> MapOf(t)[m]]
    BY DEF MapOf
  <2> QED BY <1>6, <1>7, <2>1
<1>9. MapsOf(saved)[d] = MapOf(s) /\ MapsOf(saved')[d] = MapOf(t)
  BY DEF MapsOf, s, t
<1>10. \A e \in Dir \ {d} : MapsOf(saved')[e] = MapsOf(saved)[e]
  BY <1>4 DEF MapsOf
<1>11. /\ MapsOf(saved) = [e \in Dir |-> MapsOf(saved)[e]]
       /\ MapsOf(saved') = [e \in Dir |-> MapsOf(saved')[e]]
  BY DEF MapsOf
<1> QED BY <1>5, <1>8, <1>9, <1>10, <1>11

LEMMA RemovesIsUnlink ==
  ASSUME AreDirectories(saved), NEW d \in Dir, NEW n \in Name, Removes(d, n)
  PROVE  /\ n \in DOMAIN MapsOf(saved)[d]
         /\ MapsOf(saved') = [MapsOf(saved) EXCEPT ![d] = [m \in DOMAIN @ \ {n} |-> @[m]]]
<1> DEFINE s == saved[d]
           t == saved'[d]
<1>1. IsList(s) /\ UniqueNames(s) /\ IsList(t) /\ UniqueNames(t)
  BY DEF AreDirectories, Removes
<1>2. \E x \in Id : Has(s, n, x)
  BY DEF Removes
<1>3. \A m, x : Has(t, m, x) <=> Has(s, m, x) /\ m # n
  BY DEF Removes
<1>4. ASSUME NEW e \in Dir, e # d PROVE MapOf(saved'[e]) = MapOf(saved[e])
  <2>1. \A m, x : Has(saved'[e], m, x) <=> Has(saved[e], m, x)
    BY <1>4 DEF Removes
  <2> QED BY <2>1, SameMap DEF AreDirectories, Removes
<1> HIDE DEF s, t
<1>5. n \in DOMAIN MapOf(s)
  BY <1>1, <1>2, MapHas
<1>6. DOMAIN MapOf(t) = DOMAIN MapOf(s) \ {n}
  BY <1>1, <1>3, MapHas
<1>7. \A m \in DOMAIN MapOf(t) : MapOf(t)[m] = MapOf(s)[m]
  <2> SUFFICES ASSUME NEW m \in DOMAIN MapOf(t) PROVE MapOf(t)[m] = MapOf(s)[m]
    OBVIOUS
  <2>1. PICK x \in Id : Has(t, m, x)
    BY <1>1, MapHas
  <2>2. Has(s, m, x)
    BY <1>3, <2>1
  <2> QED BY <1>1, <2>1, <2>2, MapHas
<1>8. MapOf(t) = [m \in DOMAIN MapOf(s) \ {n} |-> MapOf(s)[m]]
  <2>1. MapOf(t) = [m \in DOMAIN MapOf(t) |-> MapOf(t)[m]]
    BY DEF MapOf
  <2> QED BY <1>6, <1>7, <2>1
<1> QED BY <1>4, <1>5, <1>8 DEF MapsOf, s, t

(* Every save is one step of Directories, whoever held a copy: the copies, *)
(* the vectors and the cut of do_rename are invisible there.               *)
THEOREM TablesImplementDirectories ==
  ASSUME NamesFit
  PROVE  Spec => ImplementsDirectories
<1> DEFINE Ent == [d \in Dir |->
                [n \in {refresh(d)[k].pathname : k \in DOMAIN saved[d]} |-> namei(refresh(d), n)]]
<1>1. ASSUME TableInv PROVE Ent = MapsOf(saved)
  BY <1>1, EntriesAreMaps DEF TableInv
<1>2. ASSUME TableInv' PROVE Ent' = MapsOf(saved')
  <2>1. \A d \in Dir : IsList(saved'[d])
    BY <1>2 DEF TableInv, AreDirectories
  <2>2. \A d \in Dir : refresh(d)' = saved'[d]
    BY <2>1, NamesComeBack DEF refresh
  <2> QED BY <2>2 DEF MapsOf, MapOf, Names
<1>3. ASSUME Init PROVE Abstract!Init
  <2>1. \A d \in Dir : saved[d] = <<>>
    BY <1>3 DEF Init
  <2> QED BY <2>1 DEF Abstract!Init
<1>4. ASSUME TableInv, [Next]_vars PROVE Abstract!Next \/ Ent' = Ent
  <2>1. OneSave /\ TableInv'
    BY <1>4, NextTable DEF TableStep
  <2>2. AreDirectories(saved) /\ Ent = MapsOf(saved) /\ Ent' = MapsOf(saved')
    BY <1>1, <1>2, <1>4, <2>1 DEF TableInv
  <2> HIDE DEF Ent
  <2>3. CASE UNCHANGED saved
    BY <2>2, <2>3
  <2>4. ASSUME NEW d \in Dir, NEW n \in Name, NEW id \in Id, Adds(d, n, id)
        PROVE  Abstract!Next
    <3>1. /\ n \notin DOMAIN Ent[d]
          /\ Ent' = [Ent EXCEPT ![d] = [m \in DOMAIN @ \cup {n} |-> IF m = n THEN id ELSE @[m]]]
      BY <2>2, <2>4, AddsIsLink
    <3>2. Abstract!Link(d, n, id)
      BY <3>1 DEF Abstract!Link, Ent
    <3> QED BY <3>2 DEF Abstract!Next
  <2>5. ASSUME NEW d \in Dir, NEW n \in Name, Removes(d, n)
        PROVE  Abstract!Next
    <3>1. n \in DOMAIN Ent[d] /\ Ent' = [Ent EXCEPT ![d] = [m \in DOMAIN @ \ {n} |-> @[m]]]
      BY <2>2, <2>5, RemovesIsUnlink
    <3>2. Abstract!Unlink(d, n)
      BY <3>1 DEF Abstract!Unlink, Ent
    <3> QED BY <3>2 DEF Abstract!Next
  <2> QED BY <2>1, <2>3, <2>4, <2>5 DEF OneSave
<1>5. TableInv /\ [Next]_vars => [Abstract!Next]_Ent
  BY <1>4
<1> HIDE DEF Ent
<1> QED BY <1>3, <1>5, TableInvariant, PTL DEF Spec, ImplementsDirectories, Abstract!Spec, Ent
=============================================================================
