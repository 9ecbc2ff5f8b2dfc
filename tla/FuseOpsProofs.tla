---------------------------- MODULE FuseOpsProofs ----------------------------
(***************************************************************************)
(* Every handler keeps every version a tree, holds exactly the inodes some *)
(* version needs, and leaves the snapshots as they are: the theorems about *)
(* FuseOps!Spec, from the invariant SmiInv of InodeSmiProofs.  What a      *)
(* handler does to inodes, link counts and dentries is one change of a     *)
(* tree of paths: the handlers implement VersionedTree.                    *)
(***************************************************************************)
EXTENDS FuseOps, InodeSmiProofs

(* ------------------------------- paths --------------------------------- *)

(* The paths of a tree are sequences of names no longer than the pool.     *)
LEMMA InTreeIsNames ==
  ASSUME NEW p \in InTree
  PROVE  p \in Seq(Name) /\ p \in Path
<1>1. MaxInodes \in Nat \ {0}
  BY InodeSmiAssumption
<1>2. PICK k \in 0 .. MaxInodes - 1 : p \in [1 .. k -> Name]
  BY DEF InTree
<1>3. k \in Nat
  BY <1>1
<1>4. p \in Seq(Name)
  BY <1>2, <1>3
<1> QED BY <1>4 DEF Path, Word

LEMMA NamesAreInTree ==
  ASSUME NEW p \in Seq(Name), Len(p) <= MaxInodes - 1
  PROVE  p \in InTree
<1>1. MaxInodes \in Nat \ {0} /\ Len(p) \in Nat
  BY InodeSmiAssumption
<1>2. Len(p) \in 0 .. MaxInodes - 1 /\ p \in [1 .. Len(p) -> Name]
  BY <1>1
<1> QED BY <1>2 DEF InTree

(* /.snapshot/v followed by a path of the tree.                            *)
LEMMA InVersionIsPath ==
  ASSUME NEW v \in Version \cup {Current}, NEW path \in InVersion(v)
  PROVE  /\ path \in Path /\ path # <<>> /\ path[1] = SNAPSHOT_ENTRY
         /\ Len(path) >= 2 /\ path[2] = v
         /\ Len(path) > 2 => Last(path) \in Name
<1>1. PICK p \in InTree : path = <<SNAPSHOT_ENTRY, v>> \o p
  BY DEF InVersion
<1>2. p \in Seq(Name) /\ p \in Path
  BY InTreeIsNames
<1> DEFINE e == <<SNAPSHOT_ENTRY, v>>
<1>3. e \in Path /\ Len(e) = 2 /\ e[1] = SNAPSHOT_ENTRY /\ e[2] = v
  BY DEF Path, Word
<1> HIDE DEF e
<1>4. /\ Len(p) \in Nat /\ Len(path) = Len(p) + 2 /\ path \in Path
      /\ \A i \in 1 .. Len(path) : path[i] = IF i <= 2 THEN e[i] ELSE p[i - 2]
  BY <1>1, <1>2, <1>3 DEF Path, e
<1>5. path[1] = SNAPSHOT_ENTRY /\ path[2] = v
  BY <1>3, <1>4
<1>6. ASSUME Len(path) > 2 PROVE Last(path) \in Name
  BY <1>2, <1>4, <1>6 DEF Last
<1>7. path # <<>>
  BY <1>4
<1> QED BY <1>4, <1>5, <1>6, <1>7

LEMMA AnyPathIsPath ==
  ASSUME NEW path \in AnyPath
  PROVE  path \in Path
<1>1. CASE path \in InTree
  BY <1>1, InTreeIsNames
<1>2. ASSUME NEW v \in Version \cup {Current}, path \in InVersion(v) PROVE path \in Path
  BY <1>2, InVersionIsPath
<1> QED BY <1>1, <1>2 DEF AnyPath, PlainPath

(* A path below /.snapshot that if_snapshot parses has a version.          *)
LEMMA BelowPath ==
  ASSUME NEW path \in Path, Below(path), Parsable(path)
  PROVE  Len(path) \in Nat /\ Len(path) >= 2 /\ path[1] = SNAPSHOT_ENTRY
<1>1. Len(path) \in Nat /\ Len(path) > 0 /\ path[1] = SNAPSHOT_ENTRY
  BY DEF Below, Path
<1>2. ASSUME Len(path) = 1 PROVE FALSE
  <2>1. path = <<SNAPSHOT_ENTRY>>
    BY <1>1, <1>2 DEF Path
  <2> QED BY <2>1 DEF Parsable
<1> QED BY <1>1, <1>2

LEMMA NamesOfIsPath ==
  ASSUME NEW path \in Path, Parsable(path)
  PROVE  NamesOf(path) \in Path
<1>1. CASE ~Below(path)
  BY <1>1 DEF NamesOf
<1>2. CASE Below(path)
  <2> DEFINE m == Len(path)
  <2>1. m \in Nat /\ m >= 2
    BY <1>2, BelowPath
  <2>2. SubSeq(path, 3, m) \in Path
    BY <2>1 DEF Path
  <2> QED BY <1>2, <2>2 DEF NamesOf
<1> QED BY <1>1, <1>2

(* What a handler finds at a path it may write to is in version current.   *)
LEMMA IdAtCurrent ==
  ASSUME NEW smi, SmiInv(smi), NEW path \in Path, Writable(path)
  PROVE  /\ NamesOf(path) \in Path
         /\ IdAt(smi, path) = Resolve(smi, Current, NamesOf(path))
         /\ IdAt(smi, path) \in smi.lists[Current] \cup {Nowhere}
<1>1. Parsable(path) /\ VersionOf(path) = Current /\ Current \in DOMAIN smi.lists
      /\ IsForest(smi, Current)
  BY DEF Writable, SmiInv, IsSmi, IsVersionTree
<1>2. NamesOf(path) \in Path
  BY <1>1, NamesOfIsPath
<1>3. IdAt(smi, path) = Resolve(smi, Current, NamesOf(path))
  BY <1>1 DEF IdAt
<1> QED BY <1>1, <1>2, <1>3, ResolveInVersion

(* The directory of such a path is one too, or is /.snapshot, which        *)
(* if_snapshot throws on.                                                  *)
LEMMA FrontOfWritable ==
  ASSUME NEW path \in Path, path # <<>>, Writable(path)
  PROVE  Front(path) \in Path /\ (Front(path) = <<SNAPSHOT_ENTRY>> \/ Writable(Front(path)))
<1>1. /\ Front(path) \in Path /\ Len(path) \in Nat /\ Len(path) > 0
      /\ Len(Front(path)) = Len(path) - 1
      /\ \A i \in 1 .. Len(path) - 1 : Front(path)[i] = path[i]
  BY FrontAndLast DEF Path, Front
<1>2. SUFFICES ASSUME Parsable(Front(path)) PROVE Writable(Front(path))
  BY <1>1 DEF Parsable
<1>3. CASE ~Below(Front(path))
  BY <1>2, <1>3 DEF Writable, VersionOf
<1>4. CASE Below(Front(path))
  <2>1. Len(Front(path)) >= 2 /\ Front(path)[1] = SNAPSHOT_ENTRY
    BY <1>1, <1>2, <1>4, BelowPath
  <2>2. Below(path) /\ path[2] = Front(path)[2]
    BY <1>1, <2>1 DEF Below
  <2> QED BY <1>2, <1>4, <2>2 DEF Writable, VersionOf
<1> QED BY <1>3, <1>4

(* A handler writes to a path that is not below /.snapshot, or goes        *)
(* through /.snapshot/current.                                             *)
LEMMA PlainWritable ==
  ASSUME NEW path \in PlainPath, Writable(path)
  PROVE  path \in Seq(Name) /\ path \in Path /\ ~Below(path) /\ NamesOf(path) = path
<1>1. ASSUME NEW v \in Version, path \in InVersion(v) PROVE FALSE
  <2>1. path # <<>> /\ path[1] = SNAPSHOT_ENTRY /\ path[2] = v
    BY <1>1, InVersionIsPath
  <2>2. VersionOf(path) = v
    BY <2>1 DEF VersionOf, Below
  <2> QED BY <2>2, InodeSmiAssumption DEF Writable
<1>2. path \in InTree /\ ~Below(path)
  BY <1>1 DEF PlainPath
<1> QED BY <1>2, InTreeIsNames DEF NamesOf

(* The name of a new inode is one of the names of dentries.                *)
LEMMA LastOfAnyPath ==
  ASSUME NEW path \in AnyPath, path # <<>>, Parsable(Front(path))
  PROVE  Last(path) \in Name
<1>1. CASE path \in InTree
  BY <1>1, InTreeIsNames, FrontAndLast
<1>2. ASSUME NEW v \in Version \cup {Current}, path \in InVersion(v) PROVE Last(path) \in Name
  <2>1. /\ path \in Path /\ path # <<>> /\ path[1] = SNAPSHOT_ENTRY
        /\ Len(path) >= 2 /\ (Len(path) > 2 => Last(path) \in Name)
    BY <1>2, InVersionIsPath
  <2>2. ASSUME Len(path) = 2 PROVE FALSE
    <3>1. Front(path) \in Path /\ Len(Front(path)) = 1 /\ Front(path)[1] = SNAPSHOT_ENTRY
      BY <2>1, <2>2, FrontAndLast DEF Path, Front
    <3>2. Front(path) = <<SNAPSHOT_ENTRY>>
      BY <3>1 DEF Path
    <3> QED BY <3>2 DEF Parsable
  <2>3. Len(path) \in Nat
    BY <2>1 DEF Path
  <2> QED BY <2>1, <2>2, <2>3
<1> QED BY <1>1, <1>2 DEF AnyPath, PlainPath

(* What stands behind /.snapshot is the name of a version.                 *)
LEMMA SnapshotName ==
  ASSUME NEW path \in AnyPath, path # <<>>, Front(path) = <<SNAPSHOT_ENTRY>>
  PROVE  Last(path) \in Version \cup {Current}
<1>1. /\ path \in Path /\ Len(path) \in Nat /\ Len(path) = 2
      /\ path[1] = SNAPSHOT_ENTRY /\ Last(path) = path[2]
  <2>1. path \in Path
    BY AnyPathIsPath
  <2>2. /\ Len(path) \in Nat /\ Len(path) > 0 /\ Len(Front(path)) = Len(path) - 1
        /\ \A i \in 1 .. Len(path) - 1 : Front(path)[i] = path[i]
    BY <2>1, FrontAndLast DEF Path, Front
  <2>3. Len(Front(path)) = 1 /\ Front(path)[1] = SNAPSHOT_ENTRY
    OBVIOUS
  <2>4. Len(path) \in Nat /\ Len(path) = 2
    BY <2>2, <2>3
  <2>5. path[1] = SNAPSHOT_ENTRY
    BY <2>2, <2>3, <2>4
  <2>6. Last(path) = path[2]
    BY <2>4 DEF Last
  <2> QED BY <2>1, <2>4, <2>5, <2>6
<1>2. Below(path)
  BY <1>1 DEF Below
<1>3. ASSUME NEW v \in Version \cup {Current}, path \in InVersion(v)
      PROVE  Last(path) \in Version \cup {Current}
  BY <1>1, <1>3, InVersionIsPath
<1> QED BY <1>2, <1>3 DEF AnyPath, PlainPath

(* ------------------------------- steps --------------------------------- *)

(* The inductive invariant: SmiInv, and the bound MaxInodes on the pool.   *)
Bounded(smi) ==
  /\ DOMAIN smi.pool \subseteq 0 .. 2 * MaxInodes
  /\ Cardinality(DOMAIN smi.pool) <= MaxInodes

IInv == SmiInv(Smi) /\ Bounded(Smi)

(* What a handler keeps.                                                   *)
IsStep(s, t) ==
  /\ SmiInv(t) /\ Bounded(t)
  /\ \A v \in (DOMAIN s.lists \cap DOMAIN t.lists) \ {Current} : SameSnapshot(s, t, v)

(* A handler that adds no inode stays within the bound.                    *)
LEMMA SmallerPool ==
  ASSUME NEW s, NEW t, IsSmi(s), Bounded(s), DOMAIN t.pool \subseteq DOMAIN s.pool
  PROVE  Bounded(t)
<1>1. /\ IsFiniteSet(DOMAIN t.pool) /\ Cardinality(DOMAIN t.pool) <= Cardinality(DOMAIN s.pool)
      /\ Cardinality(DOMAIN t.pool) \in Nat /\ Cardinality(DOMAIN s.pool) \in Nat
  BY FS_Subset, FS_CardinalityType DEF IsSmi
<1>2. MaxInodes \in Nat
  BY InodeSmiAssumption
<1> QED BY <1>1, <1>2 DEF Bounded

LEMMA KeepingIsStep ==
  ASSUME NEW s, NEW t, KeepsSnapshots(s, t), SmiInv(t), Bounded(t)
  PROVE  IsStep(s, t)
BY DEF IsStep, KeepsSnapshots

LEMMA StepIsTransitive ==
  ASSUME NEW s, NEW t, NEW u, KeepsSnapshots(s, t), IsStep(t, u)
  PROVE  IsStep(s, u)
<1>1. \A v \in (DOMAIN s.lists \cap DOMAIN u.lists) \ {Current} :
        SameSnapshot(s, t, v) /\ SameSnapshot(t, u, v)
  BY DEF KeepsSnapshots, IsStep
<1>2. \A v \in (DOMAIN s.lists \cap DOMAIN u.lists) \ {Current} : SameSnapshot(s, u, v)
  BY <1>1 DEF SameSnapshot
<1> QED BY <1>2 DEF IsStep

(* The state a handler leaves.                                             *)
LEMMA BecomesNext ==
  ASSUME NEW t, IsSmi(t), Become(t)
  PROVE  Smi' = t
BY DEF IsSmi, Become, Smi

(* A new inode under the directory of the path, a file with its content.   *)
Makes(s, t, path, is_dir, data) ==
  LET parent == IdAt(s, Front(path))
      id     == FreeId(s.pool)
      made   == MakeChild(s, parent, Last(path), is_dir)
  IN  /\ path \in Path /\ path # <<>> /\ Writable(path) /\ Writable(Front(path))
      /\ parent \in s.lists[Current] /\ IsDir(s, parent)
      /\ MakesChild(s, made, parent, Last(path), is_dir, id)
      /\ IF is_dir THEN t = made ELSE WritesFile(made, t, id, data)

LEMMA MakeAtStep ==
  ASSUME IInv, NEW path \in AnyPath, NEW is_dir \in BOOLEAN, NEW data \in Data,
         MakeAt(path, is_dir, data)
  PROVE  IsStep(Smi, Smi') /\ KeepsSnapshots(Smi, Smi') /\ Makes(Smi, Smi', path, is_dir, data)
<1> DEFINE s == Smi
           parent == IdAt(s, Front(path))
           id == FreeId(s.pool)
           made == MakeChild(s, parent, Last(path), is_dir)
           t == IF is_dir THEN made ELSE Save(made, id, data)
<1>1. /\ path # <<>> /\ Writable(path) /\ CanMakeChild(s, parent, Last(path))
      /\ Cardinality(DOMAIN s.pool) < MaxInodes /\ Become(t)
  BY DEF MakeAt, Save, Smi
<1>2. path \in Path /\ SmiInv(s) /\ Bounded(s) /\ IsSmi(s)
      /\ s.lists[Current] \subseteq DOMAIN s.pool
  BY AnyPathIsPath DEF IInv, SmiInv, IsSmi
<1>3. parent # Nowhere /\ IsDir(s, parent)
  BY <1>1, <1>2, NothingNowhere DEF CanMakeChild, IsDir
<1>4. Parsable(Front(path)) /\ Writable(Front(path)) /\ Front(path) \in Path
  BY <1>1, <1>2, <1>3, FrontOfWritable DEF IdAt, Parsable
<1>5. parent \in s.lists[Current]
  BY <1>2, <1>3, <1>4, IdAtCurrent
<1>6. Last(path) \in Name
  BY <1>1, <1>4, LastOfAnyPath
<1> HIDE DEF parent, id, s
<1>7. MakesChild(s, made, parent, Last(path), is_dir, id)
  BY <1>1, <1>2, <1>5, <1>6, MakeChildInv DEF id
<1> HIDE DEF made
<1>8. Bounded(made)
  <2>1. DOMAIN made.pool = DOMAIN s.pool \cup {id} /\ id \notin DOMAIN s.pool
    BY <1>7 DEF MakesChild
  <2>2. id \in Nat /\ id <= 2 * Cardinality(DOMAIN s.pool)
    BY <1>2, FreeIdIsFree DEF id, IsSmi
  <2>3. /\ Cardinality(DOMAIN made.pool) = Cardinality(DOMAIN s.pool) + 1
        /\ Cardinality(DOMAIN s.pool) \in Nat
    BY <1>2, <2>1, FS_AddElement, FS_CardinalityType DEF IsSmi
  <2>4. MaxInodes \in Nat
    BY InodeSmiAssumption
  <2> QED BY <1>1, <1>2, <2>1, <2>2, <2>3, <2>4 DEF Bounded
<1>9. SmiInv(made) /\ KeepsSnapshots(s, made) /\ IsSmi(made)
      /\ id \in DOMAIN made.pool /\ made.pool[id].is_dentry = is_dir
  BY <1>7 DEF MakesChild, SmiInv, NewInode
<1>10. /\ IsStep(s, t) /\ IsSmi(t) /\ KeepsSnapshots(s, t)
       /\ IF is_dir THEN t = made ELSE WritesFile(made, t, id, data)
  <2>1. CASE is_dir
    BY <1>8, <1>9, <2>1, KeepingIsStep
  <2>2. CASE ~is_dir
    <3>1. WritesFile(made, t, id, data)
      BY <1>9, <2>2, SaveFileInv
    <3>2. SmiInv(t) /\ IsSmi(t) /\ KeepsSnapshots(made, t) /\ DOMAIN t.pool = DOMAIN made.pool
      BY <3>1 DEF WritesFile, SavesAt
    <3> HIDE DEF t
    <3>3. Bounded(t) /\ IsStep(made, t)
      BY <1>8, <1>9, <3>2, SmallerPool, KeepingIsStep
    <3> QED BY <1>9, <2>2, <3>1, <3>2, <3>3, StepIsTransitive, KeepsSnapshotsTwice
  <2> QED BY <2>1, <2>2
<1> HIDE DEF t
<1>11. Smi' = t
  BY <1>1, <1>10, BecomesNext
<1>12. Makes(s, t, path, is_dir, data)
  BY <1>1, <1>2, <1>3, <1>4, <1>5, <1>7, <1>10 DEF Makes, made, parent, id
<1> QED BY <1>10, <1>11, <1>12 DEF s

LEMMA SnapshotStep ==
  ASSUME IInv, NEW v, CanSnapshot(Smi, v), Become(CreateSnapshot(Smi, v))
  PROVE  IsStep(Smi, Smi') /\ Smi' = CreateSnapshot(Smi, v) /\ TakesSnapshot(Smi, Smi', v)
<1> DEFINE t == CreateSnapshot(Smi, v)
<1>1. TakesSnapshot(Smi, t, v)
  BY CreateSnapshotInv DEF IInv
<1> HIDE DEF t
<1>2. SmiInv(t) /\ IsSmi(t) /\ DOMAIN t.pool = DOMAIN Smi.pool
  BY <1>1 DEF TakesSnapshot, SmiInv
<1>3. Bounded(t)
  BY <1>2, SmallerPool DEF IInv, SmiInv
<1>4. IsStep(Smi, t)
  BY <1>1, <1>2, <1>3 DEF IsStep, TakesSnapshot
<1>5. Smi' = t
  BY <1>2, BecomesNext DEF t
<1> QED BY <1>1, <1>4, <1>5 DEF t

LEMMA DropSnapshotStep ==
  ASSUME IInv, NEW v, CanDropSnapshot(Smi, v), Become(DeleteSnapshot(Smi, v))
  PROVE  IsStep(Smi, Smi') /\ Smi' = DeleteSnapshot(Smi, v) /\ DropsSnapshot(Smi, Smi', v)
<1> DEFINE t == DeleteSnapshot(Smi, v)
<1>1. DropsSnapshot(Smi, t, v)
  BY DeleteSnapshotInv DEF IInv
<1> HIDE DEF t
<1>2. SmiInv(t) /\ IsSmi(t) /\ DOMAIN t.pool \subseteq DOMAIN Smi.pool
  BY <1>1 DEF DropsSnapshot, SmiInv
<1>3. Bounded(t)
  BY <1>2, SmallerPool DEF IInv, SmiInv
<1>4. IsStep(Smi, t)
  BY <1>1, <1>2, <1>3 DEF IsStep, DropsSnapshot
<1>5. Smi' = t
  BY <1>2, BecomesNext DEF t
<1> QED BY <1>1, <1>4, <1>5 DEF t

LEMMA WriteStep ==
  ASSUME IInv, NEW path \in AnyPath, NEW data \in Data, do_write(path, data)
  PROVE  IsStep(Smi, Smi') /\ WritesFile(Smi, Smi', IdAt(Smi, path), data)
<1> DEFINE id == IdAt(Smi, path)
           t == Save(Smi, id, data)
<1>1. /\ Writable(path) /\ id # Nowhere /\ ~IsDir(Smi, id)
      /\ inode_pool' = [inode_pool EXCEPT ![id].buffer_map[Current] = data]
      /\ snapshot_version_list' = snapshot_version_list
  BY DEF do_write, KernelSeesFile, KernelSees
<1>2. path \in Path /\ SmiInv(Smi) /\ IsSmi(Smi) /\ Smi.lists[Current] \subseteq DOMAIN Smi.pool
      /\ Bounded(Smi)
  BY AnyPathIsPath DEF IInv, SmiInv, IsSmi
<1>3. id \in DOMAIN Smi.pool
  BY <1>1, <1>2, IdAtCurrent
<1> HIDE DEF id
<1>4. ~Smi.pool[id].is_dentry
  BY <1>1, <1>3 DEF IsDir
<1>5. WritesFile(Smi, t, id, data)
  BY <1>2, <1>3, <1>4, SaveFileInv
<1>6. Smi' = t
  BY <1>1 DEF Smi, Save
<1> HIDE DEF t
<1>7. SmiInv(t) /\ KeepsSnapshots(Smi, t) /\ DOMAIN t.pool = DOMAIN Smi.pool
  BY <1>5 DEF WritesFile, SavesAt
<1>8. IsStep(Smi, t)
  BY <1>2, <1>7, SmallerPool, KeepingIsStep
<1> QED BY <1>5, <1>6, <1>8 DEF id

LEMMA RemoveStep ==
  ASSUME IInv, NEW path \in AnyPath, RemoveByPath(path)
  PROVE  LET parent == Resolve(Smi, Current, Front(path))
         IN  /\ IsStep(Smi, Smi')
             /\ parent \in Smi.lists[Current] /\ path # <<>> /\ Writable(path) /\ path \in Path
             /\ RemovesChild(Smi, Smi', parent, Last(path), Child(Smi, Current, parent, Last(path)))
<1> DEFINE parent == Resolve(Smi, Current, Front(path))
           n == Last(path)
           t == RemoveChild(Smi, parent, n)
<1>1. path # <<>> /\ Writable(path) /\ CanRemoveChild(Smi, parent, n) /\ Become(t)
  BY DEF RemoveByPath
<1>2. /\ path \in Path /\ SmiInv(Smi) /\ IsSmi(Smi) /\ Bounded(Smi) /\ IsForest(Smi, Current)
  BY AnyPathIsPath DEF IInv, SmiInv, IsSmi, IsVersionTree
<1>3. parent \in Smi.lists[Current] \cup {Nowhere}
  BY <1>1, <1>2, PathFront, ResolveInVersion
<1>4. parent # Nowhere
  BY <1>1, <1>2, NothingNowhere DEF CanRemoveChild, HasDentry, IsDir
<1> HIDE DEF parent, n
<1>5. RemovesChild(Smi, t, parent, n, Child(Smi, Current, parent, n))
  BY <1>1, <1>2, <1>3, <1>4, RemoveChildInv
<1> HIDE DEF t
<1>6. SmiInv(t) /\ IsSmi(t) /\ KeepsSnapshots(Smi, t) /\ DOMAIN t.pool \subseteq DOMAIN Smi.pool
  BY <1>5 DEF RemovesChild, SmiInv
<1>7. IsStep(Smi, t)
  BY <1>2, <1>6, SmallerPool, KeepingIsStep
<1>8. Smi' = t
  BY <1>1, <1>6, BecomesNext
<1> QED BY <1>1, <1>2, <1>3, <1>4, <1>5, <1>7, <1>8 DEF parent, n

(* do_rename on paths of the tree: nothing has the new name in cleared,    *)
(* the two halves are then one Move from there.                            *)
IsRename(path, name) ==
  /\ path \in Path /\ name \in Path /\ path # <<>> /\ name # <<>>
  /\ Last(name) \in Name
  /\ Resolve(Smi, Current, path) # Nowhere
  /\ ~IsPrefix(path, name) /\ ~IsPrefix(name, path)
  /\ Resolve(Smi, Current, name) # Nowhere =>
       (IsDir(Smi, Resolve(Smi, Current, path)) <=> IsDir(Smi, Resolve(Smi, Current, name)))

(* Nothing changed, or the dentry of that name is gone.                    *)
Clears(s, c, dir, n) == c = s \/ RemovesChild(s, c, dir, n, Child(s, Current, dir, n))

Cleared(name) ==
  LET parent == Resolve(Smi, Current, Front(name))
  IN  IF HasDentry(Smi, parent, Current, Last(name)) THEN RemoveChild(Smi, parent, Last(name)) ELSE Smi

LEMMA RenameIsRename ==
  ASSUME IInv, NEW path \in PlainPath, NEW name \in PlainPath, do_rename(path, name)
  PROVE  LET parent == Resolve(Smi, Current, Front(name))
         IN  /\ IsRename(path, name) /\ IsDir(Smi, parent)
             /\ HasDentry(Smi, parent, Current, Last(name)) => CanRemoveChild(Smi, parent, Last(name))
             /\ Become(Renamed(path, name))
             /\ IdAt(Smi, path) = Resolve(Smi, Current, path)
             /\ IdAt(Smi, Front(name)) = parent
             /\ \A smi : Current \in DOMAIN smi.lists =>
                  IdAt(smi, Front(path)) = Resolve(smi, Current, Front(path))
<1>1. /\ path # <<>> /\ name # <<>> /\ Writable(path) /\ Writable(name)
      /\ KernelRenames(path, name) /\ IsDir(Smi, IdAt(Smi, Front(name)))
      /\ HasDentry(Smi, IdAt(Smi, Front(name)), Current, Last(name))
           => CanRemoveChild(Smi, IdAt(Smi, Front(name)), Last(name))
      /\ Become(Renamed(path, name))
  BY DEF do_rename
<1>2. ASSUME NEW p \in PlainPath, p # <<>>, Writable(p), NEW smi, Current \in DOMAIN smi.lists
      PROVE  /\ p \in Seq(Name) /\ p \in Path
             /\ IdAt(smi, p) = Resolve(smi, Current, p)
             /\ IdAt(smi, Front(p)) = Resolve(smi, Current, Front(p))
  <2>1. p \in Seq(Name) /\ p \in Path /\ ~Below(p) /\ NamesOf(p) = p
    BY <1>2, PlainWritable
  <2>2. IdAt(smi, p) = Resolve(smi, Current, p)
    BY <1>2, <2>1 DEF IdAt, Writable
  <2>3. ~Below(Front(p))
    <3>1. /\ Front(p) \in Path /\ Len(p) \in Nat /\ Len(Front(p)) = Len(p) - 1
          /\ \A i \in 1 .. Len(p) - 1 : Front(p)[i] = p[i]
      BY <1>2, <2>1, FrontAndLast DEF Path, Front
    <3>2. SUFFICES ASSUME Front(p) # <<>>, Front(p)[1] = SNAPSHOT_ENTRY PROVE FALSE
      BY DEF Below
    <3>3. Len(Front(p)) > 0
      BY <3>1, <3>2 DEF Path
    <3>4. p # <<>> /\ p[1] = SNAPSHOT_ENTRY
      BY <1>2, <3>1, <3>2, <3>3
    <3> QED BY <2>1, <3>4 DEF Below
  <2>4. Parsable(Front(p)) /\ VersionOf(Front(p)) = Current /\ NamesOf(Front(p)) = Front(p)
    <3>1. Below(<<SNAPSHOT_ENTRY>>)
      BY DEF Below
    <3> QED BY <2>3, <3>1 DEF Parsable, VersionOf, NamesOf
  <2>5. IdAt(smi, Front(p)) = Resolve(smi, Current, Front(p))
    BY <1>2, <2>4 DEF IdAt
  <2> QED BY <2>1, <2>2, <2>5
<1>3. Current \in DOMAIN Smi.lists
  BY DEF IInv, SmiInv, IsSmi
<1>4. /\ path \in Path /\ IdAt(Smi, path) = Resolve(Smi, Current, path)
      /\ \A smi : Current \in DOMAIN smi.lists => IdAt(smi, Front(path)) = Resolve(smi, Current, Front(path))
  BY <1>1, <1>2, <1>3
<1>5. /\ name \in Path /\ name \in Seq(Name)
      /\ IdAt(Smi, name) = Resolve(Smi, Current, name)
      /\ IdAt(Smi, Front(name)) = Resolve(Smi, Current, Front(name))
  BY <1>1, <1>2, <1>3
<1>6. Last(name) \in Name
  BY <1>1, <1>5, FrontAndLast
<1>7. IsRename(path, name)
  BY <1>1, <1>4, <1>5, <1>6 DEF IsRename, KernelRenames, KernelSees, KernelSeesDir
<1> QED BY <1>1, <1>4, <1>5, <1>7

(* What is true once the new name is free: the paths of the rename lead    *)
(* where they led.                                                         *)
LEMMA ClearedStep ==
  ASSUME IInv, NEW path, NEW name, IsRename(path, name),
         IsDir(Smi, Resolve(Smi, Current, Front(name))),
         HasDentry(Smi, Resolve(Smi, Current, Front(name)), Current, Last(name))
           => CanRemoveChild(Smi, Resolve(Smi, Current, Front(name)), Last(name))
  PROVE  LET c == Cleared(name)
         IN  /\ SmiInv(c) /\ Bounded(c) /\ KeepsSnapshots(Smi, c)
             /\ \A r \in Path : Resolve(c, Current, r) = IF r = name THEN Nowhere ELSE Resolve(Smi, Current, r)
             /\ IsDir(c, Resolve(Smi, Current, Front(name)))
             /\ ~HasDentry(c, Resolve(Smi, Current, Front(name)), Current, Last(name))
             /\ Clears(Smi, c, Resolve(Smi, Current, Front(name)), Last(name))
<1> DEFINE dir == Resolve(Smi, Current, Front(name))
           n == Last(name)
           c == Cleared(name)
           id == Child(Smi, Current, dir, n)
<1>1. /\ path \in Path /\ name \in Path /\ name # <<>> /\ n \in Name /\ n \in Word
      /\ SmiInv(Smi) /\ IsSmi(Smi) /\ Bounded(Smi) /\ IsForest(Smi, Current)
      /\ Smi.lists[Current] \subseteq DOMAIN Smi.pool
  BY DEF IsRename, IInv, SmiInv, IsSmi, IsVersionTree, Word
<1>2. Resolve(Smi, Current, name) = id
  BY <1>1, ResolvePath
<1>3. dir \in Smi.lists[Current]
  <2>1. dir \in Smi.lists[Current] \cup {Nowhere}
    BY <1>1, PathFront, ResolveInVersion
  <2>2. dir # Nowhere
    BY <1>1, NothingNowhere DEF IsDir
  <2> QED BY <2>1, <2>2
<1>4. IsDir(Smi, dir) /\ (HasDentry(Smi, dir, Current, n) => CanRemoveChild(Smi, dir, n))
      /\ c = IF HasDentry(Smi, dir, Current, n) THEN RemoveChild(Smi, dir, n) ELSE Smi
  BY DEF Cleared
<1> HIDE DEF dir, n, c
<1>5. CASE ~HasDentry(Smi, dir, Current, n)
  <2>1. c = Smi /\ id = Nowhere
    BY <1>1, <1>4, <1>5, ChildIsDentry
  <2>2. KeepsSnapshots(Smi, Smi)
    BY <1>1 DEF KeepsSnapshots, SameSnapshot, IsSmi, IsCounted, Holders
  <2>3. \A r \in Path : Resolve(c, Current, r) = IF r = name THEN Nowhere ELSE Resolve(Smi, Current, r)
    BY <1>2, <2>1
  <2> QED BY <1>1, <1>4, <1>5, <2>1, <2>2, <2>3 DEF c, dir, n, Clears
<1>6. CASE HasDentry(Smi, dir, Current, n)
  <2>1. RemovesChild(Smi, c, dir, n, id)
    BY <1>1, <1>3, <1>4, <1>6, RemoveChildInv
  <2>2. /\ SmiInv(c) /\ IsSmi(c) /\ KeepsSnapshots(Smi, c) /\ DOMAIN c.pool \subseteq DOMAIN Smi.pool
        /\ TakesChild(Smi, c, Current, dir, n, id)
        /\ \A x \in c.lists[Current] : c.pool[x].is_dentry = Smi.pool[x].is_dentry
    BY <2>1 DEF RemovesChild, SmiInv
  <2> HIDE DEF id
  <2>3. Bounded(c)
    BY <1>1, <2>2, SmallerPool
  <2>4. \A r \in Path : Resolve(c, Current, r) = IF r = name THEN Nowhere ELSE Resolve(Smi, Current, r)
    BY <1>1, <1>2, <2>2, TakenChildResolves
  <2>5. dir # id /\ c.lists[Current] = Smi.lists[Current] \ {id}
        /\ Child(c, Current, dir, n) = Nowhere /\ c.lists[Current] \subseteq DOMAIN c.pool
    <3>1. dir # id
      BY <1>1, <2>2 DEF TakesChild, IsForest
    <3>2. dir \in Smi.lists[Current] \ {id} /\ n \in Word
      BY <1>1, <1>3, <3>1
    <3>3. Child(c, Current, dir, n) = Nowhere
      BY <2>2, <3>2 DEF TakesChild
    <3> QED BY <2>2, <3>1, <3>3 DEF TakesChild, IsSmi
  <2>6. IsDir(c, dir)
    BY <1>3, <1>4, <2>2, <2>5 DEF IsDir
  <2>7. ~HasDentry(c, dir, Current, n)
    BY <2>2, <2>5, ChildIsDentry
  <2>8. Clears(Smi, c, dir, n)
    BY <2>1 DEF Clears, id
  <2> QED BY <2>2, <2>3, <2>4, <2>6, <2>7, <2>8 DEF c, dir, n
<1> QED BY <1>5, <1>6

(* In the state between the two halves, the old name is still found where  *)
(* it was: do_rename takes out the dentry it means to.                     *)
LEMMA RenamedIsMove ==
  ASSUME IInv, NEW path, NEW name, IsRename(path, name), NEW c, SmiInv(c),
         NEW dir, dir = Resolve(c, Current, Front(name)),
         IsDir(c, dir), ~HasDentry(c, dir, Current, Last(name)),
         NEW old, old = Resolve(c, Current, Front(path)),
         NEW id, id = Resolve(c, Current, path), id # Nowhere,
         NEW linked, linked = AddDentry(c, dir, Last(name), id)
  PROVE  /\ Resolve(linked, Current, Front(path)) = old
         /\ HasDentry(linked, old, Current, Last(path))
         /\ Current \in DOMAIN linked.lists
         /\ DropDentry(linked, old, Last(path)) = Move(c, old, Last(path), dir, Last(name))
         /\ MovesDentry(c, DropDentry(linked, old, Last(path)), old, Last(path), dir, Last(name))
         /\ MovesPath(c, Current, path, name, dir, Last(name), id)
         /\ id = Child(c, Current, old, Last(path))
<1> DEFINE n == Last(name)
           m == Last(path)
<1>1. /\ path \in Path /\ name \in Path /\ name # <<>> /\ path # <<>> /\ n \in Name /\ n \in Word
      /\ ~IsPrefix(path, name) /\ ~IsPrefix(name, path)
  BY DEF IsRename, Word
<1>2. /\ IsSmi(c) /\ IsForest(c, Current) /\ c.lists[Current] \subseteq DOMAIN c.pool
      /\ DOMAIN c.pool \subseteq Nat /\ Current \in DOMAIN c.lists
  BY DEF SmiInv, IsSmi, IsVersionTree
<1>3. /\ Front(path) \in Path /\ m \in Word /\ Front(name) \in Path
      /\ path = Append(Front(path), m) /\ name = Append(Front(name), n)
  BY <1>1, PathFront
<1>4. old \in c.lists[Current] /\ id = Child(c, Current, old, m) /\ id \in c.lists[Current]
  BY <1>1, <1>2, ResolvePlace
<1>5. dir \in c.lists[Current]
  <2>1. dir \in c.lists[Current] \cup {Nowhere}
    BY <1>2, <1>3, ResolveInVersion
  <2>2. dir # Nowhere
    BY <1>2, NothingNowhere DEF IsDir
  <2> QED BY <2>1, <2>2
<1> HIDE DEF n, m
<1>6. /\ SavesAt(c, linked, dir)
      /\ \A x \in DOMAIN c.pool, k \in Word :
           Child(linked, Current, x, k) = IF x = dir /\ k = n THEN id ELSE Child(c, Current, x, k)
  <2>1. id \in Nat
    BY <1>2, <1>4
  <2>2. linked = AddDentry(c, dir, n, id)
    BY DEF n
  <2>3. LET t == AddDentry(c, dir, n, id)
        IN  /\ SavesAt(c, t, dir)
            /\ \A x \in DOMAIN c.pool, k \in Word :
                 Child(t, Current, x, k) = IF x = dir /\ k = n THEN id ELSE Child(c, Current, x, k)
    BY <1>1, <1>2, <2>1, AddDentryIsSmi
  <2> QED BY <2>2, <2>3
<1>7. IsSmi(linked) /\ Current \in DOMAIN linked.lists
  BY <1>6 DEF SavesAt, IsSmi
<1>8. SameChildOutside(c, Current, linked, Current, {name})
  <2> SUFFICES ASSUME NEW r \in Path, r # <<>>, r # name
               PROVE  Child(linked, Current, Resolve(c, Current, Front(r)), Last(r))
                        = Child(c, Current, Resolve(c, Current, Front(r)), Last(r))
    BY DEF SameChildOutside
  <2> DEFINE y == Resolve(c, Current, Front(r))
  <2>1. Front(r) \in Path /\ Last(r) \in Word /\ r = Append(Front(r), Last(r))
    BY PathFront
  <2>2. y \in c.lists[Current] \cup {Nowhere}
    BY <1>2, <2>1, ResolveInVersion
  <2>3. ~(y = dir /\ Last(r) = n)
    <3>1. dir # Nowhere
      BY <1>2, <1>5 DEF IsForest
    <3>2. ASSUME y = dir PROVE Front(r) = Front(name)
      BY <1>2, <1>3, <2>1, <3>1, <3>2, ResolveIsInjective
    <3> QED BY <1>3, <2>1, <3>2
  <2> HIDE DEF y
  <2>4. ASSUME y = Nowhere PROVE Child(linked, Current, y, Last(r)) = Child(c, Current, y, Last(r))
    BY <1>2, <1>7, <2>4, NothingNowhere
  <2>5. ASSUME y \in c.lists[Current]
        PROVE  Child(linked, Current, y, Last(r)) = Child(c, Current, y, Last(r))
    BY <1>2, <1>6, <2>1, <2>3, <2>5
  <2> QED BY <2>2, <2>4, <2>5 DEF y
<1>9. Resolve(linked, Current, Front(path)) = old
  <2>1. ~IsPrefix(name, Front(path))
    BY <1>1, PathPrefix
  <2>2. Resolve(linked, Current, Front(path)) = Resolve(c, Current, Front(path))
    BY <1>1, <1>3, <1>8, <2>1, ResolveOutside
  <2> QED BY <2>2
<1>10. HasDentry(linked, old, Current, m)
  <2>1. Child(linked, Current, old, m) = id
    BY <1>2, <1>3, <1>4, <1>6
  <2> QED BY <1>7, <2>1, ChildIsDentry
<1>11. ~IsPrefix(path, Front(name))
  BY <1>1, PathPrefix
<1>12. MovesPath(c, Current, path, name, dir, n, id)
  BY <1>1, <1>11 DEF MovesPath, n
<1>13. Move(c, old, m, dir, n) = DropDentry(linked, old, m)
  BY <1>4 DEF Move, n
<1>14. HasDentry(c, old, Current, m)
  BY <1>2, <1>4, ChildIsDentry
<1>15. MovesDentry(c, Move(c, old, m, dir, n), old, m, dir, n)
  <2>1. ~HasDentry(c, dir, Current, n)
    BY DEF n
  <2>2. MovesPath(c, Current, path, name, dir, n, Child(c, Current, old, m))
    BY <1>4, <1>12
  <2> QED BY <1>1, <1>4, <1>5, <1>14, <2>1, <2>2, MoveInv
<1> QED BY <1>4, <1>7, <1>9, <1>10, <1>12, <1>13, <1>15 DEF n, m

(* A rename is a Move from the cleared state.                              *)
LEMMA RenameStep ==
  ASSUME IInv, NEW path \in PlainPath, NEW name \in PlainPath, do_rename(path, name)
  PROVE  LET c   == Cleared(name)
             dir == Resolve(Smi, Current, Front(name))
             old == Resolve(Smi, Current, Front(path))
         IN  /\ IsStep(Smi, Smi') /\ IsRename(path, name) /\ IsDir(Smi, dir)
             /\ SmiInv(c) /\ KeepsSnapshots(Smi, c) /\ Clears(Smi, c, dir, Last(name))
             /\ \A r \in Path : Resolve(c, Current, r) = IF r = name THEN Nowhere ELSE Resolve(Smi, Current, r)
             /\ MovesDentry(c, Smi', old, Last(path), dir, Last(name))
             /\ MovesPath(c, Current, path, name, dir, Last(name), Resolve(c, Current, path))
             /\ Resolve(c, Current, path) = Child(c, Current, old, Last(path))
<1> DEFINE c == Cleared(name)
           dir == Resolve(Smi, Current, Front(name))
           old == Resolve(Smi, Current, Front(path))
           id == Resolve(Smi, Current, path)
           linked == AddDentry(c, dir, Last(name), id)
           t == DropDentry(linked, old, Last(path))
<1>1. /\ IsRename(path, name) /\ IsDir(Smi, dir)
      /\ HasDentry(Smi, dir, Current, Last(name)) => CanRemoveChild(Smi, dir, Last(name))
      /\ Become(Renamed(path, name))
      /\ IdAt(Smi, path) = id /\ IdAt(Smi, Front(name)) = dir
      /\ \A smi : Current \in DOMAIN smi.lists =>
           IdAt(smi, Front(path)) = Resolve(smi, Current, Front(path))
  BY RenameIsRename
<1>2. /\ SmiInv(c) /\ Bounded(c) /\ KeepsSnapshots(Smi, c)
      /\ \A r \in Path : Resolve(c, Current, r) = IF r = name THEN Nowhere ELSE Resolve(Smi, Current, r)
      /\ IsDir(c, dir) /\ ~HasDentry(c, dir, Current, Last(name))
      /\ Clears(Smi, c, dir, Last(name))
  BY <1>1, ClearedStep
<1>3. Linked(path, name) = linked
  BY <1>1 DEF Linked, Cleared
<1> HIDE DEF c
<1>4. /\ path \in Path /\ name \in Path /\ path # name /\ Front(path) # name /\ Front(name) # name
      /\ Front(path) \in Path /\ Front(name) \in Path /\ id # Nowhere
  <2>1. /\ path \in Path /\ name \in Path /\ path # <<>> /\ name # <<>> /\ id # Nowhere
        /\ ~IsPrefix(path, name) /\ ~IsPrefix(name, path)
    BY <1>1 DEF IsRename
  <2>2. Front(path) # name /\ path # name
    BY <2>1, PathPrefix
  <2>3. /\ Front(name) \in Path /\ Front(path) \in Path
        /\ Len(name) \in Nat /\ Len(Front(name)) = Len(name) - 1
    BY <2>1, PathFront
  <2> QED BY <2>1, <2>2, <2>3
<1>5. /\ Resolve(c, Current, path) = id /\ Resolve(c, Current, Front(path)) = old
      /\ Resolve(c, Current, Front(name)) = dir
  BY <1>2, <1>4
<1>6. /\ Resolve(linked, Current, Front(path)) = old
      /\ HasDentry(linked, old, Current, Last(path))
      /\ Current \in DOMAIN linked.lists
      /\ MovesDentry(c, t, old, Last(path), dir, Last(name))
      /\ MovesPath(c, Current, path, name, dir, Last(name), id)
      /\ id = Child(c, Current, old, Last(path))
  <2> HIDE DEF dir, old, id, linked
  <2>1. linked = AddDentry(c, dir, Last(name), id)
    BY DEF linked
  <2> QED BY <1>1, <1>2, <1>4, <1>5, <2>1, RenamedIsMove
<1>7. Renamed(path, name) = t
  <2>1. IdAt(linked, Front(path)) = old
    BY <1>1, <1>6
  <2> HIDE DEF linked, old
  <2> QED BY <1>3, <1>6, <2>1 DEF Renamed
<1> HIDE DEF t
<1>8. SmiInv(t) /\ KeepsSnapshots(c, t) /\ DOMAIN t.pool = DOMAIN c.pool /\ IsSmi(t) /\ IsSmi(c)
  BY <1>2, <1>6 DEF MovesDentry, SmiInv
<1>9. Bounded(t) /\ IsStep(c, t)
  BY <1>2, <1>8, SmallerPool, KeepingIsStep
<1>10. IsStep(Smi, t)
  BY <1>2, <1>9, StepIsTransitive
<1>11. Smi' = t
  BY <1>1, <1>7, <1>8, BecomesNext
<1> QED BY <1>1, <1>2, <1>5, <1>6, <1>10, <1>11 DEF c

(* ---------------------------- the invariant ---------------------------- *)

LEMMA EditStep ==
  ASSUME IInv, NEW path \in AnyPath,
         \/ do_mkdir(path) \/ do_create(path) \/ do_symlink(path)
         \/ \E data \in Data : do_write(path, data)
         \/ do_unlink(path) \/ do_rmdir(path)
  PROVE  IsStep(Smi, Smi')
<1>1. NoData \in Data /\ LinkText \in Data
  BY InodeSmiAssumption, FuseOpsAssumption
<1>2. CASE do_mkdir(path)
  <2>1. CASE CanSnapshot(Smi, Last(path)) /\ Become(CreateSnapshot(Smi, Last(path)))
    BY <2>1, SnapshotStep
  <2>2. CASE MakeAt(path, TRUE, NoData)
    BY <1>1, <2>2, MakeAtStep
  <2> QED BY <1>2, <2>1, <2>2 DEF do_mkdir
<1>3. CASE do_create(path)
  BY <1>1, <1>3, MakeAtStep DEF do_create
<1>4. CASE do_symlink(path)
  BY <1>1, <1>4, MakeAtStep DEF do_symlink
<1>5. CASE \E data \in Data : do_write(path, data)
  BY <1>5, WriteStep
<1>6. CASE do_unlink(path)
  BY <1>6, RemoveStep DEF do_unlink
<1>7. CASE do_rmdir(path)
  <2>1. CASE CanDropSnapshot(Smi, Last(path)) /\ Become(DeleteSnapshot(Smi, Last(path)))
    BY <2>1, DropSnapshotStep
  <2>2. CASE RemoveByPath(path)
    BY <2>2, RemoveStep
  <2> QED BY <1>7, <2>1, <2>2 DEF do_rmdir
<1> QED BY <1>2, <1>3, <1>4, <1>5, <1>6, <1>7

LEMMA InvariantStep ==
  ASSUME IInv, [Next]_vars
  PROVE  IInv' /\ SnapshotsUntouched
<1>1. ASSUME IsStep(Smi, Smi') PROVE IInv' /\ SnapshotsUntouched
  BY <1>1 DEF IsStep, IInv, SnapshotsUntouched, SameSnapshot, Versions, Held, Smi
<1>2. CASE Edits
  BY <1>1, <1>2, EditStep DEF Edits
<1>3. CASE Renames(PlainPath)
  BY <1>1, <1>3, RenameStep DEF Renames
<1>4. CASE UNCHANGED vars
  <2>1. Smi' = Smi
    BY <1>4 DEF vars, Smi
  <2>2. KeepsSnapshots(Smi, Smi)
    BY DEF KeepsSnapshots, SameSnapshot, IInv, SmiInv, IsSmi, IsCounted, Holders
  <2>3. IsStep(Smi, Smi')
    BY <2>1, <2>2, KeepingIsStep DEF IInv
  <2> QED BY <1>1, <2>3
<1> QED BY <1>2, <1>3, <1>4 DEF Next

(* The new file system: a root without dentries.                           *)
LEMMA InvariantInit ==
  ASSUME Init
  PROVE  IInv
<1>1. /\ Smi = [pool |-> Smi.pool, lists |-> Smi.lists]
      /\ DOMAIN Smi.pool = {Root} /\ Smi.pool[Root] = NewInode(TRUE)
      /\ DOMAIN Smi.lists = {Current} /\ Smi.lists[Current] = {Root}
  BY DEF Init, Formatted, Smi
<1>2. IsFiniteSet({Root}) /\ Cardinality({Root}) = 1 /\ IsFiniteSet({Current}) /\ Cardinality({Current}) = 1
  BY FS_Singleton
<1>3. Holders(Smi, Root) = {Current}
  BY <1>1 DEF Holders
<1>4. IsSmi(Smi)
  <2>1. IsInode(NewInode(TRUE))
    BY NewInodeIsInode
  <2>2. IsCounted(Smi, Root)
    BY <1>1, <1>2, <1>3 DEF IsCounted, NewInode
  <2>3. {Root} \subseteq Nat
    BY DEF Root
  <2> QED BY <1>1, <1>2, <2>1, <2>2, <2>3 DEF IsSmi
<1>5. \A id \in {Root, Nowhere}, n \in Word : Child(Smi, Current, id, n) = Nowhere
  <2>1. \A n \in Word : Child(Smi, Current, Nowhere, n) = Nowhere
    BY <1>4, NothingNowhere
  <2>2. \A n : n \notin DOMAIN Dentries(Smi, Root, Current)
    BY <1>1 DEF Dentries, NewInode, NoDentries
  <2> QED BY <2>1, <2>2 DEF Child, HasDentry
<1>6. IsVersionTree(Smi, Current)
  <2>1. IsForest(Smi, Current)
    BY <1>1, <1>5 DEF IsForest, Nowhere, Root
  <2>2. IsReached(Smi, Current)
    BY <1>1, EmptyPath, ResolveEmpty DEF IsReached
  <2> QED BY <2>1, <2>2 DEF IsVersionTree
<1>7. Bounded(Smi)
  <2>1. MaxInodes \in Nat \ {0}
    BY InodeSmiAssumption
  <2>2. {Root} \subseteq 0 .. 2 * MaxInodes
    BY <2>1 DEF Root
  <2> QED BY <1>1, <1>2, <2>1, <2>2 DEF Bounded
<1> QED BY <1>1, <1>4, <1>6, <1>7 DEF IInv, SmiInv

(* The handlers keep the invariant of the namespace: every version a tree, *)
(* every inode counted, the pool within its bound.                         *)
THEOREM SpecKeepsInvariant == Spec => []IInv
<1>1. Init => IInv
  BY InvariantInit
<1>2. IInv /\ [Next]_vars => IInv'
  BY InvariantStep
<1> QED BY <1>1, <1>2, PTL DEF Spec

(* A handler that changes the current tree leaves the snapshots as they    *)
(* are: what create_new_volume made read-only stays so, whatever unlink,   *)
(* do_rename or a write does to the same inodes in version current.        *)
THEOREM SnapshotsNeverChange == Spec => SnapshotsAreReadOnly
<1>1. Spec => []IInv
  BY SpecKeepsInvariant
<1>2. IInv /\ [Next]_vars => [SnapshotsUntouched]_vars
  BY InvariantStep
<1>3. Spec => [][Next]_vars
  BY DEF Spec
<1> QED BY <1>1, <1>2, <1>3, PTL DEF SnapshotsAreReadOnly

(* What the lists hold is counted, and stored, where they say.             *)
LEMMA InvariantIsCounted ==
  ASSUME IInv
  PROVE  ListsMatchPool /\ VolumesMatchLists
<1>1. /\ IsSmi(Smi) /\ Smi.pool = inode_pool /\ Smi.lists = snapshot_version_list
      /\ Versions = DOMAIN Smi.lists /\ \A v : Held(v) = Smi.lists[v]
  BY DEF IInv, SmiInv, Smi, Versions, Held
<1>2. \A id \in DOMAIN Smi.pool : IsCounted(Smi, id)
  BY <1>1 DEF IsSmi
<1>3. \A id : {v \in Versions : id \in Held(v)} = Holders(Smi, id)
  BY <1>1 DEF Holders
<1>4. DOMAIN inode_pool = UNION {Held(v) : v \in Versions}
  <2>1. ASSUME NEW id \in DOMAIN inode_pool PROVE \E v \in Versions : id \in Held(v)
    <3>1. Holders(Smi, id) # {}
      BY <1>1, <1>2 DEF IsCounted
    <3> QED BY <1>1, <3>1 DEF Holders
  <2>2. \A v \in Versions : Held(v) \subseteq DOMAIN inode_pool
    BY <1>1 DEF IsSmi
  <2> QED BY <2>1, <2>2
<1>5. ListsMatchPool
  BY <1>1, <1>2, <1>3, <1>4 DEF ListsMatchPool, IsCounted
<1>6. VolumesMatchLists
  BY <1>1, <1>2, <1>3 DEF VolumesMatchLists, IsCounted
<1> QED BY <1>5, <1>6

(* unlink_inode erases an inode exactly when no version needs it: an inode *)
(* of the pool is held, and has one link for every version that holds it.  *)
THEOREM InodesAreCounted == Spec => []ListsMatchPool
BY InvariantIsCounted, SpecKeepsInvariant, PTL

(* create_snapshot_volume and delete_snapshot_volume reach every inode of  *)
(* the version and no other: an inode stores the snapshots that hold it.   *)
THEOREM VolumesFollowLists == Spec => []VolumesMatchLists
BY InvariantIsCounted, SpecKeepsInvariant, PTL

(* ------------------------------ the trees ------------------------------ *)

(* The paths that lead somewhere are among those the model looks at: none  *)
(* is longer than the pool has inodes.                                     *)
LEMMA ResolvedInTree ==
  ASSUME NEW smi, SmiInv(smi), Bounded(smi), NEW v \in DOMAIN smi.lists,
         NEW p \in Path, Resolve(smi, v, p) # Nowhere
  PROVE  p \in InTree
<1>1. /\ IsSmi(smi) /\ IsForest(smi, v) /\ smi.lists[v] \subseteq DOMAIN smi.pool
      /\ IsFiniteSet(DOMAIN smi.pool) /\ Cardinality(DOMAIN smi.pool) <= MaxInodes
  BY DEF SmiInv, IsSmi, IsVersionTree, Bounded
<1>2. /\ Along(smi, v, p) \subseteq smi.lists[v] /\ Cardinality(Along(smi, v, p)) = Len(p) + 1
  BY <1>1, AlongPath
<1>3. /\ Cardinality(Along(smi, v, p)) <= Cardinality(DOMAIN smi.pool)
      /\ Cardinality(DOMAIN smi.pool) \in Nat
  BY <1>1, <1>2, FS_Subset, FS_CardinalityType
<1>4. Len(p) \in Nat /\ MaxInodes \in Nat
  BY InodeSmiAssumption DEF Path
<1>5. Len(p) <= MaxInodes - 1
  BY <1>1, <1>2, <1>3, <1>4
<1>6. p \in Seq(Name)
  BY <1>1, ResolvedNames
<1> QED BY <1>5, <1>6, NamesAreInTree

LEMMA InvariantIsTree ==
  ASSUME IInv, NEW v \in Versions
  PROVE  IsTree(v)
<1>1. /\ SmiInv(Smi) /\ Bounded(Smi) /\ v \in DOMAIN Smi.lists
      /\ IsSmi(Smi) /\ IsForest(Smi, v) /\ IsReached(Smi, v) /\ Held(v) = Smi.lists[v]
      /\ Smi.lists[v] \subseteq DOMAIN inode_pool
  BY DEF IInv, SmiInv, IsSmi, IsVersionTree, Versions, Held, Smi
<1>2. Reached(v) = Held(v)
  <2>1. ASSUME NEW p \in InTree, Resolve(Smi, v, p) # Nowhere PROVE Resolve(Smi, v, p) \in Held(v)
    BY <1>1, <2>1, InTreeIsNames, ResolveInVersion
  <2>2. ASSUME NEW id \in Held(v)
        PROVE  id # Nowhere /\ \E p \in InTree : Resolve(Smi, v, p) = id
    <3>1. id # Nowhere
      BY <1>1 DEF IsForest
    <3>2. PICK p \in Path : Resolve(Smi, v, p) = id
      BY <1>1 DEF IsReached
    <3> QED BY <1>1, <3>1, <3>2, ResolvedInTree
  <2> QED BY <2>1, <2>2 DEF Reached
<1>3. \A place : place \in Places(v, Root) => FALSE
  <2> SUFFICES ASSUME NEW dir \in Held(v), NEW n \in Name,
                      HasDentry(Smi, dir, v, n), Dentries(Smi, dir, v)[n] = Root
               PROVE  FALSE
    BY DEF Places
  <2>1. Child(Smi, v, dir, n) = Root /\ Child(Smi, v, dir, n) # Nowhere
    BY <1>1, ChildIsDentry
  <2> QED BY <1>1, <2>1 DEF IsForest, Word
<1>4. ASSUME NEW id \in Held(v), id # Root
      PROVE  \E place : Places(v, id) = {place}
  <2>1. PICK p \in Path : Resolve(Smi, v, p) = id
    BY <1>1 DEF IsReached
  <2>2. p # <<>> /\ id # Nowhere
    BY <1>1, <1>4, <2>1, ResolveEmpty DEF IsForest
  <2> DEFINE dir == Resolve(Smi, v, Front(p))
             n == Last(p)
  <2>3. dir \in Held(v) /\ n \in Word /\ Child(Smi, v, dir, n) = id
    BY <1>1, <2>1, <2>2, ResolvePlace, PathFront
  <2> HIDE DEF dir, n
  <2>4. /\ HasDentry(Smi, dir, v, n) /\ n \in Name /\ Dentries(Smi, dir, v)[n] = id
        /\ dir \in DOMAIN inode_pool
    BY <1>1, <2>2, <2>3, ChildIsDentry DEF Smi
  <2>5. <<dir, n>> \in Places(v, id)
    BY <2>3, <2>4 DEF Places
  <2>6. ASSUME NEW x \in Held(v), NEW m \in Name, HasDentry(Smi, x, v, m), Dentries(Smi, x, v)[m] = id
        PROVE  x = dir /\ m = n
    <3>1. Child(Smi, v, x, m) = id /\ m \in Word
      BY <1>1, <2>6, ChildIsDentry DEF Word
    <3>2. \A id1, id2 \in Held(v), m1, m2 \in Word :
            Child(Smi, v, id1, m1) = Child(Smi, v, id2, m2) /\ Child(Smi, v, id1, m1) # Nowhere
              => id1 = id2 /\ m1 = m2
      BY <1>1 DEF IsForest
    <3> QED BY <2>2, <2>3, <3>1, <3>2
  <2>7. Places(v, id) = {<<dir, n>>}
    BY <2>5, <2>6 DEF Places
  <2> QED BY <2>7
<1>5. ASSUME NEW id \in Held(v) PROVE Cardinality(Places(v, id)) = IF id = Root THEN 0 ELSE 1
  <2>1. CASE id = Root
    <3>1. Places(v, Root) = {}
      BY <1>3
    <3> QED BY <2>1, <3>1, FS_EmptySet
  <2>2. CASE id # Root
    BY <1>4, <2>2, FS_Singleton
  <2> QED BY <2>1, <2>2
<1> QED BY <1>2, <1>5 DEF IsTree

(* The dentries of every version, the current one and each snapshot, form  *)
(* a tree of exactly the inodes the version holds, whatever was created,   *)
(* renamed, removed or frozen before.                                      *)
THEOREM VersionsAreTrees == Spec => []TreeShape
<1>1. IInv => TreeShape
  BY InvariantIsTree DEF TreeShape
<1> QED BY <1>1, SpecKeepsInvariant, PTL

(* ------------------------------- types --------------------------------- *)

(* The lists are those of version current and of named snapshots.          *)
VersionsAreNamed == Versions \subseteq Version \cup {Current}

(* What mkdir in /.snapshot may call a snapshot.                           *)
SnapshotNames == {Last(path) : path \in {p \in AnyPath : p # <<>> /\ Front(p) = <<SNAPSHOT_ENTRY>>}}

LEMMA VersionsAreMade ==
  ASSUME IInv, [Next]_vars
  PROVE  Versions' \subseteq Versions \cup SnapshotNames
<1>1. Versions = DOMAIN Smi.lists /\ Versions' = DOMAIN Smi'.lists
  BY DEF Versions, Smi
<1>2. ASSUME KeepsSnapshots(Smi, Smi') PROVE Versions' \subseteq Versions \cup SnapshotNames
  BY <1>1, <1>2 DEF KeepsSnapshots
<1>3. ASSUME NEW path \in AnyPath, RemoveByPath(path) PROVE KeepsSnapshots(Smi, Smi')
  BY <1>3, RemoveStep DEF RemovesChild
<1>4. NoData \in Data /\ LinkText \in Data
  BY InodeSmiAssumption, FuseOpsAssumption
<1>5. ASSUME NEW path \in AnyPath,
             \/ do_mkdir(path) \/ do_create(path) \/ do_symlink(path)
             \/ \E data \in Data : do_write(path, data)
             \/ do_unlink(path) \/ do_rmdir(path)
      PROVE  Versions' \subseteq Versions \cup SnapshotNames
  <2>1. CASE do_mkdir(path)
    <3>1. CASE MakeAt(path, TRUE, NoData)
      BY <1>2, <1>4, <3>1, MakeAtStep
    <3>2. CASE /\ path # <<>> /\ Front(path) = <<SNAPSHOT_ENTRY>>
               /\ CanSnapshot(Smi, Last(path)) /\ Become(CreateSnapshot(Smi, Last(path)))
      <4>1. Last(path) \in SnapshotNames
        BY <3>2 DEF SnapshotNames
      <4>2. DOMAIN Smi'.lists = DOMAIN Smi.lists \cup {Last(path)}
        BY <3>2, SnapshotStep DEF TakesSnapshot
      <4> QED BY <1>1, <4>1, <4>2
    <3> QED BY <2>1, <3>1, <3>2 DEF do_mkdir
  <2>2. CASE do_create(path)
    BY <1>2, <1>4, <2>2, MakeAtStep DEF do_create
  <2>3. CASE do_symlink(path)
    BY <1>2, <1>4, <2>3, MakeAtStep DEF do_symlink
  <2>4. ASSUME NEW data \in Data, do_write(path, data) PROVE Versions' \subseteq Versions \cup SnapshotNames
    BY <1>2, <2>4, WriteStep DEF WritesFile
  <2>5. CASE do_unlink(path)
    BY <1>2, <1>3, <2>5 DEF do_unlink
  <2>6. CASE do_rmdir(path)
    <3>1. CASE RemoveByPath(path)
      BY <1>2, <1>3, <3>1
    <3>2. CASE CanDropSnapshot(Smi, Last(path)) /\ Become(DeleteSnapshot(Smi, Last(path)))
      <4>1. DOMAIN Smi'.lists = DOMAIN Smi.lists \ {Last(path)}
        BY <3>2, DropSnapshotStep DEF DropsSnapshot
      <4> QED BY <1>1, <4>1
    <3> QED BY <2>6, <3>1, <3>2 DEF do_rmdir
  <2> QED BY <1>5, <2>1, <2>2, <2>3, <2>4, <2>5, <2>6
<1>6. ASSUME NEW path \in PlainPath, NEW name \in PlainPath, do_rename(path, name)
      PROVE  Versions' \subseteq Versions \cup SnapshotNames
  <2>1. KeepsSnapshots(Smi, Cleared(name)) /\ KeepsSnapshots(Cleared(name), Smi')
    BY <1>6, RenameStep DEF MovesDentry
  <2> QED BY <1>2, <2>1, KeepsSnapshotsTwice
<1>7. CASE UNCHANGED vars
  BY <1>7 DEF vars, Versions
<1> QED BY <1>5, <1>6, <1>7 DEF Next, Edits, Renames

(* Whatever the names of the tree, a version is called by a word of a      *)
(* path.                                                                   *)
LEMMA VersionsStayWords ==
  ASSUME IInv, Versions \subseteq Word, [Next]_vars
  PROVE  Versions' \subseteq Word
<1>1. ASSUME NEW path \in AnyPath, path # <<>> PROVE Last(path) \in Word
  BY <1>1, AnyPathIsPath, PathFront
<1>2. SnapshotNames \subseteq Word
  BY <1>1 DEF SnapshotNames
<1> QED BY <1>2, VersionsAreMade

LEMMA VersionsStayNamed ==
  ASSUME IInv, VersionsAreNamed, [Next]_vars
  PROVE  VersionsAreNamed'
<1>1. SnapshotNames \subseteq Version \cup {Current}
  BY SnapshotName DEF SnapshotNames
<1> QED BY <1>1, VersionsAreMade DEF VersionsAreNamed

LEMMA InvariantIsTyped ==
  ASSUME IInv, VersionsAreNamed
  PROVE  TypeOK
<1>1. /\ IsSmi(Smi) /\ Smi.pool = inode_pool /\ Smi.lists = snapshot_version_list
      /\ Bounded(Smi) /\ Versions = DOMAIN Smi.lists
      /\ \A v \in DOMAIN Smi.lists : IsForest(Smi, v)
  BY DEF IInv, SmiInv, IsVersionTree, Smi, Versions
<1>2. DOMAIN inode_pool \subseteq 0 .. 2 * MaxInodes /\ Current \in Versions
  BY <1>1 DEF Bounded, IsSmi
<1>3. \A v \in Versions : Root \in Held(v)
  BY <1>1 DEF IsForest, Held
<1>4. ASSUME NEW id \in DOMAIN inode_pool
      PROVE  /\ inode_pool[id].link_count \in Nat \ {0} /\ inode_pool[id].is_dentry \in BOOLEAN
             /\ Current \in DOMAIN inode_pool[id].buffer_map
             /\ \A v \in DOMAIN inode_pool[id].buffer_map :
                  IsContent(inode_pool[id].is_dentry, inode_pool[id].buffer_map[v])
  <2>1. IsCounted(Smi, id) /\ IsInode(inode_pool[id])
    BY <1>1 DEF IsSmi
  <2>2. IsFiniteSet(Holders(Smi, id)) /\ Holders(Smi, id) # {}
    BY <1>1, <2>1, FS_Subset DEF IsSmi, IsCounted, Holders
  <2>3. Cardinality(Holders(Smi, id)) \in Nat \ {0}
    BY <2>2, FS_CardinalityType, FS_EmptySet
  <2> QED BY <1>1, <2>1, <2>3 DEF IsCounted, IsInode
<1> QED BY <1>2, <1>3, <1>4 DEF TypeOK, IsContent, VersionsAreNamed

(* What the pool and the lists hold is what the code's types say, an inode *)
(* is never without a link, and no version loses its root: the snapshots a *)
(* handler makes are named by the last name of its path.                   *)
THEOREM TypesAreKept == Spec => []TypeOK
<1>1. Init => VersionsAreNamed
  BY DEF Init, Formatted, VersionsAreNamed, Versions
<1>2. IInv /\ VersionsAreNamed /\ [Next]_vars => VersionsAreNamed'
  BY VersionsStayNamed
<1>3. IInv /\ VersionsAreNamed => TypeOK
  BY InvariantIsTyped
<1> QED BY <1>1, <1>2, <1>3, SpecKeepsInvariant, PTL DEF Spec

(* -------------------------- paths below a path ------------------------- *)

(* What follows p in a path r below it.                                    *)
Rest(p, r) == SubSeq(r, Len(p) + 1, Len(r))

LEMMA PathIsPrefixAndRest ==
  ASSUME NEW p \in Path, NEW r \in Path, IsPrefix(p, r)
  PROVE  Rest(p, r) \in Path /\ r = p \o Rest(p, r)
<1>1. /\ Len(p) \in Nat /\ Len(r) \in Nat /\ Len(p) <= Len(r)
      /\ SubSeq(p, 1, Len(p)) = SubSeq(r, 1, Len(p)) /\ p \in Seq(Word) /\ r \in Seq(Word)
  BY DEF Path, IsPrefix
<1>2. \A i \in 1 .. Len(p) : r[i] = p[i]
  <2> TAKE i \in 1 .. Len(p)
  <2>1. SubSeq(p, 1, Len(p))[i] = p[i] /\ SubSeq(r, 1, Len(p))[i] = r[i]
    BY <1>1
  <2> QED BY <1>1, <2>1
<1> DEFINE x == Rest(p, r)
<1>3. /\ x \in Seq(Word) /\ Len(x) = Len(r) - Len(p)
      /\ \A i \in 1 .. Len(x) : x[i] = r[i + Len(p)]
  BY <1>1 DEF Rest
<1> HIDE DEF x
<1>4. /\ p \o x \in Seq(Word) /\ Len(p \o x) = Len(r)
      /\ \A i \in 1 .. Len(r) : (p \o x)[i] = IF i <= Len(p) THEN p[i] ELSE x[i - Len(p)]
  BY <1>1, <1>3, ConcatProperties
<1>5. \A i \in 1 .. Len(r) : (p \o x)[i] = r[i]
  BY <1>1, <1>2, <1>3, <1>4
<1>6. r = p \o x
  BY <1>1, <1>4, <1>5, SeqEqual
<1> QED BY <1>3, <1>6 DEF x, Path

LEMMA PathConcat ==
  ASSUME NEW p \in Path, NEW x \in Path
  PROVE  p \o x \in Path /\ IsPrefix(p, p \o x) /\ Rest(p, p \o x) = x
<1> DEFINE r == p \o x
<1>1. /\ Len(p) \in Nat /\ Len(x) \in Nat /\ p \in Seq(Word) /\ x \in Seq(Word)
      /\ r \in Seq(Word) /\ Len(r) = Len(p) + Len(x)
      /\ \A i \in 1 .. Len(p) + Len(x) : r[i] = IF i <= Len(p) THEN p[i] ELSE x[i - Len(p)]
  BY ConcatProperties DEF Path
<1> HIDE DEF r
<1>2. SubSeq(p, 1, Len(p)) = SubSeq(r, 1, Len(p))
  <2>1. /\ SubSeq(p, 1, Len(p)) \in Seq(Word) /\ Len(SubSeq(p, 1, Len(p))) = Len(p)
        /\ SubSeq(r, 1, Len(p)) \in Seq(Word) /\ Len(SubSeq(r, 1, Len(p))) = Len(p)
    BY <1>1
  <2>2. \A i \in 1 .. Len(p) : SubSeq(p, 1, Len(p))[i] = SubSeq(r, 1, Len(p))[i]
    BY <1>1
  <2> QED BY <2>1, <2>2, SeqEqual
<1>3. Rest(p, r) = x
  <2> DEFINE a == Len(p) + 1
             b == Len(p) + Len(x)
  <2>1. /\ a \in Int /\ b \in Int /\ (a <= b <=> Len(x) # 0) /\ (b - a) + 1 = Len(x)
        /\ \A i \in a .. b : r[i] \in Word
    <3>1. /\ a \in Int /\ b \in Int /\ (a <= b <=> Len(x) # 0) /\ (b - a) + 1 = Len(x)
      BY <1>1
    <3>2. ASSUME NEW i \in a .. b PROVE r[i] \in Word
      <4>1. i \in 1 .. Len(r)
        BY <1>1
      <4> QED BY <1>1, <4>1
    <3> QED BY <3>1, <3>2
  <2>2. ASSUME NEW i \in 1 .. Len(x) PROVE r[a + i - 1] = x[i]
    <3>1. /\ a + i - 1 = Len(p) + i /\ Len(p) + i \in 1 .. Len(p) + Len(x)
          /\ ~(Len(p) + i <= Len(p)) /\ (Len(p) + i) - Len(p) = i
      BY <1>1
    <3>2. r[Len(p) + i] = x[(Len(p) + i) - Len(p)]
      BY <1>1, <3>1
    <3> QED BY <3>1, <3>2
  <2>3. Rest(p, r) = SubSeq(r, a, b)
    BY <1>1 DEF Rest
  <2> HIDE DEF a, b
  <2>4. /\ SubSeq(r, a, b) \in Seq(Word)
        /\ Len(SubSeq(r, a, b)) = IF a <= b THEN (b - a) + 1 ELSE 0
        /\ \A i \in 1 .. (b - a) + 1 : SubSeq(r, a, b)[i] = r[a + i - 1]
    BY <2>1, SubSeqProperties
  <2>5. /\ Len(Rest(p, r)) = Len(x) /\ Rest(p, r) \in Seq(Word)
        /\ \A i \in 1 .. Len(x) : Rest(p, r)[i] = x[i]
    BY <1>1, <2>1, <2>2, <2>3, <2>4
  <2> QED BY <1>1, <2>5, SeqEqual
<1> QED BY <1>1, <1>2, <1>3 DEF Path, IsPrefix, r

LEMMA RestOfItself ==
  ASSUME NEW p \in Path
  PROVE  Rest(p, p) = <<>> /\ p \o <<>> = p
<1>1. p \o <<>> = p
  BY ConcatEmptySeq DEF Path
<1> QED BY <1>1, EmptyPath, PathConcat

(* One more name after p, and after a path below p.                        *)
LEMMA ConcatOfAppend ==
  ASSUME NEW S, NEW p \in Seq(S), NEW x \in Seq(S), NEW n \in S
  PROVE  p \o Append(x, n) = Append(p \o x, n)
<1>1. <<n>> \in Seq(S) /\ p \o x \in Seq(S)
  BY ConcatProperties
<1>2. Append(x, n) = x \o <<n>> /\ Append(p \o x, n) = (p \o x) \o <<n>>
  BY <1>1, AppendIsConcat
<1>3. (p \o x) \o <<n>> = p \o (x \o <<n>>)
  BY <1>1, ConcatAssociative
<1> QED BY <1>2, <1>3

LEMMA RestOfAppend ==
  ASSUME NEW p \in Path, NEW r \in Path, IsPrefix(p, r), NEW n \in Word
  PROVE  Rest(p, Append(r, n)) = Append(Rest(p, r), n)
<1> DEFINE x == Rest(p, r)
<1>1. x \in Path /\ r = p \o x
  BY PathIsPrefixAndRest
<1> HIDE DEF x
<1>2. p \o Append(x, n) = Append(p \o x, n)
  BY <1>1, ConcatOfAppend DEF Path
<1>3. Append(x, n) \in Path
  BY <1>1, PathAppend
<1>4. Rest(p, p \o Append(x, n)) = Append(x, n)
  BY <1>3, PathConcat
<1>5. Rest(p, Append(r, n)) = Append(x, n)
  BY <1>1, <1>2, <1>4
<1> QED BY <1>5 DEF x

(* A moved directory takes along what is below it.                         *)
LEMMA MovedBelow ==
  ASSUME NEW smi, NEW t, NEW v, NEW dir1, NEW n1, NEW dir2, NEW n2, NEW id, NEW p, NEW q,
         IsForest(smi, v), MovesChild(smi, t, v, dir1, n1, dir2, n2, id),
         MovesPath(smi, v, p, q, dir2, n2, id),
         NEW r \in Path, IsPrefix(q, r)
  PROVE  Resolve(t, v, r) = Resolve(smi, v, p \o Rest(q, r))
<1> DEFINE P == {x \in Path : IsPrefix(q, x) => Resolve(t, v, x) = Resolve(smi, v, p \o Rest(q, x))}
<1>1. /\ q \in Path /\ q # <<>> /\ Resolve(smi, v, Front(q)) = dir2 /\ Last(q) = n2
      /\ ~IsPrefix(p, Front(q)) /\ p \in Path /\ Resolve(smi, v, p) = id
      /\ Front(q) \in Path
  BY PathFront DEF MovesPath
<1>2. Resolve(t, v, q) = id /\ id # Nowhere /\ dir2 # Nowhere
  BY MovedThere DEF MovesChild, IsForest
<1>3. P \in SUBSET Path
  OBVIOUS
<1>4. <<>> \in P
  BY <1>1, EmptyPath, PathPrefix
<1>5. ASSUME NEW x \in Path, x # <<>> /\ Front(x) \in P PROVE x \in P
  <2> SUFFICES ASSUME IsPrefix(q, x) PROVE Resolve(t, v, x) = Resolve(smi, v, p \o Rest(q, x))
    OBVIOUS
  <2>1. CASE x = q
    BY <1>1, <1>2, <2>1, RestOfItself
  <2>2. CASE x # q
    <3> DEFINE f == Front(x)
               m == Last(x)
               o == p \o Rest(q, f)
               y == Resolve(smi, v, o)
    <3>1. f \in Path /\ m \in Word /\ x = Append(f, m)
      BY <1>5, PathFront
    <3>2. IsPrefix(q, f)
      BY <1>1, <1>5, <2>2, PathPrefix
    <3>3. Resolve(t, v, f) = y /\ Resolve(t, v, x) = Child(t, v, Resolve(t, v, f), m)
      BY <1>5, <3>2, ResolvePath
    <3> HIDE DEF f, m
    <3>4. Rest(q, f) \in Path /\ o \in Path /\ IsPrefix(p, o)
      BY <1>1, <3>1, <3>2, PathIsPrefixAndRest, PathConcat
    <3>5. Rest(q, x) = Append(Rest(q, f), m)
      BY <1>1, <3>1, <3>2, RestOfAppend
    <3>6. p \o Rest(q, x) = Append(o, m)
      BY <1>1, <3>1, <3>4, <3>5, ConcatOfAppend DEF Path
    <3> HIDE DEF o
    <3>7. Resolve(smi, v, Append(o, m)) = Child(smi, v, y, m)
      <4>1. Append(o, m) \in Path /\ Append(o, m) # <<>> /\ Front(Append(o, m)) = o /\ Last(Append(o, m)) = m
        BY <3>1, <3>4, PathAppend
      <4> QED BY <4>1, ResolvePath
    <3>8. Resolve(t, v, x) = Child(t, v, y, m)
      BY <3>3
    <3>9. y \in smi.lists[v] \cup {Nowhere}
      BY <3>4, ResolveInVersion
    <3>10. ASSUME y = dir1, m = n1 PROVE FALSE
      <4>1. Resolve(smi, v, Append(o, m)) = Resolve(smi, v, p) /\ Append(o, m) \in Path
        BY <1>1, <3>1, <3>4, <3>7, <3>10, PathAppend DEF MovesChild
      <4>2. Append(o, m) = p
        BY <1>1, <1>2, <4>1, ResolveIsInjective
      <4>3. Len(p) \in Nat /\ Len(o) \in Nat /\ Len(p) <= Len(o) /\ Len(Append(o, m)) = Len(o) + 1
        BY <1>1, <3>1, <3>4 DEF Path, IsPrefix
      <4> QED BY <4>2, <4>3
    <3>11. ASSUME y = dir2, m = n2 PROVE FALSE
      <4>1. o = Front(q)
        BY <1>1, <1>2, <3>4, <3>11, ResolveIsInjective DEF y
      <4> QED BY <1>1, <3>4, <4>1
    <3> HIDE DEF y
    <3>12. Child(t, v, y, m) = Child(smi, v, y, m)
      <4>1. CASE y = Nowhere
        BY <3>1, <4>1 DEF MovesChild, IsForest
      <4>2. CASE y \in smi.lists[v]
        BY <3>1, <3>10, <3>11, <4>2 DEF MovesChild
      <4> QED BY <3>9, <4>1, <4>2
    <3> QED BY <3>6, <3>7, <3>8, <3>12
  <2> QED BY <2>1, <2>2
<1> HIDE DEF P
<1>6. P = Path
  BY <1>3, <1>4, <1>5, PathInduction
<1> QED BY <1>6 DEF P

(* What was below its old path is gone from there.                         *)
LEMMA MovedAway ==
  ASSUME NEW smi, NEW t, NEW v, NEW dir1, NEW n1, NEW dir2, NEW n2, NEW id, NEW p, NEW q,
         IsForest(smi, v), IsForest(t, v), MovesChild(smi, t, v, dir1, n1, dir2, n2, id),
         MovesPath(smi, v, p, q, dir2, n2, id),
         ~IsPrefix(q, p),
         NEW r \in Path, IsPrefix(p, r)
  PROVE  Resolve(t, v, r) = Nowhere
<1>1. /\ q \in Path /\ p \in Path /\ Resolve(smi, v, p) = id
      /\ dir1 \in smi.lists[v] /\ n1 \in Word /\ Child(smi, v, dir1, n1) = id
      /\ id # Root /\ id # Nowhere
  BY DEF MovesPath, MovesChild, IsForest
<1>2. p # <<>>
  BY <1>1, ResolveEmpty
<1>3. /\ Front(p) \in Path /\ Last(p) \in Word /\ Resolve(smi, v, Front(p)) \in smi.lists[v]
      /\ Resolve(smi, v, p) = Child(smi, v, Resolve(smi, v, Front(p)), Last(p))
  BY <1>1, <1>2, ResolvePlace, PathFront
<1>4. Resolve(smi, v, Front(p)) = dir1 /\ Last(p) = n1
  <2>1. \A id1, id2 \in smi.lists[v], m1, m2 \in Word :
          Child(smi, v, id1, m1) = Child(smi, v, id2, m2) /\ Child(smi, v, id1, m1) # Nowhere
            => id1 = id2 /\ m1 = m2
    BY DEF IsForest
  <2> QED BY <1>1, <1>3, <2>1
<1>5. ~IsPrefix(p, Front(p)) /\ ~IsPrefix(q, Front(p))
  <2>1. Len(Front(p)) = Len(p) - 1 /\ Len(p) \in Nat
    BY <1>1, <1>2, PathFront
  <2>2. ~IsPrefix(p, Front(p))
    BY <2>1 DEF IsPrefix
  <2>3. ~IsPrefix(q, Front(p))
    BY <1>1, <1>2, PathPrefix
  <2> QED BY <2>2, <2>3
<1>6. Resolve(t, v, Front(p)) = dir1
  BY <1>3, <1>4, <1>5, MovedOutside
<1>7. Resolve(t, v, p) = Child(t, v, dir1, n1)
  BY <1>1, <1>2, <1>4, <1>6, ResolvePath
<1>8. Child(t, v, dir1, n1) = Nowhere
  BY <1>1 DEF MovesChild
<1> QED BY <1>1, <1>7, <1>8, ResolvePrefix

(* -------------------------- a version as a tree ------------------------ *)

(* What a version of an inode looks like to a user, and the tree of a      *)
(* version.                                                                *)
NodeOf(smi, v, id) == IF IsDir(smi, id) THEN Dir ELSE smi.pool[id].buffer_map[v]
TreeOf(smi, v) == [p \in {q \in InTree : Resolve(smi, v, q) # Nowhere} |->
                     NodeOf(smi, v, Resolve(smi, v, p))]

(* The trees that stand for a state of the file system.                    *)
IsFileSystem(smi) == SmiInv(smi) /\ Bounded(smi)

LEMMA TreesOfVersions ==
  /\ Trees = [v \in DOMAIN Smi.lists |-> TreeOf(Smi, v)]
  /\ Trees' = [v \in DOMAIN Smi'.lists |-> TreeOf(Smi', v)]
BY DEF Trees, TreeOf, NodeAt, NodeOf, Versions, Smi

(* A tree is known by the paths that lead somewhere and what is there.     *)
IsTreeOf(h, smi, v) ==
  /\ h = [p \in DOMAIN h |-> h[p]]
  /\ \A p \in DOMAIN h : p \in Path
  /\ \A p \in Path : p \in DOMAIN h <=> Resolve(smi, v, p) # Nowhere
  /\ \A p \in DOMAIN h : h[p] = NodeOf(smi, v, Resolve(smi, v, p))

LEMMA PathsOfTree ==
  ASSUME NEW smi, IsFileSystem(smi), NEW v \in DOMAIN smi.lists
  PROVE  IsTreeOf(TreeOf(smi, v), smi, v) /\ DOMAIN TreeOf(smi, v) \subseteq InTree
<1>1. \A p \in InTree : p \in Path
  BY InTreeIsNames
<1>2. \A p \in Path : Resolve(smi, v, p) # Nowhere => p \in InTree
  BY ResolvedInTree DEF IsFileSystem
<1> QED BY <1>1, <1>2 DEF TreeOf, IsTreeOf

LEMMA SameTree ==
  ASSUME NEW smi, IsFileSystem(smi), NEW v \in DOMAIN smi.lists, NEW h, IsTreeOf(h, smi, v)
  PROVE  TreeOf(smi, v) = h
<1> DEFINE f == TreeOf(smi, v)
<1>1. IsTreeOf(f, smi, v)
  BY PathsOfTree
<1> HIDE DEF f
<1>2. DOMAIN f = DOMAIN h
  BY <1>1 DEF IsTreeOf
<1>3. \A p \in DOMAIN h : f[p] = h[p]
  BY <1>1, <1>2 DEF IsTreeOf
<1>4. f = [p \in DOMAIN h |-> f[p]] /\ h = [p \in DOMAIN h |-> h[p]]
  BY <1>1, <1>2 DEF IsTreeOf
<1> QED BY <1>3, <1>4 DEF f

LEMMA SameNode ==
  ASSUME NEW smi, NEW t, NEW id \in DOMAIN smi.pool, id \in DOMAIN t.pool, NEW v, NEW w,
         t.pool[id].is_dentry = smi.pool[id].is_dentry,
         smi.pool[id].is_dentry \/ t.pool[id].buffer_map[w] = smi.pool[id].buffer_map[v]
  PROVE  NodeOf(t, w, id) = NodeOf(smi, v, id)
BY DEF NodeOf, IsDir

(* The same inodes at the same places with the same content.               *)
SameContent(smi, v, t, w) ==
  \A id \in smi.lists[v] : /\ id \in DOMAIN t.pool
                           /\ t.pool[id].is_dentry = smi.pool[id].is_dentry
                           /\ t.pool[id].buffer_map[w] = smi.pool[id].buffer_map[v]

LEMMA CopiedTree ==
  ASSUME NEW smi, NEW t, SmiInv(smi), NEW v \in DOMAIN smi.lists, NEW w,
         SameVersion(smi, v, t, w), SameContent(smi, v, t, w)
  PROVE  TreeOf(t, w) = TreeOf(smi, v)
<1>1. /\ IsVersionTree(smi, v) /\ IsForest(smi, v) /\ smi.lists[v] \subseteq DOMAIN smi.pool
  BY DEF SmiInv, IsSmi, IsVersionTree
<1>2. ASSUME NEW p \in InTree
      PROVE  /\ Resolve(t, w, p) = Resolve(smi, v, p)
             /\ Resolve(smi, v, p) # Nowhere =>
                  NodeOf(t, w, Resolve(smi, v, p)) = NodeOf(smi, v, Resolve(smi, v, p))
  <2>1. p \in Path
    BY InTreeIsNames
  <2>2. Resolve(t, w, p) = Resolve(smi, v, p)
    BY <1>1, <2>1, SameVersionIsTree
  <2>3. Resolve(smi, v, p) # Nowhere => Resolve(smi, v, p) \in smi.lists[v]
    BY <1>1, <2>1, ResolveInVersion
  <2>4. \A id \in smi.lists[v] : NodeOf(t, w, id) = NodeOf(smi, v, id)
    BY <1>1, SameNode DEF SameContent
  <2> QED BY <2>2, <2>3, <2>4
<1> QED BY <1>2 DEF TreeOf

LEMMA KeptTreeOf ==
  ASSUME NEW smi, NEW t, SmiInv(smi), SmiInv(t), NEW v \in DOMAIN smi.lists, SameSnapshot(smi, t, v)
  PROVE  TreeOf(t, v) = TreeOf(smi, v)
<1>1. SameVersion(smi, v, t, v)
  BY KeptSnapshot DEF SmiInv
<1>2. SameContent(smi, v, t, v)
  BY DEF SameContent, SameSnapshot
<1> QED BY <1>1, <1>2, CopiedTree

(* A handler that keeps the snapshots changes the tree of version current. *)
LEMMA CurrentTreeChanges ==
  ASSUME SmiInv(Smi), SmiInv(Smi'), KeepsSnapshots(Smi, Smi')
  PROVE  /\ Trees' = [Trees EXCEPT ![Current] = TreeOf(Smi', Current)]
         /\ Trees[Current] = TreeOf(Smi, Current)
<1>1. DOMAIN Smi'.lists = DOMAIN Smi.lists /\ Current \in DOMAIN Smi.lists
  BY DEF KeepsSnapshots, SmiInv, IsSmi
<1>2. \A v \in DOMAIN Smi.lists \ {Current} : TreeOf(Smi', v) = TreeOf(Smi, v)
  BY KeptTreeOf DEF KeepsSnapshots
<1>3. /\ Trees = [v \in DOMAIN Smi.lists |-> TreeOf(Smi, v)]
      /\ Trees' = [v \in DOMAIN Smi.lists |-> TreeOf(Smi', v)]
  BY <1>1, TreesOfVersions
<1> QED BY <1>1, <1>2, <1>3

(* -------------------- a new directory, a new file ---------------------- *)

(* The names a path has below a version, without its last one.             *)
LEMMA NamesOfFront ==
  ASSUME NEW path \in Path, path # <<>>, Parsable(path), Parsable(Front(path))
  PROVE  /\ NamesOf(path) # <<>>
         /\ Front(NamesOf(path)) = NamesOf(Front(path)) /\ Last(NamesOf(path)) = Last(path)
<1> DEFINE m == Len(path)
           f == Front(path)
<1>1. /\ m \in Nat /\ m > 0 /\ Len(path) = m /\ path \in Seq(Word)
      /\ f \in Path /\ Len(f) = m - 1
      /\ \A i \in 1 .. m - 1 : f[i] = path[i]
  BY FrontAndLast DEF Path, Front
<1>2. CASE ~Below(path)
  <2>1. ~Below(f)
    BY <1>1, <1>2 DEF Below
  <2> QED BY <1>2, <2>1 DEF NamesOf
<1>3. CASE Below(path)
  <2>1. m >= 2 /\ path[1] = SNAPSHOT_ENTRY
    BY <1>3, BelowPath
  <2>2. m # 2
    <3> SUFFICES ASSUME m = 2 PROVE FALSE
      OBVIOUS
    <3>1. f = <<SNAPSHOT_ENTRY>>
      BY <1>1, <2>1 DEF Path
    <3> QED BY <3>1 DEF Parsable
  <2>3. Below(f)
    BY <1>1, <2>1, <2>2 DEF Below
  <2> HIDE DEF m, f
  <2> DEFINE n == SubSeq(path, 3, m)
             g == SubSeq(f, 3, m - 1)
  <2>4. /\ n \in Path /\ Len(n) = m - 2 /\ n # <<>>
        /\ \A i \in 1 .. m - 2 : n[i] = path[i + 2]
    BY <1>1, <2>1, <2>2 DEF Path
  <2>5. /\ g \in Path /\ Len(g) = m - 3
        /\ \A i \in 1 .. m - 3 : g[i] = f[i + 2]
    BY <1>1, <2>1, <2>2 DEF Path
  <2>6. NamesOf(path) = n /\ NamesOf(f) = g
    BY <1>1, <1>3, <2>3 DEF NamesOf, m
  <2> HIDE DEF n, g
  <2>7. /\ Front(n) \in Path /\ Len(Front(n)) = m - 3
        /\ \A i \in 1 .. m - 3 : Front(n)[i] = n[i]
    BY <1>1, <2>4, FrontAndLast DEF Path, Front
  <2>8. Front(n) = g
    <3>1. \A i \in 1 .. m - 3 : Front(n)[i] = g[i]
      BY <1>1, <2>4, <2>5, <2>7
    <3> QED BY <2>5, <2>7, <3>1, SeqEqual DEF Path
  <2>9. Last(n) = Last(path)
    BY <1>1, <2>1, <2>2, <2>4 DEF Last, m
  <2> QED BY <2>4, <2>6, <2>8, <2>9 DEF f
<1> QED BY <1>2, <1>3

(* What Make of VersionedTree asks for, and what it does.                  *)
MakesNode(s, t, q, node) ==
  /\ q \in Path /\ q # <<>> /\ Resolve(s, Current, q) = Nowhere
  /\ Resolve(s, Current, Front(q)) # Nowhere /\ NodeOf(s, Current, Resolve(s, Current, Front(q))) = Dir
  /\ \A p \in Path : Resolve(t, Current, p) # Nowhere <=> p = q \/ Resolve(s, Current, p) # Nowhere
  /\ NodeOf(t, Current, Resolve(t, Current, q)) = node
  /\ \A p \in Path : Resolve(s, Current, p) # Nowhere =>
       NodeOf(t, Current, Resolve(t, Current, p)) = NodeOf(s, Current, Resolve(s, Current, p))

LEMMA MakesIsMake ==
  ASSUME NEW s, NEW t, SmiInv(s), NEW path, NEW is_dir \in BOOLEAN, NEW data \in Data,
         Makes(s, t, path, is_dir, data)
  PROVE  MakesNode(s, t, NamesOf(path), IF is_dir THEN Dir ELSE data)
<1> DEFINE parent == IdAt(s, Front(path))
           n == Last(path)
           id == FreeId(s.pool)
           made == MakeChild(s, parent, n, is_dir)
           q == NamesOf(path)
           node == IF is_dir THEN Dir ELSE data
<1>1. /\ path \in Path /\ path # <<>> /\ Writable(path) /\ Writable(Front(path))
      /\ parent \in s.lists[Current] /\ IsDir(s, parent)
      /\ MakesChild(s, made, parent, n, is_dir, id)
      /\ IF is_dir THEN t = made ELSE WritesFile(made, t, id, data)
  BY DEF Makes
<1>2. /\ q \in Path /\ q # <<>> /\ Last(q) = n
      /\ Front(q) \in Path /\ Resolve(s, Current, Front(q)) = parent
  <2>1. Front(path) \in Path /\ Parsable(path) /\ Parsable(Front(path))
    BY <1>1, PathFront DEF Writable
  <2>2. q # <<>> /\ Last(q) = n /\ Front(q) = NamesOf(Front(path)) /\ q \in Path
    BY <1>1, <2>1, NamesOfFront, NamesOfIsPath
  <2>3. NamesOf(Front(path)) \in Path /\ parent = Resolve(s, Current, NamesOf(Front(path)))
    BY <1>1, <2>1, IdAtCurrent
  <2> QED BY <2>2, <2>3
<1> HIDE DEF parent, n, id, made, q
<1>3. /\ SmiInv(made) /\ id \notin DOMAIN s.pool /\ DOMAIN made.pool = DOMAIN s.pool \cup {id}
      /\ AddsChild(s, made, Current, parent, n, id) /\ made.pool[id] = NewInode(is_dir)
      /\ \A x \in DOMAIN s.pool : made.pool[x].is_dentry = s.pool[x].is_dentry
      /\ \A x \in DOMAIN s.pool \ {parent} : made.pool[x] = s.pool[x]
  BY <1>1 DEF MakesChild
<1>4. /\ IsForest(s, Current) /\ s.lists[Current] \subseteq DOMAIN s.pool
      /\ IsVersionTree(made, Current) /\ Current \in DOMAIN made.lists
      /\ id # Nowhere /\ parent # Nowhere
  BY <1>3 DEF SmiInv, IsSmi, IsVersionTree, IsForest, AddsChild
<1>5. \A p \in Path : Resolve(made, Current, p) = IF p = q THEN id ELSE Resolve(s, Current, p)
  BY <1>2, <1>3, <1>4, AddedChildResolves
<1>6. Resolve(s, Current, q) = Nowhere
  <2>1. Resolve(s, Current, q) = Child(s, Current, parent, n)
    BY <1>2, ResolvePath
  <2> QED BY <1>3, <2>1 DEF AddsChild
<1>7. /\ \A p \in Path : Resolve(t, Current, p) = Resolve(made, Current, p)
      /\ NodeOf(t, Current, id) = node
      /\ \A x \in DOMAIN s.pool : NodeOf(t, Current, x) = NodeOf(made, Current, x)
  <2>1. CASE is_dir
    <3>1. t = made /\ IsDir(made, id)
      BY <1>1, <1>3, <2>1 DEF IsDir, NewInode
    <3> QED BY <2>1, <3>1 DEF NodeOf
  <2>2. CASE ~is_dir
    <3>1. SameVersion(made, Current, t, Current) /\ SavesAt(made, t, id) /\ Stores(t, id, data)
      BY <1>1, <2>2 DEF WritesFile
    <3>2. \A p \in Path : Resolve(t, Current, p) = Resolve(made, Current, p)
      BY <1>4, <3>1, SameVersionIsTree
    <3>3. NodeOf(t, Current, id) = data
      BY <1>3, <2>2, <3>1 DEF NodeOf, IsDir, NewInode, SavesAt, Stores
    <3>4. \A x \in DOMAIN s.pool : NodeOf(t, Current, x) = NodeOf(made, Current, x)
      BY <1>3, <3>1 DEF NodeOf, IsDir, SavesAt
    <3> QED BY <2>2, <3>2, <3>3, <3>4
  <2> QED BY <2>1, <2>2
<1>8. \A x \in s.lists[Current] : NodeOf(made, Current, x) = NodeOf(s, Current, x)
  <2> TAKE x \in s.lists[Current]
  <2>1. x \in DOMAIN s.pool /\ x \in DOMAIN made.pool /\ made.pool[x].is_dentry = s.pool[x].is_dentry
    BY <1>3, <1>4
  <2>2. s.pool[x].is_dentry \/ made.pool[x] = s.pool[x]
    BY <1>1, <1>3, <2>1 DEF IsDir
  <2> QED BY <2>1, <2>2, SameNode
<1>9. ASSUME NEW p \in Path, Resolve(s, Current, p) # Nowhere
      PROVE  NodeOf(t, Current, Resolve(t, Current, p)) = NodeOf(s, Current, Resolve(s, Current, p))
  <2>1. Resolve(s, Current, p) \in s.lists[Current] /\ p # q
    BY <1>4, <1>6, <1>9, ResolveInVersion
  <2>2. Resolve(t, Current, p) = Resolve(s, Current, p)
    BY <1>5, <1>7, <2>1
  <2> QED BY <1>4, <1>7, <1>8, <2>1, <2>2
<1>10. \A p \in Path : Resolve(t, Current, p) # Nowhere <=> p = q \/ Resolve(s, Current, p) # Nowhere
  BY <1>4, <1>5, <1>7
<1>11. NodeOf(t, Current, Resolve(t, Current, q)) = node
  BY <1>2, <1>5, <1>7
<1>12. NodeOf(s, Current, Resolve(s, Current, Front(q))) = Dir
  BY <1>1, <1>2 DEF NodeOf
<1> QED BY <1>2, <1>4, <1>6, <1>9, <1>10, <1>11, <1>12 DEF MakesNode, q

(* A step of the tree of version current.                                  *)
LEMMA CurrentStep ==
  ASSUME IInv, IsStep(Smi, Smi'), KeepsSnapshots(Smi, Smi')
  PROVE  /\ Trees[Current] = TreeOf(Smi, Current)
         /\ Trees' = [Trees EXCEPT ![Current] = TreeOf(Smi', Current)]
         /\ IsTreeOf(TreeOf(Smi, Current), Smi, Current)
         /\ \A h : IsTreeOf(h, Smi', Current) => TreeOf(Smi', Current) = h /\ DOMAIN h \subseteq InTree
         /\ DOMAIN TreeOf(Smi, Current) \subseteq InTree
<1>1. /\ IsFileSystem(Smi) /\ IsFileSystem(Smi') /\ SmiInv(Smi) /\ SmiInv(Smi')
      /\ Current \in DOMAIN Smi.lists /\ Current \in DOMAIN Smi'.lists
  BY DEF IInv, IsStep, IsFileSystem, SmiInv, IsSmi
<1>2. \A h : IsTreeOf(h, Smi', Current) => TreeOf(Smi', Current) = h
  BY <1>1, SameTree
<1>3. DOMAIN TreeOf(Smi', Current) \subseteq InTree
  BY <1>1, PathsOfTree
<1>4. IsTreeOf(TreeOf(Smi, Current), Smi, Current) /\ DOMAIN TreeOf(Smi, Current) \subseteq InTree
  BY <1>1, PathsOfTree
<1> QED BY <1>1, <1>2, <1>3, <1>4, CurrentTreeChanges

(* The operators on sequences are those VersionedTree uses.                *)
LEMMA SequencesOfAbstract ==
  \A p, q : Abstract!Front(p) = Front(p) /\ (Abstract!IsPrefix(p, q) <=> IsPrefix(p, q))
BY DEF Front, IsPrefix, Abstract!Front, Abstract!IsPrefix

(* A change of the tree of version current is a step of VersionedTree.     *)
LEMMA EditIsNext ==
  ASSUME NEW u, Current \in DOMAIN Trees, Trees' = [Trees EXCEPT ![Current] = u],
         Abstract!Edit(Trees[Current], u)
  PROVE  Abstract!Next
<1>1. Trees'[Current] = u
  OBVIOUS
<1>2. \E t \in {Trees[Current]}, w \in {Trees'[Current]} :
        Abstract!Edit(t, w) /\ Trees' = [Trees EXCEPT ![Current] = w]
  BY <1>1
<1> QED BY <1>2 DEF Abstract!Next

LEMMA CurrentIsAVersion ==
  ASSUME IInv
  PROVE  Current \in DOMAIN Trees
BY DEF IInv, SmiInv, IsSmi, Trees, Versions, Smi

LEMMA MakeImplements ==
  ASSUME IInv, NEW path \in AnyPath, NEW is_dir \in BOOLEAN, NEW data \in Data,
         MakeAt(path, is_dir, data)
  PROVE  Abstract!Next
<1> DEFINE q == NamesOf(path)
           node == IF is_dir THEN Dir ELSE data
           f == TreeOf(Smi, Current)
           h == [p \in DOMAIN f \cup {q} |-> IF p = q THEN node ELSE f[p]]
<1>1. /\ IsStep(Smi, Smi') /\ KeepsSnapshots(Smi, Smi') /\ Makes(Smi, Smi', path, is_dir, data)
  BY MakeAtStep
<1>2. MakesNode(Smi, Smi', q, node)
  BY <1>1, MakesIsMake DEF IInv
<1>3. /\ Trees[Current] = f /\ Trees' = [Trees EXCEPT ![Current] = TreeOf(Smi', Current)]
      /\ IsTreeOf(f, Smi, Current)
      /\ IsTreeOf(h, Smi', Current) => TreeOf(Smi', Current) = h /\ DOMAIN h \subseteq InTree
  BY <1>1, CurrentStep
<1>4. node \in Data \cup {Dir}
  OBVIOUS
<1> HIDE DEF f, q, node
<1>5. IsTreeOf(h, Smi', Current)
  BY <1>2, <1>3 DEF IsTreeOf, MakesNode
<1>6. q \in InTree
  BY <1>3, <1>5
<1>7. q # <<>> /\ q \notin DOMAIN f /\ Front(q) \in DOMAIN f /\ f[Front(q)] = Dir
  <2>1. q \in Path /\ q # <<>> /\ Front(q) \in Path
    BY <1>2, PathFront DEF MakesNode
  <2> QED BY <1>2, <1>3, <2>1 DEF IsTreeOf, MakesNode
<1>8. Abstract!Make(f, h, q, node)
  BY <1>7, SequencesOfAbstract DEF Abstract!Make, Abstract!Exists, Abstract!IsDirectory
<1> HIDE DEF h
<1>9. Abstract!Edit(f, h)
  BY <1>4, <1>6, <1>8 DEF Abstract!Edit
<1> QED BY <1>3, <1>5, <1>9, CurrentIsAVersion, EditIsNext

(* ------------------------- new bytes in a file ------------------------- *)

LEMMA WriteImplements ==
  ASSUME IInv, NEW path \in AnyPath, NEW data \in Data, do_write(path, data)
  PROVE  Abstract!Next
<1> DEFINE q == NamesOf(path)
           id == IdAt(Smi, path)
           f == TreeOf(Smi, Current)
           h == [f EXCEPT ![q] = data]
<1>1. /\ IsStep(Smi, Smi') /\ WritesFile(Smi, Smi', id, data)
      /\ Writable(path) /\ id # Nowhere /\ ~IsDir(Smi, id) /\ path \in Path
  BY WriteStep, AnyPathIsPath DEF do_write, KernelSeesFile, KernelSees
<1>2. /\ KeepsSnapshots(Smi, Smi') /\ SavesAt(Smi, Smi', id) /\ Stores(Smi', id, data)
      /\ SameVersion(Smi, Current, Smi', Current)
  BY <1>1 DEF WritesFile
<1>3. /\ Trees[Current] = f /\ Trees' = [Trees EXCEPT ![Current] = TreeOf(Smi', Current)]
      /\ IsTreeOf(f, Smi, Current) /\ DOMAIN f \subseteq InTree
      /\ IsTreeOf(h, Smi', Current) => TreeOf(Smi', Current) = h
  BY <1>1, <1>2, CurrentStep
<1>4. q \in Path /\ Resolve(Smi, Current, q) = id /\ id \in Smi.lists[Current]
  BY <1>1, IdAtCurrent DEF IInv
<1> HIDE DEF f, q, id
<1>5. /\ IsVersionTree(Smi, Current) /\ IsForest(Smi, Current) /\ Smi.lists[Current] \subseteq DOMAIN Smi.pool
      /\ \A x \in DOMAIN Smi.pool : Smi.pool[x].is_dentry \/ Smi.pool[x].buffer_map[Current] \in Data
  <2>1. SmiInv(Smi) /\ Current \in DOMAIN Smi.lists /\ IsVersionTree(Smi, Current)
    BY DEF IInv, SmiInv, IsSmi
  <2>2. \A x \in DOMAIN Smi.pool : Smi.pool[x].is_dentry \/ Smi.pool[x].buffer_map[Current] \in Data
    <3> TAKE x \in DOMAIN Smi.pool
    <3>1. IsInode(Smi.pool[x]) /\ Current \in DOMAIN Smi.pool[x].buffer_map
      BY <2>1 DEF SmiInv, IsSmi, IsCounted
    <3> QED BY <3>1 DEF IsInode, IsContent
  <2> QED BY <2>1, <2>2 DEF SmiInv, IsSmi, IsVersionTree
<1>6. \A p \in Path : Resolve(Smi', Current, p) = Resolve(Smi, Current, p)
  BY <1>2, <1>5, SameVersionIsTree
<1>7. ASSUME NEW p \in Path, Resolve(Smi, Current, p) # Nowhere
      PROVE  NodeOf(Smi', Current, Resolve(Smi', Current, p)) =
               IF p = q THEN data ELSE NodeOf(Smi, Current, Resolve(Smi, Current, p))
  <2>1. CASE p = q
    <3>1. ~IsDir(Smi', id)
      BY <1>1, <1>2, <1>4, <1>5 DEF IsDir, SavesAt
    <3> QED BY <1>2, <1>4, <1>6, <2>1, <3>1 DEF NodeOf, Stores
  <2>2. CASE p # q
    <3>1. Resolve(Smi, Current, p) # id /\ Resolve(Smi, Current, p) \in Smi.lists[Current]
      BY <1>4, <1>5, <1>7, <2>2, ResolveIsInjective, ResolveInVersion
    <3> QED BY <1>2, <1>5, <1>6, <2>2, <3>1 DEF NodeOf, IsDir, SavesAt
  <2> QED BY <2>1, <2>2
<1>8. IsTreeOf(h, Smi', Current)
  BY <1>3, <1>6, <1>7 DEF IsTreeOf
<1>9. q \in DOMAIN f /\ q \in InTree /\ f[q] # Dir
  <2>1. q \in DOMAIN f /\ f[q] = NodeOf(Smi, Current, id)
    BY <1>1, <1>3, <1>4 DEF IsTreeOf
  <2>2. NodeOf(Smi, Current, id) \in Data
    BY <1>1, <1>4, <1>5 DEF NodeOf, IsDir
  <2> QED BY <1>3, <2>1, <2>2, FuseOpsAssumption
<1>10. Abstract!Write(f, h, q, data)
  BY <1>9 DEF Abstract!Write, Abstract!Exists, Abstract!IsFile
<1> HIDE DEF h
<1>11. Abstract!Edit(f, h)
  BY <1>9, <1>10 DEF Abstract!Edit
<1> QED BY <1>3, <1>8, <1>11, CurrentIsAVersion, EditIsNext

(* ---------------------- unlink, rmdir, the snapshots -------------------- *)

(* What is removed: nothing else, and nothing was below it.                *)
TakesNode(s, t, q) ==
  /\ q \in Path /\ q # <<>> /\ Resolve(s, Current, q) # Nowhere
  /\ \A p \in Path : Resolve(t, Current, p) = IF p = q THEN Nowhere ELSE Resolve(s, Current, p)
  /\ \A p \in Path : Resolve(t, Current, p) # Nowhere =>
       NodeOf(t, Current, Resolve(t, Current, p)) = NodeOf(s, Current, Resolve(s, Current, p))
  /\ \A p \in Path : Resolve(s, Current, p) # Nowhere /\ IsPrefix(q, p) => p = q

(* What stays in version current is what it was.                           *)
LEMMA RemovedNodes ==
  ASSUME NEW s, NEW t, SmiInv(s), NEW dir, NEW n, NEW id, RemovesChild(s, t, dir, n, id)
  PROVE  \A x \in t.lists[Current] : NodeOf(t, Current, x) = NodeOf(s, Current, x)
<1>1. /\ SmiInv(t) /\ TakesChild(s, t, Current, dir, n, id)
      /\ Current \in DOMAIN s.lists /\ Current \in DOMAIN t.lists /\ IsForest(s, Current)
  BY DEF RemovesChild, SmiInv, IsSmi, IsVersionTree
<1>2. Child(s, Current, dir, n) # Nowhere
  BY <1>1 DEF TakesChild, IsForest
<1>3. /\ HasDentry(s, dir, Current, n) /\ t.lists[Current] \subseteq s.lists[Current]
      /\ s.lists[Current] \subseteq DOMAIN s.pool /\ t.lists[Current] \subseteq DOMAIN t.pool
  BY <1>1, <1>2, ChildIsDentry DEF SmiInv, IsSmi, TakesChild
<1> TAKE x \in t.lists[Current]
<1>4. x \in DOMAIN t.pool /\ x \in DOMAIN s.pool /\ t.pool[x].is_dentry = s.pool[x].is_dentry
  BY <1>3 DEF RemovesChild
<1>5. s.pool[x].is_dentry \/ t.pool[x].buffer_map[Current] = s.pool[x].buffer_map[Current]
  BY <1>3, <1>4 DEF RemovesChild, HasDentry, IsDir
<1> QED BY <1>4, <1>5 DEF NodeOf, IsDir

LEMMA RemovesIsTake ==
  ASSUME NEW s, NEW t, SmiInv(s), NEW dir, NEW n, NEW id, RemovesChild(s, t, dir, n, id),
         NEW q \in Path, q # <<>>, Resolve(s, Current, q) = id
  PROVE  TakesNode(s, t, q)
<1>1. /\ IsForest(s, Current) /\ s.lists[Current] \subseteq DOMAIN s.pool
      /\ IsForest(t, Current) /\ t.lists[Current] \subseteq DOMAIN t.pool
      /\ TakesChild(s, t, Current, dir, n, id)
      /\ t.lists[Current] = s.lists[Current] \ {id}
      /\ id \in s.lists[Current] /\ id # Nowhere
  <2>1. /\ SmiInv(t) /\ Current \in DOMAIN s.lists /\ Current \in DOMAIN t.lists
        /\ IsSmi(s) /\ TakesChild(s, t, Current, dir, n, id)
    BY DEF RemovesChild, SmiInv, IsSmi
  <2>2. IsForest(s, Current) /\ IsForest(t, Current)
    BY <2>1 DEF SmiInv, IsVersionTree
  <2>3. /\ Child(s, Current, dir, n) = id /\ id \in s.lists[Current] /\ id # Nowhere
        /\ t.lists[Current] = s.lists[Current] \ {id}
    BY <2>1, <2>2 DEF TakesChild, IsForest
  <2> QED BY <2>1, <2>2, <2>3 DEF SmiInv, IsSmi
<1>2. \A p \in Path : Resolve(t, Current, p) = IF p = q THEN Nowhere ELSE Resolve(s, Current, p)
  BY <1>1, TakenChildResolves
<1>3. \A x \in t.lists[Current] : NodeOf(t, Current, x) = NodeOf(s, Current, x)
  BY RemovedNodes
<1>4. ASSUME NEW p \in Path, Resolve(t, Current, p) # Nowhere
      PROVE  NodeOf(t, Current, Resolve(t, Current, p)) = NodeOf(s, Current, Resolve(s, Current, p))
  <2>1. Resolve(t, Current, p) \in t.lists[Current]
    BY <1>1, <1>4, ResolveInVersion
  <2> QED BY <1>2, <1>3, <1>4, <2>1
<1>5. ASSUME NEW p \in Path, Resolve(s, Current, p) # Nowhere, IsPrefix(q, p) PROVE p = q
  <2> SUFFICES ASSUME p # q PROVE FALSE
    OBVIOUS
  <2>1. Resolve(t, Current, p) # Nowhere
    BY <1>2, <1>5
  <2>2. Resolve(t, Current, q) # Nowhere
    BY <1>1, <1>5, <2>1, ResolvePrefix
  <2> QED BY <1>2, <2>2
<1> QED BY <1>1, <1>2, <1>4, <1>5 DEF TakesNode

LEMMA RemoveImplements ==
  ASSUME IInv, NEW path \in AnyPath, RemoveByPath(path)
  PROVE  Abstract!Next
<1> DEFINE parent == Resolve(Smi, Current, Front(path))
           id == Child(Smi, Current, parent, Last(path))
           f == TreeOf(Smi, Current)
           h == [p \in DOMAIN f \ {path} |-> f[p]]
<1>1. /\ IsStep(Smi, Smi') /\ path # <<>> /\ path \in Path
      /\ RemovesChild(Smi, Smi', parent, Last(path), id)
  BY RemoveStep
<1>2. Resolve(Smi, Current, path) = id /\ SmiInv(Smi)
  BY <1>1, ResolvePath DEF IInv
<1> HIDE DEF parent, id
<1>3. TakesNode(Smi, Smi', path)
  BY <1>1, <1>2, RemovesIsTake
<1>4. KeepsSnapshots(Smi, Smi')
  BY <1>1 DEF RemovesChild
<1>5. /\ Trees[Current] = f /\ Trees' = [Trees EXCEPT ![Current] = TreeOf(Smi', Current)]
      /\ IsTreeOf(f, Smi, Current) /\ DOMAIN f \subseteq InTree
      /\ IsTreeOf(h, Smi', Current) => TreeOf(Smi', Current) = h
  BY <1>1, <1>4, CurrentStep
<1> HIDE DEF f
<1>6. IsTreeOf(h, Smi', Current)
  BY <1>3, <1>5 DEF IsTreeOf, TakesNode
<1>7. path \in DOMAIN f /\ path \in InTree /\ \A p \in DOMAIN f : IsPrefix(path, p) => p = path
  BY <1>3, <1>5 DEF IsTreeOf, TakesNode
<1>8. Abstract!Delete(f, h, path)
  BY <1>1, <1>7, SequencesOfAbstract DEF Abstract!Delete, Abstract!Exists, Abstract!Childless
<1> HIDE DEF h
<1>9. Abstract!Edit(f, h)
  BY <1>7, <1>8 DEF Abstract!Edit
<1> QED BY <1>5, <1>6, <1>9, CurrentIsAVersion, EditIsNext

(* Version current, looked up by a path as it is written.                  *)
LEMMA IdAsWritten ==
  ASSUME NEW smi, Current \in DOMAIN smi.lists, NEW path \in Path
  PROVE  IdAt(smi, AsWritten(path)) = Resolve(smi, Current, path)
<1>1. CASE ~Below(path)
  <2>1. AsWritten(path) = path /\ path # <<SNAPSHOT_ENTRY>>
    BY <1>1 DEF AsWritten, Below
  <2> QED BY <1>1, <2>1 DEF IdAt, Parsable, VersionOf, NamesOf
<1>2. CASE Below(path)
  <2> DEFINE r == <<SNAPSHOT_ENTRY, Current>> \o path
  <2>1. /\ path \in Seq(Word) /\ Len(path) \in Nat
        /\ SNAPSHOT_ENTRY \in Word /\ Current \in Word
    BY DEF Path, Word
  <2>2. /\ r \in Seq(Word) /\ Len(r) = Len(path) + 2 /\ r[1] = SNAPSHOT_ENTRY /\ r[2] = Current
        /\ \A i \in 1 .. Len(path) : r[i + 2] = path[i]
    BY <2>1
  <2> HIDE DEF r
  <2>3. /\ SubSeq(r, 3, Len(r)) \in Seq(Word) /\ Len(SubSeq(r, 3, Len(r))) = Len(path)
        /\ \A i \in 1 .. Len(path) : SubSeq(r, 3, Len(r))[i] = path[i]
    BY <2>1, <2>2
  <2>4. SubSeq(r, 3, Len(r)) = path
    BY <2>1, <2>3, SeqEqual
  <2>5. Below(r) /\ r # <<SNAPSHOT_ENTRY>>
    BY <2>1, <2>2 DEF Below
  <2>6. AsWritten(path) = r
    BY <1>2 DEF AsWritten, r
  <2> QED BY <2>2, <2>4, <2>5, <2>6 DEF IdAt, Parsable, VersionOf, NamesOf
<1> QED BY <1>1, <1>2

(* After a step that keeps the snapshots, only lookups in version current  *)
(* may lead elsewhere.                                                     *)
LEMMA KeptLookups ==
  ASSUME IInv, SmiInv(Smi'), KeepsSnapshots(Smi, Smi'), NEW p \in Path,
         VersionOf(p) # Current
  PROVE  IdAt(Smi', p) = IdAt(Smi, p)
<1>1. SmiInv(Smi) /\ DOMAIN Smi'.lists = DOMAIN Smi.lists
  BY DEF IInv, KeepsSnapshots
<1>2. CASE ~Parsable(p) \/ VersionOf(p) \notin DOMAIN Smi.lists
  BY <1>1, <1>2 DEF IdAt
<1>3. CASE Parsable(p) /\ VersionOf(p) \in DOMAIN Smi.lists
  <2> DEFINE v == VersionOf(p)
  <2>1. v \in DOMAIN Smi.lists /\ SameSnapshot(Smi, Smi', v)
    BY <1>3 DEF KeepsSnapshots
  <2>2. SameVersion(Smi, v, Smi', v) /\ IsVersionTree(Smi, v)
    BY <1>1, <2>1, KeptSnapshot DEF SmiInv
  <2>3. NamesOf(p) \in Path
    BY <1>3, NamesOfIsPath
  <2>4. Resolve(Smi', v, NamesOf(p)) = Resolve(Smi, v, NamesOf(p))
    BY <2>2, <2>3, SameVersionIsTree
  <2> QED BY <1>1, <1>3, <2>4 DEF IdAt
<1> QED BY <1>2, <1>3

(* What version current has at path goes, and no other lookup changes.     *)
TakesLookups(path) ==
  LET gone == IdAt(Smi, AsWritten(path))
  IN  /\ gone # Nowhere
      /\ \A p \in AnyPath :
           IdAt(Smi, p)' = IF VersionOf(p) = Current /\ IdAt(Smi, p) = gone
                           THEN Nowhere ELSE IdAt(Smi, p)

LEMMA RemovesLookups ==
  ASSUME IInv, NEW path \in AnyPath, RemoveByPath(path)
  PROVE  TakesLookups(path)
<1> DEFINE parent == Resolve(Smi, Current, Front(path))
           id == Child(Smi, Current, parent, Last(path))
           gone == IdAt(Smi, AsWritten(path))
<1>1. /\ path # <<>> /\ path \in Path
      /\ RemovesChild(Smi, Smi', parent, Last(path), id)
  BY RemoveStep
<1>2. Resolve(Smi, Current, path) = id /\ SmiInv(Smi)
  BY <1>1, ResolvePath DEF IInv
<1> HIDE DEF parent, id
<1>3. TakesNode(Smi, Smi', path)
  BY <1>1, <1>2, RemovesIsTake
<1>4. /\ KeepsSnapshots(Smi, Smi') /\ SmiInv(Smi')
      /\ Current \in DOMAIN Smi.lists /\ Current \in DOMAIN Smi'.lists /\ IsForest(Smi, Current)
  BY <1>1, <1>2 DEF RemovesChild, SmiInv, IsSmi, IsVersionTree
<1>5. gone = Resolve(Smi, Current, path)
  BY <1>1, <1>4, IdAsWritten
<1>6. gone # Nowhere
  BY <1>3, <1>5 DEF TakesNode
<1> HIDE DEF gone
<1>7. ASSUME NEW p \in AnyPath
      PROVE  IdAt(Smi', p) = IF VersionOf(p) = Current /\ IdAt(Smi, p) = gone
                             THEN Nowhere ELSE IdAt(Smi, p)
  <2>1. p \in Path
    BY AnyPathIsPath
  <2>2. CASE VersionOf(p) # Current
    BY <1>4, <2>1, <2>2, KeptLookups
  <2>3. CASE VersionOf(p) = Current /\ ~Parsable(p)
    BY <1>6, <2>3 DEF IdAt
  <2>4. CASE VersionOf(p) = Current /\ Parsable(p)
    <3> DEFINE q == NamesOf(p)
    <3>1. q \in Path
      BY <2>1, <2>4, NamesOfIsPath
    <3>2. IdAt(Smi, p) = Resolve(Smi, Current, q) /\ IdAt(Smi', p) = Resolve(Smi', Current, q)
      BY <1>4, <2>4 DEF IdAt
    <3> HIDE DEF q
    <3>3. Resolve(Smi', Current, q) = IF q = path THEN Nowhere ELSE Resolve(Smi, Current, q)
      BY <1>3, <3>1 DEF TakesNode
    <3>4. Resolve(Smi, Current, q) = gone => q = path
      BY <1>1, <1>4, <1>5, <1>6, <3>1, ResolveIsInjective
    <3> QED BY <1>5, <2>4, <3>2, <3>3, <3>4
  <2> QED BY <2>2, <2>3, <2>4
<1>8. \A p \in AnyPath : IdAt(Smi, p)' = IdAt(Smi', p)
  BY DEF IdAt
<1> QED BY <1>6, <1>7, <1>8 DEF TakesLookups, gone

(* Whatever the names of the tree, unlink and rmdir take out what version  *)
(* current has at the path as remove_inode_by_path walks it, below         *)
(* /.snapshot/current too, where lookups go through if_snapshot; after it  *)
(* no path leads there, and every other lookup, in every version, is what  *)
(* it was.                                                                 *)
THEOREM RemovalsTakeTheWrittenPath == Spec => RemovesAsWritten
<1> DEFINE Taken == \A path \in AnyPath :
                      do_unlink(path) \/ (do_rmdir(path) /\ Front(path) # <<SNAPSHOT_ENTRY>>)
                        => TakesLookups(path)
<1>1. ASSUME IInv PROVE Taken
  <2> SUFFICES ASSUME NEW path \in AnyPath,
                      do_unlink(path) \/ (do_rmdir(path) /\ Front(path) # <<SNAPSHOT_ENTRY>>)
               PROVE  TakesLookups(path)
    OBVIOUS
  <2>1. RemoveByPath(path)
    BY DEF do_unlink, do_rmdir
  <2> QED BY <1>1, <2>1, RemovesLookups
<1>2. IInv => [Taken]_vars
  BY <1>1
<1>3. Spec => []IInv
  BY SpecKeepsInvariant
<1> HIDE DEF Taken
<1>4. Spec => [][Taken]_vars
  BY <1>2, <1>3, PTL
<1> QED BY <1>4 DEF Taken, TakesLookups, RemovesAsWritten

(* mkdir and rmdir below /.snapshot.                                       *)
LEMMA SnapshotImplements ==
  ASSUME IInv, NEW v \in Version, CanSnapshot(Smi, v), Become(CreateSnapshot(Smi, v))
  PROVE  Abstract!Next
<1>1. IsStep(Smi, Smi') /\ TakesSnapshot(Smi, Smi', v) /\ SmiInv(Smi) /\ SmiInv(Smi')
  BY SnapshotStep DEF IInv, IsStep
<1>2. /\ Current \in DOMAIN Smi.lists /\ v \notin DOMAIN Smi.lists
      /\ DOMAIN Smi'.lists = DOMAIN Smi.lists \cup {v}
      /\ \A w \in DOMAIN Smi.lists : SameSnapshot(Smi, Smi', w)
      /\ SameVersion(Smi, Current, Smi', v)
  BY <1>1 DEF TakesSnapshot, CanSnapshot, SmiInv, IsSmi
<1>3. \A w \in DOMAIN Smi.lists : TreeOf(Smi', w) = TreeOf(Smi, w)
  BY <1>1, <1>2, KeptTreeOf
<1>4. SameContent(Smi, Current, Smi', v)
  BY <1>1, <1>2 DEF TakesSnapshot, SameContent, SameSnapshot
<1>5. TreeOf(Smi', v) = TreeOf(Smi, Current)
  BY <1>1, <1>2, <1>4, CopiedTree
<1>6. Trees' = [w \in DOMAIN Trees \cup {v} |-> IF w = v THEN Trees[Current] ELSE Trees[w]]
  BY <1>2, <1>3, <1>5, TreesOfVersions
<1>7. v \notin DOMAIN Trees
  BY <1>2, TreesOfVersions
<1>8. Abstract!TakeSnapshot(v)
  BY <1>6, <1>7 DEF Abstract!TakeSnapshot
<1> QED BY <1>8 DEF Abstract!Next

LEMMA DropSnapshotImplements ==
  ASSUME IInv, NEW v \in Version, CanDropSnapshot(Smi, v), Become(DeleteSnapshot(Smi, v))
  PROVE  Abstract!Next
<1>1. IsStep(Smi, Smi') /\ DropsSnapshot(Smi, Smi', v) /\ SmiInv(Smi) /\ SmiInv(Smi')
  BY DropSnapshotStep DEF IInv, IsStep
<1>2. /\ v \in DOMAIN Smi.lists /\ DOMAIN Smi'.lists = DOMAIN Smi.lists \ {v}
      /\ \A w \in DOMAIN Smi.lists \ {v} : SameSnapshot(Smi, Smi', w)
  BY <1>1 DEF DropsSnapshot, CanDropSnapshot
<1>3. \A w \in DOMAIN Smi.lists \ {v} : TreeOf(Smi', w) = TreeOf(Smi, w)
  BY <1>1, <1>2, KeptTreeOf
<1>4. Trees' = [w \in DOMAIN Trees \ {v} |-> Trees[w]] /\ v \in DOMAIN Trees
  BY <1>2, <1>3, TreesOfVersions
<1>5. Abstract!DropSnapshot(v)
  BY <1>4 DEF Abstract!DropSnapshot
<1> QED BY <1>5 DEF Abstract!Next

(* ------------------------------- renames ------------------------------- *)

(* What Move of VersionedTree asks for, and what it does: p and what is    *)
(* below it is found below q.                                              *)
MayMove(s, p, q) ==
  /\ p \in Path /\ q \in Path /\ p # <<>> /\ q # <<>>
  /\ ~IsPrefix(p, q) /\ ~IsPrefix(q, p)
  /\ Resolve(s, Current, p) # Nowhere
  /\ Resolve(s, Current, Front(q)) # Nowhere /\ NodeOf(s, Current, Resolve(s, Current, Front(q))) = Dir
  /\ \A r \in Path : Resolve(s, Current, r) # Nowhere /\ IsPrefix(q, r) => r = q
  /\ Resolve(s, Current, q) # Nowhere =>
       (IsDir(s, Resolve(s, Current, p)) <=> IsDir(s, Resolve(s, Current, q)))

MovesNode(s, t, p, q) ==
  /\ \A r \in Path :
       Resolve(t, Current, r) = IF IsPrefix(q, r) THEN Resolve(s, Current, p \o Rest(q, r))
                                ELSE IF IsPrefix(p, r) THEN Nowhere ELSE Resolve(s, Current, r)
  /\ \A r \in Path : Resolve(t, Current, r) # Nowhere =>
       NodeOf(t, Current, Resolve(t, Current, r)) = NodeOf(s, Current, Resolve(t, Current, r))

(* The nodes do_rename does not touch, and the two directories.            *)
LEMMA MovedNodes ==
  ASSUME NEW c, NEW t, SmiInv(c), NEW dir1, NEW n1, NEW dir2, NEW n2,
         MovesDentry(c, t, dir1, n1, dir2, n2), IsDir(c, dir1), IsDir(c, dir2)
  PROVE  \A x \in c.lists[Current] : NodeOf(t, Current, x) = NodeOf(c, Current, x)
<1> TAKE x \in c.lists[Current]
<1>1. x \in DOMAIN c.pool
  BY DEF SmiInv, IsSmi
<1>2. x \in DOMAIN t.pool /\ t.pool[x].is_dentry = c.pool[x].is_dentry
  BY <1>1 DEF MovesDentry
<1>3. c.pool[x].is_dentry \/ t.pool[x].buffer_map[Current] = c.pool[x].buffer_map[Current]
  BY <1>1 DEF MovesDentry, IsDir
<1> QED BY <1>1, <1>2, <1>3 DEF NodeOf, IsDir

LEMMA RenameIsMove ==
  ASSUME IInv, NEW path \in PlainPath, NEW name \in PlainPath, do_rename(path, name)
  PROVE  MayMove(Smi, path, name) /\ MovesNode(Smi, Smi', path, name)
<1> DEFINE c == Cleared(name)
           dir == Resolve(Smi, Current, Front(name))
           old == Resolve(Smi, Current, Front(path))
           id == Resolve(c, Current, path)
           n == Last(path)
           m == Last(name)
           t == Smi'
<1>1. /\ IsRename(path, name) /\ IsDir(Smi, dir)
      /\ SmiInv(c) /\ Clears(Smi, c, dir, m)
      /\ \A r \in Path : Resolve(c, Current, r) = IF r = name THEN Nowhere ELSE Resolve(Smi, Current, r)
      /\ MovesDentry(c, t, old, n, dir, m)
      /\ MovesPath(c, Current, path, name, dir, m, id)
      /\ id = Child(c, Current, old, n)
  BY RenameStep
<1> HIDE DEF c, dir, old, id, n, m
<1>2. /\ path \in Path /\ name \in Path /\ path # <<>> /\ name # <<>>
      /\ Resolve(Smi, Current, path) # Nowhere
      /\ ~IsPrefix(path, name) /\ ~IsPrefix(name, path)
      /\ Resolve(Smi, Current, name) # Nowhere =>
           (IsDir(Smi, Resolve(Smi, Current, path)) <=> IsDir(Smi, Resolve(Smi, Current, name)))
  BY <1>1 DEF IsRename
<1>3. /\ SmiInv(Smi) /\ SmiInv(t) /\ IsForest(c, Current) /\ IsForest(t, Current)
      /\ c.lists[Current] \subseteq DOMAIN c.pool
      /\ MovesChild(c, t, Current, old, n, dir, m, id)
      /\ t.lists[Current] = c.lists[Current]
  <2>1. SmiInv(t) /\ SmiInv(Smi) /\ MovesChild(c, t, Current, old, n, dir, m, id)
    BY <1>1 DEF MovesDentry, IInv
  <2>2. \A smi : SmiInv(smi) => IsForest(smi, Current) /\ smi.lists[Current] \subseteq DOMAIN smi.pool
    BY DEF SmiInv, IsSmi, IsVersionTree
  <2> QED BY <1>1, <2>1, <2>2 DEF MovesChild
<1> HIDE DEF t
<1>4. \A x \in c.lists[Current] : NodeOf(c, Current, x) = NodeOf(Smi, Current, x)
  BY <1>1, <1>3, RemovedNodes DEF Clears
<1>5. \A x \in t.lists[Current] : NodeOf(t, Current, x) = NodeOf(c, Current, x)
  <2>1. old \in c.lists[Current] /\ dir \in c.lists[Current] /\ n \in Word
        /\ Child(c, Current, old, n) # Nowhere
    BY <1>1, <1>3 DEF MovesChild, IsForest
  <2>2. IsDir(c, old)
    BY <1>1, <2>1, ChildIsDentry DEF SmiInv, HasDentry
  <2>3. IsDir(c, dir)
    <3>1. NodeOf(c, Current, dir) = Dir /\ dir \in DOMAIN c.pool
      BY <1>1, <1>3, <1>4, <2>1 DEF NodeOf
    <3>2. c.pool[dir].is_dentry \/ c.pool[dir].buffer_map[Current] \in Data
      <4>1. /\ IsInode(c.pool[dir]) /\ Current \in DOMAIN c.pool[dir].buffer_map
        BY <1>1, <3>1 DEF SmiInv, IsSmi, IsCounted
      <4> QED BY <4>1 DEF IsInode, IsContent
    <3> QED BY <3>1, <3>2, FuseOpsAssumption DEF NodeOf, IsDir
  <2> QED BY <1>1, <1>3, <2>2, <2>3, MovedNodes
<1>6. \A r \in Path :
        Resolve(t, Current, r) = IF IsPrefix(name, r) THEN Resolve(Smi, Current, path \o Rest(name, r))
                                 ELSE IF IsPrefix(path, r) THEN Nowhere ELSE Resolve(Smi, Current, r)
  <2> TAKE r \in Path
  <2>1. CASE IsPrefix(name, r)
    <3>1. Resolve(t, Current, r) = Resolve(c, Current, path \o Rest(name, r))
      BY <1>1, <1>3, <2>1, MovedBelow
    <3>2. path \o Rest(name, r) \in Path /\ IsPrefix(path, path \o Rest(name, r))
      BY <1>2, <2>1, PathIsPrefixAndRest, PathConcat
    <3>3. path \o Rest(name, r) # name
      BY <1>2, <3>2
    <3> QED BY <1>1, <2>1, <3>1, <3>2, <3>3
  <2>2. CASE ~IsPrefix(name, r) /\ IsPrefix(path, r)
    BY <1>1, <1>2, <1>3, <2>2, MovedAway
  <2>3. CASE ~IsPrefix(name, r) /\ ~IsPrefix(path, r)
    <3>1. Resolve(t, Current, r) = Resolve(c, Current, r)
      BY <1>1, <1>3, <2>3, MovedOutside
    <3>2. r # name
      BY <1>2, <2>3, PathPrefix
    <3> QED BY <1>1, <2>3, <3>1, <3>2
  <2> QED BY <2>1, <2>2, <2>3
<1>7. ASSUME NEW r \in Path, Resolve(t, Current, r) # Nowhere
      PROVE  NodeOf(t, Current, Resolve(t, Current, r)) = NodeOf(Smi, Current, Resolve(t, Current, r))
  <2>1. Resolve(t, Current, r) \in t.lists[Current]
    BY <1>3, <1>7, ResolveInVersion
  <2> QED BY <1>3, <1>4, <1>5, <2>1
<1>8. ASSUME NEW r \in Path, Resolve(Smi, Current, r) # Nowhere, IsPrefix(name, r) PROVE r = name
  <2> SUFFICES ASSUME r # name PROVE FALSE
    OBVIOUS
  <2>1. Resolve(c, Current, r) # Nowhere
    BY <1>1, <1>8
  <2>2. Resolve(c, Current, name) # Nowhere
    BY <1>2, <1>3, <1>8, <2>1, ResolvePrefix
  <2> QED BY <1>1, <1>2, <2>2
<1>9. dir # Nowhere /\ NodeOf(Smi, Current, dir) = Dir
  BY <1>1, <1>3, NothingNowhere DEF NodeOf, IsDir, SmiInv
<1>10. MayMove(Smi, path, name)
  BY <1>2, <1>8, <1>9 DEF MayMove, dir
<1>11. MovesNode(Smi, t, path, name)
  BY <1>6, <1>7 DEF MovesNode
<1> QED BY <1>10, <1>11 DEF t

(* The tree Move of VersionedTree makes of f.                              *)
MovedTree(f, p, q) ==
  LET kept  == {r \in DOMAIN f : ~IsPrefix(p, r)}
      there == {q \o Rest(p, r) : r \in {s \in DOMAIN f : IsPrefix(p, s)}}
  IN  [r \in kept \cup there |-> IF r \in there THEN f[p \o Rest(q, r)] ELSE f[r]]

LEMMA MovedTreeIsMoved ==
  ASSUME NEW s, NEW t, NEW p, NEW q, MayMove(s, p, q), MovesNode(s, t, p, q),
         NEW f, IsTreeOf(f, s, Current)
  PROVE  IsTreeOf(MovedTree(f, p, q), t, Current)
<1> DEFINE kept == {r \in DOMAIN f : ~IsPrefix(p, r)}
           there == {q \o Rest(p, r) : r \in {x \in DOMAIN f : IsPrefix(p, x)}}
           h == [r \in kept \cup there |-> IF r \in there THEN f[p \o Rest(q, r)] ELSE f[r]]
<1>1. /\ p \in Path /\ q \in Path /\ ~IsPrefix(p, q) /\ ~IsPrefix(q, p)
      /\ Resolve(s, Current, p) # Nowhere /\ IsPrefix(p, p)
      /\ \A r \in Path : Resolve(s, Current, r) # Nowhere /\ IsPrefix(q, r) => r = q
  BY PathPrefix DEF MayMove
<1>2. /\ \A r \in DOMAIN f : r \in Path
      /\ \A r \in Path : r \in DOMAIN f <=> Resolve(s, Current, r) # Nowhere
      /\ \A r \in DOMAIN f : f[r] = NodeOf(s, Current, Resolve(s, Current, r))
  BY DEF IsTreeOf
<1>3. ASSUME NEW r \in Path
      PROVE  r \in there <=> IsPrefix(q, r) /\ p \o Rest(q, r) \in DOMAIN f
  <2>1. ASSUME r \in there PROVE IsPrefix(q, r) /\ p \o Rest(q, r) \in DOMAIN f
    <3>1. PICK x \in DOMAIN f : IsPrefix(p, x) /\ r = q \o Rest(p, x)
      BY <2>1
    <3>2. Rest(p, x) \in Path /\ x = p \o Rest(p, x)
      BY <1>1, <1>2, <3>1, PathIsPrefixAndRest
    <3>3. IsPrefix(q, r) /\ Rest(q, r) = Rest(p, x)
      BY <1>1, <3>1, <3>2, PathConcat
    <3> QED BY <3>1, <3>2, <3>3
  <2>2. ASSUME IsPrefix(q, r), p \o Rest(q, r) \in DOMAIN f PROVE r \in there
    <3> DEFINE x == p \o Rest(q, r)
    <3>1. Rest(q, r) \in Path /\ r = q \o Rest(q, r)
      BY <1>1, <2>2, PathIsPrefixAndRest
    <3>2. IsPrefix(p, x) /\ Rest(p, x) = Rest(q, r)
      BY <1>1, <3>1, PathConcat
    <3>3. x \in {y \in DOMAIN f : IsPrefix(p, y)} /\ r = q \o Rest(p, x)
      BY <2>2, <3>1, <3>2
    <3> QED BY <3>3
  <2> QED BY <2>1, <2>2
<1>4. \A r \in there : r \in Path
  <2> SUFFICES ASSUME NEW x \in DOMAIN f, IsPrefix(p, x) PROVE q \o Rest(p, x) \in Path
    OBVIOUS
  <2>1. Rest(p, x) \in Path
    BY <1>1, <1>2, PathIsPrefixAndRest
  <2> QED BY <1>1, <2>1, PathConcat
<1>5. \A r \in Path : r \in kept <=> r \in DOMAIN f /\ ~IsPrefix(p, r)
  OBVIOUS
<1>6. kept \subseteq Path
  BY <1>2
<1> HIDE DEF kept, there
<1>7. ASSUME NEW r \in Path
      PROVE  /\ r \in kept \cup there <=> Resolve(t, Current, r) # Nowhere
             /\ r \in kept \cup there =>
                  h[r] = NodeOf(t, Current, Resolve(t, Current, r))
  <2>1. CASE IsPrefix(q, r)
    <3> DEFINE o == p \o Rest(q, r)
    <3>1. o \in Path /\ Resolve(t, Current, r) = Resolve(s, Current, o)
      BY <1>1, <2>1, PathIsPrefixAndRest, PathConcat DEF MovesNode
    <3> HIDE DEF o
    <3>2. r \in there <=> o \in DOMAIN f
      BY <1>3, <2>1 DEF o
    <3>3. r \in kept => r \in there
      <4> SUFFICES ASSUME r \in kept PROVE r \in there
        OBVIOUS
      <4>1. r = q
        BY <1>1, <1>2, <1>5, <2>1
      <4>2. o = p
        BY <1>1, <4>1, RestOfItself DEF o
      <4> QED BY <1>1, <1>2, <3>2, <4>2
    <3>4. o \in DOMAIN f <=> Resolve(s, Current, o) # Nowhere
      BY <1>2, <3>1
    <3>5. r \in there => h[r] = f[o]
      BY DEF o
    <3>6. r \in there => h[r] = NodeOf(t, Current, Resolve(t, Current, r))
      BY <1>2, <3>1, <3>2, <3>4, <3>5 DEF MovesNode
    <3> QED BY <3>1, <3>2, <3>3, <3>4, <3>6
  <2>2. CASE ~IsPrefix(q, r)
    <3>1. r \notin there
      BY <1>3, <2>2
    <3>2. Resolve(t, Current, r) = IF IsPrefix(p, r) THEN Nowhere ELSE Resolve(s, Current, r)
      BY <2>2 DEF MovesNode
    <3>3. r \in kept <=> Resolve(t, Current, r) # Nowhere
      BY <1>2, <1>5, <3>2
    <3>4. r \in kept => h[r] = f[r]
      BY <3>1
    <3>5. r \in kept => h[r] = NodeOf(t, Current, Resolve(t, Current, r))
      BY <1>2, <1>5, <3>2, <3>3, <3>4 DEF MovesNode
    <3> QED BY <3>1, <3>3, <3>5
  <2> QED BY <2>1, <2>2
<1>8. IsTreeOf(h, t, Current)
  BY <1>4, <1>6, <1>7 DEF IsTreeOf
<1> QED BY <1>8 DEF MovedTree, h, kept, there

LEMMA RenameImplements ==
  ASSUME IInv, NEW path \in PlainPath, NEW name \in PlainPath, do_rename(path, name)
  PROVE  Abstract!Next
<1> DEFINE f == TreeOf(Smi, Current)
           h == MovedTree(f, path, name)
<1>1. MayMove(Smi, path, name) /\ MovesNode(Smi, Smi', path, name)
  BY RenameIsMove
<1>2. IsStep(Smi, Smi') /\ KeepsSnapshots(Smi, Smi')
  <2>1. /\ IsStep(Smi, Smi') /\ KeepsSnapshots(Smi, Cleared(name))
        /\ KeepsSnapshots(Cleared(name), Smi')
    BY RenameStep DEF MovesDentry
  <2> QED BY <2>1, KeepsSnapshotsTwice
<1>3. /\ Trees[Current] = f /\ Trees' = [Trees EXCEPT ![Current] = TreeOf(Smi', Current)]
      /\ IsTreeOf(f, Smi, Current) /\ DOMAIN f \subseteq InTree
      /\ IsTreeOf(h, Smi', Current) => TreeOf(Smi', Current) = h /\ DOMAIN h \subseteq InTree
  BY <1>2, CurrentStep
<1> HIDE DEF f
<1>4. IsTreeOf(h, Smi', Current)
  BY <1>1, <1>3, MovedTreeIsMoved
<1>5. /\ path # <<>> /\ name # <<>> /\ path \in DOMAIN f
      /\ ~IsPrefix(path, name) /\ ~IsPrefix(name, path)
      /\ Front(name) \in DOMAIN f /\ f[Front(name)] = Dir
  <2>1. Front(name) \in Path
    BY <1>1, PathFront DEF MayMove
  <2> QED BY <1>1, <1>3, <2>1 DEF MayMove, IsTreeOf
<1>6. ASSUME name \in DOMAIN f
      PROVE  /\ \A r \in DOMAIN f : IsPrefix(name, r) => r = name
             /\ f[path] = Dir <=> f[name] = Dir
  <2>1. \A r \in DOMAIN f : IsPrefix(name, r) => r = name
    BY <1>1, <1>3 DEF MayMove, IsTreeOf
  <2>2. /\ f[path] = NodeOf(Smi, Current, Resolve(Smi, Current, path))
        /\ f[name] = NodeOf(Smi, Current, Resolve(Smi, Current, name))
        /\ IsDir(Smi, Resolve(Smi, Current, path)) <=> IsDir(Smi, Resolve(Smi, Current, name))
    BY <1>1, <1>3, <1>5, <1>6 DEF MayMove, IsTreeOf
  <2>3. ASSUME NEW p \in DOMAIN f
        PROVE  NodeOf(Smi, Current, Resolve(Smi, Current, p)) = Dir <=> IsDir(Smi, Resolve(Smi, Current, p))
    <3> DEFINE x == Resolve(Smi, Current, p)
    <3>1. /\ SmiInv(Smi) /\ IsForest(Smi, Current) /\ Smi.lists[Current] \subseteq DOMAIN Smi.pool
      BY DEF IInv, SmiInv, IsSmi, IsVersionTree
    <3>2. x \in DOMAIN Smi.pool
      BY <1>3, <3>1, ResolveInVersion DEF IsTreeOf
    <3> HIDE DEF x
    <3>3. IsInode(Smi.pool[x]) /\ Current \in DOMAIN Smi.pool[x].buffer_map
      BY <3>1, <3>2 DEF SmiInv, IsSmi, IsCounted
    <3>4. Smi.pool[x].is_dentry \/ Smi.pool[x].buffer_map[Current] \in Data
      BY <3>3 DEF IsInode, IsContent
    <3>5. NodeOf(Smi, Current, x) = Dir <=> IsDir(Smi, x)
      BY <3>2, <3>4, FuseOpsAssumption DEF NodeOf, IsDir
    <3> QED BY <3>5 DEF x
  <2> QED BY <1>5, <1>6, <2>1, <2>2, <2>3
<1>7. Abstract!Move(f, h, path, name)
  <2> DEFINE kept == {r \in DOMAIN f : ~Abstract!IsPrefix(path, r)}
             there == {name \o SubSeq(r, Len(path) + 1, Len(r)) :
                         r \in {s \in DOMAIN f : Abstract!IsPrefix(path, s)}}
             g == [r \in kept \cup there |->
                     IF r \in there THEN f[path \o SubSeq(r, Len(name) + 1, Len(r))] ELSE f[r]]
  <2>1. g = h
    <3>1. kept = {r \in DOMAIN f : ~IsPrefix(path, r)}
      BY SequencesOfAbstract
    <3>2. {s \in DOMAIN f : Abstract!IsPrefix(path, s)} = {s \in DOMAIN f : IsPrefix(path, s)}
      BY SequencesOfAbstract
    <3>3. there = {name \o Rest(path, r) : r \in {s \in DOMAIN f : IsPrefix(path, s)}}
      BY <3>2 DEF Rest
    <3> HIDE DEF kept, there
    <3> QED BY <3>1, <3>3 DEF MovedTree, Rest
  <2>2. /\ Abstract!Exists(f, path) /\ Abstract!IsDirectory(f, Abstract!Front(name))
        /\ ~Abstract!IsPrefix(path, name) /\ ~Abstract!IsPrefix(name, path)
    BY <1>5, SequencesOfAbstract DEF Abstract!Exists, Abstract!IsDirectory
  <2>3. Abstract!Exists(f, name) =>
          /\ Abstract!Childless(f, name)
          /\ Abstract!IsDirectory(f, path) <=> Abstract!IsDirectory(f, name)
    BY <1>5, <1>6, SequencesOfAbstract DEF Abstract!Exists, Abstract!IsDirectory, Abstract!Childless
  <2> HIDE DEF h
  <2> QED BY <1>5, <2>1, <2>2, <2>3 DEF Abstract!Move
<1>8. path \in InTree /\ name \in InTree
  <2>1. path \in InTree
    BY <1>3, <1>5
  <2>2. name \in DOMAIN h
    <3>1. /\ name \in Path /\ Resolve(Smi', Current, name) = Resolve(Smi, Current, path \o Rest(name, name))
          /\ path \in Path
      BY <1>1, PathPrefix DEF MayMove, MovesNode
    <3>2. Resolve(Smi', Current, name) # Nowhere
      BY <1>1, <3>1, RestOfItself DEF MayMove
    <3> QED BY <1>4, <3>1, <3>2 DEF IsTreeOf
  <2> QED BY <1>3, <1>4, <2>1, <2>2
<1> HIDE DEF h
<1>9. Abstract!Edit(f, h)
  BY <1>5, <1>7, <1>8 DEF Abstract!Edit
<1> QED BY <1>3, <1>4, <1>9, CurrentIsAVersion, EditIsNext

(* ----------------------------- refinement ------------------------------ *)

LEMMA EditImplements ==
  ASSUME IInv, NEW path \in AnyPath,
         \/ do_mkdir(path) \/ do_create(path) \/ do_symlink(path)
         \/ \E data \in Data : do_write(path, data)
         \/ do_unlink(path) \/ do_rmdir(path)
  PROVE  Abstract!Next
<1>1. NoData \in Data /\ LinkText \in Data
  BY InodeSmiAssumption, FuseOpsAssumption
<1>2. CASE do_mkdir(path)
  <2>1. CASE MakeAt(path, TRUE, NoData)
    BY <1>1, <2>1, MakeImplements
  <2>2. CASE /\ path # <<>> /\ Front(path) = <<SNAPSHOT_ENTRY>>
             /\ CanSnapshot(Smi, Last(path)) /\ Become(CreateSnapshot(Smi, Last(path)))
    <3>1. Last(path) \in Version
      BY <2>2, SnapshotName DEF CanSnapshot, IInv, SmiInv, IsSmi
    <3> QED BY <2>2, <3>1, SnapshotImplements
  <2> QED BY <1>2, <2>1, <2>2 DEF do_mkdir
<1>3. CASE do_create(path)
  BY <1>1, <1>3, MakeImplements DEF do_create
<1>4. CASE do_symlink(path)
  BY <1>1, <1>4, MakeImplements DEF do_symlink
<1>5. CASE \E data \in Data : do_write(path, data)
  BY <1>5, WriteImplements
<1>6. CASE do_unlink(path)
  BY <1>6, RemoveImplements DEF do_unlink
<1>7. CASE do_rmdir(path)
  <2>1. CASE RemoveByPath(path)
    BY <2>1, RemoveImplements
  <2>2. CASE /\ path # <<>> /\ Front(path) = <<SNAPSHOT_ENTRY>>
             /\ CanDropSnapshot(Smi, Last(path)) /\ Become(DeleteSnapshot(Smi, Last(path)))
    <3>1. Last(path) \in Version
      BY <2>2, SnapshotName DEF CanDropSnapshot
    <3> QED BY <2>2, <3>1, DropSnapshotImplements
  <2> QED BY <1>7, <2>1, <2>2 DEF do_rmdir
<1> QED BY <1>2, <1>3, <1>4, <1>5, <1>6, <1>7

LEMMA StepImplements ==
  ASSUME IInv, [Next]_vars
  PROVE  [Abstract!Next]_Trees
<1>1. CASE Edits
  BY <1>1, EditImplements DEF Edits
<1>2. CASE Renames(PlainPath)
  BY <1>2, RenameImplements DEF Renames
<1>3. CASE UNCHANGED vars
  <2>1. Smi' = Smi
    BY <1>3 DEF vars, Smi
  <2> QED BY <2>1, TreesOfVersions
<1> QED BY <1>1, <1>2, <1>3 DEF Next

LEMMA InitImplements ==
  ASSUME Init
  PROVE  Abstract!Init
<1> DEFINE h == [p \in {<<>>} |-> Dir]
<1>1. IInv /\ Smi = Formatted
  BY InvariantInit DEF Init, Smi, Formatted
<1>2. /\ DOMAIN Smi.lists = {Current} /\ Smi.lists[Current] = {Root}
      /\ IsDir(Smi, Root)
  BY <1>1 DEF Formatted, IsDir, NewInode
<1>3. IsFileSystem(Smi) /\ IsForest(Smi, Current)
  BY <1>1, <1>2 DEF IInv, IsFileSystem, SmiInv, IsVersionTree
<1>4. ASSUME NEW p \in Path, Resolve(Smi, Current, p) # Nowhere PROVE p = <<>>
  <2>1. Resolve(Smi, Current, p) = Root
    BY <1>2, <1>3, <1>4, ResolveInVersion
  <2> QED BY <1>2, <1>3, <1>4, <2>1, ResolvePlace
<1>5. Resolve(Smi, Current, <<>>) = Root /\ Root # Nowhere
  BY <1>2, <1>3, ResolveEmpty DEF IsForest
<1>6. IsTreeOf(h, Smi, Current)
  BY <1>2, <1>4, <1>5, EmptyPath DEF IsTreeOf, NodeOf
<1>7. TreeOf(Smi, Current) = h
  BY <1>2, <1>3, <1>6, SameTree
<1> QED BY <1>2, <1>7, TreesOfVersions DEF Abstract!Init

(* The handlers implement VersionedTree: to a user of the mount every      *)
(* version is a tree of paths, an operation changes one path (a rename the *)
(* paths below one directory) of version current, and mkdir and rmdir      *)
(* below /.snapshot copy and drop a whole tree.                            *)
THEOREM HandlersImplementTrees == Spec => ImplementsVersionedTree
<1>1. Init => Abstract!Init
  BY InitImplements
<1>2. IInv /\ [Next]_vars => [Abstract!Next]_Trees
  BY StepImplements
<1>3. Spec => []IInv
  BY SpecKeepsInvariant
<1> QED BY <1>1, <1>2, <1>3, PTL DEF Spec, ImplementsVersionedTree, Abstract!Spec
=============================================================================
