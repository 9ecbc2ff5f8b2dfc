-------------------------- MODULE AttributesProofs --------------------------
(***************************************************************************)
(* fs_stat follows the inodes: the theorems about Attributes!AttrSpec.     *)
(* What FuseOps's invariant does not say, that an inode stays a directory  *)
(* or a file as long as it lives, is stated step by step here.             *)
(***************************************************************************)
EXTENDS Attributes, FuseOpsProofs

(* ------------------- what an inode is, it stays ------------------------ *)

SameKind(s, t) ==
  \A id \in DOMAIN s.pool \cap DOMAIN t.pool : t.pool[id].is_dentry = s.pool[id].is_dentry

NewKind(s, t, is_dir) ==
  \A id \in DOMAIN t.pool \ DOMAIN s.pool : t.pool[id].is_dentry = is_dir

(* Every inode is held by a version: one of a snapshot is as it was.       *)
LEMMA KindOfHeld ==
  ASSUME NEW s, NEW t, SmiInv(t), KeepsSnapshots(s, t),
         \A x \in t.lists[Current] \cap DOMAIN s.pool : t.pool[x].is_dentry = s.pool[x].is_dentry
  PROVE  SameKind(s, t)
<1> SUFFICES ASSUME NEW id \in DOMAIN s.pool, id \in DOMAIN t.pool
             PROVE  t.pool[id].is_dentry = s.pool[id].is_dentry
  BY DEF SameKind
<1>1. PICK v \in DOMAIN t.lists : id \in t.lists[v]
  BY DEF SmiInv, IsSmi, IsCounted, Holders
<1>2. CASE v = Current
  BY <1>1, <1>2
<1>3. CASE v # Current
  BY <1>1, <1>3 DEF KeepsSnapshots, SameSnapshot
<1> QED BY <1>2, <1>3

LEMMA KindsRemoved ==
  ASSUME NEW s, NEW t, NEW dir, NEW n, NEW id, RemovesChild(s, t, dir, n, id)
  PROVE  SameKind(s, t) /\ DOMAIN t.pool \subseteq DOMAIN s.pool
BY KindOfHeld DEF RemovesChild

LEMMA KindsMade ==
  ASSUME IInv, NEW path \in AnyPath, NEW is_dir \in BOOLEAN, NEW data \in Data,
         MakeAt(path, is_dir, data)
  PROVE  SameKind(Smi, Smi') /\ NewKind(Smi, Smi', is_dir) /\ DOMAIN Smi.pool \subseteq DOMAIN Smi'.pool
<1> DEFINE parent == IdAt(Smi, Front(path))
           id == FreeId(Smi.pool)
           made == MakeChild(Smi, parent, Last(path), is_dir)
<1>1. /\ MakesChild(Smi, made, parent, Last(path), is_dir, id)
      /\ IF is_dir THEN Smi' = made ELSE WritesFile(made, Smi', id, data)
  BY MakeAtStep DEF Makes
<1> HIDE DEF made, parent, id
<1>2. /\ DOMAIN made.pool = DOMAIN Smi.pool \cup {id}
      /\ \A x \in DOMAIN Smi.pool : made.pool[x].is_dentry = Smi.pool[x].is_dentry
      /\ made.pool[id].is_dentry = is_dir
  BY <1>1 DEF MakesChild, NewInode
<1>3. /\ DOMAIN Smi'.pool = DOMAIN made.pool
      /\ \A x \in DOMAIN made.pool : Smi'.pool[x].is_dentry = made.pool[x].is_dentry
  BY <1>1 DEF WritesFile, SavesAt
<1> QED BY <1>2, <1>3 DEF SameKind, NewKind

LEMMA KindsSnapshot ==
  ASSUME NEW s, NEW t, NEW v, SmiInv(s), TakesSnapshot(s, t, v)
  PROVE  SameKind(s, t) /\ DOMAIN t.pool = DOMAIN s.pool
<1>1. ASSUME NEW id \in DOMAIN s.pool PROVE t.pool[id].is_dentry = s.pool[id].is_dentry
  <2>1. PICK w \in DOMAIN s.lists : id \in s.lists[w]
    BY DEF SmiInv, IsSmi, IsCounted, Holders
  <2> QED BY <2>1 DEF TakesSnapshot, SameSnapshot
<1> QED BY <1>1 DEF SameKind, TakesSnapshot

LEMMA KindsDropped ==
  ASSUME NEW s, NEW t, NEW v, DropsSnapshot(s, t, v)
  PROVE  SameKind(s, t) /\ DOMAIN t.pool \subseteq DOMAIN s.pool
<1>1. ASSUME NEW id \in DOMAIN t.pool PROVE t.pool[id].is_dentry = s.pool[id].is_dentry
  <2>1. PICK w \in DOMAIN t.lists : id \in t.lists[w]
    BY DEF DropsSnapshot, SmiInv, IsSmi, IsCounted, Holders
  <2> QED BY <2>1 DEF DropsSnapshot, SameSnapshot
<1> QED BY <1>1 DEF SameKind, DropsSnapshot

(* ------------------- the handlers of FuseOps --------------------------- *)

(* Makes no inode, keeps what the others are.                              *)
MakesNothing(s, t) == SameKind(s, t) /\ DOMAIN t.pool \subseteq DOMAIN s.pool

LEMMA RemovalKinds ==
  ASSUME IInv, NEW path \in AnyPath, do_unlink(path) \/ do_rmdir(path)
  PROVE  IsStep(Smi, Smi') /\ MakesNothing(Smi, Smi')
<1>1. CASE RemoveByPath(path)
  BY <1>1, RemoveStep, KindsRemoved DEF MakesNothing
<1>2. CASE CanDropSnapshot(Smi, Last(path)) /\ Become(DeleteSnapshot(Smi, Last(path)))
  BY <1>2, DropSnapshotStep, KindsDropped DEF MakesNothing
<1> QED BY <1>1, <1>2 DEF do_unlink, do_rmdir

LEMMA WriteKinds ==
  ASSUME IInv, NEW path \in AnyPath, NEW data \in Data, do_write(path, data)
  PROVE  IsStep(Smi, Smi') /\ MakesNothing(Smi, Smi') /\ DOMAIN Smi'.pool = DOMAIN Smi.pool
BY WriteStep DEF WritesFile, SavesAt, SameKind, MakesNothing

LEMMA MakeKinds ==
  ASSUME IInv, NEW path \in AnyPath
  PROVE  /\ do_mkdir(path) => IsStep(Smi, Smi') /\ SameKind(Smi, Smi') /\ NewKind(Smi, Smi', TRUE)
         /\ do_create(path) \/ do_symlink(path) =>
              IsStep(Smi, Smi') /\ SameKind(Smi, Smi') /\ NewKind(Smi, Smi', FALSE)
<1>1. NoData \in Data /\ LinkText \in Data
  BY InodeSmiAssumption, FuseOpsAssumption
<1>2. ASSUME NEW is_dir \in BOOLEAN, NEW data \in Data, MakeAt(path, is_dir, data)
      PROVE  IsStep(Smi, Smi') /\ SameKind(Smi, Smi') /\ NewKind(Smi, Smi', is_dir)
  BY <1>2, MakeAtStep, KindsMade
<1>3. ASSUME CanSnapshot(Smi, Last(path)), Become(CreateSnapshot(Smi, Last(path)))
      PROVE  IsStep(Smi, Smi') /\ SameKind(Smi, Smi') /\ NewKind(Smi, Smi', TRUE)
  BY <1>3, SnapshotStep, KindsSnapshot DEF IInv, NewKind
<1> QED BY <1>1, <1>2, <1>3 DEF do_mkdir, do_create, do_symlink

LEMMA RenameKinds ==
  ASSUME IInv, Renames(PlainPath)
  PROVE  IsStep(Smi, Smi') /\ MakesNothing(Smi, Smi')
<1>1. PICK path \in PlainPath, name \in PlainPath : do_rename(path, name)
  BY DEF Renames
<1> DEFINE c == Cleared(name)
           dir == Resolve(Smi, Current, Front(name))
           old == Resolve(Smi, Current, Front(path))
<1>2. /\ IsStep(Smi, Smi') /\ Clears(Smi, c, dir, Last(name))
      /\ MovesDentry(c, Smi', old, Last(path), dir, Last(name))
  BY <1>1, RenameStep
<1> HIDE DEF c, dir, old
<1>3. MakesNothing(Smi, c)
  BY <1>2, KindsRemoved DEF Clears, MakesNothing, SameKind
<1>4. /\ DOMAIN Smi'.pool = DOMAIN c.pool
      /\ \A x \in DOMAIN c.pool : Smi'.pool[x].is_dentry = c.pool[x].is_dentry
  BY <1>2 DEF MovesDentry
<1> QED BY <1>2, <1>3, <1>4 DEF MakesNothing, SameKind

(* ---------------------------- the invariant ---------------------------- *)

(* Every inode of the pool, at a path or not, has the type it has.         *)
TypesAgree ==
  \A id \in DOMAIN inode_pool : fs_stat[id].type = "directory" <=> inode_pool[id].is_dentry

AInv == IInv /\ AttrTypeOK /\ TypesAgree

(* What a path leads to, in version current or a snapshot, is in the pool. *)
LEMMA SeenInPool ==
  ASSUME IInv, NEW path \in AnyPath, KernelSees(path)
  PROVE  IdAt(Smi, path) \in DOMAIN inode_pool
<1> DEFINE v == VersionOf(path)
<1>1. /\ Parsable(path) /\ v \in DOMAIN Smi.lists /\ IdAt(Smi, path) = Resolve(Smi, v, NamesOf(path))
      /\ IdAt(Smi, path) # Nowhere
  BY DEF KernelSees, IdAt
<1>2. NamesOf(path) \in Path
  BY <1>1, AnyPathIsPath, NamesOfIsPath
<1>3. IsForest(Smi, v) /\ Smi.lists[v] \subseteq DOMAIN inode_pool
  BY <1>1 DEF IInv, SmiInv, IsSmi, IsVersionTree, Smi
<1> QED BY <1>1, <1>2, <1>3, ResolveInVersion

(* A handler that writes to what it finds finds it in version current.     *)
LEMMA SeenInCurrent ==
  ASSUME IInv, NEW path \in AnyPath, KernelSees(path), Writable(path)
  PROVE  IdAt(Smi, path) \in Held(Current) /\ IdAt(Smi, path) \in DOMAIN inode_pool
<1>1. IdAt(Smi, path) \in Smi.lists[Current] \cup {Nowhere}
  BY AnyPathIsPath, IdAtCurrent DEF IInv
<1> QED BY <1>1, SeenInPool DEF KernelSees, Held, Smi

(* What a step does to fs_stat, seen from the inodes there are before and  *)
(* after it.                                                               *)
StatsKept ==
  \A id \in (DOMAIN inode_pool \cap DOMAIN inode_pool') \ Held(Current) :
    fs_stat'[id] = [fs_stat[id] EXCEPT !.atim = fs_stat'[id].atim]

StatStep == AttrTypeOK' /\ TypesAgree' /\ StatsKept

LEMMA SameStat ==
  ASSUME NEW stat \in Stat
  PROVE  stat = [stat EXCEPT !.atim = stat.atim]
BY DEF Stat

(* A handler of the namespace leaves the stat of the inodes that stay.     *)
LEMMA CarriedStats ==
  ASSUME AttrTypeOK, TypesAgree, SameKind(Smi, Smi'),
         DOMAIN fs_stat' = DOMAIN inode_pool', fs_stat' = [id \in DOMAIN fs_stat' |-> fs_stat'[id]],
         \A id \in DOMAIN inode_pool \cap DOMAIN inode_pool' : fs_stat'[id] = fs_stat[id],
         \A id \in DOMAIN inode_pool' \ DOMAIN inode_pool :
            /\ fs_stat'[id] \in Stat
            /\ fs_stat'[id].type = "directory" <=> inode_pool'[id].is_dentry
  PROVE  StatStep
<1>1. \A id \in DOMAIN inode_pool : fs_stat[id] \in Stat
  BY DEF AttrTypeOK
<1>2. \A id \in DOMAIN inode_pool' : fs_stat'[id] \in Stat
  BY <1>1
<1>3. AttrTypeOK'
  BY <1>2 DEF AttrTypeOK
<1>4. TypesAgree'
  <2>1. \A id \in DOMAIN inode_pool \cap DOMAIN inode_pool' :
           inode_pool'[id].is_dentry = inode_pool[id].is_dentry
    BY DEF SameKind, Smi
  <2> QED BY <2>1 DEF TypesAgree
<1>5. StatsKept
  BY <1>1, SameStat DEF StatsKept
<1> QED BY <1>3, <1>4, <1>5 DEF StatStep

LEMMA MakerStep ==
  ASSUME AttrTypeOK, TypesAgree, NEW is_dir \in BOOLEAN,
         SameKind(Smi, Smi'), NewKind(Smi, Smi', is_dir),
         NEW type \in FileType, type = "directory" <=> is_dir,
         \E stat \in StatOfType(type) : Carry(stat)
  PROVE  StatStep
<1>1. PICK stat \in StatOfType(type) : Carry(stat)
  OBVIOUS
<1>2. stat \in Stat /\ stat.type = type
  BY DEF StatOfType, Stat
<1>3. \A id \in DOMAIN inode_pool' \ DOMAIN inode_pool : inode_pool'[id].is_dentry = is_dir
  BY DEF NewKind, Smi
<1> QED BY <1>1, <1>2, <1>3, CarriedStats DEF Carry

LEMMA RemoverStep ==
  ASSUME AttrTypeOK, TypesAgree, MakesNothing(Smi, Smi'),
         fs_stat' = [id \in DOMAIN inode_pool' |-> fs_stat[id]]
  PROVE  StatStep
<1>1. DOMAIN inode_pool' \subseteq DOMAIN inode_pool
  BY DEF MakesNothing, Smi
<1> QED BY <1>1, CarriedStats DEF MakesNothing

(* One inode gets another stat, of the type it has.                        *)
LEMMA SetterStep ==
  ASSUME AttrTypeOK, TypesAgree, SameKind(Smi, Smi'), DOMAIN inode_pool' = DOMAIN inode_pool,
         NEW id \in DOMAIN inode_pool, NEW stat \in Stat,
         fs_stat' = [fs_stat EXCEPT ![id] = stat], stat.type = fs_stat[id].type,
         id \in Held(Current) \/ stat = [fs_stat[id] EXCEPT !.atim = stat.atim]
  PROVE  StatStep
<1>1. AttrTypeOK'
  BY DEF AttrTypeOK
<1>2. \A x \in DOMAIN inode_pool : inode_pool'[x].is_dentry = inode_pool[x].is_dentry
  BY DEF SameKind, Smi
<1>3. \A x \in DOMAIN inode_pool : fs_stat'[x] = IF x = id THEN stat ELSE fs_stat[x]
  BY DEF AttrTypeOK
<1>4. TypesAgree'
  BY <1>2, <1>3 DEF TypesAgree
<1>5. \A x \in DOMAIN inode_pool : fs_stat[x] \in Stat
  BY DEF AttrTypeOK
<1>6. StatsKept
  BY <1>3, <1>5, SameStat DEF StatsKept
<1> QED BY <1>1, <1>4, <1>6 DEF StatStep

(* ------------------------------- the steps ----------------------------- *)

(* What the handlers that touch nothing but fs_stat leave.                 *)
LEMMA NamespaceStays ==
  ASSUME IInv, UNCHANGED vars
  PROVE  IInv' /\ SameKind(Smi, Smi') /\ DOMAIN inode_pool' = DOMAIN inode_pool
<1>1. Smi' = Smi
  BY DEF vars, Smi
<1>2. IInv'
  BY InvariantStep
<1> QED BY <1>1, <1>2 DEF SameKind, vars

LEMMA StatInPool ==
  ASSUME AttrTypeOK, NEW id \in DOMAIN inode_pool
  PROVE  /\ fs_stat[id] \in Stat
         /\ \A rights \in Rights : [fs_stat[id] EXCEPT !.rights = rights] \in Stat
         /\ \A rights \in Rights : [fs_stat[id] EXCEPT !.type = "regular", !.rights = rights] \in Stat
         /\ \A time \in Time : [fs_stat[id] EXCEPT !.atim = time] \in Stat
<1>1. fs_stat[id] \in Stat
  BY DEF AttrTypeOK
<1> QED BY <1>1 DEF Stat, FileType

LEMMA StepsOfTheNamespace ==
  ASSUME AInv, NEW path \in AnyPath,
         \/ Mkdir(path) \/ Create(path) \/ Mknod(path) \/ Symlink(path)
         \/ Erase(path) \/ Write(path)
  PROVE  IsStep(Smi, Smi') /\ StatStep
<1> USE DEF AInv
<1>1. "directory" \in FileType /\ "regular" \in FileType /\ "fifo" \in FileType /\ "link" \in FileType
  BY DEF FileType
<1>2. CASE Mkdir(path)
  BY <1>1, <1>2, MakeKinds, MakerStep DEF Mkdir
<1>3. CASE Create(path)
  BY <1>1, <1>3, MakeKinds, MakerStep DEF Create
<1>4. CASE Mknod(path)
  BY <1>1, <1>4, MakeKinds, MakerStep DEF Mknod
<1>5. CASE Symlink(path)
  BY <1>1, <1>5, MakeKinds, MakerStep DEF Symlink
<1>6. CASE Erase(path)
  BY <1>6, RemovalKinds, RemoverStep DEF Erase
<1>7. CASE Write(path)
  <2>1. PICK data \in Data : do_write(path, data)
    BY <1>7 DEF Write
  <2>2. IsStep(Smi, Smi') /\ MakesNothing(Smi, Smi') /\ DOMAIN inode_pool' = DOMAIN inode_pool
    BY <2>1, WriteKinds DEF Smi
  <2>3. fs_stat' = [id \in DOMAIN inode_pool' |-> fs_stat[id]]
    BY <1>7, <2>2 DEF Write, AttrTypeOK
  <2> QED BY <2>2, <2>3, RemoverStep
<1> QED BY <1>2, <1>3, <1>4, <1>5, <1>6, <1>7

LEMMA StepsOfTheStat ==
  ASSUME AInv, NEW path \in AnyPath, Read(path) \/ SetRights(path) \/ do_utimens(path)
  PROVE  IInv' /\ StatStep
<1> DEFINE id == IdAt(Smi, path)
<1>1. IInv' /\ SameKind(Smi, Smi') /\ DOMAIN inode_pool' = DOMAIN inode_pool
  BY NamespaceStays DEF AInv, Read, SetRights, do_utimens
<1>2. KernelSees(path)
  BY DEF Read, KernelSeesRegular, SetRights, do_utimens
<1>3. id \in DOMAIN inode_pool
  BY <1>2, SeenInPool DEF AInv
<1>4. fs_stat[id] \in Stat
  BY <1>3, StatInPool DEF AInv
<1>5. ASSUME NEW time \in Time, fs_stat' = [fs_stat EXCEPT ![id].atim = time]
      PROVE  StatStep
  <2> DEFINE stat == [fs_stat[id] EXCEPT !.atim = time]
  <2>1. stat \in Stat
    BY <1>3, StatInPool DEF AInv
  <2>2. fs_stat' = [fs_stat EXCEPT ![id] = stat]
    BY <1>5
  <2>3. stat.type = fs_stat[id].type /\ stat.atim = time
    BY <1>4 DEF Stat
  <2>4. stat = [fs_stat[id] EXCEPT !.atim = stat.atim]
    BY <2>3
  <2> HIDE DEF stat, id
  <2> QED BY <1>1, <1>3, <2>1, <2>2, <2>3, <2>4, SetterStep DEF AInv
<1>6. ASSUME NEW rights \in Rights, fs_stat' = [fs_stat EXCEPT ![id].rights = rights], Writable(path)
      PROVE  StatStep
  <2> DEFINE stat == [fs_stat[id] EXCEPT !.rights = rights]
  <2>1. stat \in Stat
    BY <1>3, StatInPool DEF AInv
  <2>2. fs_stat' = [fs_stat EXCEPT ![id] = stat]
    BY <1>6
  <2>3. stat.type = fs_stat[id].type
    BY <1>4 DEF Stat
  <2>4. id \in Held(Current)
    BY <1>2, <1>6, SeenInCurrent DEF AInv
  <2> HIDE DEF stat, id
  <2> QED BY <1>1, <1>3, <2>1, <2>2, <2>3, <2>4, SetterStep DEF AInv
<1> QED BY <1>1, <1>5, <1>6 DEF Read, SetRights, do_utimens

(* fallocate sets the type the kernel has seen.                            *)
LEMMA FallocateStep ==
  ASSUME AInv, NEW path \in AnyPath, Fallocate(path)
  PROVE  IsStep(Smi, Smi') /\ StatStep
<1> DEFINE id == IdAt(Smi, path)
<1>1. PICK data \in Data : do_write(path, data)
  BY DEF Fallocate
<1>2. IsStep(Smi, Smi') /\ SameKind(Smi, Smi') /\ DOMAIN inode_pool' = DOMAIN inode_pool
  BY <1>1, WriteKinds DEF AInv, MakesNothing, Smi
<1>3. KernelSees(path) /\ Writable(path) /\ fs_stat[id].type = "regular"
  BY <1>1 DEF Fallocate, KernelSeesRegular, StatAt, do_write
<1>4. id \in Held(Current) /\ id \in DOMAIN inode_pool
  BY <1>3, SeenInCurrent DEF AInv
<1>5. PICK rights \in Rights :
        fs_stat' = [fs_stat EXCEPT ![id].type = "regular", ![id].rights = rights]
  BY DEF Fallocate
<1> DEFINE stat == [fs_stat[id] EXCEPT !.type = "regular", !.rights = rights]
<1>6. stat \in Stat /\ fs_stat[id] \in Stat
  BY <1>4, StatInPool DEF AInv
<1>7. stat.type = fs_stat[id].type
  BY <1>3, <1>6 DEF Stat
<1>8. fs_stat' = [fs_stat EXCEPT ![id] = stat]
  BY <1>4, <1>5 DEF AInv, AttrTypeOK
<1> HIDE DEF stat, id
<1>9. StatStep
  BY <1>2, <1>4, <1>6, <1>7, <1>8, SetterStep DEF AInv
<1> QED BY <1>2, <1>9

LEMMA AttrStep ==
  ASSUME AInv, [AttrNext]_statvars
  PROVE  AInv' /\ StatsKept
<1> SUFFICES IInv' /\ StatStep
  BY DEF StatStep, AInv
<1>1. ASSUME IsStep(Smi, Smi') PROVE IInv'
  BY <1>1 DEF IsStep, IInv
<1>2. ASSUME NEW path \in AnyPath,
             \/ Mkdir(path) \/ Create(path) \/ Mknod(path) \/ Symlink(path)
             \/ Erase(path) \/ Write(path)
      PROVE  IInv' /\ StatStep
  BY <1>1, <1>2, StepsOfTheNamespace
<1>3. ASSUME NEW path \in AnyPath, Fallocate(path)
      PROVE  IInv' /\ StatStep
  BY <1>1, <1>3, FallocateStep
<1>4. CASE Rename
  BY <1>1, <1>4, RenameKinds, RemoverStep DEF Rename, AInv
<1>5. CASE UNCHANGED statvars
  <2>1. UNCHANGED vars /\ UNCHANGED fs_stat
    BY <1>5 DEF statvars, vars
  <2>2. IInv' /\ SameKind(Smi, Smi') /\ DOMAIN inode_pool' = DOMAIN inode_pool
    BY <2>1, NamespaceStays DEF AInv
  <2>3. fs_stat' = [id \in DOMAIN inode_pool' |-> fs_stat[id]]
    BY <2>1, <2>2 DEF AInv, AttrTypeOK
  <2>4. MakesNothing(Smi, Smi')
    BY <2>2 DEF MakesNothing, Smi
  <2> QED BY <2>2, <2>3, <2>4, RemoverStep DEF AInv
<1> QED BY <1>2, <1>3, <1>4, <1>5, StepsOfTheStat DEF AttrNext

LEMMA AttrStart ==
  ASSUME AttrInit
  PROVE  AInv
<1>1. IInv
  BY InvariantInit DEF AttrInit
<1>2. DOMAIN inode_pool = {Root} /\ inode_pool[Root].is_dentry = TRUE
  BY DEF AttrInit, Init, Formatted, NewInode
<1>3. StatOfType("directory") \subseteq Stat /\ \A stat \in StatOfType("directory") : stat.type = "directory"
  BY DEF StatOfType, Stat, FileType
<1>4. AttrTypeOK
  BY <1>2, <1>3 DEF AttrInit, AttrTypeOK
<1>5. TypesAgree
  BY <1>2, <1>3 DEF AttrInit, TypesAgree
<1> QED BY <1>1, <1>4, <1>5 DEF AInv

LEMMA AttrInvariant == AttrSpec => []AInv
<1>1. AttrInit => AInv
  BY AttrStart
<1>2. AInv /\ [AttrNext]_statvars => AInv'
  BY AttrStep
<1> QED BY <1>1, <1>2, PTL DEF AttrSpec

(* ------------------------------- theorems ------------------------------ *)

(* fs_stat has an entry for every inode of the pool and for no other: what *)
(* an erased inode had does not go to the next one with its id.            *)
THEOREM AttributesAreTyped == AttrSpec => []AttrTypeOK
<1>1. AInv => AttrTypeOK
  BY DEF AInv
<1> QED BY <1>1, AttrInvariant, PTL

(* do_getattr shows a path as a directory, in version current or in a      *)
(* snapshot, exactly when the filesystem has a directory there: the kernel *)
(* sends every handler to the kind of inode it is written for.             *)
THEOREM KernelIsToldTheType == AttrSpec => []KernelTypesAgree
<1>1. AInv => KernelTypesAgree
  BY SeenInPool DEF AInv, TypesAgree, KernelTypesAgree, StatAt, IsDir, Smi
<1> QED BY <1>1, AttrInvariant, PTL

(* chmod, chown, utimens and fallocate reach the inodes of version current *)
(* only: what a snapshot alone holds keeps its type and its rights.        *)
THEOREM RemovedFilesKeepTheirStat == AttrSpec => RemovedKeepsItsStat
<1>1. AInv /\ [AttrNext]_statvars => [StatsKept]_statvars
  BY AttrStep
<1>2. AttrSpec => [][AttrNext]_statvars
  BY DEF AttrSpec
<1> QED BY <1>1, <1>2, AttrInvariant, PTL DEF RemovedKeepsItsStat, StatsKept
=============================================================================
