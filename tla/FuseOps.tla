------------------------------ MODULE FuseOps -------------------------------
(***************************************************************************)
(* The FUSE handlers over inode_smi_t, one action per handler that changes *)
(* the namespace or a file.  The filesystem is mounted single-threaded     *)
(* (-s), so a handler is one step, with every call it makes.               *)
(*                                                                         *)
(* A path is the sequence of names path_t makes of what the kernel sends.  *)
(* /.snapshot/v/... names the tree of snapshot v, and the same tree as /   *)
(* when v is current.  MaxInodes bounds the inode pool.                    *)
(***************************************************************************)
EXTENDS InodeSmi, SequencesExt

CONSTANTS Dir,       \* stands for a directory in a tree; no member of Data
          LinkText   \* the content do_symlink writes: the path of the link

ASSUME FuseOpsAssumption == Dir \notin Data /\ LinkText \in Data

VARIABLES inode_pool,             \* inode id -> [link_count, is_dentry, buffer_map]
          snapshot_version_list   \* version -> set of inode ids

vars == <<inode_pool, snapshot_version_list>>

Smi == [pool |-> inode_pool, lists |-> snapshot_version_list]
Become(smi) == inode_pool' = smi.pool /\ snapshot_version_list' = smi.lists

(* -------------------------------- paths -------------------------------- *)

InTree == UNION {[1..k -> Name] : k \in 0..MaxInodes - 1}
InVersion(v) == {<<SNAPSHOT_ENTRY, v>> \o p : p \in InTree}

(* if_snapshot: it throws on /.snapshot itself.                            *)
Parsable(path) == path # <<SNAPSHOT_ENTRY>>
Below(path) == path # <<>> /\ Head(path) = SNAPSHOT_ENTRY

(* Paths that do not go through /.snapshot/current, and all paths.         *)
PlainPath == {p \in InTree : ~Below(p)} \cup UNION {InVersion(v) : v \in Version}
AnyPath == PlainPath \cup InVersion(Current)

VersionOf(path) == IF Below(path) THEN path[2] ELSE Current
NamesOf(path) == IF Below(path) THEN SubSeq(path, 3, Len(path)) ELSE path

(* get_inode_id_by_path                                                    *)
IdAt(smi, path) ==
  IF ~Parsable(path) \/ VersionOf(path) \notin DOMAIN smi.lists THEN Nowhere
  ELSE Resolve(smi, VersionOf(path), NamesOf(path))

(* CHECK_RDONLY_FS                                                         *)
Writable(path) == Parsable(path) /\ VersionOf(path) = Current

(* What the kernel has looked up before it calls a handler.                *)
KernelSees(path) == IdAt(Smi, path) # Nowhere
KernelSeesDir(path) == KernelSees(path) /\ IsDir(Smi, IdAt(Smi, path))
KernelSeesFile(path) == KernelSees(path) /\ ~IsDir(Smi, IdAt(Smi, path))
KernelRenames(path, name) ==
  /\ KernelSees(path)
  /\ ~IsPrefix(path, name) /\ ~IsPrefix(name, path)
  /\ KernelSees(name) => (KernelSeesDir(path) <=> KernelSeesDir(name))

(* ------------------------------- handlers ------------------------------ *)

Init == inode_pool = Formatted.pool /\ snapshot_version_list = Formatted.lists

(* make_child_dentry_under_parent at a path, within the bound on the pool; *)
(* a file may be given its first content in the same handler.              *)
MakeAt(path, is_dir, data) ==
  LET parent == IdAt(Smi, Front(path))
      made   == MakeChild(Smi, parent, Last(path), is_dir)
  IN  /\ path # <<>> /\ Writable(path)
      /\ CanMakeChild(Smi, parent, Last(path))
      /\ Cardinality(DOMAIN inode_pool) < MaxInodes
      /\ Become(IF is_dir THEN made
                ELSE [made EXCEPT !.pool[FreeId(inode_pool)].buffer_map[Current] = data])

do_mkdir(path) ==
  \/ /\ path # <<>> /\ Front(path) = <<SNAPSHOT_ENTRY>>
     /\ CanSnapshot(Smi, Last(path))
     /\ Become(CreateSnapshot(Smi, Last(path)))
  \/ MakeAt(path, TRUE, NoData)

(* do_create and do_mknod.  do_truncate would create a missing file too,   *)
(* but the kernel has looked the path up before it calls do_truncate.      *)
do_create(path) == MakeAt(path, FALSE, NoData)

(* The text of the link is only checked, what is stored is its own path.   *)
do_symlink(path) == MakeAt(path, FALSE, LinkText)

(* Mutant: the bytes reach every version of the file.                      *)
WriteThrough(path, data) ==
  /\ Writable(path) /\ KernelSeesFile(path)
  /\ inode_pool' = [inode_pool EXCEPT ![IdAt(Smi, path)].buffer_map = [v \in DOMAIN @ |-> data]]
  /\ UNCHANGED snapshot_version_list

(* do_write, do_truncate, do_ftruncate, do_fallocate: new bytes in a file. *)
do_write(path, data) ==
  /\ Writable(path) /\ KernelSeesFile(path)
  /\ inode_pool' = [inode_pool EXCEPT ![IdAt(Smi, path)].buffer_map[Current] = data]
  /\ UNCHANGED snapshot_version_list

(* Mutant: the parent is looked up one directory too high.                 *)
RemoveFromGrandparent(path) ==
  LET parent == Resolve(Smi, Current, SubSeq(path, 1, Len(path) - 2))
  IN  /\ path # <<>> /\ Writable(path)
      /\ CanRemoveChild(Smi, parent, Last(path))
      /\ Become(RemoveChild(Smi, parent, Last(path)))

(* remove_inode_by_path walks the path as it is, without if_snapshot:      *)
(* below /.snapshot it finds nothing to remove.                            *)
RemoveByPath(path) ==
  LET parent == Resolve(Smi, Current, Front(path))
  IN  /\ path # <<>> /\ Writable(path)
      /\ CanRemoveChild(Smi, parent, Last(path))
      /\ Become(RemoveChild(Smi, parent, Last(path)))

do_unlink(path) == KernelSeesFile(path) /\ RemoveByPath(path)

do_rmdir(path) ==
  /\ path # <<>> /\ KernelSeesDir(path) /\ Last(path) # SNAPSHOT_ENTRY
  /\ IF Front(path) = <<SNAPSHOT_ENTRY>>
     THEN /\ CanDropSnapshot(Smi, Last(path))
          /\ Become(DeleteSnapshot(Smi, Last(path)))
     ELSE RemoveByPath(path)

(* do_rename: the new dentry first, replacing one of that name, then the   *)
(* old one out of its directory, which is looked up again.  When the second *)
(* part throws, the first is not undone.                                   *)
Linked(path, name) ==
  LET parent  == IdAt(Smi, Front(name))
      cleared == IF HasDentry(Smi, parent, Current, Last(name))
                 THEN RemoveChild(Smi, parent, Last(name)) ELSE Smi
  IN  AddDentry(cleared, parent, Last(name), IdAt(Smi, path))

(* Mutant: the old dentry stays.                                           *)
LinkedTwice(path, name) == Linked(path, name)

Renamed(path, name) ==
  LET linked == Linked(path, name)
      parent == IdAt(linked, Front(path))
  IN  IF HasDentry(linked, parent, Current, Last(path))
      THEN DropDentry(linked, parent, Last(path)) ELSE linked

do_rename(path, name) ==
  LET parent == IdAt(Smi, Front(name))
  IN  /\ path # <<>> /\ name # <<>>
      /\ Writable(path) /\ Writable(name)
      /\ KernelRenames(path, name)
      /\ IsDir(Smi, parent)
      /\ HasDentry(Smi, parent, Current, Last(name)) => CanRemoveChild(Smi, parent, Last(name))
      /\ Become(Renamed(path, name))

Edits ==
  \E path \in AnyPath :
    \/ do_mkdir(path) \/ do_create(path) \/ do_symlink(path)
    \/ \E data \in Data : do_write(path, data)
    \/ do_unlink(path) \/ do_rmdir(path)

Renames(Paths) ==
  \E path \in Paths :
    Writable(path) /\ KernelSees(path) /\ \E name \in Paths : do_rename(path, name)

(* The current tree is also reached as /.snapshot/current.  Spec is for    *)
(* programs that do not rename there, AnySpec for all of them.             *)
Next == Edits \/ Renames(PlainPath)
Spec == Init /\ [][Next]_vars

AnyNext == Edits \/ Renames(AnyPath)
AnySpec == Init /\ [][AnyNext]_vars

(* ------------------------------ properties ----------------------------- *)

Versions == DOMAIN snapshot_version_list
Held(v) == snapshot_version_list[v]

(* Types, and the root's place in every version.                           *)
TypeOK ==
  /\ DOMAIN inode_pool \subseteq 0 .. 2 * MaxInodes
  /\ Current \in Versions /\ Versions \subseteq Version \cup {Current}
  /\ \A id \in DOMAIN inode_pool :
       LET inode == inode_pool[id]
       IN  /\ inode.link_count \in Nat \ {0} /\ inode.is_dentry \in BOOLEAN
           /\ Current \in DOMAIN inode.buffer_map
           /\ \A v \in DOMAIN inode.buffer_map :
                IF inode.is_dentry
                THEN /\ DOMAIN inode.buffer_map[v] \subseteq Name
                     /\ \A n \in DOMAIN inode.buffer_map[v] : inode.buffer_map[v][n] \in Nat
                ELSE inode.buffer_map[v] \in Data
  /\ \A v \in Versions : Root \in Held(v)

(* The pool holds exactly the inodes some version holds, each with one     *)
(* link per version: none is erased while a version needs it, none stays   *)
(* when the last one lets it go, and no id is handed out twice.            *)
ListsMatchPool ==
  /\ DOMAIN inode_pool = UNION {Held(v) : v \in Versions}
  /\ \A id \in DOMAIN inode_pool :
       inode_pool[id].link_count = Cardinality({v \in Versions : id \in Held(v)})

(* An inode stores a version exactly when a snapshot holds it (and always  *)
(* version current): create_new_volume never meets a version it has, and   *)
(* delete_volume never misses one, so that neither throws half-way through *)
(* the list of create_snapshot_volume or delete_snapshot_volume.           *)
VolumesMatchLists ==
  \A id \in DOMAIN inode_pool :
    DOMAIN inode_pool[id].buffer_map = {Current} \cup {v \in Versions : id \in Held(v)}

(* The places in version v that name an inode.                             *)
Places(v, id) ==
  {place \in (Held(v) \cap DOMAIN inode_pool) \X Name :
     /\ HasDentry(Smi, place[1], v, place[2])
     /\ Dentries(Smi, place[1], v)[place[2]] = id}

Reached(v) == {Resolve(Smi, v, path) : path \in InTree} \ {Nowhere}

(* Every version is a tree: what its dentries reach from the root is what  *)
(* the version holds, and every inode but the root is in one place.        *)
IsTree(v) ==
  /\ Reached(v) = Held(v)
  /\ \A id \in Held(v) : Cardinality(Places(v, id)) = (IF id = Root THEN 0 ELSE 1)
TreeShape == \A v \in Versions : IsTree(v)

(* A handler that changes the current tree leaves every snapshot that      *)
(* exists before and after it as it was: the inodes it holds are the same  *)
(* ones with the same content, even when their ids leave version current.  *)
SnapshotsUntouched ==
  \A v \in (Versions \cap DOMAIN snapshot_version_list') \ {Current} :
    /\ snapshot_version_list'[v] = Held(v)
    /\ \A id \in Held(v) : /\ id \in DOMAIN inode_pool'
                           /\ inode_pool'[id].buffer_map[v] = inode_pool[id].buffer_map[v]
SnapshotsAreReadOnly == [][SnapshotsUntouched]_vars

(* The handlers implement VersionedTree: inodes, link counts, shared       *)
(* directories and the two halves of do_rename are invisible in the trees. *)
NodeAt(v, path) ==
  LET id == Resolve(Smi, v, path)
  IN  IF IsDir(Smi, id) THEN Dir ELSE inode_pool[id].buffer_map[v]
Trees == [v \in Versions |->
            [path \in {p \in InTree : Resolve(Smi, v, p) # Nowhere} |-> NodeAt(v, path)]]

Abstract == INSTANCE VersionedTree WITH tree <- Trees, Path <- InTree
ImplementsVersionedTree == Abstract!Spec

(* What do_rename says it does after the new dentry ("second, remove dentry *)
(* in parent inode") and export_as_filesystem_map says it walks            *)
(* ("recursively check filesystem tree"): version current, however it is   *)
(* reached, is a tree.                                                     *)
CurrentIsTree == IsTree(Current)

(* Where version current has what path says as it is written, with a name  *)
(* .snapshot at its beginning taken for one of the tree.                   *)
AsWritten(path) == IF Below(path) THEN <<SNAPSHOT_ENTRY, Current>> \o path ELSE path

(* remove_inode_by_path walks its path without if_snapshot, every lookup   *)
(* goes through it: what a removal takes out is found at the path as it is *)
(* written, which below /.snapshot/current is not the inode looked up, but *)
(* one of a directory .snapshot of the tree.  After it no path leads there *)
(* in version current, and every other path leads where it led before.     *)
RemovesAsWritten ==
  [][\A path \in AnyPath :
       do_unlink(path) \/ (do_rmdir(path) /\ Front(path) # <<SNAPSHOT_ENTRY>>) =>
         LET gone == IdAt(Smi, AsWritten(path))
         IN  /\ gone # Nowhere
             /\ \A p \in AnyPath :
                  IdAt(Smi, p)' = IF VersionOf(p) = Current /\ IdAt(Smi, p) = gone
                                  THEN Nowhere ELSE IdAt(Smi, p)]_vars
=============================================================================
