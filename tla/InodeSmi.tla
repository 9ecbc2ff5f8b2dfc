------------------------------ MODULE InodeSmi ------------------------------
(***************************************************************************)
(* inode_smi_t's namespace: the inode pool with its link counts, the lists *)
(* of inodes each version holds, and the dentries directories keep as      *)
(* their content.  The operators take and return the state as a record     *)
(*   [pool  : inode id -> [link_count, is_dentry, buffer_map],             *)
(*    lists : version -> set of inode ids]                                 *)
(* so that a handler can call several of them in a row.                    *)
(*                                                                         *)
(* What inode_t stores is a value per version here: BlockStore shows that  *)
(* blocks and copy-on-write behave so.  A directory stores its dentries, a *)
(* function from names to ids, a file a member of Data.  The vector of a   *)
(* version is a set: its order is never read, and an id added to it is one *)
(* the pool did not have (see ListsMatchPool in FuseOps).                  *)
(***************************************************************************)
EXTENDS Integers, FiniteSets, Sequences

CONSTANTS Name,       \* names of dentries, shorter than 128 bytes
          Version,    \* names of snapshots
          Data,       \* contents of files
          NoData,     \* the content of a new file
          MaxInodes   \* bound on the inode pool, the root included

(* FILESYSTEM_CUR_MODIFIABLE_VER, SNAPSHOT_ENTRY, FILESYSTEM_ROOT_INODE_NUMBER *)
Current == "current"
SNAPSHOT_ENTRY == ".snapshot"
Root == 0

ASSUME InodeSmiAssumption ==
  /\ Current \notin Version
  /\ NoData \in Data
  /\ MaxInodes \in Nat \ {0}

(* What a lookup that throws returns.                                      *)
Nowhere == -1

NoDentries == [n \in {} |-> Root]

NewInode(is_dir) ==
  [link_count |-> 1, is_dentry |-> is_dir,
   buffer_map |-> [v \in {Current} |-> IF is_dir THEN NoDentries ELSE NoData]]

(* inode_smi_t's constructor.                                              *)
Formatted == [pool  |-> [id \in {Root} |-> NewInode(TRUE)],
              lists |-> [v \in {Current} |-> {Root}]]

(* get_free_id: the first free id from the size of the pool on.            *)
FreeId(pool) ==
  LET size == Cardinality(DOMAIN pool)
      free == (size .. 2 * size) \ DOMAIN pool
  IN  CHOOSE id \in free : \A x \in free : id <= x

(* ---------------------------- dentries --------------------------------- *)

IsDir(smi, id) == id \in DOMAIN smi.pool /\ smi.pool[id].is_dentry

(* directory_resolver_t::refresh, and the entry namei looks up in it.      *)
Dentries(smi, dir, v) == smi.pool[dir].buffer_map[v]

HasDentry(smi, dir, v, n) ==
  /\ IsDir(smi, dir)
  /\ v \in DOMAIN smi.pool[dir].buffer_map
  /\ n \in DOMAIN Dentries(smi, dir, v)

(* Mutant: the new dentry goes to every version of the directory.          *)
AddDentryEverywhere(smi, dir, n, id) ==
  [smi EXCEPT !.pool[dir].buffer_map =
     [v \in DOMAIN @ |-> [m \in DOMAIN @[v] \cup {n} |-> IF m = n THEN id ELSE @[v][m]]]]

(* add_path or remove_path on version current, then save_current.          *)
AddDentry(smi, dir, n, id) ==
  [smi EXCEPT !.pool[dir].buffer_map[Current] =
     [m \in DOMAIN @ \cup {n} |-> IF m = n THEN id ELSE @[m]]]

DropDentry(smi, dir, n) ==
  [smi EXCEPT !.pool[dir].buffer_map[Current] = [m \in DOMAIN @ \ {n} |-> @[m]]]

(* get_inode_id_by_path below a version: one namei per name.               *)
Resolve(smi, v, names) ==
  LET walk[k \in 0..Len(names)] ==
        IF k = 0 THEN Root
        ELSE IF HasDentry(smi, walk[k - 1], v, names[k])
             THEN Dentries(smi, walk[k - 1], v)[names[k]]
             ELSE Nowhere
  IN  walk[Len(names)]

(* ------------------------- inodes and versions ------------------------- *)

(* Mutants: an inode is erased whatever its links, or never erased.        *)
EraseLinked(pool, id) == [x \in DOMAIN pool \ {id} |-> pool[x]]
UnlinkWithoutErase(pool, id) == [pool EXCEPT ![id].link_count = @ - 1]

(* unlink_inode                                                            *)
Unlink(pool, id) ==
  IF pool[id].link_count = 1 THEN [x \in DOMAIN pool \ {id} |-> pool[x]]
  ELSE [pool EXCEPT ![id].link_count = @ - 1]

(* make_child_dentry_under_parent                                          *)
CanMakeChild(smi, parent, n) ==
  IsDir(smi, parent) /\ ~HasDentry(smi, parent, Current, n)

MakeChild(smi, parent, n, is_dir) ==
  LET id  == FreeId(smi.pool)
      new == [smi EXCEPT !.pool = [x \in DOMAIN @ \cup {id} |->
                                     IF x = id THEN NewInode(is_dir) ELSE @[x]],
                         !.lists[Current] = @ \cup {id}]
  IN  AddDentry(new, parent, n, id)

(* Mutant: a directory may be removed with what it holds.                  *)
CanRemoveAny(smi, parent, n) == HasDentry(smi, parent, Current, n)

(* remove_child_dentry_under_parent: a directory must be empty.            *)
CanRemoveChild(smi, parent, n) ==
  /\ HasDentry(smi, parent, Current, n)
  /\ LET id == Dentries(smi, parent, Current)[n]
     IN  IsDir(smi, id) => Dentries(smi, id, Current) = NoDentries

RemoveChild(smi, parent, n) ==
  LET id   == Dentries(smi, parent, Current)[n]
      left == DropDentry(smi, parent, n)
  IN  [pool |-> Unlink(left.pool, id), lists |-> [left.lists EXCEPT ![Current] = @ \ {id}]]

(* create_snapshot_volume: link_inode and create_new_volume on every inode *)
(* of version current, whose list the snapshot copies.                     *)
CanSnapshot(smi, v) == v \notin DOMAIN smi.lists

CreateSnapshot(smi, v) ==
  LET held == smi.lists[Current]
      Frozen(inode) ==
        [inode EXCEPT !.link_count = @ + 1,
                      !.buffer_map = [w \in DOMAIN @ \cup {v} |->
                                        IF w = v THEN @[Current] ELSE @[w]]]
  IN  [pool  |-> [id \in DOMAIN smi.pool |->
                    IF id \in held THEN Frozen(smi.pool[id]) ELSE smi.pool[id]],
       lists |-> [w \in DOMAIN smi.lists \cup {v} |-> IF w = v THEN held ELSE smi.lists[w]]]

(* Mutant: unlink_inode without delete_volume.                             *)
DeleteOnlyLinks(smi, v) ==
  LET held == smi.lists[v]
      gone == {id \in held : smi.pool[id].link_count = 1}
  IN  [pool  |-> [id \in DOMAIN smi.pool \ gone |->
                    IF id \in held THEN [smi.pool[id] EXCEPT !.link_count = @ - 1]
                    ELSE smi.pool[id]],
       lists |-> [w \in DOMAIN smi.lists \ {v} |-> smi.lists[w]]]

(* delete_snapshot_volume: delete_volume, which throws on version current  *)
(* before anything has changed, and unlink_inode on every inode of the     *)
(* snapshot.                                                               *)
CanDropSnapshot(smi, v) == v # Current /\ v \in DOMAIN smi.lists

DeleteSnapshot(smi, v) ==
  LET held == smi.lists[v]
      gone == {id \in held : smi.pool[id].link_count = 1}
      Thawed(inode) ==
        [inode EXCEPT !.link_count = @ - 1,
                      !.buffer_map = [w \in DOMAIN @ \ {v} |-> @[w]]]
  IN  [pool  |-> [id \in DOMAIN smi.pool \ gone |->
                    IF id \in held THEN Thawed(smi.pool[id]) ELSE smi.pool[id]],
       lists |-> [w \in DOMAIN smi.lists \ {v} |-> smi.lists[w]]]
=============================================================================
