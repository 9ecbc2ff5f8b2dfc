----------------------------- MODULE Attributes -----------------------------
(***************************************************************************)
(* The attributes of inodes (fs_stat) beside the namespace of FuseOps:     *)
(* every handler of FuseOps with what it does to fs_stat, and the handlers *)
(* that change nothing else.  fs_stat is one per inode, whatever version   *)
(* it is reached in.                                                       *)
(*                                                                         *)
(* Of struct stat the file type, the rights and st_atim are kept.  Rights  *)
(* stand for the permission bits, st_uid and st_gid, which a handler may   *)
(* set to any of them.  st_mtim and st_ctim are set where the rest is, and *)
(* read by nothing.  get_current_time may be any Time: a clock can be set. *)
(***************************************************************************)
EXTENDS FuseOps

CONSTANTS Rights, Time

VARIABLE fs_stat   \* inode id -> [type, rights, atim]

statvars == <<inode_pool, snapshot_version_list, fs_stat>>

(* Of the special files of mknod one stands for all; an inode has no type  *)
(* before its st_mode is set.                                              *)
FileType == {"directory", "regular", "link", "fifo", "none"}
Stat == [type : FileType, rights : Rights, atim : Time]
StatOfType(type) == [type : {type}, rights : Rights, atim : Time]

(* do_getattr                                                              *)
StatAt(path) == fs_stat[IdAt(Smi, path)]

(* ------------------------------- handlers ------------------------------ *)

(* main of mount.htmpfs sets up the root.                                  *)
AttrInit == Init /\ fs_stat \in [{Root} -> StatOfType("directory")]

(* fs_stat lives and dies with its inode.  make_child_dentry_under_parent  *)
(* makes at most one inode, which gets the stat the handler fills in.      *)
Carry(new) ==
  fs_stat' = [id \in DOMAIN inode_pool' |-> IF id \in DOMAIN inode_pool THEN fs_stat[id] ELSE new]

(* Mutant: the mode as mkdir(2) has it, without a type.                    *)
MkdirBareMode(path) == do_mkdir(path) /\ \E stat \in StatOfType("none") : Carry(stat)

Mkdir(path) == do_mkdir(path) /\ \E stat \in StatOfType("directory") : Carry(stat)

(* The kernel sends the mode of create and mknod with its type.            *)
Create(path) == do_create(path) /\ \E stat \in StatOfType("regular") : Carry(stat)
Mknod(path) == do_create(path) /\ \E stat \in StatOfType("fifo") : Carry(stat)
Symlink(path) == do_symlink(path) /\ \E stat \in StatOfType("link") : Carry(stat)

(* Mutant: an erased inode leaves its attributes to the next with its id.  *)
EraseKeepingStat(path) == (do_unlink(path) \/ do_rmdir(path)) /\ UNCHANGED fs_stat

Erase(path) ==
  /\ do_unlink(path) \/ do_rmdir(path)
  /\ fs_stat' = [id \in DOMAIN inode_pool' |-> fs_stat[id]]

Rename ==
  /\ Renames(PlainPath)
  /\ fs_stat' = [id \in DOMAIN inode_pool' |-> fs_stat[id]]

(* The kernel reads, writes and allocates in regular files only.           *)
KernelSeesRegular(path) == KernelSees(path) /\ StatAt(path).type = "regular"

Write(path) ==
  /\ KernelSeesRegular(path)
  /\ \E data \in Data : do_write(path, data)
  /\ UNCHANGED fs_stat

(* The mode of fallocate is a set of flags: what they leave of the         *)
(* permission bits is among the rights.                                    *)
Fallocate(path) ==
  /\ KernelSeesRegular(path)
  /\ \E data \in Data : do_write(path, data)
  /\ \E rights \in Rights :
       fs_stat' = [fs_stat EXCEPT ![IdAt(Smi, path)].type = "regular",
                                  ![IdAt(Smi, path)].rights = rights]

(* st_atim changes in whatever version the file is read.                   *)
Read(path) ==
  /\ KernelSeesRegular(path)
  /\ \E now \in Time : fs_stat' = [fs_stat EXCEPT ![IdAt(Smi, path)].atim = now]
  /\ UNCHANGED vars

(* Mutant: CHECK_RDONLY_FS left out.                                       *)
SetRightsAnywhere(path) ==
  /\ KernelSees(path)
  /\ \E rights \in Rights : fs_stat' = [fs_stat EXCEPT ![IdAt(Smi, path)].rights = rights]
  /\ UNCHANGED vars

(* do_chmod, with the type the kernel was shown, and do_chown.             *)
SetRights(path) ==
  /\ Writable(path) /\ KernelSees(path)
  /\ \E rights \in Rights : fs_stat' = [fs_stat EXCEPT ![IdAt(Smi, path)].rights = rights]
  /\ UNCHANGED vars

do_utimens(path) ==
  /\ Writable(path) /\ KernelSees(path)
  /\ \E time \in Time : fs_stat' = [fs_stat EXCEPT ![IdAt(Smi, path)].atim = time]
  /\ UNCHANGED vars

AttrNext ==
  \/ \E path \in AnyPath :
       \/ Mkdir(path) \/ Create(path) \/ Mknod(path) \/ Symlink(path) \/ Erase(path)
       \/ Write(path) \/ Fallocate(path) \/ Read(path)
       \/ SetRights(path) \/ do_utimens(path)
  \/ Rename

AttrSpec == AttrInit /\ [][AttrNext]_statvars

(* ------------------------------ properties ----------------------------- *)

(* Types; every inode of the pool has its attributes and no other has.     *)
AttrTypeOK == fs_stat \in [DOMAIN inode_pool -> Stat]

(* The kernel goes by st_mode, the filesystem by is_dentry: whatever       *)
(* chmod, fallocate, the removals and the ids used again have done, a path *)
(* is shown as a directory in a version exactly when it is one there, so   *)
(* that rmdir and readdir are never sent to a file, or unlink to a         *)
(* directory.                                                              *)
KernelTypesAgree ==
  \A path \in AnyPath : KernelSees(path) =>
    (StatAt(path).type = "directory" <=> IsDir(Smi, IdAt(Smi, path)))

(* One fs_stat serves all versions; still, once a file has left version    *)
(* current no call changes what its snapshots show, but for st_atim.       *)
RemovedKeepsItsStat ==
  [][\A id \in (DOMAIN inode_pool \cap DOMAIN inode_pool') \ Held(Current) :
       fs_stat'[id] = [fs_stat[id] EXCEPT !.atim = fs_stat'[id].atim]]_statvars
=============================================================================
