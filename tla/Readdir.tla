------------------------------- MODULE Readdir ------------------------------
(***************************************************************************)
(* do_readdir and do_getattr over the namespace of FuseOps: what a         *)
(* directory lists against what is found below it.  Neither changes the    *)
(* namespace.  Attributes shows that getattr's type is IsDir.              *)
(***************************************************************************)
EXTENDS FuseOps

SnapshotRoot == <<SNAPSHOT_ENTRY>>

(* do_getattr: /.snapshot itself, and what get_inode_id_by_path finds.     *)
Shown(path) == path = SnapshotRoot \/ KernelSees(path)

(* Mutant: the directory as version current has it.                        *)
EntriesOfCurrent(path) == DOMAIN Dentries(Smi, IdAt(Smi, path), Current)

(* The dentries of the directory in the version of the path.               *)
Entries(path) == DOMAIN Dentries(Smi, IdAt(Smi, path), VersionOf(path))

(* The names do_readdir fills in, without "." and "..": each call of       *)
(* filler counts, in whatever order the resolver has its dentries.  / has  *)
(* /.snapshot besides its own.                                             *)
Listing(path) ==
  IF path = SnapshotRoot THEN SetToBag(DOMAIN snapshot_version_list)
  ELSE SetToBag(Entries(path)) (+) SetToBag(IF path = <<>> THEN {SNAPSHOT_ENTRY} ELSE {})

Listable == {path \in AnyPath : KernelSeesDir(path)} \cup {SnapshotRoot}

(* ------------------------------ properties ----------------------------- *)

Times(n, listing) == IF BagIn(n, listing) THEN listing[n] ELSE 0

(* The root of the tree has an entry of its own called .snapshot: mkdir    *)
(* /.snapshot/current/.snapshot makes one.                                 *)
HidesAnEntry == IdAt(Smi, AsWritten(SnapshotRoot)) # Nowhere

(* A directory lists the names that getattr finds below it, each of them   *)
(* once, and no other, in every version, in /.snapshot and in a directory  *)
(* of the tree that happens to have that name.  The one exception is /: an *)
(* entry .snapshot of the tree, which getattr does not find there, is      *)
(* listed as well, so that / has two of that name.                         *)
ListingIsExact ==
  LET Names == Name \cup Version \cup {Current, SNAPSHOT_ENTRY}
  IN  \A path \in Listable :
        /\ BagToSet(Listing(path)) \subseteq Names
        /\ \A n \in Names :
             Times(n, Listing(path)) =
               IF ~Shown(Append(path, n)) THEN 0
               ELSE IF path = <<>> /\ n = SNAPSHOT_ENTRY /\ HidesAnEntry THEN 2 ELSE 1
=============================================================================
