----------------------------- MODULE ExportMap ------------------------------
(***************************************************************************)
(* inode_smi_t::export_as_filesystem_map: the walk of one version's tree,  *)
(* directory by directory, on whatever tree the handlers have built.       *)
(*                                                                         *)
(* The walk is one call of a single-threaded program, so that no handler   *)
(* runs before it has returned.  It resolves every path it lists again     *)
(* from the root, and nothing but the shape of the tree bounds it.         *)
(***************************************************************************)
EXTENDS Readdir, PathText

VARIABLES version,          \* the version that is walked, or Idle
          dentry_list,      \* paths to be listed, the next one first
          filesystem_map    \* paths listed so far

walk == <<version, dentry_list, filesystem_map>>
allvars == <<vars, walk>>

Idle == "idle"
ASSUME ExportMapAssumption == Idle \notin Name \cup Version

At(v, list, map) == version' = v /\ dentry_list' = list /\ filesystem_map' = map

(* Mutant: a path that was listed stays in the list.                       *)
ListedAgain(children) == children \o dentry_list

(* recursion_check on the children of the first path, then on the others.  *)
Pending(children) == children \o Tail(dentry_list)

(* recursion_check hands the path over with a slash at its end.            *)
Prefix(text) == IF text = Slash THEN text ELSE text \o Slash

(* if_snapshot on the first path, in the version that is walked.           *)
Split == if_snapshot(make_path_with_version(Prefix(Head(dentry_list)), version))

(* Mutant: the entries of version current, whatever version is walked.     *)
ListedCurrent(id) == DOMAIN Dentries(Smi, id, Current)

(* get_sub_inode_list_by_parent                                            *)
Listed(id) == DOMAIN Dentries(Smi, id, version)

ExportInit == Init /\ version = Idle /\ dentry_list = <<>> /\ filesystem_map = <<>>

Handler == version = Idle /\ Next /\ UNCHANGED walk

export_as_filesystem_map(v) ==
  /\ version = Idle /\ v \in DOMAIN snapshot_version_list
  /\ At(v, <<Slash>>, <<>>) /\ UNCHANGED vars

(* make_path_for_current_dentry on a directory, whose entries come in the  *)
(* order it stores them, and on anything else.                             *)
ListDirectory(id) ==
  /\ IsDir(Smi, id)
  /\ \E names \in SetToSeqs(Listed(id)) :
       LET children == [k \in DOMAIN names |-> Append(Prefix(Head(dentry_list)), names[k])]
       IN  At(version, Pending(children), filesystem_map \o children)

SkipFile(id) ==
  id # Nowhere /\ ~IsDir(Smi, id) /\ At(version, Pending(<<>>), filesystem_map)

(* get_inode_id_by_path throws, out of the whole walk.                     *)
Throw(id) == id = Nowhere /\ At(Idle, <<>>, <<>>)

(* Each value is bound before it is used, for TLC to compute it once.      *)
Visit ==
  /\ version # Idle /\ dentry_list # <<>> /\ UNCHANGED vars
  /\ \E split \in {Split} :
       \E names \in {path_t(split.output)} :
         \E id \in {LookUp(Smi, split, names)} : ListDirectory(id) \/ SkipFile(id) \/ Throw(id)

(* Mutant: what was listed stays for the next export.                      *)
ReturnStale ==
  /\ version # Idle /\ dentry_list = <<>>
  /\ At(Idle, <<>>, filesystem_map) /\ UNCHANGED vars

Return ==
  /\ version # Idle /\ dentry_list = <<>>
  /\ At(Idle, <<>>, <<>>) /\ UNCHANGED vars

Walk == Visit \/ Return

ExportNext ==
  \/ Handler
  \/ \E v \in Version \cup {Current} : export_as_filesystem_map(v)
  \/ Walk

(* A call that has begun goes on: its loop waits for nothing.              *)
ExportSpec == ExportInit /\ [][ExportNext]_allvars /\ WF_allvars(Walk)

(* ------------------------------ properties ----------------------------- *)

(* The walk holds texts of paths only, and only while an export runs.      *)
IsText(text) == path_t(text) \in InTree /\ text = to_string(path_t(text))
WalkTypeOK ==
  /\ version \in Versions \cup {Idle}
  /\ \A k \in DOMAIN dentry_list : dentry_list[k] = Slash \/ IsText(dentry_list[k])
  /\ \A k \in DOMAIN filesystem_map : IsText(filesystem_map[k])
  /\ version = Idle => dentry_list = <<>> /\ filesystem_map = <<>>

(* export_as_filesystem_map returns every path of the version once, and a  *)
(* directory before what is in it ("recursively check filesystem tree").   *)
ExportIsExact ==
  LET paths == [k \in DOMAIN filesystem_map |-> path_t(filesystem_map[k])]
  IN  (version # Idle /\ dentry_list = <<>>) =>
        /\ Range(paths) = {p \in InTree \ {<<>>} : Resolve(Smi, version, p) # Nowhere}
        /\ \A j, k \in DOMAIN paths : /\ paths[j] = paths[k] => j = k
                                     /\ IsPrefix(paths[j], paths[k]) => j <= k

(* What make_path_with_version joins, if_snapshot splits again: the walk   *)
(* looks its paths up in the version it walks, but where version current   *)
(* has a /.snapshot of its own, which if_snapshot takes for the snapshots. *)
VersionIsReadBack ==
  \A k \in DOMAIN dentry_list :
    LET prefix == Prefix(dentry_list[k])
        split  == if_snapshot(make_path_with_version(prefix, version))
    IN  \/ /\ ~split.throws /\ split.version = version
           /\ path_t(split.output) = path_t(prefix)
        \/ version = Current /\ Head(path_t(prefix)) = SNAPSHOT_ENTRY

(* Every visit leaves one inode of the version less to be visited, however *)
(* many paths it puts into the list: what bounds the walk is the version.  *)
Unvisited ==
  IF version = Idle THEN 0
  ELSE (Cardinality(Held(version)) + Len(dentry_list)) - (Len(filesystem_map) + 1)
WalkComesNearer == [][Visit => Unvisited' \in Nat /\ Unvisited' < Unvisited]_allvars

(* Every export ends: the directories of a version have no cycle.          *)
ExportEnds == \A v \in Version \cup {Current} : version = v ~> version = Idle
=============================================================================
