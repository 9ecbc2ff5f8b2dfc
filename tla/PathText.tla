------------------------------ MODULE PathText ------------------------------
(***************************************************************************)
(* path_t, if_snapshot and make_path_with_version: the texts that paths    *)
(* are outside of the kernel's handlers.  A text is a sequence of slashes  *)
(* and names; a name is never split, and two never stand side by side.     *)
(* path_t's first name, which is empty and stands for the root, is left    *)
(* out, so that the names are those FuseOps takes for a path.              *)
(***************************************************************************)
EXTENDS InodeSmi, SequencesExt

Slash == <<"/">>

(* A slash splits a text, so that no name has one.                         *)
ASSUME PathTextAssumption == "/" \notin Name \cup Version

(* path_t: what stands between slashes, however many there are.            *)
path_t(text) ==
  LET names[k \in 0 .. Len(text)] ==
        IF k = 0 THEN <<>>
        ELSE IF text[k] = "/" THEN names[k - 1] ELSE Append(names[k - 1], text[k])
  IN  names[Len(text)]

(* A slash before every name.                                              *)
to_string(names) == [k \in 1 .. 2 * Len(names) |-> IF k % 2 = 1 THEN "/" ELSE names[k \div 2]]

(* if_snapshot: a version and a text in it.  It throws on /.snapshot.      *)
if_snapshot(text) ==
  LET names == path_t(text)
  IN  IF names = <<>> \/ Head(names) # SNAPSHOT_ENTRY
      THEN [throws |-> FALSE, version |-> Current, output |-> text]
      ELSE IF Len(names) = 1 THEN [throws |-> TRUE, version |-> Current, output |-> <<>>]
      ELSE [throws  |-> FALSE,
            version |-> names[2],
            output  |-> to_string(SubSeq(names, 3, Len(names)))]

(* Mutant: every version is walked along the paths of version current.     *)
WithoutVersion(text, v) == text

make_path_with_version(text, v) ==
  IF v = Current THEN text ELSE to_string(<<SNAPSHOT_ENTRY, v>>) \o text

(* get_inode_id_by_path: what if_snapshot made of a text, and the names    *)
(* that path_t makes of the output; a path in a snapshot that does not     *)
(* exist is not found.                                                     *)
LookUp(smi, split, names) ==
  IF split.throws \/ split.version \notin DOMAIN smi.lists THEN Nowhere
  ELSE Resolve(smi, split.version, names)
=============================================================================
