--------------------------- MODULE VersionedTree ----------------------------
(***************************************************************************)
(* What a user of the mounted filesystem is promised: one file tree per    *)
(* version.  Version current is edited; a snapshot is a copy of it that    *)
(* does not change until it is deleted.  There are no inodes, link counts  *)
(* or dentries here: a tree maps the paths that exist to Dir or to the     *)
(* content of a file.  FuseOps implements this module.                     *)
(***************************************************************************)
EXTENDS Sequences, SequencesExt

CONSTANTS Path,      \* paths below the root of a version, <<>> the root
          Version,   \* names of snapshots
          Data,      \* contents of files
          Current,   \* the version that is edited
          Dir        \* what a directory maps to, no member of Data

VARIABLE tree        \* version -> path -> Dir or a member of Data

(* In what follows t is the tree of version current before a change, and u *)
(* the one after it.                                                       *)
Exists(t, p) == p \in DOMAIN t
IsDirectory(t, p) == Exists(t, p) /\ t[p] = Dir
IsFile(t, p) == Exists(t, p) /\ t[p] # Dir
Childless(t, p) == \A q \in DOMAIN t : IsPrefix(p, q) => q = p

Init == tree = [v \in {Current} |-> [p \in {<<>>} |-> Dir]]

Make(t, u, p, node) ==
  /\ p # <<>> /\ ~Exists(t, p) /\ IsDirectory(t, Front(p))
  /\ u = [q \in DOMAIN t \cup {p} |-> IF q = p THEN node ELSE t[q]]

Write(t, u, p, data) ==
  /\ IsFile(t, p)
  /\ u = [t EXCEPT ![p] = data]

Delete(t, u, p) ==
  /\ p # <<>> /\ Exists(t, p) /\ Childless(t, p)
  /\ u = [q \in DOMAIN t \ {p} |-> t[q]]

(* p and all below it move to q, which may replace what was there.         *)
Move(t, u, p, q) ==
  LET Under(r)  == IsPrefix(p, r)
      moved(r)  == q \o SubSeq(r, Len(p) + 1, Len(r))
      origin(r) == p \o SubSeq(r, Len(q) + 1, Len(r))
      kept  == {r \in DOMAIN t : ~Under(r)}
      there == {moved(r) : r \in {s \in DOMAIN t : Under(s)}}
  IN  /\ p # <<>> /\ q # <<>> /\ Exists(t, p) /\ IsDirectory(t, Front(q))
      /\ ~IsPrefix(p, q) /\ ~IsPrefix(q, p)
      /\ Exists(t, q) => Childless(t, q) /\ (IsDirectory(t, p) <=> IsDirectory(t, q))
      /\ u = [r \in kept \cup there |-> IF r \in there THEN t[origin(r)] ELSE t[r]]

TakeSnapshot(v) ==
  /\ v \notin DOMAIN tree
  /\ tree' = [w \in DOMAIN tree \cup {v} |-> IF w = v THEN tree[Current] ELSE tree[w]]

DropSnapshot(v) ==
  /\ v \in DOMAIN tree
  /\ tree' = [w \in DOMAIN tree \ {v} |-> tree[w]]

(* One change of version current, from t to u.                             *)
Edit(t, u) ==
  \/ \E p \in Path, node \in Data \cup {Dir} : Make(t, u, p, node)
  \/ \E p \in DOMAIN t :
       \/ \E data \in Data : Write(t, u, p, data)
       \/ Delete(t, u, p)
       \/ \E q \in Path : Move(t, u, p, q)

Next ==
  \/ \E t \in {tree[Current]}, u \in {tree'[Current]} :
       Edit(t, u) /\ tree' = [tree EXCEPT ![Current] = u]
  \/ \E v \in Version : TakeSnapshot(v) \/ DropSnapshot(v)

Spec == Init /\ [][Next]_tree
=============================================================================
