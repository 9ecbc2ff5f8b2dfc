---------------------------- MODULE Directories -----------------------------
(***************************************************************************)
(* What the dentries of a directory are for: a function from names to      *)
(* inode ids, changed by one name at a time.  There are no vectors, copies *)
(* or encodings here.  DentryTable implements this module.                 *)
(***************************************************************************)
EXTENDS Integers

CONSTANTS Dir, Name, Id

VARIABLE entries     \* directory -> name -> id

Init == entries = [d \in Dir |-> [n \in {} |-> 0]]

Link(d, n, id) ==
  /\ n \notin DOMAIN entries[d]
  /\ entries' = [entries EXCEPT ![d] =
                   [m \in DOMAIN @ \cup {n} |-> IF m = n THEN id ELSE @[m]]]

Unlink(d, n) ==
  /\ n \in DOMAIN entries[d]
  /\ entries' = [entries EXCEPT ![d] = [m \in DOMAIN @ \ {n} |-> @[m]]]

Next == \E d \in Dir, n \in Name : Unlink(d, n) \/ \E id \in Id : Link(d, n, id)

Spec == Init /\ [][Next]_entries
=============================================================================
