---------------------------- MODULE VersionedFile ---------------------------
(***************************************************************************)
(* What the storage layer promises: every live file has, for the version   *)
(* "current" and for each snapshot it was part of, its own string of bytes.*)
(* Only the current string is ever written; a snapshot's string appears    *)
(* when the snapshot is taken and disappears when it is deleted.           *)
(***************************************************************************)
EXTENDS Integers, Sequences

CONSTANTS Inode, Version, Byte, Zero, Current, Payload, MaxSize

VARIABLE content   \* live inode -> its versions -> bytes

ZeroExtend(file, n) ==
  [k \in 1..n |-> IF k <= Len(file) THEN file[k] ELSE Zero]

(* file with bytes laid over it at offset; it grows if they do not fit.    *)
Overlay(file, bytes, offset) ==
  LET n == offset + Len(bytes)
  IN  [k \in 1..(IF n > Len(file) THEN n ELSE Len(file)) |->
         IF k \in offset + 1 .. n THEN bytes[k - offset]
         ELSE IF k <= Len(file) THEN file[k] ELSE Zero]

SetCurrent(i, file) == content' = [content EXCEPT ![i][Current] = file]

Init == content = [i \in {} |-> {}]

NewInode(i) ==
  /\ i \notin DOMAIN content
  /\ content' = [j \in DOMAIN content \cup {i} |->
                   IF j = i THEN [v \in {Current} |-> <<>>] ELSE content[j]]

EraseInode(i) ==
  /\ i \in DOMAIN content
  /\ DOMAIN content[i] = {Current}
  /\ content' = [j \in DOMAIN content \ {i} |-> content[j]]

Write(i, bytes, offset) ==
  /\ i \in DOMAIN content
  /\ SetCurrent(i, Overlay(content[i][Current], bytes, offset))

Replace(i, bytes) ==
  /\ i \in DOMAIN content
  /\ SetCurrent(i, bytes)

Truncate(i, length) ==
  /\ i \in DOMAIN content
  /\ SetCurrent(i, ZeroExtend(content[i][Current], length))

TakeSnapshot(i, v) ==
  /\ i \in DOMAIN content
  /\ v \notin DOMAIN content[i]
  /\ content' = [content EXCEPT ![i] =
                   [w \in DOMAIN @ \cup {v} |-> IF w = v THEN @[Current] ELSE @[w]]]

DropSnapshot(i, v) ==
  /\ i \in DOMAIN content
  /\ v \in DOMAIN content[i]
  /\ content' = [content EXCEPT ![i] = [w \in DOMAIN @ \ {v} |-> @[w]]]

Next ==
  \E i \in Inode :
    \/ NewInode(i)
    \/ EraseInode(i)
    \/ \E bytes \in Payload, offset \in 0..MaxSize : Write(i, bytes, offset)
    \/ \E bytes \in Payload : Replace(i, bytes)
    \/ \E length \in 0..MaxSize : Truncate(i, length)
    \/ \E v \in Version : TakeSnapshot(i, v) \/ DropSnapshot(i, v)

Spec == Init /\ [][Next]_content
=============================================================================
