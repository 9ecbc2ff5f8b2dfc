------------------------------- MODULE BitSet -------------------------------
(* What a bitmap is for: a set of locations, changed one at a time.  Bitmap *)
(* implements this module.                                                 *)

CONSTANT Location

VARIABLE bits

Init == bits = {}

Next == \E l \in Location : bits' = bits \cup {l} \/ bits' = bits \ {l}

Spec == Init /\ [][Next]_bits
=============================================================================
