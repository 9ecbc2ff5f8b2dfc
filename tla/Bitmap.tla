------------------------------- MODULE Bitmap -------------------------------
(***************************************************************************)
(* bitmap_t: bits over the bytes of consecutive buffers of the pool.  A    *)
(* byte is the set of the numbers of its bits that are one.                *)
(*                                                                         *)
(* First and Buffers name the buffers of the bitmap; the pool has others.  *)
(* They are prepared as the test does it, each truncated to a block: one   *)
(* as request_buffer_allocation returns it is empty, and drops every bit.  *)
(***************************************************************************)
EXTENDS Buffer, FiniteSets

CONSTANTS Bits,      \* bits of a byte: 8
          First,     \* starting_buffer_id
          Buffers,   \* buffers that hold the bits of the bitmap
          Pool       \* ids of all buffers

ASSUME BitmapAssumption ==
  /\ Bits \in Nat \ {0} /\ First \in Nat /\ Buffers \in Nat
  /\ Byte = SUBSET (0 .. Bits - 1) /\ Zero = {}
  /\ Pool \subseteq Nat /\ First .. First + Buffers - 1 \subseteq Pool

VARIABLE buffer_pool   \* buffer id -> bytes

bitmap_length == Buffers * BlockSize * Bits
Location == 0 .. bitmap_length - 1

(* Mutant: the numbering starts at buffer 0.                               *)
BlockFromZero(l) == (l \div Bits) \div BlockSize

(* byte_loc_in_block, byte_off_in_block, bit_offset                        *)
BlockOf(l) == (l \div Bits) \div BlockSize + First

(* Mutant: the byte is counted from the start of the bitmap.               *)
OffsetInBitmap(l) == l \div Bits

OffsetIn(l) == (l \div Bits) % BlockSize
BitOf(l) == l % Bits

(* Mutant: the whole byte is the bit.                                      *)
ChangedAlone(byte, k, bit) == IF bit = 1 THEN {k} ELSE {}

(* set_bit_of, remove_bit_of                                               *)
Changed(byte, k, bit) == IF bit = 1 THEN byte \cup {k} ELSE byte \ {k}

(* The variable byte after buffer->read: what it was before, anything,     *)
(* when nothing could be read.                                             *)
ReadByte(pool, l) ==
  LET read == BufRead(pool[BlockOf(l)], 1, OffsetIn(l))
  IN  IF read = <<>> THEN Byte ELSE {read[1]}

(* get_bit_in_map: the answers it may give.                                *)
get_bit_in_map(pool, l) == {(BitOf(l) \in byte) : byte \in ReadByte(pool, l)}

(* Mutant: the write resizes the buffer.                                   *)
WrittenResizing(data, byte, offset) == BufWrite(data, <<byte>>, offset, TRUE)

(* A byte that does not fit is dropped.                                    *)
Written(data, byte, offset) == BufWrite(data, <<byte>>, offset, FALSE)

(* set_bit_in_map: the pools it may leave, of those that have the buffer.  *)
set_bit_in_map(pool, l, bit) ==
  {[pool EXCEPT ![BlockOf(l)] = Written(@, Changed(byte, BitOf(l), bit), OffsetIn(l))] :
     byte \in ReadByte(pool, l)}

Init == buffer_pool = [id \in Pool |-> BufTruncate(<<>>, BlockSize)]
Next == \E l \in Location, bit \in {0, 1} :
          buffer_pool' \in set_bit_in_map(buffer_pool, l, bit)
Spec == Init /\ [][Next]_buffer_pool

(* ------------------------------ properties ----------------------------- *)

(* Every buffer keeps the block it was given.                              *)
TypeOK == /\ buffer_pool \in [Pool -> Seq(Byte)]
          /\ \A id \in Pool : Len(buffer_pool[id]) = BlockSize

(* The bits of the bitmap are a set of locations: set_bit_in_map changes   *)
(* the one it is asked to, over all bytes and buffers, and get_bit_in_map  *)
(* answers TRUE exactly for those that are set.                            *)
Answers == {l \in Location : TRUE \in get_bit_in_map(buffer_pool, l)}
AbstractBits == INSTANCE BitSet WITH bits <- Answers
ImplementsBitSet == AbstractBits!Spec
AnswersAreCertain == \A l \in Location : get_bit_in_map(buffer_pool, l) # BOOLEAN

(* No other buffer of the pool changes: they are the blocks of files.      *)
OthersUntouched ==
  [][\A id \in Pool \ (First .. First + Buffers - 1) : buffer_pool'[id] = buffer_pool[id]]_buffer_pool
=============================================================================
