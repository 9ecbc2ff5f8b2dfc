------------------------------- MODULE Buffer -------------------------------
(***************************************************************************)
(* buffer_t, the block of bytes every file is made of, and the split of a  *)
(* byte range of a file into one piece per block.  inode_t::write, read    *)
(* and truncate each repeat that split (starting block, whole blocks, last *)
(* block); Chunks states it once.                                          *)
(*                                                                         *)
(* Bytes are abstract values; Zero is the byte a grown block is filled     *)
(* with.  Block numbers and offsets count from 0 as in the code, sequence  *)
(* positions from 1.                                                       *)
(***************************************************************************)
EXTENDS Integers, Sequences

CONSTANTS Byte,       \* the values of a byte
          Zero,       \* the byte 0 of data.emplace_back(0)
          BlockSize   \* block_size of inode_smi_t, fixed at mount time

ASSUME BufferAssumption == /\ Zero \in Byte
                           /\ BlockSize \in Nat \ {0}

(* --------------------------- one block of bytes ------------------------ *)

(* How many of length bytes at offset fit in the size bytes that exist.    *)
Clip(size, length, offset) ==
  IF offset > size THEN 0
  ELSE IF size < length + offset THEN size - offset ELSE length

(* buffer_t::read: a short read at the end, an empty one beyond it.        *)
BufRead(data, length, offset) ==
  SubSeq(data, offset + 1, offset + Clip(Len(data), length, offset))

(* buffer_t::truncate: cut, or grow with zeros.                            *)
BufTruncate(data, length) ==
  [k \in 1..length |-> IF k <= Len(data) THEN data[k] ELSE Zero]

(* buffer_t::write: with resize the block ends where the written bytes end, *)
(* without it what does not fit is dropped.                                *)
BufWrite(data, bytes, offset, resize) ==
  LET base == IF resize THEN BufTruncate(data, offset + Len(bytes)) ELSE data
      n    == Clip(Len(base), Len(bytes), offset)
  IN  [k \in 1..Len(base) |-> IF k \in offset + 1 .. offset + n
                              THEN bytes[k - offset] ELSE base[k]]

(* ---------------------- a byte range, block by block ------------------- *)

(* Number of blocks that hold length bytes.                                *)
BlockCount(length) ==
  length \div BlockSize + (IF length % BlockSize # 0 THEN 1 ELSE 0)

(* write_length_in_starting_buffer.                                        *)
HeadLength(length, offset) ==
  LET space == BlockSize - (offset % BlockSize)
  IN  IF space >= length THEN length ELSE space

(* The pieces of length bytes at offset: for each block touched, where its *)
(* piece starts in the range (from), how long it is (count) and where it   *)
(* lies in the block (at).  The starting block is touched even when length *)
(* is 0.                                                                   *)
Chunks(length, offset) ==
  LET first == offset \div BlockSize
      head  == HeadLength(length, offset)
      full  == (length - head) \div BlockSize
      tail  == (length - head) % BlockSize
      last  == first + full + (IF tail # 0 THEN 1 ELSE 0)
  IN  [b \in first..last |->
         [from  |-> IF b = first THEN 0 ELSE head + (b - first - 1) * BlockSize,
          count |-> IF b = first THEN head
                    ELSE IF b <= first + full THEN BlockSize ELSE tail,
          at    |-> IF b = first THEN offset % BlockSize ELSE 0]]
=============================================================================
