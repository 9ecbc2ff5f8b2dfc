---------------------------- MODULE BitmapProofs ----------------------------
(***************************************************************************)
(* A bitmap over prepared buffers is a set of locations, for every width   *)
(* of a byte, every block size and every number of buffers.                *)
(***************************************************************************)
EXTENDS Bitmap, BufferProofs

(* ------------------------------- locations ----------------------------- *)

(* Division with remainder by any divisor.                                 *)
LEMMA DivModBy ==
  ASSUME NEW n \in Nat, NEW d \in Nat \ {0}
  PROVE  n \div d \in Nat /\ n % d \in 0 .. d - 1 /\ n = (n \div d) * d + (n % d)
<1>1. n \div d \in Nat
  OBVIOUS
<1>2. n % d \in 0 .. d - 1
  OBVIOUS
<1>3. n = (n \div d) * d + (n % d)
  OBVIOUS
<1> QED BY <1>1, <1>2, <1>3

(* A quotient is below any bound whose multiple bounds the dividend.       *)
LEMMA QuotientIsBelow ==
  ASSUME NEW n \in Nat, NEW d \in Nat \ {0}, NEW k \in Nat, n < k * d
  PROVE  n \div d < k
<1>1. n \div d \in Nat /\ (n \div d) * d <= n
  BY DivModBy
<1>2. SUFFICES ASSUME k <= n \div d PROVE FALSE
  BY <1>1
<1>3. k * d <= (n \div d) * d
  BY <1>1, <1>2, TimesIsMonotonic
<1> QED BY <1>1, <1>3

(* A location is one bit of one byte of one buffer of the bitmap.          *)
LEMMA PlaceOfLocation ==
  ASSUME NEW l \in Location
  PROVE  /\ BlockOf(l) \in First .. First + Buffers - 1
         /\ OffsetIn(l) \in 0 .. BlockSize - 1
         /\ BitOf(l) \in 0 .. Bits - 1
         /\ l = ((BlockOf(l) - First) * BlockSize + OffsetIn(l)) * Bits + BitOf(l)
<1> DEFINE q == l \div Bits
<1>1. Bits \in Nat \ {0} /\ BlockSize \in Nat \ {0} /\ Buffers \in Nat /\ First \in Nat
  BY BitmapAssumption, BufferAssumption
<1>2. Buffers * BlockSize \in Nat
  BY <1>1
<1>3. l \in Nat /\ l < (Buffers * BlockSize) * Bits
  BY <1>1, <1>2 DEF Location, bitmap_length
<1>4. q \in Nat /\ l % Bits \in 0 .. Bits - 1 /\ l = q * Bits + (l % Bits)
  BY <1>1, <1>3, DivModBy
<1>5. q < Buffers * BlockSize
  BY <1>1, <1>2, <1>3, QuotientIsBelow
<1> HIDE DEF q
<1>6. /\ q \div BlockSize \in Nat /\ q % BlockSize \in 0 .. BlockSize - 1
      /\ q = (q \div BlockSize) * BlockSize + (q % BlockSize)
  BY <1>1, <1>4, DivModBy
<1>7. q \div BlockSize < Buffers
  BY <1>1, <1>4, <1>5, QuotientIsBelow
<1>8. BlockOf(l) = q \div BlockSize + First /\ OffsetIn(l) = q % BlockSize /\ BitOf(l) = l % Bits
  BY DEF BlockOf, OffsetIn, BitOf, q
<1>9. BlockOf(l) - First = q \div BlockSize
  BY <1>1, <1>6, <1>8
<1>10. l = ((BlockOf(l) - First) * BlockSize + OffsetIn(l)) * Bits + BitOf(l)
  BY <1>4, <1>6, <1>8, <1>9
<1>11. BlockOf(l) \in First .. First + Buffers - 1
  BY <1>1, <1>6, <1>7, <1>8
<1> QED BY <1>4, <1>6, <1>8, <1>10, <1>11

(* Two locations share no bit.                                             *)
LEMMA LocationsAreApart ==
  ASSUME NEW l \in Location, NEW m \in Location,
         BlockOf(l) = BlockOf(m), OffsetIn(l) = OffsetIn(m), BitOf(l) = BitOf(m)
  PROVE  l = m
BY PlaceOfLocation

(* --------------------------- a bit of a block -------------------------- *)

Prepared(pool) == /\ pool \in [Pool -> Seq(Byte)]
                  /\ \A id \in Pool : Len(pool[id]) = BlockSize

IsSet(pool, l) == BitOf(l) \in pool[BlockOf(l)][OffsetIn(l) + 1]

(* In a prepared buffer the byte of a location exists and is the one read. *)
LEMMA ByteIsRead ==
  ASSUME NEW pool, Prepared(pool), NEW l \in Location
  PROVE  /\ BlockOf(l) \in Pool
         /\ pool[BlockOf(l)][OffsetIn(l) + 1] \in Byte
         /\ ReadByte(pool, l) = {pool[BlockOf(l)][OffsetIn(l) + 1]}
<1> DEFINE data == pool[BlockOf(l)]
           o == OffsetIn(l)
<1>1. BlockSize \in Nat /\ o \in 0 .. BlockSize - 1
  BY PlaceOfLocation, BufferAssumption
<1>2. BlockOf(l) \in Pool
  BY PlaceOfLocation, BitmapAssumption
<1>3. data \in Seq(Byte) /\ Len(data) = BlockSize
  BY <1>2 DEF Prepared
<1> HIDE DEF data, o
<1>4. data[o + 1] \in Byte
  BY <1>1, <1>3
<1>5. Clip(Len(data), 1, o) = 1
  BY <1>1, <1>3 DEF Clip
<1>6. BufRead(data, 1, o) = SubSeq(data, o + 1, o + 1)
  BY <1>5 DEF BufRead
<1>7. SubSeq(data, o + 1, o + 1) # <<>> /\ SubSeq(data, o + 1, o + 1)[1] = data[o + 1]
  BY <1>1, <1>3
<1>8. ReadByte(pool, l) = {data[o + 1]}
  BY <1>6, <1>7 DEF ReadByte, data, o
<1> QED BY <1>2, <1>4, <1>8 DEF data, o

(* get_bit_in_map gives one answer: the bit of the location.               *)
LEMMA AnswerIsTheBit ==
  ASSUME NEW pool, Prepared(pool), NEW l \in Location
  PROVE  get_bit_in_map(pool, l) = {IsSet(pool, l)}
BY ByteIsRead, ZenonT(30) DEF get_bit_in_map, IsSet

(* One byte of a block is replaced by a byte, the others stay.             *)
LEMMA ByteIsWritten ==
  ASSUME NEW data \in Seq(Byte), Len(data) = BlockSize, NEW byte \in Byte,
         NEW o \in 0 .. BlockSize - 1
  PROVE  /\ Written(data, byte, o) \in Seq(Byte)
         /\ Len(Written(data, byte, o)) = BlockSize
         /\ \A k \in 1 .. BlockSize :
              Written(data, byte, o)[k] = IF k = o + 1 THEN byte ELSE data[k]
<1>1. BlockSize \in Nat
  BY BufferAssumption
<1>2. Len(<<byte>>) = 1 /\ <<byte>>[1] = byte
  OBVIOUS
<1>3. Clip(Len(data), 1, o) = 1
  BY <1>1 DEF Clip
<1>4. Written(data, byte, o) =
        [k \in 1 .. BlockSize |-> IF k \in o + 1 .. o + 1 THEN <<byte>>[k - o] ELSE data[k]]
  BY <1>2, <1>3 DEF Written, BufWrite
<1>5. \A k \in 1 .. BlockSize :
        Written(data, byte, o)[k] = IF k = o + 1 THEN byte ELSE data[k]
  BY <1>1, <1>2, <1>4
<1>6. \A k \in 1 .. BlockSize : Written(data, byte, o)[k] \in Byte
  BY <1>1, <1>5
<1>7. Written(data, byte, o) \in [1 .. BlockSize -> Byte]
  BY <1>4, <1>6
<1> QED BY <1>1, <1>5, <1>7

(* set_bit_in_map keeps blocks whole and the buffers beside the bitmap as  *)
(* they are, and changes the bit of the location and no other.             *)
LEMMA OneBitChanges ==
  ASSUME NEW pool, Prepared(pool), NEW l \in Location, NEW bit \in {0, 1},
         NEW pool2 \in set_bit_in_map(pool, l, bit)
  PROVE  /\ Prepared(pool2)
         /\ \A id \in Pool \ (First .. First + Buffers - 1) : pool2[id] = pool[id]
         /\ IsSet(pool2, l) <=> bit = 1
         /\ \A m \in Location \ {l} : IsSet(pool2, m) <=> IsSet(pool, m)
<1> DEFINE b == BlockOf(l)
           o == OffsetIn(l)
           byte == pool[b][o + 1]
           new == Changed(byte, BitOf(l), bit)
           data == Written(pool[b], new, o)
<1>1. b \in Pool /\ byte \in Byte /\ ReadByte(pool, l) = {byte}
  BY ByteIsRead
<1>2. pool2 = [pool EXCEPT ![b] = data]
  BY <1>1 DEF set_bit_in_map
<1>3. /\ BlockSize \in Nat /\ b \in First .. First + Buffers - 1 /\ o \in 0 .. BlockSize - 1
      /\ BitOf(l) \in 0 .. Bits - 1
  BY PlaceOfLocation, BufferAssumption
<1>4. new \in Byte
  BY <1>1, <1>3, BitmapAssumption DEF Changed
<1>5. pool \in [Pool -> Seq(Byte)] /\ pool[b] \in Seq(Byte) /\ Len(pool[b]) = BlockSize
  BY <1>1 DEF Prepared
<1>6. /\ data \in Seq(Byte) /\ Len(data) = BlockSize
      /\ \A k \in 1 .. BlockSize : data[k] = IF k = o + 1 THEN new ELSE pool[b][k]
  BY <1>3, <1>4, <1>5, ByteIsWritten
<1>7. \A k : (k \in new <=> IF k = BitOf(l) THEN bit = 1 ELSE k \in byte)
  BY DEF Changed
<1> HIDE DEF b, o, byte, new, data
<1>8. Prepared(pool2)
  BY <1>1, <1>2, <1>5, <1>6 DEF Prepared
<1>9. \A id \in Pool \ {b} : pool2[id] = pool[id]
  BY <1>2, <1>5
<1>10. pool2[b] = data
  BY <1>1, <1>2, <1>5
<1>11. data[o + 1] = new
  BY <1>3, <1>6
<1>12. IsSet(pool2, l) <=> bit = 1
  BY <1>7, <1>10, <1>11 DEF IsSet, b, o
<1>13. ASSUME NEW m \in Location \ {l}
       PROVE  IsSet(pool2, m) <=> IsSet(pool, m)
  <2>1. BlockOf(m) \in Pool /\ OffsetIn(m) \in 0 .. BlockSize - 1
    BY <1>13, PlaceOfLocation, BitmapAssumption
  <2>2. CASE BlockOf(m) # b
    BY <2>1, <2>2, <1>9 DEF IsSet
  <2>3. CASE BlockOf(m) = b /\ OffsetIn(m) # o
    <3>1. OffsetIn(m) + 1 \in 1 .. BlockSize /\ OffsetIn(m) + 1 # o + 1
      BY <2>1, <2>3, <1>3
    <3>2. data[OffsetIn(m) + 1] = pool[b][OffsetIn(m) + 1]
      BY <3>1, <1>6
    <3> QED BY <2>3, <3>2, <1>10 DEF IsSet
  <2>4. CASE BlockOf(m) = b /\ OffsetIn(m) = o
    <3>1. BitOf(m) # BitOf(l)
      BY <2>4, <1>13, LocationsAreApart DEF b, o
    <3>2. BitOf(m) \in new <=> BitOf(m) \in byte
      BY <3>1, <1>7
    <3> QED BY <2>4, <3>2, <1>10, <1>11 DEF IsSet, byte
  <2> QED BY <2>2, <2>3, <2>4
<1> QED BY <1>3, <1>8, <1>9, <1>12, <1>13

(* ------------------------------ the bitmap ----------------------------- *)

(* The constructor's buffers are prepared, and no bit of them is set.      *)
LEMMA InitIsEmpty ==
  ASSUME Init
  PROVE  TypeOK /\ \A l \in Location : ~IsSet(buffer_pool, l)
<1>1. BlockSize \in Nat /\ <<>> \in Seq(Byte)
  BY BufferAssumption
<1>2. BufTruncate(<<>>, BlockSize) \in Seq(Byte) /\ Len(BufTruncate(<<>>, BlockSize)) = BlockSize
  BY <1>1, BufTruncateType
<1>3. \A k \in 1 .. BlockSize : BufTruncate(<<>>, BlockSize)[k] = {}
  BY <1>1, BitmapAssumption DEF BufTruncate
<1>4. TypeOK
  BY <1>2 DEF Init, TypeOK
<1>5. ASSUME NEW l \in Location PROVE ~IsSet(buffer_pool, l)
  <2>1. BlockOf(l) \in Pool /\ OffsetIn(l) + 1 \in 1 .. BlockSize
    BY <1>1, PlaceOfLocation, BitmapAssumption
  <2>2. buffer_pool[BlockOf(l)] = BufTruncate(<<>>, BlockSize)
    BY <2>1 DEF Init
  <2> QED BY <2>1, <2>2, <1>3 DEF IsSet
<1> QED BY <1>4, <1>5

(* A step of the bitmap is one set_bit_in_map.                             *)
LEMMA StepIsOneBit ==
  ASSUME TypeOK, Next
  PROVE  /\ TypeOK'
         /\ \A id \in Pool \ (First .. First + Buffers - 1) : buffer_pool'[id] = buffer_pool[id]
         /\ \E l \in Location, bit \in {0, 1} :
              /\ IsSet(buffer_pool', l) <=> bit = 1
              /\ \A m \in Location \ {l} : IsSet(buffer_pool', m) <=> IsSet(buffer_pool, m)
<1>1. PICK l \in Location, bit \in {0, 1} : buffer_pool' \in set_bit_in_map(buffer_pool, l, bit)
  BY DEF Next
<1>2. Prepared(buffer_pool)
  BY DEF TypeOK, Prepared
<1>3. /\ Prepared(buffer_pool')
      /\ \A id \in Pool \ (First .. First + Buffers - 1) : buffer_pool'[id] = buffer_pool[id]
      /\ IsSet(buffer_pool', l) <=> bit = 1
      /\ \A m \in Location \ {l} : IsSet(buffer_pool', m) <=> IsSet(buffer_pool, m)
  BY <1>1, <1>2, OneBitChanges
<1>4. TypeOK'
  BY <1>3 DEF TypeOK, Prepared
<1> QED BY <1>3, <1>4

(* What get_bit_in_map answers are the bits that are set.                  *)
LEMMA AnswersAreTheBits ==
  ASSUME NEW pool, Prepared(pool)
  PROVE  {l \in Location : TRUE \in get_bit_in_map(pool, l)} = {l \in Location : IsSet(pool, l)}
<1>1. \A l \in Location : TRUE \in get_bit_in_map(pool, l) <=> IsSet(pool, l)
  <2> SUFFICES ASSUME NEW l \in Location PROVE TRUE \in get_bit_in_map(pool, l) <=> IsSet(pool, l)
    OBVIOUS
  <2>1. get_bit_in_map(pool, l) = {IsSet(pool, l)}
    BY AnswerIsTheBit
  <2>2. IsSet(pool, l) \in BOOLEAN
    BY DEF IsSet
  <2> QED BY <2>1, <2>2, Zenon
<1> QED BY <1>1

(* No write resizes a buffer: every buffer keeps the block it was given.   *)
THEOREM BlocksStayWhole == Spec => []TypeOK
<1>1. Init => TypeOK
  BY InitIsEmpty
<1>2. TypeOK /\ [Next]_buffer_pool => TypeOK'
  <2> SUFFICES ASSUME TypeOK, [Next]_buffer_pool PROVE TypeOK'
    OBVIOUS
  <2>1. CASE Next
    BY <2>1, StepIsOneBit
  <2>2. CASE UNCHANGED buffer_pool
    BY <2>2 DEF TypeOK
  <2> QED BY <2>1, <2>2
<1> QED BY <1>1, <1>2, PTL DEF Spec

(* get_bit_in_map never answers from the byte it did not read.             *)
THEOREM OneAnswer == Spec => []AnswersAreCertain
<1>1. TypeOK => AnswersAreCertain
  <2> SUFFICES ASSUME TypeOK, NEW l \in Location
               PROVE  get_bit_in_map(buffer_pool, l) # BOOLEAN
    BY DEF AnswersAreCertain
  <2>1. get_bit_in_map(buffer_pool, l) = {IsSet(buffer_pool, l)}
    BY AnswerIsTheBit DEF TypeOK, Prepared
  <2>2. {IsSet(buffer_pool, l)} # BOOLEAN
    OBVIOUS
  <2> QED BY <2>1, <2>2
<1> QED BY <1>1, BlocksStayWhole, PTL

(* set_bit_in_map writes no buffer beside those of the bitmap.             *)
THEOREM OtherBuffersAreUntouched == Spec => OthersUntouched
<1>1. TypeOK /\ [Next]_buffer_pool =>
        [\A id \in Pool \ (First .. First + Buffers - 1) :
           buffer_pool'[id] = buffer_pool[id]]_buffer_pool
  BY StepIsOneBit
<1> QED BY <1>1, BlocksStayWhole, PTL DEF Spec, OthersUntouched

(* The bytes of the buffers implement a set of locations: set_bit_in_map   *)
(* adds or takes out the one it is given, and get_bit_in_map reads it.     *)
THEOREM BitmapIsASet == Spec => ImplementsBitSet
<1>1. Init => AbstractBits!Init
  <2> SUFFICES ASSUME Init PROVE Answers = {}
    BY DEF AbstractBits!Init
  <2>1. Prepared(buffer_pool) /\ \A l \in Location : ~IsSet(buffer_pool, l)
    BY InitIsEmpty DEF TypeOK, Prepared
  <2> QED BY <2>1, AnswersAreTheBits DEF Answers
<1>2. TypeOK /\ [Next]_buffer_pool => [AbstractBits!Next]_Answers
  <2> SUFFICES ASSUME TypeOK, [Next]_buffer_pool PROVE [AbstractBits!Next]_Answers
    OBVIOUS
  <2>1. CASE Next
    <3>1. Prepared(buffer_pool) /\ Prepared(buffer_pool')
      BY <2>1, StepIsOneBit DEF TypeOK, Prepared
    <3>2. /\ Answers = {l \in Location : IsSet(buffer_pool, l)}
          /\ Answers' = {l \in Location : IsSet(buffer_pool', l)}
      BY <3>1, AnswersAreTheBits DEF Answers
    <3>3. PICK l \in Location, bit \in {0, 1} :
            /\ IsSet(buffer_pool', l) <=> bit = 1
            /\ \A m \in Location \ {l} : IsSet(buffer_pool', m) <=> IsSet(buffer_pool, m)
      BY <2>1, StepIsOneBit
    <3>4. CASE bit = 1
      <4>1. Answers' = Answers \cup {l}
        BY <3>2, <3>3, <3>4
      <4> QED BY <4>1 DEF AbstractBits!Next
    <3>5. CASE bit = 0
      <4>1. Answers' = Answers \ {l}
        BY <3>2, <3>3, <3>5
      <4> QED BY <4>1 DEF AbstractBits!Next
    <3> QED BY <3>4, <3>5
  <2>2. CASE UNCHANGED buffer_pool
    BY <2>2 DEF Answers, get_bit_in_map, ReadByte
  <2> QED BY <2>1, <2>2
<1> QED BY <1>1, <1>2, BlocksStayWhole, PTL DEF Spec, ImplementsBitSet, AbstractBits!Spec
=============================================================================
