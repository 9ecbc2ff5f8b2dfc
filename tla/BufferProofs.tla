---------------------------- MODULE BufferProofs ----------------------------
(***************************************************************************)
(* What the operators of Buffer return, for every block size.              *)
(***************************************************************************)
EXTENDS Buffer, TLAPS

(* ------------------------------ arithmetic ----------------------------- *)

(* Division with remainder by the block size.                              *)
LEMMA DivMod ==
  ASSUME NEW n \in Nat
  PROVE  /\ n \div BlockSize \in Nat
         /\ n % BlockSize \in 0 .. BlockSize - 1
         /\ n = (n \div BlockSize) * BlockSize + (n % BlockSize)
<1>1. BlockSize \in Nat /\ BlockSize > 0
  BY BufferAssumption
<1>2. n \div BlockSize \in Nat
  BY <1>1
<1>3. n % BlockSize \in 0 .. BlockSize - 1
  BY <1>1
<1>4. n = (n \div BlockSize) * BlockSize + (n % BlockSize)
  BY <1>1
<1> QED BY <1>2, <1>3, <1>4

(* Multiplication by a natural keeps the order.                            *)
LEMMA TimesIsMonotonic ==
  ASSUME NEW a \in Int, NEW b \in Int, NEW c \in Nat, a <= b
  PROVE  a * c <= b * c
OBVIOUS

(* BlockCount(n) blocks hold n bytes, and fewer do not.                    *)
LEMMA BlockCountIsEnough ==
  ASSUME NEW n \in Nat
  PROVE  /\ BlockCount(n) \in Nat
         /\ n <= BlockCount(n) * BlockSize
         /\ \A k \in Nat : n <= k * BlockSize <=> BlockCount(n) <= k
<1> DEFINE q == n \div BlockSize
           r == n % BlockSize
<1>1. q \in Nat /\ r \in 0 .. BlockSize - 1 /\ n = q * BlockSize + r /\ BlockSize \in Nat \ {0}
  BY DivMod, BufferAssumption
<1>2. BlockCount(n) = IF r # 0 THEN q + 1 ELSE q
  BY <1>1 DEF BlockCount
<1> HIDE DEF q, r
<1>3. BlockCount(n) \in Nat
  BY <1>1, <1>2
<1>4. n <= BlockCount(n) * BlockSize
  BY <1>1, <1>2
<1>5. ASSUME NEW k \in Nat
      PROVE  n <= k * BlockSize <=> BlockCount(n) <= k
  <2>1. ASSUME BlockCount(n) <= k PROVE n <= k * BlockSize
    <3>1. BlockCount(n) * BlockSize <= k * BlockSize
      BY <1>1, <1>3, <2>1, TimesIsMonotonic
    <3>2. k * BlockSize \in Nat /\ BlockCount(n) * BlockSize \in Nat
      BY <1>1, <1>3
    <3> QED BY <1>4, <3>1, <3>2
  <2>2. ASSUME n <= k * BlockSize, ~(BlockCount(n) <= k) PROVE FALSE
    <3>1. CASE r = 0
      <4>1. k + 1 <= q
        BY <1>1, <1>2, <2>2, <3>1
      <4>2. (k + 1) * BlockSize <= q * BlockSize
        BY <1>1, <4>1, TimesIsMonotonic
      <4> QED BY <1>1, <2>2, <3>1, <4>2
    <3>2. CASE r # 0
      <4>1. k <= q
        BY <1>1, <1>2, <2>2, <3>2
      <4>2. k * BlockSize <= q * BlockSize
        BY <1>1, <4>1, TimesIsMonotonic
      <4> QED BY <1>1, <2>2, <3>2, <4>2
    <3> QED BY <3>1, <3>2
  <2> QED BY <1>3, <2>1, <2>2
<1> QED BY <1>3, <1>4, <1>5

(* ---------------------------- blocks of bytes -------------------------- *)

(* What buffer_t clips a range to stays inside the range and the block, and *)
(* is the whole range when it fits.                                        *)
LEMMA ClipBounds ==
  ASSUME NEW size \in Nat, NEW length \in Nat, NEW offset \in Nat
  PROVE  /\ Clip(size, length, offset) \in 0..length
         /\ offset <= size => offset + Clip(size, length, offset) <= size
         /\ offset > size => Clip(size, length, offset) = 0
         /\ offset + length <= size => Clip(size, length, offset) = length
BY DEF Clip

(* buffer_t::read returns bytes.                                           *)
LEMMA BufReadType ==
  ASSUME NEW data \in Seq(Byte), NEW length \in Nat, NEW offset \in Nat
  PROVE  BufRead(data, length, offset) \in Seq(Byte)
<1> DEFINE n == Clip(Len(data), length, offset)
<1>1. n \in Nat /\ (offset <= Len(data) => offset + n <= Len(data))
                /\ (offset > Len(data) => n = 0)
  <2>1. Len(data) \in Nat
    OBVIOUS
  <2>2. /\ n \in 0..length
        /\ offset <= Len(data) => offset + n <= Len(data)
        /\ offset > Len(data) => n = 0
    BY <2>1, ClipBounds
  <2> QED BY <2>2
<1> HIDE DEF n
<1>2. \A k \in offset + 1 .. offset + n : k \in 1..Len(data)
  BY <1>1
<1>3. SubSeq(data, offset + 1, offset + n) \in Seq(Byte)
  BY <1>1, <1>2
<1> QED BY <1>3 DEF BufRead, n

(* buffer_t::truncate returns a block of bytes of the length asked for.    *)
LEMMA BufTruncateType ==
  ASSUME NEW data \in Seq(Byte), NEW length \in Nat
  PROVE  BufTruncate(data, length) \in Seq(Byte) /\ Len(BufTruncate(data, length)) = length
<1>1. \A k \in 1..length : k <= Len(data) => data[k] \in Byte
  OBVIOUS
<1>2. BufTruncate(data, length) \in [1..length -> Byte]
  BY <1>1, BufferAssumption DEF BufTruncate
<1> QED BY <1>2

(* buffer_t::write leaves a block of bytes.                                *)
LEMMA BufWriteType ==
  ASSUME NEW data \in Seq(Byte), NEW bytes \in Seq(Byte),
         NEW offset \in Nat, NEW resize \in BOOLEAN
  PROVE  BufWrite(data, bytes, offset, resize) \in Seq(Byte)
<1> DEFINE base == IF resize THEN BufTruncate(data, offset + Len(bytes)) ELSE data
           n == Clip(Len(base), Len(bytes), offset)
<1>1. base \in Seq(Byte)
  BY BufTruncateType
<1>2. n \in 0..Len(bytes)
  <2>1. Len(base) \in Nat /\ Len(bytes) \in Nat
    BY <1>1
  <2> QED BY <2>1, ClipBounds
<1>3. BufWrite(data, bytes, offset, resize)
        = [k \in 1..Len(base) |-> IF k \in offset + 1 .. offset + n
                                  THEN bytes[k - offset] ELSE base[k]]
  BY DEF BufWrite
<1> HIDE DEF base, n
<1>4. \A k \in 1..Len(base) : base[k] \in Byte
  BY <1>1
<1>5. \A k \in offset + 1 .. offset + n : bytes[k - offset] \in Byte
  BY <1>2
<1>6. BufWrite(data, bytes, offset, resize) \in [1..Len(base) -> Byte]
  BY <1>3, <1>4, <1>5
<1>7. Len(base) \in Nat
  BY <1>1
<1> QED BY <1>6, <1>7

(* ------------------------------- chunks -------------------------------- *)

(* The pieces of a range lie in the range, and the blocks they fall into   *)
(* are among those that hold it.                                           *)
LEMMA ChunksBounds ==
  ASSUME NEW length \in Nat, NEW offset \in Nat,
         NEW b \in DOMAIN Chunks(length, offset)
  PROVE  LET c == Chunks(length, offset)[b]
         IN  /\ b \in Nat
             /\ c.from \in Nat /\ c.count \in Nat /\ c.at \in Nat
             /\ c.from + c.count <= length
             /\ offset \div BlockSize <= b
             /\ length > 0 => b + 1 <= BlockCount(offset + length)
<1> DEFINE first == offset \div BlockSize
           within == offset % BlockSize
           head  == HeadLength(length, offset)
           rest  == length - head
           full  == rest \div BlockSize
           tail  == rest % BlockSize
           last  == first + full + (IF tail # 0 THEN 1 ELSE 0)
           c     == Chunks(length, offset)[b]
<1>1. BlockSize \in Nat \ {0}
  BY BufferAssumption
<1>2. first \in Nat /\ within \in 0 .. BlockSize - 1 /\ offset = first * BlockSize + within
  BY DivMod
<1>3. head \in Nat /\ rest \in Nat /\ head <= BlockSize - within
                  /\ (rest > 0 => head = BlockSize - within)
                  /\ (length > 0 => head > 0)
  BY <1>1, <1>2 DEF HeadLength
<1>4. full \in Nat /\ tail \in 0 .. BlockSize - 1 /\ rest = full * BlockSize + tail
  BY <1>3, DivMod
<1>5. /\ b \in first..last
      /\ c = [from  |-> IF b = first THEN 0 ELSE head + (b - first - 1) * BlockSize,
              count |-> IF b = first THEN head
                        ELSE IF b <= first + full THEN BlockSize ELSE tail,
              at    |-> IF b = first THEN offset % BlockSize ELSE 0]
  BY DEF Chunks
<1>6. /\ c.from = (IF b = first THEN 0 ELSE head + (b - first - 1) * BlockSize)
      /\ c.count = (IF b = first THEN head
                    ELSE IF b <= first + full THEN BlockSize ELSE tail)
      /\ c.at = (IF b = first THEN within ELSE 0)
  BY <1>5
<1>7. length = head + rest
  BY <1>3
<1> HIDE DEF first, within, head, rest, full, tail, c
<1>8. b \in Nat /\ first <= b
  BY <1>2, <1>4, <1>5
<1>9. c.from \in Nat /\ c.count \in Nat /\ c.at \in Nat
  <2>1. CASE b = first
    BY <1>2, <1>3, <1>6, <2>1
  <2>2. CASE b # first
    <3>1. b - first - 1 \in Nat
      BY <1>2, <1>8, <2>2
    <3>2. (b - first - 1) * BlockSize \in Nat
      BY <1>1, <3>1
    <3> QED BY <1>1, <1>3, <1>4, <1>6, <2>2, <3>2
  <2> QED BY <2>1, <2>2
<1>10. c.from + c.count <= length
  <2>1. CASE b = first
    BY <1>3, <1>6, <1>7, <2>1
  <2>2. CASE b # first /\ b <= first + full
    <3>1. b - first - 1 \in Int /\ b - first <= full /\ b - first \in Int
      BY <1>2, <1>4, <1>8, <2>2
    <3>2. (b - first) * BlockSize <= full * BlockSize
      BY <1>1, <1>4, <3>1, TimesIsMonotonic
    <3>3. (b - first - 1) * BlockSize + BlockSize = (b - first) * BlockSize
      BY <1>1, <3>1
    <3> QED BY <1>1, <1>3, <1>4, <1>6, <1>7, <2>2, <3>1, <3>2, <3>3
  <2>3. CASE ~(b <= first + full)
    <3>1. b = first + full + 1 /\ b # first
      BY <1>2, <1>4, <1>5, <2>3
    <3>2. b - first - 1 = full
      BY <1>2, <1>4, <3>1
    <3> QED BY <1>1, <1>3, <1>4, <1>6, <1>7, <2>3, <3>1, <3>2
  <2> QED BY <2>1, <2>2, <2>3
<1>11. ASSUME length > 0 PROVE b + 1 <= BlockCount(offset + length)
  <2> DEFINE n == offset + length
  <2>1. n \in Nat /\ BlockCount(n) \in Nat
    BY BlockCountIsEnough
  <2>2. n > b * BlockSize
    <3>1. n = first * BlockSize + within + head + rest
      BY <1>2, <1>3, <1>7
    <3>2. CASE b = first
      BY <1>1, <1>2, <1>3, <1>11, <3>1, <3>2
    <3>3. CASE b # first
      <4>1. b - first - 1 \in Nat /\ b - first \in Nat
        BY <1>2, <1>8, <3>3
      <4>2. rest > 0 /\ rest > (b - first - 1) * BlockSize
        <5>1. CASE b <= first + full
          <6>1. b - first <= full
            BY <1>2, <1>4, <1>8, <5>1
          <6>2. (b - first) * BlockSize <= full * BlockSize
            BY <1>1, <1>4, <4>1, <6>1, TimesIsMonotonic
          <6>3. (b - first - 1) * BlockSize + BlockSize = (b - first) * BlockSize
            BY <1>1, <4>1
          <6>4. (b - first - 1) * BlockSize \in Nat /\ full * BlockSize \in Nat
            BY <1>1, <1>4, <4>1
          <6> QED BY <1>1, <1>4, <6>2, <6>3, <6>4
        <5>2. CASE ~(b <= first + full)
          <6>1. tail > 0 /\ b - first - 1 = full
            BY <1>2, <1>4, <1>5, <5>2
          <6>2. full * BlockSize \in Nat
            BY <1>1, <1>4
          <6> QED BY <1>4, <6>1, <6>2
        <5> QED BY <5>1, <5>2
      <4>3. n = first * BlockSize + BlockSize + rest
        BY <1>1, <1>2, <1>3, <3>1, <4>2
      <4>4. first * BlockSize + BlockSize + (b - first - 1) * BlockSize = b * BlockSize
        BY <1>1, <1>2, <1>8, <4>1
      <4> QED BY <1>1, <1>2, <1>3, <4>1, <4>2, <4>3, <4>4
    <3> QED BY <3>2, <3>3
  <2>3. ~(n <= b * BlockSize)
    BY <1>1, <1>8, <2>1, <2>2
  <2>4. ~(BlockCount(n) <= b)
    BY <1>8, <2>1, <2>3, BlockCountIsEnough
  <2> QED BY <1>8, <2>1, <2>4
<1> QED BY <1>8, <1>9, <1>10, <1>11 DEF c, first

(* ------------------------- where a block begins ------------------------ *)

(* The bytes of a file before its block p, counted from 1.                 *)
Base(p) == (p - 1) * BlockSize

(* Blocks follow each other without a gap.                                 *)
LEMMA BaseStep ==
  ASSUME NEW p \in Nat \ {0}
  PROVE  /\ Base(p) \in Nat /\ Base(p + 1) \in Nat /\ Base(1) = 0
         /\ Base(p + 1) = Base(p) + BlockSize
         /\ BlockSize \in Nat \ {0}
<1>1. BlockSize \in Nat \ {0} /\ p - 1 \in Nat
  BY BufferAssumption
<1>2. (p - 1) * BlockSize \in Nat
  BY <1>1
<1>3. p * BlockSize = (p - 1) * BlockSize + BlockSize
  BY <1>1
<1> QED BY <1>1, <1>2, <1>3 DEF Base

(* An earlier block ends where a later one begins, or before.              *)
LEMMA BaseOrder ==
  ASSUME NEW p \in Nat \ {0}, NEW q \in Nat \ {0}
  PROVE  /\ p <= q => Base(p) <= Base(q)
         /\ p < q => Base(p) + BlockSize <= Base(q)
<1>1. BlockSize \in Nat \ {0}
  BY BufferAssumption
<1>2. ASSUME NEW a \in Nat \ {0}, NEW b \in Nat \ {0}, a <= b PROVE Base(a) <= Base(b)
  BY <1>1, <1>2, TimesIsMonotonic DEF Base
<1>3. ASSUME p < q PROVE Base(p + 1) <= Base(q)
  BY <1>2, <1>3
<1> QED BY <1>2, <1>3, BaseStep

(* A position of a file is in one block.                                   *)
LEMMA OneBlock ==
  ASSUME NEW p \in Nat \ {0}, NEW q \in Nat \ {0}, NEW j \in 1..BlockSize, NEW k \in 1..BlockSize,
         Base(p) + j = Base(q) + k
  PROVE  p = q /\ j = k
<1>1. /\ Base(p) \in Nat /\ Base(q) \in Nat /\ BlockSize \in Nat
      /\ (p < q => Base(p) + BlockSize <= Base(q)) /\ (q < p => Base(q) + BlockSize <= Base(p))
  BY BaseStep, BaseOrder
<1> QED BY <1>1

(* The block that holds the byte at a position, and where.                 *)
LEMMA BlockOfPosition ==
  ASSUME NEW k \in Nat \ {0}
  PROVE  LET p == (k - 1) \div BlockSize + 1
             j == ((k - 1) % BlockSize) + 1
         IN  p \in Nat \ {0} /\ j \in 1..BlockSize /\ Base(p) + j = k
<1> DEFINE q == (k - 1) \div BlockSize
           r == (k - 1) % BlockSize
<1>1. /\ q \in Nat /\ r \in 0 .. BlockSize - 1 /\ k - 1 = q * BlockSize + r
      /\ BlockSize \in Nat \ {0}
  BY DivMod, BufferAssumption
<1> HIDE DEF q, r
<1>2. q * BlockSize \in Nat
  BY <1>1
<1>3. Base(q + 1) = q * BlockSize
  BY <1>1 DEF Base
<1>4. q + 1 \in Nat \ {0} /\ r + 1 \in 1..BlockSize /\ Base(q + 1) + (r + 1) = k
  BY <1>1, <1>2, <1>3
<1> QED BY <1>4 DEF q, r

(* The blocks of n bytes are those that begin before the end.              *)
LEMMA BlockBegins ==
  ASSUME NEW n \in Nat, NEW p \in Nat \ {0}
  PROVE  p \in 1..BlockCount(n) <=> Base(p) < n
<1>1. BlockCount(n) \in Nat /\ (n <= (p - 1) * BlockSize <=> BlockCount(n) <= p - 1)
  BY BlockCountIsEnough
<1>2. Base(p) = (p - 1) * BlockSize /\ Base(p) \in Nat
  BY BaseStep DEF Base
<1> QED BY <1>1, <1>2

(* How long block p of n bytes is.                                         *)
Width(p, n) == IF Base(p) + BlockSize <= n THEN BlockSize ELSE n - Base(p)

(* A block of a file is not empty, and full unless it is the last.         *)
LEMMA WidthBounds ==
  ASSUME NEW n \in Nat, NEW p \in 1..BlockCount(n)
  PROVE  /\ p \in Nat \ {0} /\ Width(p, n) \in 1..BlockSize
         /\ \A j \in 1..BlockSize : j <= Width(p, n) <=> Base(p) + j <= n
         /\ p + 1 \in 1..BlockCount(n) => Width(p, n) = BlockSize
<1>1. BlockCount(n) \in Nat
  BY BlockCountIsEnough
<1>2. p \in Nat \ {0} /\ p + 1 \in Nat \ {0}
  BY <1>1
<1>3. /\ Base(p) \in Nat /\ Base(p) < n /\ Base(p + 1) = Base(p) + BlockSize /\ BlockSize \in Nat \ {0}
      /\ p + 1 \in 1..BlockCount(n) => Base(p + 1) < n
  BY <1>2, BaseStep, BlockBegins
<1> QED BY <1>2, <1>3 DEF Width

(* ------------------------- where a piece falls ------------------------- *)

(* A piece lies in its block where the range lies in the file, and ends    *)
(* with the block or with the range.                                       *)
LEMMA ChunksPlace ==
  ASSUME NEW length \in Nat, NEW offset \in Nat,
         NEW b \in DOMAIN Chunks(length, offset)
  PROVE  LET c == Chunks(length, offset)[b]
         IN  /\ Base(b + 1) + c.at = offset + c.from
             /\ c.at + c.count <= BlockSize
             /\ c.at # 0 => c.from = 0
             /\ c.at + c.count = BlockSize \/ Base(b + 1) + c.at + c.count = offset + length
             /\ length > 0 => c.count > 0
<1> DEFINE first == offset \div BlockSize
           within == offset % BlockSize
           head  == HeadLength(length, offset)
           rest  == length - head
           full  == rest \div BlockSize
           tail  == rest % BlockSize
           last  == first + full + (IF tail # 0 THEN 1 ELSE 0)
           c     == Chunks(length, offset)[b]
<1> SUFFICES /\ Base(b + 1) + c.at = offset + c.from
             /\ c.at + c.count <= BlockSize
             /\ c.at # 0 => c.from = 0
             /\ c.at + c.count = BlockSize \/ Base(b + 1) + c.at + c.count = offset + length
             /\ length > 0 => c.count > 0
  OBVIOUS
<1>1. BlockSize \in Nat \ {0}
  BY BufferAssumption
<1>2. first \in Nat /\ within \in 0 .. BlockSize - 1 /\ offset = first * BlockSize + within
  BY DivMod
<1>3. head \in Nat /\ rest \in Nat /\ head <= BlockSize - within
                  /\ (rest > 0 => head = BlockSize - within)
                  /\ (length > 0 => head > 0)
  BY <1>1, <1>2 DEF HeadLength
<1>4. full \in Nat /\ tail \in 0 .. BlockSize - 1 /\ rest = full * BlockSize + tail
  BY <1>3, DivMod
<1>5. /\ b \in first..last
      /\ c = [from  |-> IF b = first THEN 0 ELSE head + (b - first - 1) * BlockSize,
              count |-> IF b = first THEN head
                        ELSE IF b <= first + full THEN BlockSize ELSE tail,
              at    |-> IF b = first THEN offset % BlockSize ELSE 0]
  BY DEF Chunks
<1>6. /\ c.from = (IF b = first THEN 0 ELSE head + (b - first - 1) * BlockSize)
      /\ c.count = (IF b = first THEN head
                    ELSE IF b <= first + full THEN BlockSize ELSE tail)
      /\ c.at = (IF b = first THEN within ELSE 0)
  BY <1>5
<1>7. length = head + rest
  BY <1>3
<1>8. b \in first..last /\ last = first + full + (IF tail # 0 THEN 1 ELSE 0)
  BY <1>5
<1> HIDE DEF first, within, head, rest, full, tail, last, c
<1>9. b \in Nat /\ first <= b /\ b <= last
  BY <1>2, <1>4, <1>8
<1>10. Base(first + 1) = first * BlockSize /\ Base(first + 1) \in Nat /\ Base(b + 1) \in Nat
  <2>1. Base(first + 1) = first * BlockSize
    BY <1>2 DEF Base
  <2> QED BY <1>2, <1>9, <2>1, BaseStep
<1>11. CASE b = first
  <2>1. Base(b + 1) + c.at = offset + c.from
    BY <1>2, <1>6, <1>10, <1>11
  <2> QED BY <1>1, <1>2, <1>3, <1>6, <1>7, <1>10, <1>11, <2>1
<1>12. CASE b # first
  <2>1. b - first - 1 \in Nat
    BY <1>2, <1>9, <1>12
  <2>2. full > 0 \/ tail > 0
    BY <1>2, <1>4, <1>8, <1>9, <1>12
  <2>3. full > 0 => full * BlockSize >= BlockSize
    <3>1. full > 0 => 1 * BlockSize <= full * BlockSize
      BY <1>1, <1>4, TimesIsMonotonic
    <3> QED BY <1>1, <3>1
  <2>4. full * BlockSize \in Nat
    BY <1>1, <1>4
  <2>5. head = BlockSize - within
    BY <1>1, <1>3, <1>4, <2>2, <2>3, <2>4
  <2>6. Base(b + 1) = first * BlockSize + BlockSize + (b - first - 1) * BlockSize
    <3>1. b * BlockSize = first * BlockSize + BlockSize + (b - first - 1) * BlockSize
      BY <1>1, <1>2, <1>9
    <3>2. Base(b + 1) = b * BlockSize
      BY <1>9 DEF Base
    <3> QED BY <3>1, <3>2
  <2>7. (b - first - 1) * BlockSize \in Nat /\ first * BlockSize \in Nat
    BY <1>1, <1>2, <2>1
  <2>8. Base(b + 1) + c.at = offset + c.from /\ c.at = 0
    BY <1>1, <1>2, <1>3, <1>6, <1>12, <2>5, <2>6, <2>7
  <2>9. CASE b <= first + full
    BY <1>1, <1>6, <1>12, <2>8, <2>9
  <2>10. CASE ~(b <= first + full)
    <3>1. b - first - 1 = full /\ tail > 0
      BY <1>2, <1>4, <1>8, <1>9, <2>10
    <3>2. c.from = head + full * BlockSize /\ c.count = tail
      BY <1>6, <1>12, <2>10, <3>1
    <3>3. offset + c.from + c.count = offset + length
      BY <1>2, <1>3, <1>4, <1>7, <2>4, <3>2
    <3> QED BY <1>1, <1>4, <2>7, <2>8, <3>1, <3>2, <3>3, <1>10, <1>3
  <2> QED BY <2>9, <2>10
<1> QED BY <1>11, <1>12

(* Every block the range meets has a piece.                                *)
LEMMA ChunksReach ==
  ASSUME NEW length \in Nat \ {0}, NEW offset \in Nat, NEW b \in Nat,
         Base(b + 1) < offset + length, offset < Base(b + 1) + BlockSize
  PROVE  b \in DOMAIN Chunks(length, offset)
<1> DEFINE first == offset \div BlockSize
           within == offset % BlockSize
           head  == HeadLength(length, offset)
           rest  == length - head
           full  == rest \div BlockSize
           tail  == rest % BlockSize
           last  == first + full + (IF tail # 0 THEN 1 ELSE 0)
<1>1. BlockSize \in Nat \ {0}
  BY BufferAssumption
<1>2. first \in Nat /\ within \in 0 .. BlockSize - 1 /\ offset = first * BlockSize + within
  BY DivMod
<1>3. head \in Nat /\ rest \in Nat /\ head <= BlockSize - within
                  /\ (rest > 0 => head = BlockSize - within)
  BY <1>1, <1>2 DEF HeadLength
<1>4. full \in Nat /\ tail \in 0 .. BlockSize - 1 /\ rest = full * BlockSize + tail
  BY <1>3, DivMod
<1>5. DOMAIN Chunks(length, offset) = first..last /\ length = head + rest
  BY <1>3 DEF Chunks
<1>6. last = first + full + (IF tail # 0 THEN 1 ELSE 0) /\ last \in Nat
  BY <1>2, <1>4
<1> HIDE DEF first, within, head, rest, full, tail, last
<1>7. Base(first + 1) = first * BlockSize /\ Base(first + 1) \in Nat
  <2>1. Base(first + 1) = first * BlockSize
    BY <1>2 DEF Base
  <2> QED BY <1>2, <2>1, BaseStep
<1>8. first <= b
  <2> SUFFICES ASSUME b < first PROVE FALSE
    BY <1>2
  <2>1. b + 1 < first + 1 /\ b + 1 \in Nat \ {0} /\ first + 1 \in Nat \ {0}
    BY <1>2
  <2>2. Base(b + 1) + BlockSize <= Base(first + 1) /\ Base(b + 1) \in Nat
    BY <2>1, BaseOrder, BaseStep
  <2> QED BY <1>1, <1>2, <1>7, <2>2
<1>9. offset + length <= Base(last + 2)
  <2> DEFINE k == last - first
  <2>1. k \in Nat /\ k = full + (IF tail # 0 THEN 1 ELSE 0)
    BY <1>2, <1>4, <1>6
  <2>2. Base(last + 2) = first * BlockSize + BlockSize + k * BlockSize
    <3>1. (last + 1) * BlockSize = (first + 1 + k) * BlockSize
      BY <1>2, <1>6, <2>1
    <3>2. (first + 1 + k) * BlockSize = first * BlockSize + BlockSize + k * BlockSize
      BY <1>1, <1>2, <2>1
    <3>3. Base(last + 2) = (last + 1) * BlockSize
      BY <1>6 DEF Base
    <3> QED BY <3>1, <3>2, <3>3
  <2> HIDE DEF k
  <2>3. rest <= k * BlockSize
    <3>1. CASE tail = 0
      BY <1>1, <1>4, <2>1, <3>1
    <3>2. CASE tail # 0
      <4>1. k * BlockSize = full * BlockSize + BlockSize
        BY <1>1, <1>4, <2>1, <3>2
      <4>2. full * BlockSize \in Nat
        BY <1>1, <1>4
      <4> QED BY <1>1, <1>4, <4>1, <4>2
    <3> QED BY <3>1, <3>2
  <2>4. k * BlockSize \in Nat /\ first * BlockSize \in Nat
    BY <1>1, <1>2, <2>1
  <2> QED BY <1>1, <1>2, <1>3, <1>5, <2>2, <2>3, <2>4
<1>10. b <= last
  <2> SUFFICES ASSUME last < b PROVE FALSE
    BY <1>6
  <2>1. last + 2 <= b + 1 /\ last + 2 \in Nat \ {0} /\ b + 1 \in Nat \ {0}
    BY <1>6
  <2>2. Base(last + 2) <= Base(b + 1) /\ Base(last + 2) \in Nat /\ Base(b + 1) \in Nat
    BY <2>1, BaseOrder, BaseStep
  <2> QED BY <1>9, <2>2
<1> QED BY <1>2, <1>5, <1>6, <1>8, <1>10

(* A position of the file is in the range exactly when it is in a piece.   *)
LEMMA ChunkHits ==
  ASSUME NEW length \in Nat \ {0}, NEW offset \in Nat, NEW b \in Nat, NEW k \in 1..BlockSize
  PROVE  LET chunks == Chunks(length, offset)
             c == chunks[b]
         IN  /\ Base(b + 1) + k \in offset + 1 .. offset + length <=>
                  b \in DOMAIN chunks /\ k \in c.at + 1 .. c.at + c.count
             /\ b \in DOMAIN chunks => c.from + (k - c.at) = Base(b + 1) + k - offset
<1> DEFINE chunks == Chunks(length, offset)
           c == chunks[b]
<1>1. Base(b + 1) \in Nat /\ BlockSize \in Nat \ {0}
  BY BaseStep
<1>2. ASSUME b \in DOMAIN chunks
      PROVE  /\ c.from \in Nat /\ c.count \in Nat /\ c.at \in Nat /\ c.from + c.count <= length
             /\ Base(b + 1) + c.at = offset + c.from /\ c.at + c.count <= BlockSize
             /\ c.at # 0 => c.from = 0
             /\ c.at + c.count = BlockSize \/ Base(b + 1) + c.at + c.count = offset + length
  BY <1>2, ChunksBounds, ChunksPlace
<1>3. ASSUME Base(b + 1) + k \in offset + 1 .. offset + length
      PROVE  b \in DOMAIN chunks
  <2>1. Base(b + 1) < offset + length /\ offset < Base(b + 1) + BlockSize
    BY <1>1, <1>3
  <2> QED BY <2>1, ChunksReach
<1> HIDE DEF chunks, c
<1>4. ASSUME Base(b + 1) + k \in offset + 1 .. offset + length
      PROVE  k \in c.at + 1 .. c.at + c.count
  BY <1>1, <1>2, <1>3, <1>4
<1>5. ASSUME b \in DOMAIN chunks, k \in c.at + 1 .. c.at + c.count
      PROVE  Base(b + 1) + k \in offset + 1 .. offset + length
  BY <1>1, <1>2, <1>5
<1>6. ASSUME b \in DOMAIN chunks PROVE c.from + (k - c.at) = Base(b + 1) + k - offset
  BY <1>1, <1>2, <1>6
<1> QED BY <1>3, <1>4, <1>5, <1>6 DEF chunks, c

(* ---------------------- a file and its blocks -------------------------- *)

(* What the blocks of a file are: as many as it needs, each one full but   *)
(* the last, each with the bytes of its place.                             *)
Represents(blocks, file) ==
  /\ DOMAIN blocks = 1..BlockCount(Len(file))
  /\ \A p \in DOMAIN blocks :
       /\ blocks[p] \in Seq(Byte) /\ Len(blocks[p]) = Width(p, Len(file))
       /\ \A j \in 1..Len(blocks[p]) : blocks[p][j] = file[Base(p) + j]

(* The file with bytes laid over it at offset.                             *)
Overlaid(file, bytes, offset) ==
  LET n == offset + Len(bytes)
  IN  [k \in 1..(IF n > Len(file) THEN n ELSE Len(file)) |->
         IF k \in offset + 1 .. n THEN bytes[k - offset]
         ELSE IF k <= Len(file) THEN file[k] ELSE Zero]

(* A file with bytes laid over it is as long as the longer end asks for.   *)
LEMMA OverlaidType ==
  ASSUME NEW file \in Seq(Byte), NEW bytes \in Seq(Byte), NEW offset \in Nat
  PROVE  /\ Overlaid(file, bytes, offset) \in Seq(Byte)
         /\ Len(Overlaid(file, bytes, offset))
              = IF offset + Len(bytes) > Len(file) THEN offset + Len(bytes) ELSE Len(file)
<1> DEFINE n == offset + Len(bytes)
           m == IF n > Len(file) THEN n ELSE Len(file)
<1>1. n \in Nat /\ m \in Nat
  OBVIOUS
<1>2. \A k \in 1..m : Overlaid(file, bytes, offset)[k] \in Byte
  <2> SUFFICES ASSUME NEW k \in 1..m PROVE Overlaid(file, bytes, offset)[k] \in Byte
    OBVIOUS
  <2>1. CASE k \in offset + 1 .. n
    <3>1. k - offset \in 1..Len(bytes)
      BY <1>1, <2>1
    <3> QED BY <2>1, <3>1 DEF Overlaid
  <2>2. CASE k \notin offset + 1 .. n /\ k <= Len(file)
    <3>1. k \in 1..Len(file)
      BY <1>1, <2>2
    <3> QED BY <2>2, <3>1 DEF Overlaid
  <2>3. CASE k \notin offset + 1 .. n /\ ~(k <= Len(file))
    BY <2>3, BufferAssumption DEF Overlaid
  <2> QED BY <2>1, <2>2, <2>3
<1>3. Overlaid(file, bytes, offset) = [k \in 1..m |-> Overlaid(file, bytes, offset)[k]]
  BY DEF Overlaid
<1>4. m = IF offset + Len(bytes) > Len(file) THEN offset + Len(bytes) ELSE Len(file)
  OBVIOUS
<1> HIDE DEF m, n
<1>5. Overlaid(file, bytes, offset) \in [1..m -> Byte]
  BY <1>2, <1>3
<1>6. Overlaid(file, bytes, offset) \in Seq(Byte) /\ Len(Overlaid(file, bytes, offset)) = m
  BY <1>1, <1>5
<1> QED BY <1>4, <1>6

(* Cut or grown to length, block by block.                                 *)
LEMMA ResizedBlocks ==
  ASSUME NEW file \in Seq(Byte), NEW blocks, Represents(blocks, file), NEW length \in Nat,
         NEW sized, DOMAIN sized = 1..BlockCount(length),
         \A p \in DOMAIN sized :
           sized[p] = BufTruncate(IF p \in DOMAIN blocks THEN blocks[p] ELSE <<>>, Width(p, length))
  PROVE  Represents(sized, BufTruncate(file, length))
<1> DEFINE new == BufTruncate(file, length)
<1>1. new \in Seq(Byte) /\ Len(new) = length
  BY BufTruncateType
<1>2. \A k \in 1..length : new[k] = IF k <= Len(file) THEN file[k] ELSE Zero
  BY DEF BufTruncate
<1> HIDE DEF new
<1>3. SUFFICES ASSUME NEW p \in DOMAIN sized
               PROVE  /\ sized[p] \in Seq(Byte) /\ Len(sized[p]) = Width(p, length)
                      /\ \A j \in 1..Len(sized[p]) : sized[p][j] = new[Base(p) + j]
  BY <1>1 DEF Represents, new
<1> DEFINE old == IF p \in DOMAIN blocks THEN blocks[p] ELSE <<>>
<1>4. old \in Seq(Byte)
  BY DEF Represents
<1>5. /\ p \in Nat \ {0} /\ Width(p, length) \in 1..BlockSize
      /\ \A j \in 1..BlockSize : j <= Width(p, length) <=> Base(p) + j <= length
      /\ Base(p) \in Nat /\ BlockSize \in Nat \ {0}
  BY WidthBounds, BaseStep
<1>6. \A j \in 1..BlockSize : j <= Len(old) <=> Base(p) + j <= Len(file)
  <2>1. CASE p \in DOMAIN blocks
    BY <2>1, WidthBounds DEF Represents
  <2>2. CASE p \notin DOMAIN blocks
    <3>1. ~(Base(p) < Len(file))
      BY <1>5, <2>2, BlockBegins DEF Represents
    <3> QED BY <1>5, <2>2, <3>1
  <2> QED BY <2>1, <2>2
<1>7. \A j \in 1..Len(old) : old[j] = file[Base(p) + j]
  BY DEF Represents
<1>11. sized[p] = BufTruncate(old, Width(p, length))
  OBVIOUS
<1> HIDE DEF old
<1>8. /\ sized[p] = BufTruncate(old, Width(p, length))
      /\ sized[p] \in Seq(Byte) /\ Len(sized[p]) = Width(p, length)
  BY <1>4, <1>5, <1>11, BufTruncateType
<1>9. \A j \in 1..Width(p, length) : sized[p][j] = IF j <= Len(old) THEN old[j] ELSE Zero
  BY <1>8 DEF BufTruncate
<1>10. ASSUME NEW j \in 1..Width(p, length) PROVE sized[p][j] = new[Base(p) + j]
  <2>1. j \in 1..BlockSize /\ Base(p) + j \in 1..length
    BY <1>5
  <2>2. CASE j <= Len(old)
    <3>1. j \in 1..Len(old) /\ Base(p) + j <= Len(file)
      BY <1>4, <1>6, <2>1, <2>2
    <3> QED BY <1>2, <1>7, <1>9, <2>1, <2>2, <3>1
  <2>3. CASE ~(j <= Len(old))
    BY <1>2, <1>6, <1>9, <2>1, <2>3
  <2> QED BY <2>2, <2>3
<1> QED BY <1>8, <1>10

(* buffer_t::write of a piece that lies in the block, up to its end when   *)
(* it resizes.                                                             *)
LaidIn(w, data, piece, at) ==
  /\ w \in Seq(Byte) /\ Len(w) = Len(data)
  /\ \A k \in 1..Len(data) :
       w[k] = IF k \in at + 1 .. at + Len(piece) THEN piece[k - at] ELSE data[k]

(* buffer_t::write within a block, up to its end if it resizes it.         *)
LEMMA PieceIsWritten ==
  ASSUME NEW data \in Seq(Byte), NEW bytes \in Seq(Byte), NEW offset \in Nat, NEW resize \in BOOLEAN,
         offset + Len(bytes) <= Len(data), resize => offset + Len(bytes) = Len(data)
  PROVE  LaidIn(BufWrite(data, bytes, offset, resize), data, bytes, offset)
<1> DEFINE base == IF resize THEN BufTruncate(data, offset + Len(bytes)) ELSE data
           n == Clip(Len(base), Len(bytes), offset)
<1>1. BufTruncate(data, Len(data)) = data
  BY DEF BufTruncate
<1>2. base = data
  BY <1>1
<1>3. n = Len(bytes)
  <2>1. n = Clip(Len(data), Len(bytes), offset)
    BY <1>2
  <2>2. Len(data) \in Nat /\ Len(bytes) \in Nat /\ offset + Len(bytes) <= Len(data)
    OBVIOUS
  <2>3. Clip(Len(data), Len(bytes), offset) = Len(bytes)
    BY <2>2, ClipBounds, Zenon
  <2> QED BY <2>1, <2>3
<1>4. BufWrite(data, bytes, offset, resize)
        = [k \in 1..Len(base) |-> IF k \in offset + 1 .. offset + n THEN bytes[k - offset] ELSE base[k]]
  BY DEF BufWrite
<1> HIDE DEF base, n
<1>5. BufWrite(data, bytes, offset, resize)
        = [k \in 1..Len(data) |-> IF k \in offset + 1 .. offset + Len(bytes) THEN bytes[k - offset] ELSE data[k]]
  BY <1>2, <1>3, <1>4
<1>6. BufWrite(data, bytes, offset, resize) \in Seq(Byte)
  BY BufWriteType
<1> QED BY <1>5, <1>6 DEF LaidIn

(* One piece, put where the range has its part of the block.               *)
Covers(data, base, size) == \A j \in 1..BlockSize : j <= Len(data) <=> base + j <= size

LaidOver(w, data, bytes, at, count, base, offset) ==
  /\ w \in Seq(Byte) /\ Len(w) = Len(data)
  /\ \A j \in 1..Len(data) :
       w[j] = IF j \in at + 1 .. at + count THEN bytes[base + j - offset] ELSE data[j]

(* The piece of a range, written into the block it lies in.                *)
LEMMA WrittenBlock ==
  ASSUME NEW data \in Seq(Byte), NEW bytes \in Seq(Byte), NEW resize \in BOOLEAN,
         NEW base \in Nat, NEW size \in Nat, NEW offset \in Nat,
         NEW from \in Nat, NEW count \in Nat \ {0}, NEW at \in Nat,
         from + count <= Len(bytes), base + at = offset + from, at + count <= BlockSize,
         at + count = BlockSize \/ base + at + count = offset + Len(bytes),
         Len(data) <= BlockSize, Covers(data, base, size),
         offset + Len(bytes) <= size, resize => offset + Len(bytes) = size
  PROVE  LaidOver(BufWrite(data, SubSeq(bytes, from + 1, from + count), at, resize),
                  data, bytes, at, count, base, offset)
<1> DEFINE piece == SubSeq(bytes, from + 1, from + count)
           w == BufWrite(data, piece, at, resize)
<1>1. BlockSize \in Nat \ {0} /\ Len(bytes) \in Nat /\ Len(data) \in Nat
  BY BufferAssumption
<1>2. /\ piece \in Seq(Byte) /\ Len(piece) = count
      /\ \A k \in 1..count : piece[k] = bytes[from + k]
  BY <1>1
<1> HIDE DEF piece
<1>3. at + count <= Len(data)
  <2>1. at + count \in 1..BlockSize /\ base + (at + count) <= size
    BY <1>1
  <2> QED BY <2>1 DEF Covers
<1>4. ASSUME resize PROVE at + count = Len(data)
  <2>1. CASE at + count = BlockSize
    BY <1>1, <1>3, <2>1
  <2>2. CASE base + at + count = offset + Len(bytes)
    <3>1. base + Len(data) <= size
      <4>1. Len(data) \in 1..BlockSize
        BY <1>1, <1>3
      <4> QED BY <4>1 DEF Covers
    <3> QED BY <1>1, <1>3, <1>4, <2>2, <3>1
  <2> QED BY <2>1, <2>2
<1>5. /\ w \in Seq(Byte) /\ Len(w) = Len(data)
      /\ \A k \in 1..Len(data) :
           w[k] = IF k \in at + 1 .. at + count THEN piece[k - at] ELSE data[k]
  <2>1. /\ at + Len(piece) <= Len(data) /\ (resize => at + Len(piece) = Len(data))
        /\ piece \in Seq(Byte) /\ Len(piece) = count
    BY <1>2, <1>3, <1>4
  <2>2. LaidIn(w, data, piece, at)
    BY <2>1, PieceIsWritten
  <2> HIDE DEF w
  <2> QED BY <2>1, <2>2 DEF LaidIn
<1>6. ASSUME NEW j \in at + 1 .. at + count PROVE piece[j - at] = bytes[base + j - offset]
  <2>1. j - at \in 1..count /\ from + (j - at) = base + j - offset
    OBVIOUS
  <2> QED BY <1>2, <2>1
<1> HIDE DEF w
<1>7. LaidOver(w, data, bytes, at, count, base, offset)
  BY <1>5, <1>6 DEF LaidOver
<1> QED BY <1>7 DEF w, piece

(* Bytes written over a range that lies in the file, and up to its end     *)
(* when the blocks are resized, piece by piece.                            *)
LEMMA WrittenBlocks ==
  ASSUME NEW file \in Seq(Byte), NEW blocks, Represents(blocks, file),
         NEW bytes \in Seq(Byte) \ {<<>>}, NEW offset \in Nat, NEW resize \in BOOLEAN,
         offset + Len(bytes) <= Len(file), resize => offset + Len(bytes) = Len(file),
         NEW chunks, chunks = Chunks(Len(bytes), offset),
         NEW written, DOMAIN written = DOMAIN blocks,
         \A p \in DOMAIN blocks :
           written[p] = IF p - 1 \in DOMAIN chunks
                        THEN BufWrite(blocks[p],
                                      SubSeq(bytes, chunks[p - 1].from + 1, chunks[p - 1].from + chunks[p - 1].count),
                                      chunks[p - 1].at, resize)
                        ELSE blocks[p]
  PROVE  Represents(written, Overlaid(file, bytes, offset))
<1> DEFINE new == Overlaid(file, bytes, offset)
<1>1. new \in Seq(Byte) /\ Len(new) = Len(file)
  BY OverlaidType
<1>2. \A k \in 1..Len(file) :
         new[k] = IF k \in offset + 1 .. offset + Len(bytes) THEN bytes[k - offset] ELSE file[k]
  BY DEF Overlaid
<1>3. Len(bytes) \in Nat \ {0}
  OBVIOUS
<1> HIDE DEF new
<1>4. DOMAIN blocks = 1..BlockCount(Len(file)) /\ BlockCount(Len(file)) \in Nat
  BY BlockCountIsEnough DEF Represents
<1>5. ASSUME NEW b \in Nat, b + 1 \in DOMAIN blocks
      PROVE  /\ written[b + 1] \in Seq(Byte) /\ Len(written[b + 1]) = Len(blocks[b + 1])
             /\ \A j \in 1..Len(blocks[b + 1]) : written[b + 1][j] = new[Base(b + 1) + j]
  <2> DEFINE data == blocks[b + 1]
             base == Base(b + 1)
             c    == chunks[b]
  <2>1. b + 1 \in 1..BlockCount(Len(file)) /\ (b + 1) - 1 = b
    BY <1>4, <1>5
  <2>2. /\ data \in Seq(Byte) /\ Len(data) = Width(b + 1, Len(file))
        /\ \A j \in 1..Len(data) : data[j] = file[base + j]
    BY <1>5 DEF Represents
  <2>3. /\ Len(data) \in 1..BlockSize
        /\ \A j \in 1..BlockSize : j <= Len(data) <=> base + j <= Len(file)
    BY <2>1, <2>2, WidthBounds
  <2>4. base \in Nat /\ BlockSize \in Nat \ {0}
    <3>1. b + 1 \in Nat \ {0}
      OBVIOUS
    <3> QED BY <3>1, BaseStep
  <2>5. \A j \in 1..BlockSize :
          base + j \in offset + 1 .. offset + Len(bytes) <=>
            b \in DOMAIN chunks /\ j \in c.at + 1 .. c.at + c.count
    BY <1>3, ChunkHits
  <2>6. written[b + 1] = IF b \in DOMAIN chunks
                         THEN BufWrite(data, SubSeq(bytes, c.from + 1, c.from + c.count), c.at, resize)
                         ELSE data
    BY <1>5, <2>1
  <2>7. ASSUME b \in DOMAIN chunks
        PROVE  /\ c.from \in Nat /\ c.count \in Nat \ {0} /\ c.at \in Nat /\ c.from + c.count <= Len(bytes)
               /\ base + c.at = offset + c.from /\ c.at + c.count <= BlockSize
               /\ c.at + c.count = BlockSize \/ base + c.at + c.count = offset + Len(bytes)
    <3>1. b \in DOMAIN Chunks(Len(bytes), offset) /\ c = Chunks(Len(bytes), offset)[b]
      BY <2>7
    <3>2. c.from \in Nat /\ c.count \in Nat /\ c.at \in Nat /\ c.from + c.count <= Len(bytes)
      BY <1>3, <3>1, ChunksBounds
    <3>3. /\ base + c.at = offset + c.from /\ c.at + c.count <= BlockSize
          /\ c.at + c.count = BlockSize \/ base + c.at + c.count = offset + Len(bytes)
          /\ c.count > 0
      BY <1>3, <3>1, ChunksPlace
    <3> QED BY <3>2, <3>3
  <2> SUFFICES /\ written[b + 1] \in Seq(Byte) /\ Len(written[b + 1]) = Len(data)
               /\ \A j \in 1..Len(data) : written[b + 1][j] = new[base + j]
    OBVIOUS
  <2> HIDE DEF data, base, c
  <2>8. \A j \in 1..Len(data) : j \in 1..BlockSize /\ base + j \in 1..Len(file)
    BY <2>3, <2>4
  <2>9. CASE b \notin DOMAIN chunks
    <3>1. ASSUME NEW j \in 1..Len(data) PROVE data[j] = new[base + j]
      BY <1>2, <2>2, <2>5, <2>8, <2>9
    <3> QED BY <2>2, <2>6, <2>9, <3>1
  <2>10. CASE b \in DOMAIN chunks
    <3>1. Len(data) <= BlockSize
      BY <2>3, <2>4
    <3>2. /\ written[b + 1] \in Seq(Byte) /\ Len(written[b + 1]) = Len(data)
          /\ \A j \in 1..Len(data) :
               written[b + 1][j] = IF j \in c.at + 1 .. c.at + c.count THEN bytes[base + j - offset]
                                   ELSE data[j]
      <4> DEFINE from == c.from
                 count == c.count
                 at == c.at
      <4>1. /\ from \in Nat /\ count \in Nat \ {0} /\ at \in Nat /\ from + count <= Len(bytes)
            /\ base + at = offset + from /\ at + count <= BlockSize
            /\ at + count = BlockSize \/ base + at + count = offset + Len(bytes)
        BY <2>7, <2>10
      <4>2. written[b + 1] = BufWrite(data, SubSeq(bytes, from + 1, from + count), at, resize)
        BY <2>6, <2>10
      <4>3. bytes \in Seq(Byte) /\ Len(file) \in Nat /\ Covers(data, base, Len(file))
        BY <2>3 DEF Covers
      <4> HIDE DEF from, count, at
      <4>4. LaidOver(BufWrite(data, SubSeq(bytes, from + 1, from + count), at, resize),
                     data, bytes, at, count, base, offset)
        BY <2>2, <2>4, <3>1, <4>1, <4>3, WrittenBlock
      <4> QED BY <4>2, <4>4 DEF from, count, at, LaidOver
    <3>3. ASSUME NEW j \in 1..Len(data) PROVE written[b + 1][j] = new[base + j]
      <4>1. base + j \in 1..Len(file) /\ base + j - offset = (base + j) - offset
        BY <2>4, <2>8
      <4>2. base + j \in offset + 1 .. offset + Len(bytes) <=> j \in c.at + 1 .. c.at + c.count
        BY <2>5, <2>8, <2>10
      <4>3. CASE j \in c.at + 1 .. c.at + c.count
        BY <1>2, <3>2, <4>1, <4>2, <4>3
      <4>4. CASE j \notin c.at + 1 .. c.at + c.count
        BY <1>2, <2>2, <3>2, <4>1, <4>2, <4>4
      <4> QED BY <4>3, <4>4
    <3> QED BY <3>2, <3>3
  <2> QED BY <2>9, <2>10
<1>6. \A p \in DOMAIN blocks : p - 1 \in Nat /\ (p - 1) + 1 = p
  BY <1>4
<1>7. ASSUME NEW p \in DOMAIN blocks
      PROVE  /\ written[p] \in Seq(Byte) /\ Len(written[p]) = Len(blocks[p])
             /\ \A j \in 1..Len(blocks[p]) : written[p][j] = new[Base(p) + j]
  <2>1. PICK b \in Nat : b + 1 = p
    BY <1>6
  <2> QED BY <1>5, <2>1
<1>8. \A p \in DOMAIN blocks : Len(blocks[p]) = Width(p, Len(file))
  BY DEF Represents
<1> QED BY <1>1, <1>4, <1>7, <1>8 DEF Represents, new

(* ---------------------- the blocks a file is sized to ------------------ *)

(* Blocks added to whole blocks.                                           *)
LEMMA BlockCountOfMore ==
  ASSUME NEW n \in Nat, NEW k \in Nat, k * BlockSize <= n
  PROVE  BlockCount(n) = k + BlockCount(n - k * BlockSize)
<1> DEFINE full == k * BlockSize
           r    == n - full
           a    == BlockCount(n)
           b    == BlockCount(r)
<1>1. BlockSize \in Nat \ {0} /\ full \in Nat /\ r \in Nat /\ n = full + r
  BY BufferAssumption
<1>2. /\ a \in Nat /\ n <= a * BlockSize /\ (\A m \in Nat : n <= m * BlockSize <=> a <= m)
      /\ b \in Nat /\ r <= b * BlockSize /\ (\A m \in Nat : r <= m * BlockSize <=> b <= m)
  BY <1>1, BlockCountIsEnough
<1> HIDE DEF a, b, r
<1>3. a <= k + b
  <2>1. (k + b) * BlockSize = full + b * BlockSize
    BY <1>1, <1>2
  <2>2. b * BlockSize \in Nat
    BY <1>1, <1>2
  <2>3. n <= (k + b) * BlockSize
    BY <1>1, <1>2, <2>1, <2>2
  <2> QED BY <1>2, <2>3
<1>4. k <= a
  <2> SUFFICES ASSUME a + 1 <= k PROVE FALSE
    BY <1>2
  <2>1. (a + 1) * BlockSize <= k * BlockSize
    BY <1>1, <1>2, TimesIsMonotonic
  <2>2. (a + 1) * BlockSize = a * BlockSize + BlockSize /\ a * BlockSize \in Nat
    BY <1>1, <1>2
  <2> QED BY <1>1, <1>2, <2>1, <2>2
<1>5. k + b <= a
  <2>1. a - k \in Nat /\ (a - k) * BlockSize = a * BlockSize - full
    BY <1>1, <1>2, <1>4
  <2>2. a * BlockSize \in Nat
    BY <1>1, <1>2
  <2>3. r <= (a - k) * BlockSize
    BY <1>1, <1>2, <2>1, <2>2
  <2> QED BY <1>2, <2>1, <2>3
<1> QED BY <1>2, <1>3, <1>5 DEF a, b, r

(* The pieces of a whole file are its blocks.                              *)
LEMMA WholeChunks ==
  ASSUME NEW length \in Nat \ {0}
  PROVE  /\ \A p \in Nat \ {0} : p - 1 \in DOMAIN Chunks(length, 0) <=> p \in 1..BlockCount(length)
         /\ \A p \in 1..BlockCount(length) : Chunks(length, 0)[p - 1].count = Width(p, length)
<1>1. BlockCount(length) \in Nat /\ BlockSize \in Nat \ {0} /\ 0 + length = length
  BY BlockCountIsEnough, BufferAssumption
<1>2. ASSUME NEW b \in DOMAIN Chunks(length, 0)
      PROVE  b \in Nat /\ b + 1 \in 1..BlockCount(length)
  BY <1>1, ChunksBounds
<1>3. ASSUME NEW p \in 1..BlockCount(length)
      PROVE  /\ p - 1 \in DOMAIN Chunks(length, 0)
             /\ Chunks(length, 0)[p - 1].count = Width(p, length)
  <2>1. PICK b \in Nat : b + 1 = p
    BY <1>1
  <2>2. p \in Nat \ {0} /\ Base(b + 1) \in Nat /\ Base(b + 1) < length
    <3>1. b + 1 \in Nat \ {0} /\ b + 1 \in 1..BlockCount(length)
      BY <2>1
    <3> QED BY <2>1, <3>1, BaseStep, BlockBegins
  <2>3. b \in DOMAIN Chunks(length, 0)
    BY <1>1, <2>2, ChunksReach
  <2> DEFINE c == Chunks(length, 0)[b]
  <2>4. c.from \in Nat /\ c.count \in Nat /\ c.at \in Nat /\ c.from + c.count <= length
    BY <2>3, ChunksBounds
  <2>5. /\ Base(b + 1) + c.at = 0 + c.from
        /\ c.at + c.count <= BlockSize
        /\ c.at # 0 => c.from = 0
        /\ c.at + c.count = BlockSize \/ Base(b + 1) + c.at + c.count = 0 + length
    BY <2>3, ChunksPlace
  <2> HIDE DEF c
  <2>6. c.at = 0 /\ c.from = Base(b + 1)
    BY <2>2, <2>4, <2>5
  <2>7. c.count = Width(b + 1, length)
    BY <1>1, <2>2, <2>4, <2>5, <2>6 DEF Width
  <2>8. p - 1 = b
    BY <2>1
  <2> QED BY <2>1, <2>3, <2>7, <2>8 DEF c
<1>4. ASSUME NEW p \in Nat \ {0}, p - 1 \in DOMAIN Chunks(length, 0)
      PROVE  p \in 1..BlockCount(length)
  BY <1>2, <1>4
<1> QED BY <1>3, <1>4

(* ------------------- the bytes the blocks of a file hold --------------- *)

(* Every byte of a file is one byte of one of its blocks.                  *)
LEMMA ByteOfBlock ==
  ASSUME NEW file \in Seq(Byte), NEW blocks, Represents(blocks, file), NEW k \in 1..Len(file)
  PROVE  LET p == (k - 1) \div BlockSize + 1
             j == ((k - 1) % BlockSize) + 1
         IN  /\ p \in DOMAIN blocks /\ j \in 1..Len(blocks[p])
             /\ Base(p) + j = k /\ blocks[p][j] = file[k]
<1> DEFINE p == (k - 1) \div BlockSize + 1
           j == ((k - 1) % BlockSize) + 1
<1>1. p \in Nat \ {0} /\ j \in 1..BlockSize /\ Base(p) + j = k
  BY BlockOfPosition
<1> SUFFICES /\ p \in DOMAIN blocks /\ j \in 1..Len(blocks[p])
             /\ Base(p) + j = k /\ blocks[p][j] = file[k]
  OBVIOUS
<1> HIDE DEF p, j
<1>2. Base(p) \in Nat /\ BlockSize \in Nat \ {0} /\ Len(file) \in Nat
  BY <1>1, BaseStep
<1>3. p \in 1..BlockCount(Len(file))
  BY <1>1, <1>2, BlockBegins
<1>4. /\ p \in DOMAIN blocks /\ Len(blocks[p]) = Width(p, Len(file)) /\ Len(blocks[p]) \in Nat
      /\ \A i \in 1..Len(blocks[p]) : blocks[p][i] = file[Base(p) + i]
  BY <1>3 DEF Represents
<1>5. j <= Width(p, Len(file))
  BY <1>1, <1>2, <1>3, WidthBounds
<1>6. j \in 1..Len(blocks[p])
  BY <1>1, <1>2, <1>4, <1>5
<1> QED BY <1>1, <1>4, <1>6

(* A byte of a block is a byte of the file.                                *)
LEMMA PlaceInFile ==
  ASSUME NEW file \in Seq(Byte), NEW blocks, Represents(blocks, file),
         NEW p \in DOMAIN blocks, NEW j \in 1..Len(blocks[p])
  PROVE  /\ p \in Nat \ {0} /\ j \in 1..BlockSize /\ Base(p) + j \in 1..Len(file)
         /\ blocks[p][j] = file[Base(p) + j]
<1>1. p \in 1..BlockCount(Len(file)) /\ Len(blocks[p]) = Width(p, Len(file))
  BY DEF Represents
<1>2. /\ p \in Nat \ {0} /\ Len(blocks[p]) \in 1..BlockSize
      /\ \A i \in 1..BlockSize : i <= Len(blocks[p]) <=> Base(p) + i <= Len(file)
  BY <1>1, WidthBounds
<1>3. Base(p) \in Nat /\ BlockSize \in Nat \ {0}
  BY <1>2, BaseStep
<1>4. j \in 1..BlockSize
  BY <1>2, <1>3
<1>5. Base(p) + j \in 1..Len(file)
  BY <1>2, <1>3, <1>4
<1> QED BY <1>2, <1>4, <1>5 DEF Represents
=============================================================================
