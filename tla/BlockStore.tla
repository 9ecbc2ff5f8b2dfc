----------------------------- MODULE BlockStore -----------------------------
(***************************************************************************)
(* The storage layer: inode_t's version -> block list map over the buffer  *)
(* pool of inode_smi_t, with its link counts and copy-on-write.            *)
(*                                                                         *)
(* buffer_map[i][v] is the block list of inode i in version v; an entry    *)
(* names a buffer of the pool and carries the flag create_new_volume sets. *)
(* MaxSize bounds the length of a file, MaxBuffers the size of the pool:   *)
(* the code has neither bound, and what the pool loses to owner-less       *)
(* buffers would otherwise grow forever.                                   *)
(***************************************************************************)
EXTENDS Buffer, FiniteSets

CONSTANTS Inode,       \* identities inode objects may have
          Version,     \* names snapshots may have
          Payload,     \* the strings of bytes callers write
          MaxSize,     \* bound on the length of a file
          MaxBuffers   \* bound on the number of buffers in the pool

(* FILESYSTEM_CUR_MODIFIABLE_VER *)
Current == "current"

ASSUME BlockStoreAssumption ==
  /\ Current \notin Version
  /\ Payload \subseteq Seq(Byte) \ {<<>>}
  /\ MaxSize \in Nat
  /\ MaxBuffers \in Nat

VARIABLES buffer_pool,   \* buffer id -> [link_count, data], the live buffers
          buffer_map     \* live inode -> version -> sequence of entries

vars == <<buffer_pool, buffer_map>>

Entry(id) == [id |-> id, is_snapshoted |-> FALSE]

(* --------------------------- the buffer pool --------------------------- *)

(* get_free_id called for the k-th time in a row: ids are tried from the   *)
(* size of the pool upwards, and the pool grows by one with each call, so  *)
(* the k-th call returns the k-th id that is free from the size on.        *)
FreeFrom(pool, last) ==
  {id \in Cardinality(DOMAIN pool)..last : id \notin DOMAIN pool}

(* Mutant: the size itself is taken, whether it is free or not.            *)
NewIdUnprobed(pool, k) == Cardinality(DOMAIN pool) + k - 1

NewId(pool, k) ==
  LET size == Cardinality(DOMAIN pool)
  IN  CHOOSE id \in size .. 2 * size + k : /\ id \in FreeFrom(pool, id)
                                           /\ Cardinality(FreeFrom(pool, id)) = k

(* Mutants: a link that is not counted, and a buffer that is not erased.   *)
LinkNone(pool, ids) == pool

UnlinkWithoutErase(pool, ids) ==
  [id \in DOMAIN pool |-> IF id \in ids THEN [pool[id] EXCEPT !.link_count = @ - 1]
                          ELSE pool[id]]

(* link_buffer and unlink_buffer, on every buffer of ids.                  *)
LinkAll(pool, ids) ==
  [id \in DOMAIN pool |-> IF id \in ids THEN [pool[id] EXCEPT !.link_count = @ + 1]
                          ELSE pool[id]]

UnlinkAll(pool, ids) ==
  [id \in {x \in DOMAIN pool : ~(x \in ids /\ pool[x].link_count = 1)} |->
     IF id \in ids THEN [pool[id] EXCEPT !.link_count = @ - 1] ELSE pool[id]]

Ids(list) == {list[p].id : p \in DOMAIN list}

(* ------------------- block lists and their contents -------------------- *)

(* The blocks of bytes a list leads to.                                    *)
BlocksOf(pool, list) == [p \in DOMAIN list |-> pool[list[p].id].data]

(* current_data_size: all bytes of all blocks.                             *)
DataSize(pool, list) ==
  LET blocks == BlocksOf(pool, list)
  IN  Cardinality(UNION {{p} \X (DOMAIN blocks[p]) : p \in DOMAIN blocks})

(* n new empty buffers at the end of a list.                               *)
AppendBuffers(pool, list, n) ==
  LET new == {NewId(pool, k) : k \in 1..n}
  IN  [pool |-> [id \in DOMAIN pool \cup new |->
                   IF id \in new THEN [link_count |-> 1, data |-> <<>>] ELSE pool[id]],
       list |-> list \o [k \in 1..n |-> Entry(NewId(pool, k))]]

(* Mutant: no copy-on-write.                                               *)
ThawNone(pool, list, positions) == [pool |-> pool, list |-> list]

(* Copy-on-write of the frozen entries among positions: each is replaced,  *)
(* in order, by a new buffer with the same bytes.  The buffer it named is  *)
(* left as it is: nothing calls unlink_buffer for it.                      *)
Thaw(pool, list, positions) ==
  LET frozen  == {p \in positions \cap DOMAIN list : list[p].is_snapshoted}
      copy    == [p \in frozen |-> NewId(pool, Cardinality({q \in frozen : q <= p}))]
      new     == {copy[p] : p \in frozen}
      bytes(id) == LET p == CHOOSE q \in frozen : copy[q] = id
                   IN  BufRead(pool[list[p].id].data, BlockSize, 0)
  IN  [pool |-> [id \in DOMAIN pool \cup new |->
                   IF id \in new
                   THEN [link_count |-> 1, data |-> BufWrite(<<>>, bytes(id), 0, TRUE)]
                   ELSE pool[id]],
       list |-> [p \in 1..Len(list) |-> IF p \in frozen THEN Entry(copy[p]) ELSE list[p]]]

(* The buffers of the blocks of a list get new bytes, all others keep them.*)
MapBlocks(pool, list, blocks, Bytes(_, _)) ==
  LET Names(b, id) == b + 1 \in DOMAIN list /\ list[b + 1].id = id
  IN  [id \in DOMAIN pool |->
         IF \E b \in blocks : Names(b, id)
         THEN [pool[id] EXCEPT !.data = Bytes(CHOOSE b \in blocks : Names(b, id), @)]
         ELSE pool[id]]

(* ------------------------- inode_t::truncate --------------------------- *)

(* The bank is too small: append what is missing, then thaw every block.   *)
Grow(pool, list, length) ==
  LET more  == BlockCount(length - Len(list) * BlockSize)
      grown == AppendBuffers(pool, list, more)
  IN  Thaw(grown.pool, grown.list, 1..Len(grown.list))

(* The bank is large enough: drop the lost tail, whose buffers are deleted *)
(* unless a snapshot froze them, then thaw the blocks that are kept.       *)
Shrink(pool, list, length) ==
  LET keep == BlockCount(length)
      lost == {list[p].id : p \in {q \in keep + 1 .. Len(list) : ~list[q].is_snapshoted}}
  IN  Thaw(UnlinkAll(pool, lost), SubSeq(list, 1, keep), 1..keep)

(* Mutant: blocks keep the size they had.                                  *)
SizeNoBlocks(pool, list, length) == pool

(* Every block but the last is sized to a whole block.                     *)
SizeBlocks(pool, list, length) ==
  LET chunks == Chunks(length, 0)
      Sized(b, data) == BufTruncate(data, chunks[b].count)
  IN  IF length = 0 THEN pool ELSE MapBlocks(pool, list, DOMAIN chunks, Sized)

Truncated(pool, list, length) ==
  LET st == IF Len(list) * BlockSize < length THEN Grow(pool, list, length)
            ELSE Shrink(pool, list, length)
  IN  [pool |-> SizeBlocks(st.pool, st.list, length), list |-> st.list]

(* --------------------------- inode_t::write ---------------------------- *)

(* Mutant: every piece is taken from the start of the buffer.              *)
WriteChunksFromStart(pool, list, bytes, length, offset, resize) ==
  LET chunks == Chunks(length, offset)
      Written(b, data) == BufWrite(data, SubSeq(bytes, 1, chunks[b].count), chunks[b].at, resize)
  IN  MapBlocks(pool, list, DOMAIN chunks, Written)

WriteChunks(pool, list, bytes, length, offset, resize) ==
  LET chunks == Chunks(length, offset)
      Written(b, data) ==
        LET c == chunks[b]
        IN  BufWrite(data, SubSeq(bytes, c.from + 1, c.from + c.count), c.at, resize)
  IN  MapBlocks(pool, list, DOMAIN chunks, Written)

(* resize: the file ends where the written bytes end.                      *)
WrittenResizing(pool, list, bytes, offset) ==
  LET st == Truncated(pool, list, offset + Len(bytes))
  IN  [pool |-> WriteChunks(st.pool, st.list, bytes, Len(bytes), offset, TRUE),
       list |-> st.list]

(* no resize: bytes beyond the end are dropped, the touched blocks thawed. *)
WrittenInPlace(pool, list, bytes, offset) ==
  LET length == Clip(DataSize(pool, list), Len(bytes), offset)
      st     == Thaw(pool, list,
                     offset \div BlockSize + 1 .. BlockCount(offset + length))
  IN  [pool |-> WriteChunks(st.pool, st.list, bytes, length, offset, FALSE),
       list |-> st.list]

(* --------------------------- inode_t::read ----------------------------- *)

(* Mutant: a read that stops at the end of the starting block.             *)
ReadFirstBlock(pool, list, length, offset) ==
  LET size == DataSize(pool, list)
      head == HeadLength(Clip(size, length, offset), offset)
  IN  [ok    |-> TRUE,
       bytes |-> IF offset > size THEN <<>>
                 ELSE BufRead(pool[list[offset \div BlockSize + 1].id].data, head,
                              offset % BlockSize)]

(* [ok, bytes]: not ok when .at() throws because a touched block does not  *)
(* exist, or VERIFY_DATA_OPS_LEN because one is shorter than its piece.    *)
ReadResult(pool, list, length, offset) ==
  LET size   == DataSize(pool, list)
      n      == Clip(size, length, offset)
      chunks == Chunks(n, offset)
      Piece(b) == BufRead(pool[list[b + 1].id].data, chunks[b].count, chunks[b].at)
      Holds(b, k) == k \in chunks[b].from + 1 .. chunks[b].from + chunks[b].count
  IN  IF length = 0 \/ offset > size THEN [ok |-> TRUE, bytes |-> <<>>]
      ELSE IF \E b \in DOMAIN chunks : \/ b + 1 \notin DOMAIN list
                                       \/ Len(Piece(b)) # chunks[b].count
      THEN [ok |-> FALSE, bytes |-> <<>>]
      ELSE [ok |-> TRUE,
            bytes |-> [k \in 1..n |->
                         LET b == CHOOSE c \in DOMAIN chunks : Holds(c, k)
                         IN  Piece(b)[k - chunks[b].from]]]

(* ------------------------------- actions ------------------------------- *)

Init == /\ buffer_pool = [id \in {} |-> {}]
        /\ buffer_map = [i \in {} |-> {}]

CurrentList(i) == buffer_map[i][Current]

(* The new block list of version current, within the bound on the pool.    *)
SetCurrent(i, st) ==
  /\ Cardinality(DOMAIN st.pool) <= MaxBuffers
  /\ buffer_pool' = st.pool
  /\ buffer_map' = [buffer_map EXCEPT ![i][Current] = st.list]

(* The inode_t constructor: an empty list for version current.             *)
NewInode(i) ==
  /\ i \notin DOMAIN buffer_map
  /\ buffer_map' = [j \in DOMAIN buffer_map \cup {i} |->
                      IF j = i THEN [v \in {Current} |-> <<>>] ELSE buffer_map[j]]
  /\ UNCHANGED buffer_pool

(* inode_pool.erase of an inode no snapshot holds any more: the object     *)
(* goes, the buffers its current list names stay in the pool.              *)
EraseInode(i) ==
  /\ i \in DOMAIN buffer_map
  /\ DOMAIN buffer_map[i] = {Current}
  /\ buffer_map' = [j \in DOMAIN buffer_map \ {i} |-> buffer_map[j]]
  /\ UNCHANGED buffer_pool

(* do_write past the end of the file: inode_t::write(..., resize = true).  *)
Extend(i, bytes, offset) ==
  /\ i \in DOMAIN buffer_map
  /\ offset + Len(bytes) <= MaxSize
  /\ offset + Len(bytes) > DataSize(buffer_pool, CurrentList(i))
  /\ SetCurrent(i, WrittenResizing(buffer_pool, CurrentList(i), bytes, offset))

(* do_write within the file: inode_t::write(..., resize = false).          *)
Overwrite(i, bytes, offset) ==
  /\ i \in DOMAIN buffer_map
  /\ offset + Len(bytes) <= DataSize(buffer_pool, CurrentList(i))
  /\ SetCurrent(i, WrittenInPlace(buffer_pool, CurrentList(i), bytes, offset))

(* directory_resolver_t::save_current and do_symlink: the whole content is *)
(* written at offset 0 with resize = true, whatever was there before.      *)
Replace(i, bytes) ==
  /\ i \in DOMAIN buffer_map
  /\ Len(bytes) <= MaxSize
  /\ SetCurrent(i, WrittenResizing(buffer_pool, CurrentList(i), bytes, 0))

(* do_truncate, do_ftruncate and do_fallocate: inode_t::truncate.          *)
Truncate(i, length) ==
  /\ i \in DOMAIN buffer_map
  /\ SetCurrent(i, Truncated(buffer_pool, CurrentList(i), length))

(* Mutants: the current list is shared without being frozen, and a deleted *)
(* snapshot keeps its links.                                               *)
ShareUnfrozen(i, v) ==
  /\ i \in DOMAIN buffer_map
  /\ v \notin DOMAIN buffer_map[i]
  /\ buffer_map' = [buffer_map EXCEPT ![i] =
                      [w \in DOMAIN @ \cup {v} |-> IF w = v THEN @[Current] ELSE @[w]]]
  /\ buffer_pool' = LinkAll(buffer_pool, Ids(CurrentList(i)))

DeleteWithoutUnlink(i, v) ==
  /\ i \in DOMAIN buffer_map
  /\ v \in DOMAIN buffer_map[i]
  /\ buffer_map' = [buffer_map EXCEPT ![i] = [w \in DOMAIN @ \ {v} |-> @[w]]]
  /\ UNCHANGED buffer_pool

(* inode_t::create_new_volume: the current list is frozen and shared.      *)
create_new_volume(i, v) ==
  /\ i \in DOMAIN buffer_map
  /\ v \notin DOMAIN buffer_map[i]
  /\ LET frozen == [p \in DOMAIN CurrentList(i) |->
                      [CurrentList(i)[p] EXCEPT !.is_snapshoted = TRUE]]
     IN  buffer_map' = [buffer_map EXCEPT ![i] =
                          [w \in DOMAIN @ \cup {v} |->
                             IF w \in {v, Current} THEN frozen ELSE @[w]]]
  /\ buffer_pool' = LinkAll(buffer_pool, Ids(CurrentList(i)))

(* inode_t::delete_volume: version current keeps its frozen flags.         *)
delete_volume(i, v) ==
  /\ i \in DOMAIN buffer_map
  /\ v \in DOMAIN buffer_map[i]
  /\ buffer_pool' = UnlinkAll(buffer_pool, Ids(buffer_map[i][v]))
  /\ buffer_map' = [buffer_map EXCEPT ![i] = [w \in DOMAIN @ \ {v} |-> @[w]]]

Next ==
  \E i \in Inode :
    \/ NewInode(i)
    \/ EraseInode(i)
    \/ \E bytes \in Payload, offset \in 0..MaxSize :
         Extend(i, bytes, offset) \/ Overwrite(i, bytes, offset)
    \/ \E bytes \in Payload : Replace(i, bytes)
    \/ \E length \in 0..MaxSize : Truncate(i, length)
    \/ \E v \in Version : create_new_volume(i, v) \/ delete_volume(i, v)

Spec == Init /\ [][Next]_vars

(* ------------------------------ properties ----------------------------- *)

(* The block lists of a map, as pairs <<inode, version>>, and those that   *)
(* hold a buffer.                                                          *)
Lists(map) == {h \in (DOMAIN map) \X (Version \cup {Current}) : h[2] \in DOMAIN map[h[1]]}
ListOf(map, h) == map[h[1]][h[2]]
Holders(map, id) == {h \in Lists(map) : id \in Ids(ListOf(map, h))}

(* The bytes of a list whose blocks, but for the last, are all full.       *)
ContentOf(pool, list) ==
  LET blocks == BlocksOf(pool, list)
  IN  [k \in 1..DataSize(pool, list) |->
         blocks[(k - 1) \div BlockSize + 1][((k - 1) % BlockSize) + 1]]

(* Types: the pool is a finite map from ids to counted buffers, and every  *)
(* live inode has a block list for version current.                        *)
PoolType(pool) ==
  /\ DOMAIN pool \subseteq Nat
  /\ IsFiniteSet(DOMAIN pool)
  /\ pool \in [DOMAIN pool -> [link_count : Nat \ {0}, data : Seq(Byte)]]

ListType == Seq([id : Nat, is_snapshoted : BOOLEAN])

MapType(map) ==
  /\ DOMAIN map \subseteq Inode
  /\ IsFiniteSet(DOMAIN map)
  /\ \A i \in DOMAIN map :
       /\ Current \in DOMAIN map[i]
       /\ DOMAIN map[i] \subseteq Version \cup {Current}
       /\ IsFiniteSet(DOMAIN map[i])
       /\ map[i] \in [DOMAIN map[i] -> ListType]

TypeOK == PoolType(buffer_pool) /\ MapType(buffer_map)

(* No block list names a buffer that unlink_buffer has erased: the pointer *)
(* an entry carries is never dangling, whatever order snapshots are taken  *)
(* and deleted in between writes and truncations.                          *)
Closed(pool, map) == \A h \in Lists(map) : Ids(ListOf(map, h)) \subseteq DOMAIN pool
NoDangling == Closed(buffer_pool, buffer_map)

(* The link count of a buffer is the number of block lists that hold it,   *)
(* except that the one reference version current drops when it copies or   *)
(* sheds a frozen block is never counted down: unlink_buffer is called for *)
(* snapshots and for unfrozen blocks only.                                 *)
Counted(pool, map) ==
  \A id \in DOMAIN pool :
    LET holders == Holders(map, id)
        links   == pool[id].link_count
    IN  \/ links = Cardinality(holders)
        \/ links = Cardinality(holders) + 1 /\ \A h \in holders : h[2] # Current
LinkCounts == Counted(buffer_pool, buffer_map)

(* A block version current may write in place is held by no other list:    *)
(* writing it cannot change anybody else's bytes.                          *)
Private(map) ==
  \A i \in DOMAIN map : \A p \in DOMAIN map[i][Current] :
    LET e == map[i][Current][p]
    IN  ~e.is_snapshoted => Holders(map, e.id) = {<<i, Current>>}
WritableIsPrivate == Private(buffer_map)

(* Lists share a buffer only as versions of one inode and only at the same *)
(* block of the file: no id is ever handed out a second time while a list  *)
(* still names it, and no file holds a block twice.                        *)
OnePlace(map) ==
  \A g, h \in Lists(map) : \A p \in DOMAIN ListOf(map, g), q \in DOMAIN ListOf(map, h) :
    ListOf(map, g)[p].id = ListOf(map, h)[q].id => g[1] = h[1] /\ p = q
SharedInPlace == OnePlace(buffer_map)

(* Every block of a list is full but the last, which is not empty: the     *)
(* layout all offset arithmetic of read and write takes for granted.       *)
BlockShape ==
  \A h \in Lists(buffer_map) :
    LET blocks == BlocksOf(buffer_pool, ListOf(buffer_map, h))
    IN  \A p \in DOMAIN blocks : IF p + 1 \in DOMAIN blocks
                                 THEN Len(blocks[p]) = BlockSize
                                 ELSE Len(blocks[p]) \in 1..BlockSize

(* inode_t::read returns exactly the bytes asked for that exist, for every *)
(* version, length and offset, short of a read at the very end of a file   *)
(* of whole blocks (see ReadAtEnd).                                        *)
ReadIsExact ==
  \A h \in Lists(buffer_map) :
    LET list    == ListOf(buffer_map, h)
        content == ContentOf(buffer_pool, list)
        End(n)  == IF n < Len(content) THEN n ELSE Len(content)
    IN  \A length \in 1..MaxSize, offset \in 0..MaxSize :
          ~(offset = Len(content) /\ offset % BlockSize = 0) =>
            ReadResult(buffer_pool, list, length, offset)
              = [ok |-> TRUE, bytes |-> SubSeq(content, offset + 1, End(offset + length))]

(* No step changes the bytes of a snapshot that exists before and after:   *)
(* a snapshot is read-only, whatever is written, truncated, frozen again   *)
(* or deleted around it.                                                   *)
SnapshotsUnchanged ==
  \A i \in DOMAIN buffer_map \cap DOMAIN buffer_map' :
    \A v \in Version \cap DOMAIN buffer_map[i] \cap DOMAIN buffer_map'[i] :
      /\ BlocksOf(buffer_pool', buffer_map'[i][v]) = BlocksOf(buffer_pool, buffer_map[i][v])
      /\ ContentOf(buffer_pool', buffer_map'[i][v]) = ContentOf(buffer_pool, buffer_map[i][v])

SnapshotsImmutable == [][SnapshotsUnchanged]_vars

(* The storage layer implements VersionedFile: sharing, freezing, copying  *)
(* and block splitting are invisible in the bytes of every version.        *)
Contents == [i \in DOMAIN buffer_map |->
               [v \in DOMAIN buffer_map[i] |-> ContentOf(buffer_pool, buffer_map[i][v])]]

Abstract == INSTANCE VersionedFile WITH content <- Contents
ImplementsVersionedFile == Abstract!Spec

(* What the documentation says of the pool ("block pool, auto              *)
(* deconstruction enabled"): a buffer no block list names does not stay.   *)
NoOwnerlessBuffer == \A id \in DOMAIN buffer_pool : Holders(buffer_map, id) # {}

(* What the documentation says of inode_t::read ("@return length of buffer *)
(* read"): at the end of a file there is nothing to read and it returns 0. *)
ReadAtEnd ==
  \A h \in Lists(buffer_map) :
    LET list == ListOf(buffer_map, h)
    IN  ReadResult(buffer_pool, list, 1, DataSize(buffer_pool, list))
          = [ok |-> TRUE, bytes |-> <<>>]
=============================================================================
