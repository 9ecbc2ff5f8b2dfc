# A TLA+ model of htmpfs

htmpfs is an in-memory FUSE filesystem with snapshots.  This directory models
its storage layer (blocks, copy-on-write, link counts), its directories (the
vectors of dentries and the resolvers that copy them), its namespace (inodes,
versions, the FUSE handlers, attributes), the export of a version as a list of
paths, and its bitmap.  TLC checks all of them on small instances, most of them
against an abstract specification; TLAPS proves, for every size, the invariants and
the refinements of the storage layer, of the directories, of the namespace and of
the bitmap, what holds of attributes, that a directory lists what is found below it,
and that an export lists the whole tree of its version.

All source paths below are relative to `src/`, the root of the repository's tree
(`src/htmpfs/htmpfs.cpp` is `src/src/htmpfs/htmpfs.cpp` in PROJECT.json).

## The system

| component | state | operations | interacts with |
|---|---|---|---|
| `buffer_t` | a vector of bytes | read, write (resizing or not), truncate | owned by the buffer pool |
| `inode_t` | `buffer_map`: version -> list of (buffer id, pointer, frozen flag); `fs_stat` | write, read, truncate, create_new_volume, delete_volume, current_data_size | asks `inode_smi_t` for buffers, links and unlinks them |
| `inode_smi_t`, buffers | `buffer_pool`: id -> (link count, buffer) | request_buffer_allocation, link_buffer, unlink_buffer, get_free_id | called by `inode_t` |
| `inode_smi_t`, inodes | `inode_pool`: id -> (link count, inode); `snapshot_version_list`: version -> inodes | make_child_dentry_under_parent, remove_child_dentry_under_parent, remove_inode_by_path, get_inode_id_by_path, create_snapshot_volume, delete_snapshot_volume, link_inode, unlink_inode | reads and writes directories through `directory_resolver_t`; calls every inode when a snapshot is taken or dropped |
| `directory_resolver_t` | a copy of one directory's dentries in one version | refresh, add_path, remove_path, namei, save_current | reads and writes the bytes of a directory inode |
| `path_t`, `if_snapshot` | a path's names | parsing, splitting off `/.snapshot/<version>` | used by every handler |
| FUSE handlers (`utils/fuse.cpp`) | none | mkdir, create, mknod, symlink, write, truncate, fallocate, unlink, rmdir, rename, read, getattr, ... | the only callers of `inode_smi_t` in the program; called by the kernel |
| `export_as_filesystem_map` | none | read-only walk of a version | used by the tests |
| `bitmap_t`, `ll_io` | bits over buffers; a block device | set, get; read_block, write_block | not called by the filesystem |
| mount program (`utils/mount.htmpfs.cpp`) | the root's attributes | parses its arguments, calls fuse_main with `-s` | |
| error and debug output | none | | |

What makes them correct, and what is hard about it:

* **Blocks.**  The bytes of a file are cut into blocks at three places (read,
  write, truncate), each with its own arithmetic for first, whole and last
  block.  Every block but the last must be full, and read must return what was
  written.
* **Copy-on-write.**  A snapshot shares the current version's buffers and sets a
  flag on the entries of the current list.  Writes copy flagged blocks.  The flag
  is never reset when a snapshot goes, and the reference that the current list
  gives up is not counted down.  A snapshot must keep its bytes, a buffer some
  list names must stay in the pool, and no two files may get one buffer, although
  ids are reused.
* **Inodes.**  An inode's one link count covers its dentry and every snapshot that
  lists it.  It must be in the pool exactly while some version lists it.
* **Partial failure.**  A handler that throws half-way leaves what it has done:
  `create_snapshot_volume`, `delete_snapshot_volume` and `do_rename` change
  several inodes in a row.
* **Copies of a directory.**  A resolver copies a directory's dentries and writes
  them back whole.  `do_rename` has two open at a time, and what one saves the
  other must not undo.
* **Two types.**  The kernel dispatches on `st_mode`, the filesystem on
  `is_dentry`, and handlers overwrite the first.  One `fs_stat` serves all
  versions of an inode.
* **Paths put together and split again.**  The export joins each path with its
  version and sends it through `if_snapshot` once more; only the shape of the tree
  ends its recursion.
* **Two names for one tree.**  `/.snapshot/current/...` is the same tree as
  `/...`, which the kernel does not know.

There is no concurrency: the filesystem is mounted with `-s`
(`utils/mount.htmpfs.cpp`), so that one handler runs at a time.  Nothing is
persisted (`load_from_disk` and `sync` are only declared), so that there is no
crash recovery; there are no messages, retries or timeouts.

## The modules

| module | models | extends |
|---|---|---|
| `Buffer` | `buffer_t` and the split of a byte range over blocks, as operators | |
| `VersionedFile` | what the storage layer promises: bytes per file and version | |
| `BlockStore` | `inode_t` over the buffer pool, one action per operation | `Buffer` |
| `Directories` | what directories promise: functions from names to ids, changed at one name at a time | |
| `DentryTable` | `directory_resolver_t` and the handlers' uses of it, `do_rename` cut between its resolvers | |
| `VersionedTree` | what a user is promised: one file tree per version | |
| `InodeSmi` | `inode_smi_t`'s namespace as operators on a state record | |
| `FuseOps` | the handlers that change the tree or a file, one action each | `InodeSmi` |
| `Attributes` | `fs_stat`: the handlers of `FuseOps` with what they do to it, and chmod, chown, utimens, read, fallocate | `FuseOps` |
| `Readdir` | `do_readdir` and `do_getattr`, as operators | `FuseOps` |
| `PathText` | `path_t`, `if_snapshot`, `make_path_with_version` on texts | `InodeSmi` |
| `ExportMap` | `export_as_filesystem_map`, step by step on the trees of `FuseOps` | `Readdir`, `PathText` |
| `BitSet` | what a bitmap promises: a set of locations | |
| `Bitmap` | `bitmap_t` over the buffers of a pool | `Buffer` |
| `MCBlockStore`, `MCDentryTable`, `MCFuseOps`, `MCBitmap` | values of constants, symmetry | the module in their name |
| `BufferProofs`, `BlockStoreProofs` | lemmas on blocks and ranges; theorems on blocks, sharing and files | `Buffer`, `BlockStore` |
| `BitmapProofs` | theorems on the bitmap | `Bitmap`, `BufferProofs` |
| `DentryTableProofs` | theorems on directories and resolvers | `DentryTable` |
| `InodeSmiProofs`, `FuseOpsProofs` | lemmas on paths, trees and the operators of `inode_smi_t`; theorems on the namespace, and the refinement of `VersionedTree` | `InodeSmi`, `FuseOps` |
| `AttributesProofs` | theorems on `fs_stat` | `Attributes`, `FuseOpsProofs` |
| `ExportMapProofs` | theorems on listings, on texts of paths and on the export | `ExportMap`, `FuseOpsProofs` |

The layers meet in their abstractions: `FuseOps` keeps a value per version of an
inode, which is what `BlockStore` implements; its directories are functions from
names to ids, which is what `DentryTable` implements; its paths are sequences of
names, which is what `PathText` makes of texts; and its `KernelSeesDir` goes by
`is_dentry`, which `Attributes` shows to be what `getattr` answers.

### Storage: `Buffer`, `BlockStore`

`buffer_pool` and `buffer_map` are the code's maps; an entry of a block list is
`[id, is_snapshoted]`, the pointer of the code being the id looked up in the
pool.  A byte is an abstract value, `BlockSize` a constant.  The operators follow
the branches of the code: `Grow` and `Shrink` are the two branches of
`inode_t::truncate`, `SizeBlocks` its last part; `WrittenResizing` and
`WrittenInPlace` the two branches of `inode_t::write`.  `Chunks` states the
split of a range that the code writes out in read, in both branches of write and
in truncate.  `Thaw` is the copy-on-write loop the code has three times.
`FreeFrom` and `NewId` are `get_free_id`, called k times in a row while the pool
grows.

The actions are what the rest of the program does with an inode: `Extend` and
`Overwrite` are `do_write` past the end and within the file, `Replace` the whole
content written by `save_current` and `do_symlink`, `Truncate` the truncating
handlers, `create_new_volume` and `delete_volume` the two loops of a snapshot,
`NewInode` and `EraseInode` creation and the erasure of an inode that no snapshot
lists.  `EraseInode` leaves the buffers in the pool, as the code does.

A read changes no state and is no action; `ReadResult` is `inode_t::read` with
its two ways to throw, and `ReadIsExact` quantifies over all of its arguments.

### Namespace: `InodeSmi`, `FuseOps`

An inode keeps a *value* per version: a function from names to ids for a directory,
a member of `Data` for a file.  That this is what blocks and copy-on-write amount
to is the refinement `ImplementsVersionedFile` of the layer below.  The vector of
a version is a set: nothing reads its order, and `ListsMatchPool` shows that an
id added to it is new.

A handler is one action with all its calls; where it throws after a change
(`do_rename`, whose second half may find nothing to remove), the change stays.
Where it throws before one, the action is disabled.  `delete_snapshot_volume` is
called with `current` by `rmdir /.snapshot/current` and throws before it has
changed anything.

`KernelSees...` are what the kernel checks before it calls a handler (it has
looked up the path, unlink is for files, neither path of a rename lies below the
other).  They are not in the repository and marked external in the map; they are
what makes handlers without such checks correct.

All handlers are called with every path, those below `/.snapshot/current`
included, except `do_rename`: `Spec` is for programs that do not rename there,
`AnySpec` for all of them, and `alias_tree` shows the difference.

### Directories: `DentryTable`

`saved` is what a directory's inode holds, a sequence of `flat_path_pack_t`;
`tag` and `call` are the locals of a `do_rename` under way.  The program is
single-threaded, and still `do_rename` is cut into steps, because it has two or
three resolvers that each hold a copy: `LinkNew` or `RemoveTaken` and `Relink` on
the directory of the new name, `RemoveOld` on that of the old one, which may be
the same.  `Flat` and `Unflat` are the encoding: a name is cut at `Limit` bytes (128
in the code) and read back up to the next zero byte, which for a name that fills
its field lies behind the inode id.  Ids have one byte here (below 256), and
names are shorter than `Limit`; what longer names meet is described below.

### Attributes: `Attributes`

`fs_stat` is kept as its file type, its rights (permissions and owner) and
`st_atim`; every action of `FuseOps` is repeated with what it does to them, and
the handlers that change nothing else are added.  Fifos, devices and sockets made
by mknod are one type.  What fallocate leaves of the permission bits is any right.

### Listing and export: `Readdir`, `PathText`, `ExportMap`

A text is a sequence of slashes and names.  `path_t`, `to_string`, `if_snapshot`
and `make_path_with_version` work on texts as the code's functions do on
strings: slashes may be doubled or stand at the end, and the first name decides
whether a path is one into a snapshot.  `ExportMap` composes the handlers with the
walk: while an export runs (`version`) no handler does, and each step takes the
first path of the worklist, looks it up again from the root, and either lists the
directory in some order (that of `DentryTable`, which `FuseOps` does not keep),
skips the file, or throws out of the walk.  `Listing` is the bag of the names that
`do_readdir` fills in.  The names of the instance include
`.snapshot`, so that the tree may have a `/.snapshot` of its own.  `Unvisited` counts
the inodes of the version the walk has not come to: `WalkComesNearer` says that each
visit leaves one less.

### Bits: `Bitmap`

A byte is the set of its bits; `Bits`, `BlockSize`, the first buffer and the number
of buffers are constants.  `set_bit_in_map` and `get_bit_in_map` return every
result an uninitialized `byte` may lead to; `AnswersAreCertain` says there is one.
Buffers are prepared as `tests/bitmap_test.cpp` does it.

### Abstract specifications

`VersionedFile` and `VersionedTree` are not translated from a function of the
code and have no lines in the map; nor are `Directories` and `BitSet`.  They say what
the layer is for, without blocks, links, ids, copies or bytes, and the refinements
(`ImplementsVersionedFile`, `ImplementsVersionedTree`, `ImplementsDirectories`,
`ImplementsBitSet`) are checked as properties: `Contents`, `Trees`, the function in
`DentryTable!Abstract` and `Answers` are the mappings.

## The runs

| run | instance | checks |
|---|---|---|
| `block_layout` | 1 file, 1 snapshot, blocks of 2 bytes, files of up to 5 bytes, writes of 1 and 4 bytes, up to 4 buffers | `TypeOK`, `BlockShape`, `ReadIsExact`, refinement of `VersionedFile` |
| `block_sharing` | 2 files, 2 snapshots, blocks of 1 byte, files of up to 2 blocks, up to 3 buffers | `NoDangling`, `LinkCounts`, `WritableIsPrivate`, `SharedInPlace`, `SnapshotsImmutable` |
| `namespace` | 3 inodes below the root, 2 names, 1 snapshot, one content | `TypeOK`, `ListsMatchPool`, `VolumesMatchLists`, `TreeShape`, `SnapshotsAreReadOnly` |
| `snapshots` | 2 inodes below the root, 2 names, 2 snapshots, 2 contents | refinement of `VersionedTree` |
| `renames` | 4 inodes below the root, named `.snapshot` and `current`, no snapshot, one content | refinement of `VersionedTree`, `RemovesAsWritten` |
| `export` | 3 inodes below the root, 2 names, one of them `.snapshot`, 1 snapshot, one content | `ListingIsExact`, `WalkTypeOK`, `ExportIsExact`, `VersionIsReadBack`, `WalkComesNearer`, `ExportEnds` |
| `dentries` | 2 directories of up to 3 dentries, 3 names of up to 2 bytes where 3 fit, 3 ids | `TypeOK`, `NamesAreUnique`, `RenamedHasAPlace`, `RenameMoves`, `OrderIsKept`, refinement of `Directories` |
| `attributes` | 2 inodes below the root, 2 names, 1 snapshot, 2 rights, 2 times | `AttrTypeOK`, `KernelTypesAgree`, `RemovedKeepsItsStat` |
| `bits` | bytes of 2 bits, blocks of 2 bytes, a bitmap of 2 buffers between 2 others | `TypeOK`, `AnswersAreCertain`, `OthersUntouched`, refinement of `BitSet` |

The bounds: `MaxSize` bounds a file, `MaxBuffers` and `MaxInodes` the two pools.
None of them is in the code.  Three blocks of two bytes have a first, a whole and
a last block, and a write of four bytes at an odd offset touches all three; the
bytes of a payload differ, so that a misplaced piece shows.  What is shared does
not depend on the size of a block, so that `block_sharing` has blocks of one byte
and spends its states on two files and two snapshots; three buffers let one file
hold a block, share another with a snapshot and have a third one free.  Three
inodes below the root are enough for a directory with a child to be renamed onto
an empty directory; two names make a name taken or free.  `namespace` has one
content, since contents are not what its properties tell apart; `snapshots`, which
compares contents, has two.  Names, versions and inodes are interchangeable, and
symmetric in `namespace`, `snapshots`, `attributes` and the runs of `MCBlockStore`, which
check no liveness property; `export`, which does, has no symmetry.

`renames` has the names at which the two ways to walk a path part:
`/.snapshot/current/current` is `/current` to a lookup, and to `remove_inode_by_path`
an inode three levels down in the tree.  Three of the four inodes below the root make
that inode, the fourth is one beside it, `/current` among others.  The two names are no
longer interchangeable, so that there is no symmetry; they make a name taken or free
as any two do.

In `export`, three inodes give a directory with a child beside another entry, or
a chain of two directories and a file, and the walk of a snapshot meets a current
tree that has moved on.  In `dentries` one name is the beginning of another, and a
rename inside one directory, onto a free and onto a taken name, has both
resolvers on the same vector.  `attributes` needs an id to be used again after
its inode has gone while another is held by a snapshot, for which two inodes are
enough.  `bits` crosses the boundary of a byte and of a buffer; the other two
buffers stand for blocks of files.

All runs but `renames` look for deadlocks, and find none.  In `renames` the bound makes
one: with four directories in a chain below `/.snapshot` the pool is full, and no path is
left at which a handler can change anything.

### Disagreements

Three runs end in a violation; each shows a point where the code does not do what
it says of itself.

* `ownerless_buffer`: the pool is said to deconstruct by itself ("auto
  deconstruction enabled", `htmpfs.h:158`).  Erasing an inode leaves the buffers
  of its current version in the pool; so does shrinking a file whose blocks were
  frozen by a snapshot that has been deleted.
* `read_at_end`: a read at the end of an empty file, or of one that ends on a block
  boundary, throws `std::out_of_range` instead of returning 0.
* `alias_tree`: `do_rename` links first and says it removes second (`fuse.cpp:544`).
  `rename /.snapshot/current /a` reports an error after it has put the root into
  itself, where the recursion of the export has no end; `rename /d
  /.snapshot/current/d/x` detaches a cycle.

Others were met while modelling and have no run of their own:

* `rename /a /.snapshot/current/a` erases the inode and then links its id
  (`fuse.cpp:532`, "allow re-link inode in filesystem").
* `inode_t::write` with `resize` is said to append "if length+offset > buffer size"
  (`htmpfs.h:66`); it also cuts the file where the write ends (`htmpfs.cpp:59`).  The
  program itself only resizes past the end or to replace a whole content.
* `remove_inode_by_path` (`htmpfs.cpp:1049`) does not call `if_snapshot`, every lookup
  of the kernel before it does: what was made below `/.snapshot/current` cannot be
  removed there, and with a directory `.snapshot/current` made inside the tree, `rmdir
  /.snapshot/current/current` removes what that directory holds instead of `/current`.
  `RemovesAsWritten` states what a removal takes out, in the tree as it is, and that
  nothing else goes.
* An entry `.snapshot` in the root of the tree (`mkdir /.snapshot/current/.snapshot`) is
  listed in `/` beside the one `do_readdir` adds (`fuse.cpp:82`), and found nowhere in
  `/`; `ListingIsExact` says that this is the only name listed twice.  `rmdir` refuses
  every directory of that name (`fuse.cpp:352`).
* A name of 128 bytes or more is read back with its inode id behind it, and past
  the 129 bytes of `name_buff` (`directory_resolver.cpp:89`, `:139`).
* A bit in a buffer that has not been truncated to a block is dropped, and its
  byte is read uninitialized (`bitmap_t.cpp:41`).
* `do_symlink` passes the text of the link to `CHECK_RDONLY_FS`, where a relative
  `.snapshot/v/f` counts as a path in a snapshot.
* An export of version current throws when the tree has a `/.snapshot` of its own;
  `VersionIsReadBack` says that this is the only case.
* `block_num > block_count` in `ll_io.cpp:59` and `:72` passes the block after the last.
* `do_access` (`fuse.cpp:253`) grants a request of several permissions when one of
  them is there.

### Fairness and liveness

`ExportSpec` assumes `WF_allvars(Walk)`: a call of `export_as_filesystem_map` that
has begun goes on, since its loop waits for nothing and the program has one
thread.  `ExportEnds` says that it returns; that no version's tree has a cycle is
what makes it true, and `WalkComesNearer`, which is proved, is the reason: a number
that every visit makes smaller.  No fairness is assumed of handlers: a handler runs
to its end in one call, and whether another comes is the users' choice.

## The proofs

All theorems hold for every value of the constants: every block size, every set of
inodes, versions, names, payloads and contents, every bound.

| module | theorem | statement |
|---|---|---|
| `BlockStoreProofs` | `BlockStoreInvariant` | `Spec => []IInv` |
| | `TypesAreCorrect` | `Spec => []TypeOK` |
| | `NothingDangles` | `Spec => []NoDangling` |
| | `LinksAreCounted` | `Spec => []LinkCounts` |
| | `WritesArePrivate` | `Spec => []WritableIsPrivate` |
| | `SharingIsInPlace` | `Spec => []SharedInPlace` |
| | `SnapshotsAreImmutable` | `Spec => SnapshotsImmutable` |
| | `ListsHoldFiles` | `Spec => []FilesAreLaid` |
| | `BlocksAreFull` | `Spec => []BlockShape` |
| | `ReadsAreExact` | `Spec => []ReadIsExact` |
| | `StoreImplementsFiles` | `Spec => ImplementsVersionedFile` |
| `FuseOpsProofs` | `SpecKeepsInvariant` | `Spec => []IInv` |
| | `SnapshotsNeverChange` | `Spec => SnapshotsAreReadOnly` |
| | `InodesAreCounted` | `Spec => []ListsMatchPool` |
| | `VolumesFollowLists` | `Spec => []VolumesMatchLists` |
| | `VersionsAreTrees` | `Spec => []TreeShape` |
| | `TypesAreKept` | `Spec => []TypeOK` |
| | `RemovalsTakeTheWrittenPath` | `Spec => RemovesAsWritten` |
| | `HandlersImplementTrees` | `Spec => ImplementsVersionedTree` |
| `AttributesProofs` | `AttributesAreTyped` | `AttrSpec => []AttrTypeOK` |
| | `KernelIsToldTheType` | `AttrSpec => []KernelTypesAgree` |
| | `RemovedFilesKeepTheirStat` | `AttrSpec => RemovedKeepsItsStat` |
| `ExportMapProofs` | `DirectoriesListWhatIsThere` | `Spec => []ListingIsExact` |
| | `ExportsChangeNothing` | `ExportSpec => Spec` |
| | `WalksHoldTexts` | `ExportSpec => []WalkTypeOK` |
| | `WalksReadBackTheirVersion` | `ExportSpec => []VersionIsReadBack` |
| | `ExportsListWholeTrees` | `ExportSpec => []ExportIsExact` |
| | `WalksComeNearer` | `ExportSpec => WalkComesNearer` |
| `DentryTableProofs` | `DentriesAreTyped` | `NamesFit` implies `Spec => []TypeOK` |
| | `NamesStayUnique` | `NamesFit` implies `Spec => []NamesAreUnique` |
| | `RenamedIsNeverLost` | `NamesFit` implies `Spec => []RenamedHasAPlace` |
| | `RenamesMove` | `NamesFit` implies `Spec => RenameMoves` |
| | `DentriesStayInOrder` | `NamesFit` implies `Spec => OrderIsKept` |
| | `TablesImplementDirectories` | `NamesFit` implies `Spec => ImplementsDirectories` |
| `BitmapProofs` | `BlocksStayWhole` | `Spec => []TypeOK` |
| | `OneAnswer` | `Spec => []AnswersAreCertain` |
| | `OtherBuffersAreUntouched` | `Spec => OthersUntouched` |
| | `BitmapIsASet` | `Spec => ImplementsBitSet` |

The assumptions on the constants are those the modules declare: a block has at least one
byte, a byte is a set of its bits, `current` is no snapshot's name, payloads are not
empty, a file is no directory, the pools have a bound, no name has a slash in it (a
slash is what `path_t` splits at, so that no name the kernel sends has one), and `Idle`,
which stands for "no export runs", is no name. A name of the tree may be `.snapshot` or
`current`, as in `renames`; a handler's path that begins with `.snapshot` always leads
into a version, as `if_snapshot` reads it (`PlainPath`, `AnyPath`), and the names
snapshots are taken under are those of `Version`. Only the theorems of
`DentryTableProofs` need more: `NamesFit`, that a name is shorter than its field, as
`TypeOK` of `DentryTable` is false otherwise (see Disagreements).

### Blocks and sharing

`IInv` is the conjunction of the five invariants on buffers, and none of the
interesting ones is inductive alone.  That an unlinked buffer is erased while no
list names it needs its count (`LinkCounts`), the count of a shared buffer needs
that its holders are versions of one inode that hold it once (`SharedInPlace`), and
that an unfrozen block may be unlinked or written needs `WritableIsPrivate`.  The
argument goes along the operators: `NewId` returns ids that are not in the pool and
differ from call to call; `AppendBuffers`, `Thaw` and the unlinking in `Shrink`
each take a sound pool and map to a sound pool and map; a change of bytes alone
(`MapBlocks`) touches only buffers that the list names, which are private after
`Thaw`.  Each action is a composition of those.  `SnapshotsAreImmutable` follows
from the same steps: what they change is never held by a snapshot.

### Files

`FilesAreLaid` says that every list holds a file: `Represents(blocks, file)`, as many
blocks as the file needs, each as full as its place asks for, with the bytes of
that place.  It is what the offset arithmetic of `inode_t` relies on, and it is
inductive together with `IInv`, which keeps the blocks of one list apart and those of
another list untouched.  It is proved operator by operator: appended blocks are
empty, thawed ones have the bytes of those they replace, cutting keeps a
beginning (`GrownBlocks`, `ShrunkBlocks`), `SizeBlocks` makes the blocks as full as
the new length asks for (`SizedBlocks`), and `WriteChunks` lays the bytes over
the file (`WrittenHolds`).  The last one rests on `ChunkHits`: a byte at a place of a
block is in the range exactly when one of the pieces of `Chunks` has it, and it is
then where the range has it.  `BlocksAreFull` follows at once.  `ReadsAreExact` uses
`ChunkHits` in the other direction, on every byte of the answer, and that a piece lies
within its block (`PieceOfFile`).  For `StoreImplementsFiles` each operation on the
current list is one change of the string of bytes it holds, and `OthersKeepFiles`
says that all other strings stay.

### The namespace

`IInv` of `FuseOpsProofs` is `SmiInv`, the pool, lists, link counts and volumes agree
and every version is a tree (`IsVersionTree`: each inode of the version but the root
has one place, and the root reaches it), and that the pool keeps its bound.  The link
counts cannot do without the trees: `Unlink` erases an inode when its only dentry
goes, which needs that it has only one.  That a version is a tree is not visible
in the first half of `do_rename` alone, which leaves the inode with two places: the
proof takes the two halves together, as the move of a dentry in the state in which
the replaced one is gone (`MovedChildIsTree`), and uses that neither path is below
the other, which the kernel checks.

`Resolve` walks a path by a recursive function, which is unfolded one name at a
time (`ResolveIsWalk`).  Facts about all paths are proved from their shortest
counterexample (`PathInduction`, from the least element of a set of numbers),
since induction over data is not open to the provers.  What a handler does to one dentry
becomes what it does to the whole tree in lemmas such as `AddedChildResolves`,
`TakenChildResolves` and `MovedOutside`: which paths lead where after a dentry has been
added, taken or moved.

`HandlersImplementTrees` takes these lemmas to `Trees`, the refinement mapping, and
`IsTreeOf`, which says that a function from paths to nodes is what a version's
dentries amount to; each handler that keeps the inodes of a version keeps its tree,
and each change of a dentry is one change of the function.

`RemovalsTakeTheWrittenPath` takes the same lemma on a removed dentry to lookups: the
path as it is written leads to what goes (`IdAsWritten`), no second path of version
current does (`ResolveIsInjective`), and the snapshots are kept (`KeptLookups`).

`AttributesProofs` adds that an inode is a directory or a file as long as it lives
(`SameKind`), which no invariant of `FuseOps` says; `AInv` then has, for every inode
of the pool and not only for those a path leads to, that its `fs_stat` has its type
(`TypesAgree`).  `KernelTypesAgree` speaks of paths, and a step changes which inode a
path leads to: what holds of every inode holds wherever it ends up.

### Listings

`DirectoriesListWhatIsThere` needs no invariant beyond `IInv`, but that versions have
names (`VersionsStayWords`).  `FoundIsListed` is its core: what `Resolve` finds one
name below a directory is a dentry of it, in the version of the path.  The rest is
about paths: one more name behind `/.snapshot/v/...` stays in the version and comes
behind its names (`NameBelow`), a name behind `/.snapshot` is a version, and a
name behind the root may be `.snapshot`, which `do_readdir` adds.  How often a name is
listed is counted in a bag, a resolver's dentries and the added name (`TimesInSets`).

### Texts

`path_t` is a recursive function along a text, which `CutIsUnique` and `CutExists`
unfold one piece at a time (`TextStep`).  From it follow, by shortest counterexample
(`TextInduction`), that the names of two texts put together are the names of the one
and then of the other (`NamesOfConcat`), and that `path_t` takes `to_string` back
(`StringIsReadBack`).  So `if_snapshot` finds the version and the path that
`make_path_with_version` joined (`SplitInSnapshot`), and in version current the path
itself, unless its first name is `.snapshot` (`SplitInCurrent`).

### The export

`ExportIsExact` speaks of the end of a walk, so that the invariant has to say what of
the tree is still to come.  `WalkInv` reads the worklist and the map as texts of two
sequences of paths, `D` and `M`, of which `WalksTree` says:

* `AreFound`: all of them lead somewhere in the version that is walked;
* `Cover`: every path of the version is in `M` or below a path of `D`;
* `AreApart`: no path of `D` is in the subtree of another, and none of `M` is below
  one of `D`, so that nothing will be listed twice;
* `ParentsFirst`: in `M` a directory stands before what is in it;
* `AreParsable`: a path of version current in `D` that begins with `.snapshot` is
  `/.snapshot` itself, on which the walk throws.

A visit replaces the first path of `D` by its children and appends them to `M`
(`IsVisit`, from `VisitOutcomes`); one lemma for each conjunct shows that it stays true
(`VisitKeepsFound` to `VisitKeepsApart`).  They rest on what lies between a path and
its children: nothing (`ChildPrefix`), and that what is below the path is below a child
or is one (`ChildTowards`).  That the children are all of them, each once, is
`DirectoryInOrder`; a directory has finitely many, since different names lead to
different inodes (`FiniteListing`).  When `D` is empty, `Cover` says that `M` has every
path.  `WalksComeNearer` counts: the paths of `M` and the root lead to different
inodes of the version (`MapIsBounded`), and a visit takes one path out of `D` and
adds as many to `D` as to `M`.

### Directories

`TableInv` says, for each place `do_rename` may be between two saves (`call.at`), where
the moved inode is and what of the copy in `tag` is still true of its directory: all
of it, until the replaced dentry is removed behind its back.  A vector is seen as
the set of its dentries (`Has`); that it is a vector matters only to the lemmas on
`add_path` and `remove_path`.  `TablesImplementDirectories` then
has one step of `Directories` for every save.

### The bitmap

`TypeOK` is inductive alone.  `PlaceOfLocation` shows that the split of a location
into buffer, byte and bit can be undone, so that two locations share no bit
(`LocationsAreApart`); `ByteIsWritten` that a write of one byte without resize changes
that byte; `OneBitChanges` puts them together, and the refinement and the other two
theorems follow from it.

### Model-checked only

`ExportEnds` is liveness under fairness, which is out of the reach of the prover, and
stays with TLC; its variant is proved (`WalksComeNearer`).  Every other property of a
passing run is stated by a theorem, those of `DentryTable` under `NamesFit`.

## Not modelled

* `ll_io`: it is called by no other part of the program; `load_from_disk` and `sync`
  are declared and never defined.
* Error codes and the errno a handler returns (a throw is a disabled action, or
  ends the walk), back traces and other debug output: they change no state.
* The parsing of the mount program's arguments; `htmpfs_smi.cpp` is empty.
* `do_access`, `do_readlink`, `do_open` and the handlers that return 0 (flush,
  fsync, release) change no state; of `fs_stat`, sizes and the times no handler
  reads back.
* Names of 128 bytes and more, ids of 256 and more in `DentryTable`.
* The branches of `do_truncate` for a path that is not found: the kernel has looked
  the path up before.  Only a stale entry of the kernel's cache, after a rename
  through `/.snapshot/current`, could bring them about, and that cache is external
  and not modelled: `KernelSees` is always up to date.

* Properties of what every directory must allow, such as that it can be removed some
  day: they are possibilities, which TLC's logic does not state.
* A snapshot with attributes of its own: `fs_stat` is shared, and nothing in the
  repository promises otherwise.

The hazards in PROJECT.json that name no property belong to these.

## Plan

1. (done) `Buffer`, `VersionedFile`, `BlockStore` and the proofs of its invariant.
2. (done) `VersionedTree`, `InodeSmi`, `FuseOps`.
3. (done) `DentryTable`, `Attributes`, `Readdir`, `PathText`, `ExportMap`, `Bitmap`,
   and the proofs of `Bitmap`.
4. (done) The proofs of `FuseOps`, `VersionedTree`, `Attributes`, `DentryTable` and of
   the files of `BlockStore`.
5. (done) The proofs of `Readdir`, `PathText` and `ExportMap`.
6. The return values of failing handlers, should a property need them.
