---------------------------- MODULE MCBlockStore ----------------------------
(* Small instances of BlockStore for TLC.                                  *)
EXTENDS BlockStore, TLC

Bytes == {0, 1, 2}

(* Layout: writes shorter than, as long as and longer than a block, whose  *)
(* bytes differ so that a misplaced piece shows.                           *)
LayoutPayload == {<<1>>, <<1, 2, 1, 2>>}

(* Sharing: one byte is one block; what matters is who holds which block.  *)
SharingPayload == {<<1>>, <<1, 1>>}

Symmetry == Permutations(Inode) \cup Permutations(Version)
=============================================================================
