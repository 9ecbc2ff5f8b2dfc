------------------------------ MODULE MCBitmap ------------------------------
(* Small instances of Bitmap for TLC: bytes of two bits, blocks of two     *)
(* bytes, a bitmap of two buffers between two others.                      *)
EXTENDS Bitmap

MCByte == SUBSET (0 .. Bits - 1)
MCZero == {}
=============================================================================
