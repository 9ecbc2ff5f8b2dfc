SPECIFICATION Spec
CONSTANTS
  Bits = 2
  BlockSize = 2
  First = 1
  Buffers = 2
  Pool = {0, 1, 2, 3}
  Byte <- MCByte
  Zero <- MCZero
INVARIANTS TypeOK AnswersAreCertain
PROPERTIES ImplementsBitSet OthersUntouched
