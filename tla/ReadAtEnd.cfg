SPECIFICATION Spec
CONSTANTS
  Byte <- Bytes
  Zero = 0
  BlockSize = 2
  Inode = {i1}
  Version = {v1}
  Payload <- LayoutPayload
  MaxSize = 4
  MaxBuffers = 4
INVARIANTS ReadAtEnd
