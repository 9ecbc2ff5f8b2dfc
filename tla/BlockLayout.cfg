SPECIFICATION Spec
CONSTANTS
  Byte <- Bytes
  Zero = 0
  BlockSize = 2
  Inode = {i1}
  Version = {v1}
  Payload <- LayoutPayload
  MaxSize = 5
  MaxBuffers = 4
INVARIANTS TypeOK BlockShape ReadIsExact
PROPERTIES ImplementsVersionedFile
