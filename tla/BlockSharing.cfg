SPECIFICATION Spec
CONSTANTS
  Byte <- Bytes
  Zero = 0
  BlockSize = 1
  Inode = {i1, i2}
  Version = {v1, v2}
  Payload <- SharingPayload
  MaxSize = 2
  MaxBuffers = 3
SYMMETRY Symmetry
INVARIANTS NoDangling LinkCounts WritableIsPrivate SharedInPlace
PROPERTIES SnapshotsImmutable
