SPECIFICATION Spec
CONSTANTS
  Name = {".snapshot", "current"}
  Version = {}
  Data = {empty}
  NoData = empty
  LinkText = empty
  Dir = dir
  MaxInodes = 5
PROPERTIES ImplementsVersionedTree RemovesAsWritten
\* With the pool full of directories below a /.snapshot of the tree, no path is
\* left that a handler can change anything at.
CHECK_DEADLOCK FALSE
