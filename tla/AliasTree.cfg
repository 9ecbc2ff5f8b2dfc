SPECIFICATION AnySpec
CONSTANTS
  Name = {a, b}
  Version = {v1}
  Data = {empty}
  NoData = empty
  LinkText = empty
  Dir = dir
  MaxInodes = 3
INVARIANTS CurrentIsTree
