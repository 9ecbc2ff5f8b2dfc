SPECIFICATION Spec
CONSTANTS
  Name = {a, b}
  Version = {v1, v2}
  Data = {empty, text}
  NoData = empty
  LinkText = text
  Dir = dir
  MaxInodes = 3
SYMMETRY Symmetry
PROPERTIES ImplementsVersionedTree
