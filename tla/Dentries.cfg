SPECIFICATION Spec
CONSTANTS
  Dir = {d1, d2}
  Name <- MCName
  Id = {1, 2, 3}
  Limit = 3
  MaxEntries = 3
INVARIANTS TypeOK NamesAreUnique RenamedHasAPlace
PROPERTIES RenameMoves OrderIsKept ImplementsDirectories
