SPECIFICATION Spec
CONSTANTS
  Name = {a, b}
  Version = {v1}
  Data = {empty}
  NoData = empty
  LinkText = empty
  Dir = dir
  MaxInodes = 4
SYMMETRY Symmetry
INVARIANTS TypeOK ListsMatchPool VolumesMatchLists TreeShape
PROPERTIES SnapshotsAreReadOnly
