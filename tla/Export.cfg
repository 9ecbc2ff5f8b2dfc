SPECIFICATION ExportSpec
CONSTANTS
  Name = {a, ".snapshot"}
  Version = {v1}
  Data = {empty}
  NoData = empty
  LinkText = empty
  Dir = dir
  MaxInodes = 4
INVARIANTS ListingIsExact WalkTypeOK ExportIsExact VersionIsReadBack
PROPERTIES WalkComesNearer ExportEnds
