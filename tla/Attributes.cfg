SPECIFICATION AttrSpec
CONSTANTS
  Name = {a, b}
  Version = {v1}
  Data = {empty}
  NoData = empty
  LinkText = empty
  Dir = dir
  MaxInodes = 3
  Rights = {r1, r2}
  Time = {t1, t2}
INVARIANTS AttrTypeOK KernelTypesAgree
PROPERTIES RemovedKeepsItsStat
