SPECIFICATION Spec
CONSTANTS
  None = None
  root = root
  sub = sub
  f1 = f1
  f2 = f2
  Root <- root
  Subs <- OneSub
  Files <- TwoFiles
  In <- Where
  Date <- Dates
  LastDay = 2
  MaxMishaps = 1
  DirIds <- DirIdSet
  FileIds <- FileIdSet
  Events <- Rotation
INVARIANT
  NoOrphanTail
CHECK_DEADLOCK FALSE
