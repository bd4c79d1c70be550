SPECIFICATION FairSpec
CONSTANTS
  None = None
  root = root
  sub = sub
  f1 = f1
  f2 = f2
  Root <- root
  Subs <- OneSub
  Files <- TwoFiles
  In <- Where
  Date <- Dates
  LastDay = 2
  MaxMishaps = 2
  DirIds <- DirIdSet
  FileIds <- FileIdSet
  Events <- Removals
INVARIANTS
  TypeOK
  NoOrphanTail
  RemovedForgotten
CHECK_DEADLOCK FALSE
PROPERTIES
 FollowedEventually
 ExpiredLetGo
 StopEndsAll
