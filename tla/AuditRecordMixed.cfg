SPECIFICATION Spec
CONSTANTS
  None = None
  Server = Server
  f1 = f1
  f2 = f2
  t = t
  a1 = a1
  a2 = a2
  b1 = b1
  c1 = c1
  d1 = d1
  d2 = d2
  Files <- TwoFiles
  Testers <- NoTester
  LinesOf <- OneEach
  DirOf <- OneDir
  HostOf <- Hosts
  DateOf <- Dates
  Matching <- Match
  Width <- Widths
  Finds <- Found2
  Rules <- PlainText
  Typed = {"server", ""}
  LastDay = 2
INVARIANT
  OwnRecord
CHECK_DEADLOCK FALSE
