SPECIFICATION Spec
CONSTANTS
  MaxText = 7
  Window = 3
  MaxBytes = 7
  SheetRows = 4
  MaxRows = 10
INVARIANTS
  ArgsAreWords
  ArgsLoseNothing
  NulsDiscarded
  SheetsHoldAll
CHECK_DEADLOCK FALSE
