SPECIFICATION Spec
CONSTANTS
  None = None
  MaxSize = 6
  MaxFiles = 1
  MaxCuts = 1
  Unparsable <- SecondLine
  Events <- Failures
INVARIANTS
  TypeOK
  NothingSkipped
  SavedPositionCovered
PROPERTIES
  ImplementsDelivery
