SPECIFICATION Spec
CONSTANTS
  r1 = r1
  h1 = h1
  h2 = h2
  d1 = d1
  d2 = d2
  t1 = t1
  t2 = t2
  t3 = t3
  t4 = t4
  None = None
  Rules <- OneRule
  Handlers <- OneHandler
  Dirs <- TwoDirs
  Texts <- OneText
  Malformed <- NoTexts
  Unstartable <- NoTexts
  DBOutcomes <- Reliable
  Remembered <- OneRule
INVARIANT
  DroppedLeavesNoPositions
