SPECIFICATION FairSpec
CONSTANTS
  Texts <- MCTexts
  MaxLines = 3
  Labels = {"L1", "L2"}
  Variables = {"$x"}
  Numbers = {"1"}
  HalfArrays = {"$a["}
INVARIANTS TypeOK TokensOfTheLine LabelsAreLines
PROPERTIES ImplementsText ScanEnds
