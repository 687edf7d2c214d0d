SPECIFICATION Spec
CONSTANTS
  Texts <- MCPrograms
  MaxLines = 3
  Labels = {"L1", "L2"}
  Variables = {"$x"}
  Numbers = {"1"}
  HalfArrays = {"$a["}
INVARIANT UndefinedLabelIsReported
