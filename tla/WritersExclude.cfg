SPECIFICATION Spec
CONSTANTS
  Programs = {p1, p2, p3, p4}
  p1 = p1
  p2 = p2
  p3 = p3
  p4 = p4
  Scenarios = {"writers"}
  TextOf <- MCTextOf
  Given <- MCGiven
  First <- MCFirst
  Made <- MCMade
  Locals <- MCLocals
  Literals <- MCLiterals
  Keys <- MCKeys
  Indices = {0, 1}
  MaxValue = 3
  Idle = Idle
INVARIANT WritersExclude
CHECK_DEADLOCK FALSE
