SPECIFICATION FairSpec
CONSTANTS
  Programs = {p1, p2, p3, p4}
  p1 = p1
  p2 = p2
  p3 = p3
  p4 = p4
  Scenarios = {"rendezvous", "barber", "buffer", "consumers", "slot", "short", "writer"}
  TextOf <- MCTextOf
  Given <- MCGiven
  First <- MCFirst
  Made <- MCMade
  Locals <- MCLocals
  Literals <- MCLiterals
  Keys <- MCKeys
  Indices = {0, 1}
  MaxValue = 3
  Idle = Idle
INVARIANTS Rendezvous WritersExclude BarberSleepsAlone LostBehindTheBuffer
PROPERTIES ItemsInOrder EverybodyServed
CHECK_DEADLOCK FALSE
