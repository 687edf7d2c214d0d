SPECIFICATION FairSpec
CONSTANTS
  NsecPerSec = 16
  SliceMax = 4
  LongMin <- MCLongMin
  Longs <- MCLongs
  Durations <- MCDurations
INVARIANTS TypeOK SleepsExactly NanosleepAccepts
PROPERTY SleepEnds
