SPECIFICATION Spec
CONSTANTS
  Names <- MCNames
  Operands <- MCOperands
  Instructions <- MCInstructions
  Offsets <- MCOffsets
  Loaded <- MCLoaded
  Argv <- MCArgv
  Id = 2
  IntMin <- MCIntMin
  IntMax = 3
INVARIANTS TypeOK OwnValueOrZero ArrayStaysFound
PROPERTIES NamesKeepTheirMeaning GrowthKeepsTheRest
