SPECIFICATION Spec
CONSTANTS
  RtCnt = 2
  MaxProgs = 2
  Globals = {"a"}
  Sems <- Pair
  MaxCount = 1
  Uninit = Uninit
  Commands = {"run", "quit"}
  Instructions = {"return", "up", "down", "store"}
PROPERTY ImplementsSemaphores
