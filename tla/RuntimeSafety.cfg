SPECIFICATION Spec
CONSTANTS
  RtCnt = 1
  MaxProgs = 2
  Globals = {"a", "b"}
  Sems <- Arrays
  MaxCount = 1
  Uninit = Uninit
  Commands = {"run", "kill", "list", "quit"}
  Instructions = {"local", "return", "error", "sleep", "branch", "up", "down", "store"}
INVARIANTS TypeOK LastLineIsExecuted KillFindsSemaphore BlockedOrKilled
PROPERTY FreedWhenDone
