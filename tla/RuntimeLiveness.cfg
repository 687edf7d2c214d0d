SPECIFICATION FairSpec
CONSTANTS
  RtCnt = 1
  MaxProgs = 2
  Globals = {"a"}
  Sems <- One
  MaxCount = 1
  Uninit = Uninit
  Commands = {"run", "kill", "list", "quit"}
  Instructions = {"local", "return", "sleep", "up", "down"}
PROPERTIES KilledIsFreed RoundRobin CommandEnds TokenIsTaken
