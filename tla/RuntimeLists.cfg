SPECIFICATION Spec
CONSTANTS
  RtCnt = 2
  MaxProgs = 5
  Globals = {"a"}
  Sems <- One
  MaxCount = 0
  Uninit = Uninit
  Commands = {"run", "kill", "list", "quit"}
  Instructions = {"return"}
INVARIANTS BalancedLoad ListedOnce TurnOnLiveProgram KillVictimLive
  NoLostWakeup CursorGap
