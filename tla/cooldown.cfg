CONSTANTS
  c1 = c1
  c2 = c2
  Callers <- Two
  MaxConcurrent = 1
  SaveFaults = {"refused", "lost"}
  Cancellable <- OnlyFirst
  Crashes = TRUE
SPECIFICATION FairSpec
INVARIANTS
  GateIsHeld ClearedStaysClear
PROPERTIES
  PausedWhileCooling EveryoneGetsTheGate
