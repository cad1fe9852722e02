\* up: the machine is made and the wait for it to become active fails.
CONSTANTS
  p1 = p1
  p2 = p2
  p3 = p3
  s1 = s1
  s2 = s2
  Process <- OneProcess
  Session <- OneSession
  MaxVMs = 1
  MaxStarts = 0
  MaxCommands = 1
  MaxFaults = 1
SPECIFICATION Spec
INVARIANTS
  NoInvisibleMachine
CHECK_DEADLOCK FALSE
