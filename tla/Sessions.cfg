\* The parts of a session's life, one in each behaviour.
CONSTANTS
  Process = {x1, x2}
  Issue = {i1}
  Old = {i1}
  Terminal = x3
  Name = {n1, n2}
  MaxHead = 2
  MaxWork = 2
  MaxEdits = 2
  MaxFaults = 1
  Instructions <- MCInstructions
  MaxLines = 1
  Layouts <- MCLayouts
  MaxPanes = 7
  MaxUserActs = 1
  MaxFailures = 1
  MaxGen = 1
  FirstProjects <- MCProjects
  FirstBases <- MCBases
  Answer <- MCAnswer
  Key = {"k1"}
  MaxCommands = 2
  Port = {p1, p22}
  InfraPorts = {p22}
  OtherPort = p0
  Bind = {"any", "loopback"}
  MaxEvents = 1
  MaxProfiles = 3
  MaxSpaces = 3
  MaxUps = 2
  MaxCatalogEdits = 1
SPECIFICATION SessionsSpec
INVARIANTS
  NoInventedAuthor
  ForwardIsOurs
  OneWorkspace
PROPERTIES
  WorkIsKept
  PullIsComplete
  Delivered
  LaidOut
  NoIssueLost
  SuccessIsWhole
  MovedIsKept
SYMMETRY Symmetry
CHECK_DEADLOCK FALSE
