\* An instance's machine: three commands at a time on one instance with two
\* sessions, two provisions, one account with three images, one project,
\* and three commands on a file with two records.
CONSTANTS
  p1 = p1
  p2 = p2
  p3 = p3
  s1 = s1
  s2 = s2
  Process <- Processes
  Session <- SessionNames
  MaxVMs = 2
  MaxStarts = 2
  MaxCommands = 4
  MaxFaults = 2
  Pair <- SessionNames
  Version = {1, 2, 3}
  Rendered = {1}
  ViaAgent = {2}
  OtherShell = {3}
  Secret = {"dolt", "gh"}
  MaxInvocations = 2
  MaxLines = 2
  MaxRuns = 2
  Kind <- MCKind
  Wanted <- MCWanted
  Builder = {b1}
  Path = {1, 2}
  PageSize = 2
  Pending = 1
  Keep = 0
  MaxImages = 3
  MaxMachines = 2
  MaxTroubles = 1
  Image = {i1}
  UserTag = {"t1", "t2"}
  MaxTags = 2
  MaxChanges = 4
SPECIFICATION MachinesSpec
INVARIANTS
  TypeOK
  WorkIsOnRecord
  MachineTracked
  OutputExact
  SuccessIsReal
  CredentialsComplete
  MachineIsApproved
  ClearedIsGone
PROPERTIES
  DownRescuesAll
  StopsNoOldSwitch
  NewestStay
  NoChangeUndone
SYMMETRY Symmetry
CHECK_DEADLOCK FALSE
