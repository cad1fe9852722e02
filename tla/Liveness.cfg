\* Repeating the pending command; locks with two processes and a crash while one
\* is held; a run that follows the unit.
CONSTANTS
  MaxCommits = 1
  MaxAttachments = 1
  MaxFaults = 1
  MaxMoves = 0
  Operations <- MergeOrForce
  DropsStopped = FALSE
  Process = {p1, p2}
  Session = {s1}
  MaxVMs = 3
  MaxStarts = 3
  MaxCommands = 3
  Run = {p1}
  Version = {1, 2}
  Rendered = {1}
  ViaAgent = {2}
  MaxInvocations = 2
  MaxLines = 1
  MaxRuns = 2
SPECIFICATION LiveSpec
PROPERTIES
  MergeRetires
  ForceRetires
  CommandsEnd
  FollowingEnds
CHECK_DEADLOCK FALSE
