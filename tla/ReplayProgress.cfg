\* Conflicts, crashes, resets and a growing session.
CONSTANTS
  MaxCommits = 3
  MaxFaults = 3
  MaxMoves = 2
SPECIFICATION Spec
INVARIANTS
  TypeOK
  NothingSkipped
  SignedWhileTracked
PROPERTIES
  ResolvedOnce
  OwnCommitsKept
CHECK_DEADLOCK FALSE
