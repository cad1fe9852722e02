\* A hand-finished commit passed by a run that starts over.
CONSTANTS
  MaxCommits = 2
  MaxFaults = 1
  MaxMoves = 0
SPECIFICATION Spec
INVARIANTS
  AcceptedIsSigned
CHECK_DEADLOCK FALSE
