\* Work on the branch: commits, rewrites, late work, conflicts, moves.
CONSTANTS
  MaxCommits = 3
  MaxAttachments = 0
  MaxFaults = 2
  MaxMoves = 1
  Operations <- AllOperations
  DropsStopped = FALSE
SPECIFICATION Spec
INVARIANTS
  AcceptanceSound
PROPERTIES
  CheckoutKeepsWork
  IntentImmutable
CHECK_DEADLOCK FALSE
