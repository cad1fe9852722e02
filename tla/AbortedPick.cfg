\* A cherry-pick aborted and then committed over.
CONSTANTS
  MaxCommits = 1
  MaxAttachments = 0
  MaxFaults = 1
  MaxMoves = 1
  Operations <- MergeOnly
  DropsStopped = TRUE
SPECIFICATION Spec
PROPERTIES
  CheckoutKeepsWork
CHECK_DEADLOCK FALSE
