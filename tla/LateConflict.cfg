\* A conflict among commits made after the first acceptance.
CONSTANTS
  MaxCommits = 1
  MaxAttachments = 0
  MaxFaults = 1
  MaxMoves = 0
  Operations <- MergeOnly
  DropsStopped = FALSE
SPECIFICATION Spec
PROPERTIES
  ResolvedConflictResumes
CHECK_DEADLOCK FALSE
