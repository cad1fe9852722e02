\* attach dies between naming its workspace and recording it, and is repeated.
CONSTANTS
  MaxCommits = 0
  MaxAttachments = 1
  MaxFaults = 1
  MaxMoves = 0
  Operations <- MergeOnly
  DropsStopped = FALSE
SPECIFICATION Spec
PROPERTIES
  AttachRecovers
CHECK_DEADLOCK FALSE
