\* attach dies between recording its intent and recording the handle.
CONSTANTS
  MaxCommits = 0
  MaxAttachments = 1
  MaxFaults = 1
  MaxMoves = 0
  Operations <- MergeOnly
  DropsStopped = FALSE
SPECIFICATION FairSpec
PROPERTIES
  ClosingResumes
CHECK_DEADLOCK FALSE
