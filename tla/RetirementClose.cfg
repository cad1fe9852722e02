\* Workspaces, crashes and the effect journal.
CONSTANTS
  MaxCommits = 1
  MaxAttachments = 2
  MaxFaults = 2
  MaxMoves = 0
  Operations <- AllOperations
  DropsStopped = FALSE
SPECIFICATION Spec
INVARIANTS
  TypeOK
  JournalTruthful
  ClosedBeforeRemoval
  ReceiptComplete
  RemovalIsFinal
PROPERTIES
  KeepsItsPromise
CHECK_DEADLOCK FALSE
