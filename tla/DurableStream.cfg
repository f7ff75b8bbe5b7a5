SPECIFICATION FairSpec
CONSTANTS
  Seqs <- MCSeqs
  HeldLimit = 1
  FailureCap = 1
  MaxCatchUps = 2
  NamesPrev = TRUE
INVARIANTS NothingForgotten OpenedCaughtUp
PROPERTIES EndedDeliversNothing KeepsPromise ArrivedIsDelivered
CHECK_DEADLOCK FALSE
