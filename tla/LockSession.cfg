SPECIFICATION Spec
CONSTANTS
  w1 = w1  w2 = w2
  Workers = {w1, w2}
  NoWorker = NoWorker
  TTL = 2
  Life = 3
  Margin = 1
  Pauses = {1}
  MaxTimer = 1
  Advances <- Exact
  Forceable = FALSE
SYMMETRY WorkerSymmetry
INVARIANTS ReliedOnIsHeld OneRenewal AbortedInTime
PROPERTIES KeepsPromise SuccessWasHeld NothingRevived
