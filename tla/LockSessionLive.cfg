SPECIFICATION FairSpec
CONSTANTS
  w1 = w1  w2 = w2
  Workers = {w1}
  NoWorker = NoWorker
  TTL = 3
  Life = 4
  Margin = 1
  Pauses = {1}
  MaxTimer = 2
  Advances <- Paused
  Forceable = TRUE
PROPERTIES EveryLockEnds
