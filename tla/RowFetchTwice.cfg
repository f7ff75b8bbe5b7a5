SPECIFICATION Spec
CONSTANTS
  n1 = n1  n2 = n2  n3 = n3  n4 = n4  r1 = r1  r2 = r2  r3 = r3
  Notes = {n1, n2, n3}
  NoNote = NoNote
  Rows = {r1, r2}
  RowOf <- MCFewRowOf
  Deletes = {}
  MaxBatch = 2
  MaxVersion = 1
INVARIANTS EveryOneIsTold
CHECK_DEADLOCK FALSE
