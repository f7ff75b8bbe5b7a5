SPECIFICATION PartsSpec
CONSTANTS
  n1 = n1  n2 = n2  n3 = n3  n4 = n4  r1 = r1  r2 = r2  r3 = r3
  Notes = {n1, n2, n3, n4}
  NoNote = NoNote
  Rows = {r1, r2, r3}
  RowOf <- MCRowOf
  Deletes = {n4}
  MaxBatch = 2
  MaxVersion = 2
  Channels = {a, b}
  MaxClients = 3
  Calls = {c1, c2}
  Members = {m1}
  MaxInbox = 3
  MaxTimers = 2
INVARIANTS NewestIsTold OneTransport NothingOld RosterFollows
PROPERTIES NothingLate EverythingSettles
CHECK_DEADLOCK FALSE
