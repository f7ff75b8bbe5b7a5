SPECIFICATION PartsSpec
CONSTANTS
  Calls = {c1, c2}
  MaxEntries = 1
  MaxGen = 2
  MaxRotation = 2
  MaxId = 2
  MaxEvents = 2
  Paths = {p1, p2}
  BadPath = bad
  MaxSize = 3
  MaxList = 2
  Askers = {a1, a2}
  MaxAsks = 3
  Handlers = {h1, h2}
  MaxOpened = 2
  Pages = {home, account}
  MaxFlows = 2
  MaxVisits = 3
  Pieces = {"x", "", " ", ".", "..", " .. ", "stats", "move"}
  Values <- SmallValues
  Trim <- SmallTrim
  Plains = {"x", "stats", "move"}
  Uuids = {"x"}
SYMMETRY CallSymmetry
INVARIANTS RunsOnce  PerformedAsTold DisposedIsEnding TellsWhy ReachesItsRoute ToldOnce SignInHolds
PROPERTIES SharedAsMeant
