SPECIFICATION Spec
CONSTANTS
  Calls = {c1, c2}
  MaxEntries = 2
  MaxGen = 1
  MaxRotation = 2
  MaxId = 2
  MaxEvents = 3
SYMMETRY CallSymmetry
INVARIANT RetryIsFresh
