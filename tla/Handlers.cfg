SPECIFICATION PartsSpec
CONSTANTS
  Contexts = {"root", "child"}
  Programs <- SmallPrograms
  MaxOps = 7
  MaxCrashes = 2
  MaxLate = 3
  Characters = {"0", "9", "d", "s", " ", "x"}
  MaxLength = 5
  Users = {u1, u2}
  Listeners = {l1, l2}
  MaxListening = 2
  MaxSessions = 2
  MaxActs = 2
SYMMETRY UserSymmetry
INVARIANTS SamePlace WaitOutcome TakesItsTime ToldWhoIsIn
PROPERTY KeepsPromise
