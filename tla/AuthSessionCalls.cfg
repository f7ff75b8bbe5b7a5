SPECIFICATION FairSpec
CONSTANTS
  s1 = s1  s2 = s2  u1 = u1  u2 = u2  c1 = c1  c2 = c2
  Sessions = {s1, s2}
  NoSession = NoSession
  Users = {u1, u2}
  NoUser = NoUser
  UserOf <- MCUserOf
  Readable = {s1}
  Revocable = {}
  Calls = {c1, c2}
  Kinds = {"request", "delete"}
  MaxRotation = 1
  MaxGen = 2
INVARIANTS NoTokenSentAgain
 
CHECK_DEADLOCK FALSE
