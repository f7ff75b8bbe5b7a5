SPECIFICATION Spec
CONSTANTS
  s1 = s1  s2 = s2  u1 = u1  u2 = u2  c1 = c1  c2 = c2
  Sessions = {s1, s2}
  NoSession = NoSession
  Users = {u1, u2}
  NoUser = NoUser
  UserOf <- MCUserOf
  Readable = {s1}
  Revocable = {s1}
  Calls = {c1}
  Kinds = {"signIn", "request"}
  MaxRotation = 1
  MaxGen = 3
INVARIANTS OwnSession StorageFollows SignedOutForGood SignOutEndsItsOwn SentAgainAsItself
PROPERTIES EarlierChangesNothing
CHECK_DEADLOCK FALSE
