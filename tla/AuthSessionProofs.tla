------------------------- MODULE AuthSessionProofs -------------------------
(***************************************************************************)
(* Proofs about AuthSession, for any number of sessions, users and calls,  *)
(* and any bounds of rotations and generations.                            *)
(***************************************************************************)
EXTENDS AuthSession, TLAPS

USE NoSessionAssumption, UsersAssumption, SubsetsAssumption, BoundsAssumption

\* Tokens: those of a session know it, and NoToken is of none.
LEMMA TokenTyped ==
  ASSUME NEW t \in Tokens
  PROVE  /\ t.sid \in Sessions \cup {NoSession}
         /\ t # NoToken <=> t.sid \in Sessions
BY DEF Tokens, NoToken

LEMMA PairTyped ==
  ASSUME NEW s \in Sessions, NEW n \in 0..MaxRotation
  PROVE  /\ Pair(s, n) \in Creds
         /\ Pair(s, n).access.sid = s /\ Pair(s, n).refresh.sid = s
         /\ Pair(s, n).access # NoToken /\ Pair(s, n).refresh # NoToken
         /\ Pair(s, n).access \in Tokens /\ Pair(s, n).refresh \in Tokens
BY DEF Pair, Creds, Tokens, NoToken

LEMMA NoCredsTyped ==
  /\ NoCreds \in Creds /\ NoToken \in Tokens /\ NoToken.sid = NoSession
  /\ NoCreds.access = NoToken /\ NoCreds.refresh = NoToken
BY DEF NoCreds, Creds, NoToken, Tokens

-----------------------------------------------------------------------------
\* The invariant, by the state it is about.

\* A refresh token is of the same session as its access token.
Matched(c) == c.refresh # NoToken => c.access.sid = c.refresh.sid

\* The server made the sessions of these tokens.
Known(c) == {c.access.sid, c.refresh.sid} \subseteq issued \cup {NoSession}

ServerOK ==
  /\ live \subseteq issued /\ issued \subseteq Sessions
  /\ rotation \in [Sessions -> 0..MaxRotation]

SessionOK ==
  /\ gen \in Gens /\ cred \in Creds /\ user \in Users \cup {NoUser} /\ stored \in Creds
  /\ cred.refresh # NoToken => cred.access # NoToken
  /\ owner \in Sessions \cup {NoSession} /\ unsaved \in BOOLEAN
  /\ gen = MaxGen => owner = NoSession
  /\ Known(cred) /\ Known(stored)

\* What was captured under a generation, is of its session: no token of the
\* present generation is of another session than the client's.
Captured(g, c) ==
  /\ g <= gen /\ c.access # NoToken
  /\ g = gen => c.access.sid = owner /\ c.refresh.sid = cred.refresh.sid

VerifiedOK ==
  /\ verified \in [Gens -> Creds] /\ cleared \in [Gens -> BOOLEAN]
  /\ \A g \in Gens : Matched(verified[g])

RefreshRecords ==
  [st : {"none", "asked"} \cup Answers, cred : Creds, user : Users \cup {NoUser}, was : BOOLEAN,
   pair : Creds]

\* A refresh may be answered with another session only where its access token
\* names its own, or its pair is known to match.
RefreshOf(g) ==
  refresh[g].st # "none" =>
    /\ Captured(g, refresh[g].cred)
    /\ Names(refresh[g].cred.access) \/ refresh[g].was
    /\ refresh[g].was => Matched(refresh[g].cred)
    /\ refresh[g].st = "limited" => refresh[g].was
    /\ refresh[g].st = "ok" =>
         /\ refresh[g].cred.refresh.sid \in Sessions
         /\ refresh[g].pair.access.sid = refresh[g].cred.refresh.sid
         /\ refresh[g].pair.refresh.sid = refresh[g].cred.refresh.sid

RefreshOK ==
  /\ refresh \in [Gens -> RefreshRecords]
  /\ \A g \in Gens : RefreshOf(g)

SignOutRecords ==
  [st : {"none", "waiting", "due", "logout", "revoke", "refreshing", "again", "settled"},
   cred : Creds, user : Users \cup {NoUser}, prior : {"none", "ok", "failed"}, pair : Creds,
   sent : Tokens, ended : SUBSET Sessions, error : BOOLEAN]

\* A sign-out holds the client's tokens while its generation is the present
\* one, and whatever it sends is of its target.
SignOutOf(g) ==
  LET so == signOut[g]
  IN /\ so.ended \subseteq IF Endable(g) THEN {Target(g)} ELSE {}
     /\ so.st # "none" =>
          /\ Captured(g, so.cred) /\ Known(so.cred)
          /\ so.st # "settled" /\ g = gen => so.cred = cred
          /\ so.st = "settled" => g < gen
          /\ so.st = "waiting" =>
               /\ refresh[g].st # "none"
               /\ refresh[g].cred.access.sid = so.cred.access.sid
               /\ refresh[g].cred.refresh.sid = so.cred.refresh.sid
          /\ so.st \in {"revoke", "refreshing", "again"} => Names(so.cred.access)
          /\ so.prior = "ok" =>
               /\ so.pair.refresh.sid = so.cred.refresh.sid
               /\ so.pair.refresh # NoToken
               /\ Names(so.cred.access) => so.pair.access.sid = so.cred.access.sid
          /\ so.st = "logout" => Endable(g) /\ so.sent.sid = Target(g)
          /\ so.st = "settled" /\ ~so.error /\ Endable(g) => Target(g) \notin live

SignOutOK ==
  /\ signOut \in [Gens -> SignOutRecords]
  /\ \A g \in Gens : SignOutOf(g)

CallRecords ==
  [st : {"idle", "signing", "first", "waiting", "refreshed", "failed", "second"},
   gen : Gens, cred : Creds, deletes : BOOLEAN, sent : Tokens]

\* A call holds tokens of the session it was made under, and so does what it
\* sends again.
CallOf(c) ==
  /\ call[c].st = "signing" => call[c].gen <= gen
  /\ call[c].st \notin {"idle", "signing"} =>
       /\ Captured(call[c].gen, call[c].cred)
       /\ call[c].gen = gen => call[c].sent.sid = owner
       /\ call[c].st = "second" => call[c].sent.sid = call[c].cred.access.sid

CallsOK ==
  /\ call \in [Calls -> CallRecords]
  /\ \A c \in Calls : CallOf(c)

RedirectOK == exchange \in BOOLEAN /\ consumed \in BOOLEAN

ReplacedOK == replaced \in [Gens -> SUBSET Tokens]

IInv ==
  /\ ServerOK /\ SessionOK /\ OwnSession /\ StorageFollows
  /\ VerifiedOK /\ RefreshOK /\ SignOutOK /\ CallsOK /\ RedirectOK /\ ReplacedOK

LEMMA Typed == IInv => TypeOK
BY DEF IInv, TypeOK, ServerOK, SessionOK, VerifiedOK, RefreshOK, RefreshRecords, SignOutOK,
   SignOutRecords, CallsOK, CallRecords, RedirectOK, ReplacedOK

LEMMA InitOK == Init => IInv
<1> SUFFICES ASSUME Init PROVE IInv
  OBVIOUS
<1> USE NoCredsTyped DEF Init
<1>1. ServerOK
  BY DEF ServerOK
<1>2. SessionOK
  <2>1. unsaved \in BOOLEAN
    BY Zenon
  <2> QED
    BY <2>1 DEF SessionOK, Gens, Known
<1>3. OwnSession /\ StorageFollows
  BY DEF OwnSession, StorageFollows
<1>4. VerifiedOK
  BY DEF VerifiedOK, Matched
<1>5. RefreshOK
  BY DEF RefreshOK, RefreshOf, RefreshRecords, NoRefresh
<1>6. SignOutOK
  BY DEF SignOutOK, SignOutOf, SignOutRecords, NoSignOut
<1>7. CallsOK
  <2>1. 0 \in Gens
    BY DEF Gens
  <2> QED
    BY <2>1 DEF CallsOK, CallOf, CallRecords, NoCall
<1>8. RedirectOK /\ ReplacedOK
  BY Zenon DEF RedirectOK, ReplacedOK
<1> QED
  BY <1>1, <1>2, <1>3, <1>4, <1>5, <1>6, <1>7, <1>8 DEF IInv

-----------------------------------------------------------------------------
\* The server.

\* Sessions are made once, and only those that were never made before come
\* alive.
LEMMA ServerStep ==
  ASSUME ServerOK, SessionOK, [Next]_vars
  PROVE  /\ ServerOK'
         /\ issued \subseteq issued' /\ live' \subseteq live \cup (Sessions \ issued)
<1> DEFINE Grows == /\ ServerOK'
                    /\ issued \subseteq issued' /\ live' \subseteq live \cup (Sessions \ issued)
<1> SUFFICES Grows
  OBVIOUS
<1> USE DEF ServerOK, server
<1>1. ASSUME UNCHANGED server PROVE Grows
  BY <1>1
<1>2. ASSUME NEW s \in Sessions, s \notin issued, Issue(s) PROVE Grows
  BY <1>2 DEF Issue
<1>3. ASSUME UNCHANGED <<issued, rotation>>, live' \subseteq live PROVE Grows
  BY <1>3
<1>4. CASE UNCHANGED vars
  BY <1>1, <1>4 DEF vars
<1>5. ASSUME NEW s \in Revocable, Revoke(s) PROVE Grows
  BY <1>3, <1>5 DEF Revoke
<1>6. CASE ExchangeStep
  BY <1>1, <1>2, <1>6 DEF ExchangeStep, ExchangeFails, ExchangeAnswers
<1>7. ASSUME NEW c \in Calls, SignIn(c) \/ (\E d \in BOOLEAN : Request(c, d)) PROVE Grows
  BY <1>1, <1>7 DEF SignIn, Request
<1>8. ASSUME NEW c \in Calls, CallStep(c) PROVE Grows
  <2>1. CASE \E s \in Sessions : SignInAnswers(c, s)
    BY <1>2, <2>1 DEF SignInAnswers
  <2>2. CASE SignInFails(c) \/ RequestDenied(c) \/ RequestResumes(c)
    BY <1>1, <2>2 DEF SignInFails, RequestDenied, RequestResumes
  <2>3. CASE RequestSucceeds(c) \/ RequestLost(c)
    BY <1>3, <2>3 DEF RequestSucceeds, RequestLost
  <2> QED
    BY <1>8, <2>1, <2>2, <2>3 DEF CallStep
<1>9. ASSUME NEW s \in Sessions, NEW t \in Sessions, Adopt(s, t) PROVE Grows
  BY <1>9 DEF Adopt
<1>10. ASSUME NEW s \in Sessions, NEW r \in BOOLEAN, HandOver(s, r) PROVE Grows
  BY <1>2, <1>10 DEF HandOver
<1>11. ASSUME NEW s, NEW r, LoadSupplied(s, r) PROVE Grows
  BY <1>1, <1>11 DEF LoadSupplied, Load
<1>12. CASE LoadStored \/ RefreshSession \/ SignOut
  BY <1>1, <1>12 DEF LoadStored, Load, RefreshSession, SignOut
<1>13. ASSUME NEW g \in Gens, ServerRefresh(g) PROVE Grows
  <2> DEFINE t == refresh[g].cred.refresh
  <2>1. UNCHANGED <<issued, live>>
    BY <1>13 DEF ServerRefresh
  <2>2. CASE UNCHANGED rotation
    BY <1>1, <2>1, <2>2
  <2>3. CASE IsLatest(t) /\ rotation[t.sid] < MaxRotation /\ rotation' = [rotation EXCEPT ![t.sid] = @ + 1]
    <3>1. t.sid \in Sessions /\ rotation[t.sid] \in 0..MaxRotation
      BY <2>3 DEF IsLatest
    <3>2. rotation[t.sid] + 1 \in 0..MaxRotation
      BY <2>3, <3>1
    <3> QED
      BY <2>1, <2>3, <3>2
  <2> QED
    BY <1>13, <2>2, <2>3 DEF ServerRefresh
<1>14. ASSUME NEW g \in Gens, RefreshSettles(g) \/ SignOutSends(g) \/ RevokeDenied(g) \/ SignOutRefreshed(g)
       PROVE Grows
  BY <1>1, <1>14 DEF RefreshSettles, SignOutSends, RevokeDenied, SignOutRefreshed
<1>15. ASSUME NEW g \in Gens, LogoutSettles(g) \/ RevokeSettles(g) PROVE Grows
  BY <1>3, <1>15 DEF LogoutSettles, RevokeSettles
<1> QED
  BY <1>4, <1>5, <1>6, <1>7, <1>8, <1>9, <1>10, <1>11, <1>12, <1>13, <1>14, <1>15
  DEF Next, RefreshStep, SignOutStep

-----------------------------------------------------------------------------
\* The session: what a step may make of it.

\* Another session's tokens, or those of a page that was loaded.
Established ==
  /\ gen' = gen + 1 /\ gen + 1 < MaxGen
  /\ cred' \in Creds /\ stored' \in Creds /\ unsaved' \in BOOLEAN
  /\ cred'.refresh # NoToken => cred'.access # NoToken
  /\ owner' = cred'.access.sid
  /\ user' = NoUser \/ (cred'.access # NoToken /\ user' = UserOf[cred'.access.sid])
  /\ unsaved' \/ stored' = cred'
  /\ cred' = NoCreds => stored' = NoCreds
  /\ Matched(stored')
  /\ Known(cred)' /\ Known(stored)'

\* None.
Emptied ==
  /\ gen' = gen + 1 /\ gen < MaxGen
  /\ cred' = NoCreds /\ user' = NoUser /\ stored' = NoCreds
  /\ owner' = NoSession /\ unsaved' = FALSE

\* New tokens of the same session, which no sign-out holds, by its refresh.
Continued ==
  /\ gen' = gen /\ signOut[gen].st = "none"
  /\ owner' = owner /\ owner \in Sessions /\ Known(cred)
  /\ cred' \in Creds /\ cred'.access.sid = owner
  /\ cred'.refresh.sid = owner /\ cred.refresh.sid = owner
  /\ user' = UserOf[owner] /\ stored' = cred' /\ unsaved' = FALSE
  /\ refresh[gen].st = "ok" /\ refresh'[gen].st = "none"

\* The same tokens, and maybe their user.
Stays ==
  /\ UNCHANGED <<gen, cred, stored, owner, unsaved>>
  /\ user' = user \/ (owner \in Sessions /\ user' = UserOf[owner])

\* Whoever sets a session, sets all of it.
LEMMA SetsAll ==
  ASSUME SessionOK, Room, NEW c \in Creds, NEW u, Establish(c, u), Save(c),
         c.access # NoToken, Matched(c), {c.access.sid, c.refresh.sid} \subseteq issued' \cup {NoSession},
         u \in {NoUser, UserOf[c.access.sid]}
  PROVE  Established
BY NoCredsTyped DEF Establish, Save, Room, Established, Known

\* Clearing the session of a generation whose tokens were captured empties it
\* or, when that is over, leaves it.
LEMMA Clears ==
  ASSUME SessionOK, NEW g \in Gens, ClearSession(g), g = gen => owner # NoSession
  PROVE  Emptied \/ UNCHANGED session
<1>1. CASE g = gen
  <2>1. gen < MaxGen
    BY <1>1 DEF SessionOK, Gens
  <2> QED
    BY <1>1, <2>1 DEF ClearSession, IsCurrent, Emptied
<1>2. CASE g # gen
  BY <1>2 DEF ClearSession, IsCurrent
<1> QED
  BY <1>1, <1>2

LEMMA CapturedOwner ==
  ASSUME NEW g, NEW c \in Creds, Captured(g, c), g = gen
  PROVE  owner \in Sessions
BY TokenTyped DEF Captured, Creds

\* What a sign-in or an exchange brings, if its generation is the present one.
LEMMA AnsweredSets ==
  ASSUME SessionOK, NEW g, NEW s \in Sessions, NEW r \in {Pair(s, 0).refresh, NoToken}, Issue(s),
         Answered(g, [access |-> Pair(s, 0).access, refresh |-> r])
  PROVE  Established \/ UNCHANGED session
<1> DEFINE c == [access |-> Pair(s, 0).access, refresh |-> r]
<1>1. CASE IsCurrent(g)
  <2>1. /\ c \in Creds /\ c.access.sid = s /\ c.access # NoToken
        /\ c.refresh.sid \in {s, NoSession} /\ Matched(c)
    BY PairTyped, NoCredsTyped DEF Creds, Matched, Pair, BoundsAssumption
  <2>2. Room /\ Establish(c, UserOf[c.access.sid]) /\ Save(c)
    BY <1>1 DEF Answered, SetSession
  <2>3. {c.access.sid, c.refresh.sid} \subseteq issued' \cup {NoSession}
    BY <2>1 DEF Issue
  <2> HIDE DEF c
  <2> QED
    BY <2>1, <2>2, <2>3, SetsAll
<1>2. CASE ~IsCurrent(g)
  BY <1>2 DEF Answered
<1> QED
  BY <1>1, <1>2

LEMMA PairAsRecord ==
  ASSUME NEW s PROVE Pair(s, 0) = [access |-> Pair(s, 0).access, refresh |-> Pair(s, 0).refresh]
BY DEF Pair

\* The credentials of a good refresh are of the session it was made for.
LEMMA GoodOfSession ==
  ASSUME RefreshOK, NEW g \in Gens, GoodRefresh(g)
  PROVE  LET r == refresh[g]
         IN /\ r.pair \in Creds
            /\ r.pair.access.sid = r.cred.refresh.sid /\ r.pair.refresh.sid = r.cred.refresh.sid
            /\ r.cred.refresh.sid \in Sessions
            /\ r.pair.access.sid = r.cred.access.sid
<1> DEFINE r == refresh[g]
<1>1. /\ r.st = "ok" /\ r \in RefreshRecords /\ RefreshOf(g)
      /\ Names(r.cred.access) => r.pair.access.sid = r.cred.access.sid
  BY DEF GoodRefresh, Continues, RefreshOK
<1>2. /\ r.pair \in Creds /\ r.cred \in Creds /\ r.cred.refresh.sid \in Sessions
      /\ r.pair.access.sid = r.cred.refresh.sid /\ r.pair.refresh.sid = r.cred.refresh.sid
      /\ Names(r.cred.access) \/ Matched(r.cred)
  BY <1>1 DEF RefreshOf, RefreshRecords
<1>3. r.cred.refresh # NoToken
  BY <1>2, TokenTyped DEF Creds
<1> QED
  BY <1>1, <1>2, <1>3 DEF Matched

\* A page that is loaded takes tokens that are known.
LEMMA LoadSets ==
  ASSUME SessionOK, NEW c \in Creds, Load(c), c.refresh # NoToken => c.access # NoToken,
         Known(c), Matched(stored), c = NoCreds => stored = NoCreds
  PROVE  Established
<1>1. /\ gen' = gen + 1 /\ gen + 1 < MaxGen /\ cred' = c /\ stored' = stored /\ issued' = issued
      /\ owner' = c.access.sid /\ user' = NoUser /\ unsaved' = (c # stored)
  BY DEF Load, Establish, Room, server
<1>2. unsaved' \in BOOLEAN
  BY <1>1, Zenon
<1>3. unsaved' \/ stored' = cred'
  BY <1>1
<1> QED
  BY <1>1, <1>2, <1>3 DEF SessionOK, Established, Known, Matched

LEMMA SessionStep ==
  ASSUME IInv, [Next]_vars
  PROVE  Established \/ Emptied \/ Continued \/ Stays
<1> DEFINE Kind == Established \/ Emptied \/ Continued \/ Stays
<1> SUFFICES Kind
  OBVIOUS
<1> USE DEF session
<1>0. SessionOK /\ ServerOK /\ RefreshOK /\ SignOutOK /\ CallsOK /\ StorageFollows
  BY DEF IInv
<1>1. ASSUME UNCHANGED session PROVE Kind
  BY <1>1 DEF Stays
<1>2. ASSUME NEW g \in Gens, NEW c \in Creds, Captured(g, c), ClearAt(g) \/ ClearSession(g)
      PROVE Kind
  <2>1. ClearSession(g)
    BY <1>2 DEF ClearAt
  <2>2. g = gen => owner # NoSession
    BY <1>2, CapturedOwner
  <2> QED
    BY <1>0, <1>1, <2>1, <2>2, Clears
<1>3. ASSUME NEW g \in Gens, NEW f, NEW e, Finish(g, f, e), signOut[g].st # "none" PROVE Kind
  <2>1. /\ Captured(g, signOut[g].cred) /\ signOut[g].cred \in Creds
        /\ (ClearSession(gen) /\ g = gen) \/ UNCHANGED session
    BY <1>0, <1>3 DEF SignOutOK, SignOutOf, SignOutRecords, Finish, Finishes, IsCurrent
  <2>2. CASE UNCHANGED session
    BY <1>1, <2>2
  <2>3. CASE ClearSession(gen) /\ g = gen
    <3>1. Captured(g, signOut[g].cred) /\ signOut[g].cred \in Creds
      BY <1>0, <1>3 DEF SignOutOK, SignOutOf, SignOutRecords
    <3> QED
      BY <1>2, <2>3, <3>1
  <2> QED
    BY <2>1, <2>2, <2>3
<1>4. CASE UNCHANGED vars
  BY <1>1, <1>4 DEF vars
<1>5. ASSUME NEW s \in Revocable, Revoke(s) PROVE Kind
  BY <1>1, <1>5 DEF Revoke
<1>6. CASE ExchangeStep
  <2>1. CASE ExchangeFails
    BY <1>1, <2>1 DEF ExchangeFails
  <2>2. ASSUME NEW s \in Sessions, ExchangeAnswers(s) PROVE Kind
    BY <1>0, <1>1, <2>2, AnsweredSets DEF ExchangeAnswers
  <2> QED
    BY <1>6, <2>1, <2>2 DEF ExchangeStep
<1>7. ASSUME NEW c \in Calls, SignIn(c) \/ (\E d \in BOOLEAN : Request(c, d)) PROVE Kind
  BY <1>1, <1>7 DEF SignIn, Request
<1>8. ASSUME NEW c \in Calls, NEW s \in Sessions, SignInAnswers(c, s) PROVE Kind
  <2>1. Issue(s) /\ Answered(call[c].gen, [access |-> Pair(s, 0).access, refresh |-> Pair(s, 0).refresh])
    BY <1>8, PairAsRecord DEF SignInAnswers
  <2> QED
    BY <1>0, <1>1, <2>1, AnsweredSets
<1>9. ASSUME NEW c \in Calls, SignInFails(c) \/ RequestDenied(c) \/ RequestResumes(c) PROVE Kind
  BY <1>1, <1>9 DEF SignInFails, RequestDenied, RequestResumes
<1>10. ASSUME NEW c \in Calls, RequestSucceeds(c) \/ RequestLost(c) PROVE Kind
  <2>1. /\ call[c].gen \in Gens /\ call[c].cred \in Creds /\ Captured(call[c].gen, call[c].cred)
        /\ call[c].gen = gen => call[c].sent.sid = owner
    BY <1>0, <1>10 DEF RequestSucceeds, RequestLost, Requesting, CallsOK, CallOf, CallRecords
  <2>2. CASE call[c].deletes
    BY <1>2, <1>10, <2>1, <2>2 DEF RequestSucceeds, RequestLost
  <2>3. CASE ~call[c].deletes /\ RequestLost(c)
    BY <1>1, <2>3 DEF RequestLost
  <2>4. CASE ~call[c].deletes /\ RequestSucceeds(c)
    <3>1. /\ UNCHANGED <<gen, cred, stored, owner, unsaved>>
          /\ user' = IF SameUser(c) THEN UserOf[call[c].sent.sid] ELSE user
          /\ call[c].sent.sid \in Sessions
      BY <1>0, <2>4 DEF RequestSucceeds, ServerOK
    <3> QED
      BY <2>1, <3>1 DEF SameUser, IsCurrent, Stays
  <2> QED
    BY <1>10, <2>2, <2>3, <2>4
<1>11. ASSUME NEW s \in Sessions, NEW t \in Sessions, Adopt(s, t) PROVE Kind
  <2> DEFINE c == [access |-> Latest(s).access, refresh |-> Latest(t).refresh]
  <2>1. /\ c \in Creds /\ c.access.sid = s /\ c.refresh.sid = t /\ c.access # NoToken
    <3>1. rotation[s] \in 0..MaxRotation /\ rotation[t] \in 0..MaxRotation
      BY <1>0 DEF ServerOK
    <3> QED
      BY <3>1, PairTyped DEF Latest, Creds
  <2>2. /\ gen' = gen + 1 /\ gen + 1 < MaxGen /\ cred' = c /\ user' = UserOf[s] /\ owner' = s
        /\ unsaved' = TRUE /\ stored' = stored /\ issued' = issued \cup {s, t}
    BY <1>11, <2>1 DEF Adopt, Establish, Room
  <2>3. c # NoCreds
    BY <2>1, NoCredsTyped
  <2>4. unsaved' \in BOOLEAN
    BY <2>2, Zenon
  <2>5. Known(stored)' /\ Known(cred)'
    BY <1>0, <2>1, <2>2 DEF SessionOK, Known
  <2> HIDE DEF c
  <2> QED
    BY <1>0, <2>1, <2>2, <2>3, <2>4, <2>5 DEF SessionOK, StorageFollows, Matched, Established
<1>12. ASSUME NEW s \in Sessions, NEW w \in BOOLEAN, HandOver(s, w) PROVE Kind
  <2> DEFINE c == [access |-> Pair(s, 0).access,
                   refresh |-> IF w THEN Pair(s, 0).refresh ELSE NoToken]
  <2>1. /\ c \in Creds /\ c.access.sid = s /\ c.access # NoToken
        /\ c.refresh.sid \in {s, NoSession} /\ Matched(c)
    BY PairTyped, NoCredsTyped DEF Creds, Matched
  <2>2. Room /\ Establish(c, NoUser) /\ Save(c) /\ Issue(s)
    BY <1>12 DEF HandOver
  <2>3. {c.access.sid, c.refresh.sid} \subseteq issued' \cup {NoSession}
    BY <2>1, <2>2 DEF Issue
  <2> HIDE DEF c
  <2> QED
    BY <1>0, <2>1, <2>2, <2>3, SetsAll
<1>13. CASE LoadStored
  <2>1. /\ stored \in Creds /\ Known(stored) /\ Matched(stored)
    BY <1>0 DEF SessionOK, StorageFollows, Matched
  <2>2. stored.refresh # NoToken => stored.access # NoToken
    BY <2>1, TokenTyped DEF Creds, Matched
  <2> QED
    BY <1>0, <1>13, <2>1, <2>2, LoadSets DEF LoadStored
<1>14. ASSUME NEW s \in Sessions, NEW r \in Tokens, r.sid \in issued \cup {NoSession}, LoadSupplied(s, r)
       PROVE Kind
  <2> DEFINE c == [access |-> Latest(s).access, refresh |-> r]
  <2>1. c \in Creds /\ c.access.sid = s /\ c.access # NoToken /\ s \in issued /\ c.refresh = r
    <3>1. rotation[s] \in 0..MaxRotation
      BY <1>0 DEF ServerOK
    <3> QED
      BY <1>14, <3>1, PairTyped DEF Latest, Creds, LoadSupplied
  <2>2. Load(c) /\ Known(c) /\ c # NoCreds /\ Matched(stored)
    BY <1>0, <1>14, <2>1, NoCredsTyped DEF LoadSupplied, Known, StorageFollows, Matched
  <2> HIDE DEF c
  <2> QED
    BY <1>0, <2>1, <2>2, LoadSets
<1>15. CASE RefreshSession \/ SignOut
  BY <1>1, <1>15 DEF RefreshSession, SignOut
<1>16. ASSUME NEW g \in Gens, ServerRefresh(g) \/ RevokeDenied(g) PROVE Kind
  BY <1>1, <1>16 DEF ServerRefresh, RevokeDenied
<1>17. ASSUME NEW g \in Gens, RefreshSettles(g) PROVE Kind
  <2>1. /\ refresh[g].cred \in Creds /\ refresh[g] \in RefreshRecords
        /\ Captured(g, refresh[g].cred) /\ refresh[g].st # "none"
    BY <1>0, <1>17 DEF RefreshSettles, Answers, RefreshOK, RefreshOf, RefreshRecords
  <2>2. CASE Clear(g, refresh[g].cred)
    BY <1>1, <1>2, <2>1, <2>2 DEF Clear
  <2>3. CASE UNCHANGED session
    BY <1>1, <2>3
  <2>4. ASSUME GoodRefresh(g), Adopts(g),
               cred' = refresh[g].pair, user' = UserOf[refresh[g].pair.access.sid],
               Save(refresh[g].pair), UNCHANGED <<gen, owner>>
        PROVE Kind
    <3>1. /\ g = gen /\ signOut[gen].st = "none" /\ refresh[g].cred.refresh = cred.refresh
          /\ refresh[g].cred.access.sid = owner
      BY <2>1, <2>4 DEF Adopts, IsCurrent, Captured
    <3>2. owner \in Sessions
      BY <2>1, <3>1, CapturedOwner
    <3>3. /\ refresh[g].pair \in Creds /\ refresh[g].pair.access.sid = owner
          /\ refresh[g].pair.refresh.sid = owner /\ cred.refresh.sid = owner
      BY <1>0, <2>4, <3>1, GoodOfSession
    <3>4. Known(cred)
      BY <1>0 DEF SessionOK
    <3>5. refresh[gen].st = "ok" /\ refresh'[gen].st = "none"
      BY <1>0, <1>17, <2>4, <3>1 DEF RefreshSettles, GoodRefresh, RefreshOK, NoRefresh
    <3> QED
      BY <2>4, <3>1, <3>2, <3>3, <3>4, <3>5 DEF Save, Continued
  <2> QED
    BY <1>17, <2>2, <2>3, <2>4 DEF RefreshSettles
<1>18. ASSUME NEW g \in Gens, SignOutSends(g) PROVE Kind
  BY <1>1, <1>3, <1>18 DEF SignOutSends
<1>19. ASSUME NEW g \in Gens, LogoutSettles(g) \/ RevokeSettles(g) PROVE Kind
  BY <1>3, <1>19 DEF LogoutSettles, RevokeSettles, Revoking
<1>20. ASSUME NEW g \in Gens, SignOutRefreshed(g) PROVE Kind
  BY <1>1, <1>3, <1>20 DEF SignOutRefreshed
<1>21. ASSUME NEW s \in Sessions, NEW t \in issued, LoadSupplied(s, Latest(t).refresh) PROVE Kind
  <2>1. t \in Sessions /\ rotation[t] \in 0..MaxRotation
    BY <1>0 DEF ServerOK
  <2>2. Latest(t).refresh \in Tokens /\ Latest(t).refresh.sid = t
    BY <2>1, PairTyped DEF Latest
  <2> QED
    BY <1>14, <1>21, <2>2
<1>22. ASSUME NEW s \in Sessions, LoadSupplied(s, NoToken) PROVE Kind
  BY <1>14, <1>22, NoCredsTyped
<1> QED
  BY <1>4, <1>5, <1>6, <1>7, <1>8, <1>9, <1>10, <1>11, <1>12, <1>13, <1>15, <1>16, <1>17,
     <1>18, <1>19, <1>20, <1>21, <1>22
  DEF Next, CallStep, RefreshStep, SignOutStep

LEMMA SessionOKStep ==
  ASSUME IInv, [Next]_vars
  PROVE  SessionOK' /\ OwnSession' /\ StorageFollows'
<1>0. /\ SessionOK /\ OwnSession /\ StorageFollows /\ gen \in Nat /\ MaxGen \in Nat
      /\ issued \subseteq issued' /\ issued' \subseteq Sessions
  BY ServerStep DEF IInv, SessionOK, Gens, ServerOK
<1>1. CASE Established
  <2>1. gen' \in Gens /\ gen' # MaxGen
    BY <1>0, <1>1 DEF Established, Gens
  <2>2. owner' \in Sessions \cup {NoSession} /\ user' \in Users \cup {NoUser}
    <3>1. cred'.access \in Tokens
      BY <1>1 DEF Established, Creds
    <3>2. cred'.access # NoToken => cred'.access.sid \in Sessions
      BY <3>1, TokenTyped
    <3> QED
      BY <1>1, <3>1, <3>2, TokenTyped DEF Established
  <2> QED
    BY <1>1, <2>1, <2>2 DEF Established, SessionOK, OwnSession, StorageFollows, Matched
<1>2. CASE Emptied
  <2>1. gen' \in Gens /\ unsaved' \in BOOLEAN
    <3>1. gen' \in Gens
      BY <1>0, <1>2 DEF Emptied, Gens
    <3>2. unsaved' \in BOOLEAN
      BY <1>2, Zenon DEF Emptied
    <3> QED
      BY <3>1, <3>2
  <2> QED
    BY <1>2, <2>1, NoCredsTyped DEF Emptied, SessionOK, OwnSession, StorageFollows, Known
<1>3. CASE Continued
  <2>1. /\ cred'.access \in Tokens /\ cred'.access # NoToken /\ cred' # NoCreds
        /\ UserOf[owner] \in Users
    BY <1>3, TokenTyped, NoCredsTyped DEF Continued, Creds
  <2>2. unsaved' \in BOOLEAN
    BY <1>3, Zenon DEF Continued
  <2>3. Known(cred)' /\ Known(stored)'
    BY <1>0, <1>3 DEF Continued, Known
  <2> QED
    BY <1>0, <1>3, <2>1, <2>2, <2>3 DEF Continued, SessionOK, OwnSession, StorageFollows
<1>4. CASE Stays
  <2>1. Known(cred)' /\ Known(stored)'
    BY <1>0, <1>4 DEF Stays, Known, SessionOK
  <2>2. owner \in Sessions => cred.access # NoToken
    BY <1>0, NoCredsTyped DEF OwnSession
  <2> QED
    BY <1>0, <1>4, <2>1, <2>2 DEF Stays, SessionOK, OwnSession, StorageFollows
<1> QED
  BY <1>1, <1>2, <1>3, <1>4, SessionStep

\* What was captured stays so, whatever the session does.
LEMMA CapturedStep ==
  ASSUME IInv, [Next]_vars, NEW g \in Gens, NEW c, Captured(g, c)
  PROVE  /\ g <= gen' /\ c.access # NoToken
         /\ g = gen' => g = gen /\ c.access.sid = owner' /\ c.refresh.sid = cred'.refresh.sid
<1>1. gen \in Nat /\ g \in Nat /\ g <= gen
  BY DEF IInv, SessionOK, Gens, Captured
<1>2. CASE Established \/ Emptied
  <2>1. gen' = gen + 1
    BY <1>2 DEF Established, Emptied
  <2> QED
    BY <1>1, <2>1 DEF Captured
<1>3. CASE Continued \/ Stays
  <2>1. gen' = gen /\ owner' = owner /\ (cred'.refresh.sid = cred.refresh.sid)
    BY <1>3 DEF Continued, Stays
  <2> QED
    BY <1>1, <2>1 DEF Captured
<1> QED
  BY <1>2, <1>3, SessionStep

-----------------------------------------------------------------------------
\* The verified pairs.

LEMMA VerifyPairOK ==
  ASSUME VerifiedOK, NEW g \in Gens, NEW c \in Creds, Matched(c), VerifyPair(g, c)
  PROVE  verified' \in [Gens -> Creds] /\ \A h \in Gens : Matched(verified'[h])
BY DEF VerifiedOK, VerifyPair

LEMMA VerifiedStep ==
  ASSUME IInv, [Next]_vars
  PROVE  VerifiedOK'
<1> USE DEF operations
<1>0. VerifiedOK /\ RefreshOK /\ SignOutOK /\ CallsOK /\ SessionOK
  BY DEF IInv
<1>1. ASSUME UNCHANGED verified, UNCHANGED cleared PROVE VerifiedOK'
  BY <1>0, <1>1 DEF VerifiedOK, Matched
<1>2. ASSUME NEW g \in Gens, NEW c \in Creds, Matched(c), VerifyPair(g, c), UNCHANGED cleared
      PROVE  VerifiedOK'
  BY <1>0, <1>2, VerifyPairOK DEF VerifiedOK, Matched
<1>3. ASSUME NEW g \in Gens, VerifyPair(g, NoCreds), UNCHANGED cleared PROVE VerifiedOK'
  BY <1>2, <1>3, NoCredsTyped DEF Matched
<1>4. ASSUME NEW g \in Gens, ClearAt(g) PROVE VerifiedOK'
  BY <1>0, <1>4, NoCredsTyped DEF ClearAt, VerifiedOK, Matched
<1>5. ASSUME NEW g, NEW s \in Sessions, NEW r \in {Pair(s, 0).refresh, NoToken}, UNCHANGED cleared,
             Answered(g, [access |-> Pair(s, 0).access, refresh |-> r])
      PROVE  VerifiedOK'
  <2> DEFINE c == [access |-> Pair(s, 0).access, refresh |-> r]
  <2>1. c \in Creds /\ Matched(c)
    BY PairTyped, NoCredsTyped DEF Creds, Matched
  <2>2. verified' = verified \/ (verified' = [verified EXCEPT ![gen + 1] = c])
    BY <1>5 DEF Answered, SetSession
  <2> HIDE DEF c
  <2> QED
    BY <1>0, <1>5, <2>1, <2>2 DEF VerifiedOK, Matched
<1>6. ASSUME NEW g \in Gens, NEW f, NEW e, Finish(g, f, e) PROVE VerifiedOK'
  BY <1>3, <1>6 DEF Finish
<1>7. ASSUME NEW g \in Gens, Verifies(g), UNCHANGED cleared, refresh[g].st # "none" PROVE VerifiedOK'
  <2>1. CASE GoodRefresh(g)
    <3>1. refresh[g].pair \in Creds /\ Matched(refresh[g].pair)
      BY <1>0, <2>1, GoodOfSession DEF Matched
    <3> QED
      BY <1>2, <1>7, <2>1, <3>1 DEF Verifies
  <2>2. CASE ~GoodRefresh(g) /\ refresh[g].st = "limited"
    <3>1. refresh[g].cred \in Creds /\ Matched(refresh[g].cred)
      BY <1>0, <2>2 DEF RefreshOK, RefreshOf, RefreshRecords
    <3> QED
      BY <1>2, <1>7, <2>2, <3>1 DEF Verifies
  <2>3. CASE ~GoodRefresh(g) /\ refresh[g].st # "limited"
    BY <1>1, <1>7, <2>3 DEF Verifies
  <2> QED
    BY <2>1, <2>2, <2>3
<1>8. ASSUME NEW c, Load(c) PROVE VerifiedOK'
  <2>1. verified' = [g \in Gens |-> NoCreds] /\ cleared' = [g \in Gens |-> FALSE]
    BY <1>8 DEF Load
  <2>2. cleared' \in [Gens -> BOOLEAN]
    BY <2>1, Zenon
  <2> QED
    BY <2>1, <2>2, NoCredsTyped DEF VerifiedOK, Matched
<1>9. ASSUME NEW g \in Gens, NEW c, StartOrJoin(g, c), UNCHANGED cleared PROVE VerifiedOK'
  BY <1>1, <1>3, <1>9 DEF StartOrJoin, SendRefresh
<1>10. CASE UNCHANGED vars
  BY <1>1, <1>10 DEF vars
<1>11. ASSUME NEW s \in Revocable, Revoke(s) PROVE VerifiedOK'
  BY <1>1, <1>11 DEF Revoke
<1>12. CASE ExchangeStep
  BY <1>1, <1>5, <1>12 DEF ExchangeStep, ExchangeFails, ExchangeAnswers
<1>13. ASSUME NEW c \in Calls, SignIn(c) \/ (\E d \in BOOLEAN : Request(c, d)) PROVE VerifiedOK'
  BY <1>1, <1>13 DEF SignIn, Request
<1>14. ASSUME NEW c \in Calls, NEW s \in Sessions, SignInAnswers(c, s) PROVE VerifiedOK'
  BY <1>5, <1>14, PairAsRecord DEF SignInAnswers
<1>15. ASSUME NEW c \in Calls, SignInFails(c) \/ RequestResumes(c) PROVE VerifiedOK'
  BY <1>1, <1>15 DEF SignInFails, RequestResumes
<1>16. ASSUME NEW c \in Calls, RequestSucceeds(c) \/ RequestLost(c) PROVE VerifiedOK'
  <2>1. call[c].gen \in Gens
    BY <1>0 DEF CallsOK, CallRecords
  <2> QED
    BY <1>1, <1>4, <1>16, <2>1 DEF RequestSucceeds, RequestLost
<1>17. ASSUME NEW c \in Calls, RequestDenied(c) PROVE VerifiedOK'
  <2>1. call[c].gen \in Gens
    BY <1>0 DEF CallsOK, CallRecords
  <2> QED
    BY <1>1, <1>9, <1>17, <2>1 DEF RequestDenied, Ends
<1>18. ASSUME NEW s \in Sessions, NEW t \in Sessions, Adopt(s, t) PROVE VerifiedOK'
  BY <1>1, <1>18 DEF Adopt
<1>19. ASSUME NEW s \in Sessions, NEW r \in BOOLEAN, HandOver(s, r) PROVE VerifiedOK'
  BY <1>1, <1>19 DEF HandOver
<1>20. ASSUME NEW s, NEW r, LoadSupplied(s, r) PROVE VerifiedOK'
  BY <1>8, <1>20 DEF LoadSupplied
<1>21. CASE LoadStored \/ SignOut
  BY <1>1, <1>8, <1>21 DEF LoadStored, SignOut
<1>22. CASE RefreshSession
  <2>1. gen \in Gens
    BY <1>0 DEF SessionOK
  <2> QED
    BY <1>9, <1>22, <2>1 DEF RefreshSession
<1>23. ASSUME NEW g \in Gens, ServerRefresh(g) PROVE VerifiedOK'
  BY <1>1, <1>23 DEF ServerRefresh
<1>24. ASSUME NEW g \in Gens, RevokeDenied(g) PROVE VerifiedOK'
  BY <1>3, <1>24 DEF RevokeDenied, SendRefresh
<1>25. ASSUME NEW g \in Gens, RefreshSettles(g) PROVE VerifiedOK'
  <2>1. refresh[g].st # "none"
    BY <1>25 DEF RefreshSettles, Answers
  <2> QED
    BY <1>1, <1>4, <1>7, <1>25, <2>1 DEF RefreshSettles, Clear
<1>26. ASSUME NEW g \in Gens, SignOutSends(g) PROVE VerifiedOK'
  BY <1>1, <1>6, <1>26 DEF SignOutSends
<1>27. ASSUME NEW g \in Gens, LogoutSettles(g) \/ RevokeSettles(g) PROVE VerifiedOK'
  BY <1>6, <1>27 DEF LogoutSettles, RevokeSettles
<1>28. ASSUME NEW g \in Gens, SignOutRefreshed(g) PROVE VerifiedOK'
  BY <1>6, <1>7, <1>28 DEF SignOutRefreshed, Answers
<1> QED
  BY <1>10, <1>11, <1>12, <1>13, <1>14, <1>15, <1>16, <1>17, <1>18, <1>19, <1>20, <1>21, <1>22,
     <1>23, <1>24, <1>25, <1>26, <1>27, <1>28
  DEF Next, CallStep, RefreshStep, SignOutStep

-----------------------------------------------------------------------------
\* The refreshes.

LEMMA RefreshKept ==
  ASSUME IInv, [Next]_vars, NEW g \in Gens, refresh'[g] = refresh[g]
  PROVE  RefreshOf(g)'
<1>1. RefreshOf(g)
  BY DEF IInv, RefreshOK
<1>2. ASSUME Captured(g, refresh[g].cred) PROVE Captured(g, refresh[g].cred)'
  <2> DEFINE c == refresh[g].cred
  <2>1. /\ g <= gen' /\ c.access # NoToken
        /\ g = gen' => g = gen /\ c.access.sid = owner' /\ c.refresh.sid = cred'.refresh.sid
    BY <1>2, CapturedStep
  <2> QED
    BY <2>1 DEF Captured
<1> QED
  BY <1>1, <1>2 DEF RefreshOf

LEMMA AllRefreshKept ==
  ASSUME IInv, [Next]_vars, UNCHANGED refresh
  PROVE  RefreshOK'
BY RefreshKept DEF IInv, RefreshOK

\* A refresh of tokens of this generation, which name their session or match.
LEMMA RefreshSent ==
  ASSUME IInv, [Next]_vars, NEW g \in Gens, NEW c \in Creds, NEW u \in Users \cup {NoUser},
         Captured(g, c), UNCHANGED session, Names(c.access) \/ Verified(g, c), SendRefresh(g, c, u)
  PROVE  RefreshOK'
<1>1. Verified(g, c) \in BOOLEAN
  BY Zenon DEF Verified
<1>2. Verified(g, c) => Matched(c)
  BY DEF IInv, VerifiedOK, Verified
<1> DEFINE r == [st |-> "asked", cred |-> c, user |-> u, was |-> Verified(g, c), pair |-> NoCreds]
<1>3. r \in RefreshRecords
  BY <1>1, NoCredsTyped DEF RefreshRecords
<1>4. refresh' = [refresh EXCEPT ![g] = r] /\ refresh \in [Gens -> RefreshRecords]
  BY DEF SendRefresh, IInv, RefreshOK
<1>5. Captured(g, c)'
  BY DEF Captured, session
<1>6. /\ refresh'[g] = r /\ r.cred = c /\ r.was = Verified(g, c) /\ r.st = "asked"
  BY <1>4
<1>7. RefreshOf(g)'
  <2>1. /\ refresh'[g].st = "asked" /\ refresh'[g].cred = c
        /\ refresh'[g].was = Verified(g, c)
    BY <1>6
  <2>2. Captured(g, refresh[g].cred)'
    BY <1>5, <2>1 DEF Captured
  <2> QED
    BY <1>2, <2>1, <2>2 DEF RefreshOf, Matched
<1>8. ASSUME NEW h \in Gens, h # g PROVE RefreshOf(h)'
  BY <1>4, <1>8, RefreshKept
<1> QED
  BY <1>3, <1>4, <1>7, <1>8 DEF RefreshOK

LEMMA StartedOrJoined ==
  ASSUME IInv, [Next]_vars, NEW g \in Gens, NEW c \in Creds, Captured(g, c), UNCHANGED session,
         Refreshable(g, c), StartOrJoin(g, c)
  PROVE  RefreshOK'
<1>1. user \in Users \cup {NoUser}
  BY DEF IInv, SessionOK
<1> QED
  BY <1>1, RefreshSent, AllRefreshKept DEF StartOrJoin, Refreshable

\* A refresh that is over.
LEMMA RefreshEnded ==
  ASSUME IInv, [Next]_vars, NEW g \in Gens, refresh' = [refresh EXCEPT ![g] = NoRefresh]
  PROVE  RefreshOK'
<1>1. NoRefresh \in RefreshRecords /\ NoRefresh.st = "none"
  BY NoCredsTyped DEF NoRefresh, RefreshRecords
<1>2. refresh' \in [Gens -> RefreshRecords] /\ RefreshOf(g)'
  BY <1>1 DEF IInv, RefreshOK, RefreshOf
<1>3. ASSUME NEW h \in Gens, h # g PROVE RefreshOf(h)'
  BY <1>3, RefreshKept
<1> QED
  BY <1>2, <1>3 DEF RefreshOK

\* The server rotates the token it was sent, and the answer has its successor.
LEMMA RefreshAnswered ==
  ASSUME IInv, [Next]_vars, NEW g \in Gens, ServerRefresh(g)
  PROVE  RefreshOK'
<1> DEFINE r == refresh[g]
           t == r.cred.refresh
<1>0. /\ refresh \in [Gens -> RefreshRecords] /\ RefreshOf(g) /\ r \in RefreshRecords /\ r.st = "asked"
      /\ UNCHANGED session /\ rotation \in [Sessions -> 0..MaxRotation] /\ live \subseteq Sessions
  BY DEF IInv, RefreshOK, ServerOK, ServerRefresh
<1>1. t \in Tokens
  BY <1>0 DEF RefreshRecords, Creds
<1>2. PICK a \in Answers, p \in Creds :
        /\ refresh' = [refresh EXCEPT ![g].st = a, ![g].pair = p]
        /\ a = "limited" => r.was
        /\ a = "ok" => t.sid \in Sessions /\ p.access.sid = t.sid /\ p.refresh.sid = t.sid
  <2> DEFINE Answer(a, p) ==
        /\ refresh' = [refresh EXCEPT ![g].st = a, ![g].pair = p]
        /\ a = "limited" => r.was
        /\ a = "ok" => t.sid \in Sessions /\ p.access.sid = t.sid /\ p.refresh.sid = t.sid
  <2>1. CASE /\ IsLatest(t) /\ rotation[t.sid] < MaxRotation
             /\ refresh' = [refresh EXCEPT ![g].st = "ok", ![g].pair = Pair(t.sid, t.n + 1)]
    <3>1. t.sid \in Sessions /\ rotation[t.sid] \in 0..MaxRotation /\ t.n = rotation[t.sid]
      BY <1>0, <2>1 DEF IsLatest
    <3>2. t.n + 1 \in 0..MaxRotation
      BY <2>1, <3>1
    <3>3. /\ Pair(t.sid, t.n + 1) \in Creds
          /\ Pair(t.sid, t.n + 1).access.sid = t.sid /\ Pair(t.sid, t.n + 1).refresh.sid = t.sid
      BY <3>1, <3>2, PairTyped
    <3>4. Answer("ok", Pair(t.sid, t.n + 1))
      BY <2>1, <3>1, <3>3
    <3> QED
      BY <3>3, <3>4 DEF Answers
  <2>2. CASE refresh' = [refresh EXCEPT ![g].st = "lost", ![g].pair = NoCreds]
    BY <2>2, NoCredsTyped DEF Answers
  <2>3. CASE refresh' = [refresh EXCEPT ![g].st = "denied", ![g].pair = NoCreds]
    BY <2>3, NoCredsTyped DEF Answers
  <2>4. CASE r.was /\ refresh' = [refresh EXCEPT ![g].st = "limited", ![g].pair = NoCreds]
    BY <2>4, NoCredsTyped DEF Answers
  <2> QED
    BY <2>1, <2>2, <2>3, <2>4 DEF ServerRefresh
<1>3. /\ refresh'[g] = [r EXCEPT !.st = a, !.pair = p]
      /\ \A h \in Gens : h # g => refresh'[h] = refresh[h]
      /\ refresh' \in [Gens -> RefreshRecords]
  BY <1>0, <1>2 DEF RefreshRecords
<1>4. /\ refresh'[g].st = a /\ refresh'[g].pair = p /\ refresh'[g].cred = r.cred
      /\ refresh'[g].was = r.was
  BY <1>0, <1>3 DEF RefreshRecords
<1>5. RefreshOf(g)'
  <2>1. Captured(g, r.cred) /\ (Names(r.cred.access) \/ r.was) /\ (r.was => Matched(r.cred))
    BY <1>0 DEF RefreshOf
  <2>2. Captured(g, refresh[g].cred)'
    BY <1>0, <1>4, <2>1 DEF Captured, session
  <2> QED
    BY <1>2, <1>4, <2>1, <2>2 DEF RefreshOf, Matched
<1>6. ASSUME NEW h \in Gens, h # g PROVE RefreshOf(h)'
  BY <1>3, <1>6, RefreshKept
<1> QED
  BY <1>3, <1>5, <1>6 DEF RefreshOK

LEMMA RefreshOKStep ==
  ASSUME IInv, [Next]_vars
  PROVE  RefreshOK'
<1> USE DEF operations
<1>0. SessionOK /\ SignOutOK /\ CallsOK /\ OwnSession
  BY DEF IInv
<1>1. ASSUME UNCHANGED refresh PROVE RefreshOK'
  BY <1>1, AllRefreshKept
<1>2. ASSUME NEW c, Load(c) PROVE RefreshOK'
  <2>1. NoRefresh \in RefreshRecords /\ NoRefresh.st = "none"
    BY NoCredsTyped DEF NoRefresh, RefreshRecords
  <2> QED
    BY <1>2, <2>1 DEF Load, RefreshOK, RefreshOf
<1>3. CASE UNCHANGED vars
  BY <1>1, <1>3 DEF vars
<1>4. ASSUME NEW s \in Revocable, Revoke(s) PROVE RefreshOK'
  BY <1>1, <1>4 DEF Revoke
<1>5. CASE ExchangeStep
  BY <1>1, <1>5 DEF ExchangeStep, ExchangeFails, ExchangeAnswers
<1>6. ASSUME NEW c \in Calls, SignIn(c) \/ (\E d \in BOOLEAN : Request(c, d)) PROVE RefreshOK'
  BY <1>1, <1>6 DEF SignIn, Request
<1>7. ASSUME NEW c \in Calls,
             \/ \E s \in Sessions : SignInAnswers(c, s)
             \/ SignInFails(c) \/ RequestSucceeds(c) \/ RequestLost(c) \/ RequestResumes(c)
      PROVE RefreshOK'
  BY <1>1, <1>7 DEF SignInAnswers, SignInFails, RequestSucceeds, RequestLost, RequestResumes
<1>8. ASSUME NEW c \in Calls, RequestDenied(c) PROVE RefreshOK'
  <2>1. /\ call[c].gen \in Gens /\ call[c].cred \in Creds /\ Captured(call[c].gen, call[c].cred)
        /\ UNCHANGED session
    BY <1>0, <1>8 DEF RequestDenied, Requesting, CallsOK, CallOf, CallRecords
  <2> QED
    BY <1>1, <1>8, <2>1, StartedOrJoined DEF RequestDenied, Ends
<1>9. ASSUME NEW s, NEW t, Adopt(s, t) \/ HandOver(s, t) PROVE RefreshOK'
  BY <1>1, <1>9 DEF Adopt, HandOver
<1>10. CASE LoadStored \/ (\E s, r : LoadSupplied(s, r))
  BY <1>2, <1>10 DEF LoadStored, LoadSupplied
<1>11. CASE RefreshSession
  <2>1. /\ gen \in Gens /\ gen <= gen /\ cred \in Creds /\ Refreshable(gen, cred) /\ StartOrJoin(gen, cred)
        /\ UNCHANGED session
    BY <1>0, <1>11 DEF RefreshSession, SessionOK, Gens
  <2>2. Captured(gen, cred)
    BY <1>0, <2>1 DEF Captured, SessionOK, OwnSession, Refreshable
  <2> QED
    BY <2>1, <2>2, StartedOrJoined
<1>12. ASSUME NEW g \in Gens, SignOut \/ SignOutSends(g) \/ LogoutSettles(g) \/ RevokeSettles(g)
       PROVE RefreshOK'
  BY <1>1, <1>12 DEF SignOut, SignOutSends, LogoutSettles, RevokeSettles
<1>13. ASSUME NEW g \in Gens, ServerRefresh(g) PROVE RefreshOK'
  BY <1>13, RefreshAnswered
<1>14. ASSUME NEW g \in Gens, RefreshSettles(g) \/ SignOutRefreshed(g) PROVE RefreshOK'
  BY <1>14, RefreshEnded DEF RefreshSettles, SignOutRefreshed
<1>15. ASSUME NEW g \in Gens, RevokeDenied(g) PROVE RefreshOK'
  <2>1. /\ signOut[g].cred \in Creds /\ signOut[g].user \in Users \cup {NoUser}
        /\ Captured(g, signOut[g].cred) /\ Names(signOut[g].cred.access) /\ UNCHANGED session
    BY <1>0, <1>15 DEF RevokeDenied, SignOutOK, SignOutOf, SignOutRecords
  <2> QED
    BY <1>15, <2>1, RefreshSent DEF RevokeDenied
<1>16. CASE SignOut
  BY <1>1, <1>16 DEF SignOut
<1> QED
  BY <1>3, <1>4, <1>5, <1>6, <1>7, <1>8, <1>9, <1>10, <1>11, <1>12, <1>13, <1>14, <1>15, <1>16
  DEF Next, CallStep, RefreshStep, SignOutStep

-----------------------------------------------------------------------------
\* The calls.

\* A call that goes on with what it has, whatever the session does.
LEMMA CallGoesOn ==
  ASSUME IInv, [Next]_vars, NEW c \in Calls,
         \/ call'[c] = call[c]
         \/ /\ call[c].st \notin {"idle", "signing"}
            /\ \E st \in {"waiting", "refreshed", "failed"} : call'[c] = [call[c] EXCEPT !.st = st]
  PROVE  call'[c] \in CallRecords /\ CallOf(c)'
<1> DEFINE g == call[c].gen
<1>1. call[c] \in CallRecords /\ CallOf(c) /\ g \in Gens
  BY DEF IInv, CallsOK, CallRecords
<1>2. /\ call'[c] \in CallRecords
      /\ call'[c].gen = g /\ call'[c].cred = call[c].cred /\ call'[c].sent = call[c].sent
      /\ call'[c].st = call[c].st \/ (call[c].st \notin {"idle", "signing"}
                                      /\ call'[c].st \in {"waiting", "refreshed", "failed"})
  BY <1>1 DEF CallRecords
<1>3. call[c].st = "signing" => g <= gen'
  <2>1. gen \in Nat /\ g \in Nat
    BY <1>1 DEF IInv, SessionOK, Gens
  <2>2. gen' = gen \/ gen' = gen + 1
    BY SessionStep DEF Established, Emptied, Continued, Stays, session
  <2> QED
    BY <1>1, <2>1, <2>2 DEF CallOf
<1>4. CASE call[c].st \notin {"idle", "signing"}
  <2>1. Captured(g, call[c].cred)
    BY <1>1, <1>4 DEF CallOf
  <2>2. /\ g <= gen' /\ call[c].cred.access # NoToken
        /\ g = gen' => g = gen /\ call[c].cred.access.sid = owner'
                       /\ call[c].cred.refresh.sid = cred'.refresh.sid
    BY <1>1, <2>1, CapturedStep
  <2>3. g = gen' => call[c].sent.sid = owner'
    BY <1>1, <1>4, <2>1, <2>2 DEF CallOf, Captured
  <2>4. Captured(call[c].gen, call[c].cred)'
    BY <1>2, <2>2 DEF Captured
  <2> QED
    BY <1>1, <1>2, <1>4, <2>3, <2>4 DEF CallOf
<1>5. CASE call[c].st \in {"idle", "signing"}
  BY <1>1, <1>2, <1>3, <1>5 DEF CallOf
<1> QED
  BY <1>2, <1>4, <1>5

LEMMA AllCallsKept ==
  ASSUME IInv, [Next]_vars, UNCHANGED call
  PROVE  CallsOK'
BY CallGoesOn DEF IInv, CallsOK

\* One call changes.
LEMMA OneCall ==
  ASSUME IInv, [Next]_vars, NEW c \in Calls, NEW r \in CallRecords,
         call' = [call EXCEPT ![c] = r], CallOf(c)'
  PROVE  CallsOK'
<1>1. call' \in [Calls -> CallRecords]
  BY DEF IInv, CallsOK
<1>2. ASSUME NEW d \in Calls, d # c PROVE CallOf(d)'
  BY <1>2, CallGoesOn DEF IInv, CallsOK
<1> QED
  BY <1>1, <1>2 DEF CallsOK

LEMMA CallEnds ==
  ASSUME IInv, [Next]_vars, NEW c \in Calls, call' = [call EXCEPT ![c] = NoCall]
  PROVE  CallsOK'
<1>1. NoCall \in CallRecords /\ NoCall.st = "idle"
  BY NoCredsTyped DEF NoCall, CallRecords, Gens
<1>2. call'[c] = NoCall
  BY DEF IInv, CallsOK
<1>3. CallOf(c)'
  BY <1>1, <1>2 DEF CallOf
<1> QED
  BY <1>1, <1>3, OneCall

\* What is sent again, is the client's own token.
LEMMA CallSentAgain ==
  ASSUME IInv, [Next]_vars, NEW c \in Calls, call[c].st \notin {"idle", "signing"},
         IsCurrent(call[c].gen), UNCHANGED session, SendAgain(c)
  PROVE  CallsOK'
<1> DEFINE r == [call[c] EXCEPT !.st = "second", !.sent = cred.access]
<1>1. call[c] \in CallRecords /\ CallOf(c) /\ call \in [Calls -> CallRecords]
  BY DEF IInv, CallsOK
<1>2. cred.access \in Tokens /\ cred.access.sid = owner
  BY DEF IInv, SessionOK, OwnSession, Creds
<1>3. /\ r \in CallRecords /\ r.gen = call[c].gen /\ r.cred = call[c].cred /\ r.st = "second"
      /\ r.sent = cred.access
  BY <1>1, <1>2 DEF CallRecords
<1>4. call' = [call EXCEPT ![c] = r] /\ call'[c] = r
  BY <1>1 DEF SendAgain
<1>5. CallOf(c)'
  <2>1. Captured(call[c].gen, call[c].cred) /\ call[c].gen = gen
    BY <1>1 DEF CallOf, IsCurrent
  <2>2. Captured(call[c].gen, call[c].cred)'
    BY <1>3, <1>4, <2>1 DEF Captured, session
  <2> QED
    BY <1>2, <1>3, <1>4, <2>1, <2>2 DEF CallOf, Captured, session
<1> QED
  BY <1>3, <1>4, <1>5, OneCall

LEMMA CallsOKStep ==
  ASSUME IInv, [Next]_vars
  PROVE  CallsOK'
<1>0. /\ call \in [Calls -> CallRecords] /\ gen \in Gens /\ cred \in Creds /\ cred.access.sid = owner
      /\ gen <= gen
  BY DEF IInv, CallsOK, SessionOK, OwnSession, Gens
<1>1. ASSUME UNCHANGED call PROVE CallsOK'
  BY <1>1, AllCallsKept
<1>2. ASSUME NEW c, Load(c) PROVE CallsOK'
  <2>1. NoCall \in CallRecords /\ NoCall.st = "idle"
    BY NoCredsTyped DEF NoCall, CallRecords, Gens
  <2> QED
    BY <1>2, <2>1 DEF Load, CallsOK, CallOf
<1>3. CASE UNCHANGED vars
  BY <1>1, <1>3 DEF vars
<1>4. ASSUME NEW s \in Revocable, Revoke(s) PROVE CallsOK'
  BY <1>1, <1>4 DEF Revoke
<1>5. CASE ExchangeStep
  BY <1>1, <1>5 DEF ExchangeStep, ExchangeFails, ExchangeAnswers
<1>6. ASSUME NEW c \in Calls, SignIn(c) PROVE CallsOK'
  <2> DEFINE r == [NoCall EXCEPT !.st = "signing", !.gen = gen]
  <2>1. r \in CallRecords /\ r.st = "signing" /\ r.gen = gen
    BY <1>0, NoCredsTyped DEF NoCall, CallRecords
  <2>2. call' = [call EXCEPT ![c] = r] /\ gen' = gen /\ call'[c] = r
    BY <1>0, <1>6 DEF SignIn, session
  <2> HIDE DEF r
  <2>3. CallOf(c)'
    BY <1>0, <2>1, <2>2 DEF CallOf
  <2> QED
    BY <2>1, <2>2, <2>3, OneCall
<1>7. ASSUME NEW c \in Calls, NEW d \in BOOLEAN, Request(c, d) PROVE CallsOK'
  <2> DEFINE r == [st |-> "first", gen |-> gen, cred |-> cred, deletes |-> d, sent |-> cred.access]
  <2>1. r \in CallRecords /\ r.st = "first" /\ r.gen = gen /\ r.cred = cred /\ r.sent = cred.access
    BY <1>0 DEF CallRecords, Creds
  <2>2. /\ call' = [call EXCEPT ![c] = r] /\ UNCHANGED session /\ call'[c] = r
        /\ cred.access # NoToken
    BY <1>0, <1>7 DEF Request
  <2> HIDE DEF r
  <2>3. Captured(call[c].gen, call[c].cred)'
    BY <1>0, <2>1, <2>2 DEF Captured, session
  <2>4. CallOf(c)'
    BY <1>0, <2>1, <2>2, <2>3 DEF CallOf, session
  <2> QED
    BY <2>1, <2>2, <2>4, OneCall
<1>8. ASSUME NEW c \in Calls,
             \/ \E s \in Sessions : SignInAnswers(c, s)
             \/ SignInFails(c) \/ RequestSucceeds(c) \/ RequestLost(c)
      PROVE CallsOK'
  BY <1>8, CallEnds DEF SignInAnswers, SignInFails, RequestSucceeds, RequestLost
<1>9. ASSUME NEW c \in Calls, RequestDenied(c) PROVE CallsOK'
  <2>1. call[c].st \notin {"idle", "signing"} /\ UNCHANGED session
    BY <1>9 DEF RequestDenied, Requesting
  <2>2. CASE Ends(c)
    BY <2>2, CallEnds DEF Ends
  <2>3. CASE IsCurrent(call[c].gen) /\ SendAgain(c)
    BY <2>1, <2>3, CallSentAgain
  <2>4. CASE call' = [call EXCEPT ![c].st = "waiting"]
    <3>1. \A d \in Calls : call'[d] = call[d] \/ (d = c /\ call'[c] = [call[c] EXCEPT !.st = "waiting"])
      BY <1>0, <2>4
    <3>2. \A d \in Calls : call'[d] \in CallRecords /\ CallOf(d)'
      BY <2>1, <3>1, CallGoesOn
    <3>3. DOMAIN call' = Calls /\ call' = [d \in Calls |-> call'[d]]
      BY <1>0, <2>4
    <3> QED
      BY <3>2, <3>3 DEF CallsOK
  <2> QED
    BY <1>9, <2>2, <2>3, <2>4 DEF RequestDenied
<1>10. ASSUME NEW c \in Calls, RequestResumes(c) PROVE CallsOK'
  <2>1. call[c].st \notin {"idle", "signing"} /\ UNCHANGED session
    BY <1>10 DEF RequestResumes
  <2> QED
    BY <1>10, <2>1, CallEnds, CallSentAgain DEF RequestResumes, MaySendAgain
<1>11. ASSUME NEW s, NEW t, Adopt(s, t) \/ HandOver(s, t) PROVE CallsOK'
  BY <1>1, <1>11 DEF Adopt, HandOver
<1>12. CASE LoadStored \/ (\E s, r : LoadSupplied(s, r))
  BY <1>2, <1>12 DEF LoadStored, LoadSupplied
<1>13. ASSUME NEW g \in Gens,
              \/ RefreshSession \/ SignOut \/ SignOutSends(g) \/ LogoutSettles(g) \/ RevokeSettles(g)
              \/ RevokeDenied(g) \/ SignOutRefreshed(g) \/ ServerRefresh(g)
       PROVE CallsOK'
  BY <1>1, <1>13 DEF RefreshSession, SignOut, SignOutSends, LogoutSettles, RevokeSettles, RevokeDenied,
     SignOutRefreshed, ServerRefresh
<1>14. ASSUME NEW g \in Gens, RefreshSettles(g) PROVE CallsOK'
  <2>1. call' = [c \in Calls |->
          IF call[c].st = "waiting" /\ call[c].gen = g
          THEN [call[c] EXCEPT !.st = IF GoodRefresh(g) THEN "refreshed" ELSE "failed"]
          ELSE call[c]]
    BY <1>14 DEF RefreshSettles
  <2>2. ASSUME NEW c \in Calls PROVE call'[c] \in CallRecords /\ CallOf(c)'
    BY <2>1, CallGoesOn
  <2> QED
    BY <2>1, <2>2 DEF CallsOK
<1>15. CASE RefreshSession \/ SignOut
  BY <1>1, <1>15 DEF RefreshSession, SignOut
<1> QED
  BY <1>3, <1>4, <1>5, <1>6, <1>7, <1>8, <1>9, <1>10, <1>11, <1>12, <1>13, <1>14, <1>15
  DEF Next, CallStep, RefreshStep, SignOutStep

-----------------------------------------------------------------------------
\* The sign-outs.

\* What a sign-out captured stays what it was.
LEMMA SignOutHolds ==
  ASSUME IInv, [Next]_vars, NEW g \in Gens, signOut[g].st # "none",
         signOut'[g].cred = signOut[g].cred
  PROVE  /\ Captured(g, signOut[g].cred)' /\ Known(signOut[g].cred)'
         /\ Target(g)' = Target(g) /\ Endable(g)' = Endable(g)
         /\ signOut[g].st # "settled" /\ g = gen' => signOut'[g].cred = cred'
         /\ Target(g) \notin live => Target(g) \notin live'
         /\ g < gen => g < gen'
<1> DEFINE so == signOut[g]
<1>1. /\ so \in SignOutRecords /\ SignOutOf(g) /\ gen \in Nat /\ g \in Nat
      /\ NoSession \notin Sessions /\ live \subseteq Sessions /\ issued \subseteq issued'
      /\ live' \subseteq live \cup (Sessions \ issued)
  BY ServerStep DEF IInv, SignOutOK, SessionOK, ServerOK, Gens
<1>2. /\ Captured(g, so.cred) /\ Known(so.cred) /\ g <= gen
      /\ so.st # "settled" /\ g = gen => so.cred = cred
  BY <1>1 DEF SignOutOf, Captured
<1>3. /\ g <= gen' /\ so.cred.access # NoToken
      /\ g = gen' => g = gen /\ so.cred.access.sid = owner' /\ so.cred.refresh.sid = cred'.refresh.sid
  BY <1>2, CapturedStep
<1>4. Target(g)' = Target(g) /\ Endable(g)' = Endable(g)
  BY DEF Target, Endable
<1>5. Known(signOut[g].cred)'
  BY <1>1, <1>2 DEF Known
<1>6. Captured(g, signOut[g].cred)'
  BY <1>3 DEF Captured
<1>7. g < gen => g < gen'
  <2>1. gen' \in Nat
    BY SessionOKStep DEF SessionOK, Gens
  <2> QED
    BY <1>1, <1>3, <2>1
<1>8. Target(g) \in issued \cup {NoSession}
  BY <1>2 DEF Known, Target
<1>9. Target(g) \notin live => Target(g) \notin live'
  BY <1>1, <1>8
<1>10. ASSUME so.st # "settled", g = gen' PROVE so.cred = cred'
  <2>1. g = gen /\ so.cred = cred
    BY <1>2, <1>3, <1>10
  <2>2. CASE Established \/ Emptied
    <3>1. gen' = gen + 1
      BY <2>2 DEF Established, Emptied
    <3>2. gen' = gen /\ gen + 1 # gen
      BY <1>1, <1>10, <2>1
    <3> QED
      BY <3>1, <3>2
  <2>3. CASE Continued
    BY <2>1, <2>3 DEF Continued
  <2>4. CASE Stays
    BY <2>1, <2>4 DEF Stays
  <2> QED
    BY <2>2, <2>3, <2>4, SessionStep
<1> QED
  BY <1>4, <1>5, <1>6, <1>7, <1>9, <1>10

\* The refresh a sign-out waits for goes on.
WaitsOn(g) ==
  signOut[g].st = "waiting" => refresh'[g].st # "none" /\ refresh'[g].cred = refresh[g].cred

LEMMA SignOutKept ==
  ASSUME IInv, [Next]_vars, NEW g \in Gens, signOut'[g] = signOut[g], WaitsOn(g)
  PROVE  SignOutOf(g)'
<1>1. SignOutOf(g)
  BY DEF IInv, SignOutOK
<1>2. CASE signOut[g].st = "none"
  BY <1>1, <1>2 DEF SignOutOf, Target, Endable
<1>3. CASE signOut[g].st # "none"
  <2>1. /\ Captured(g, signOut[g].cred)' /\ Known(signOut[g].cred)'
        /\ Target(g)' = Target(g) /\ Endable(g)' = Endable(g)
        /\ signOut[g].st # "settled" /\ g = gen' => signOut'[g].cred = cred'
        /\ Target(g) \notin live => Target(g) \notin live'
        /\ g < gen => g < gen'
    BY <1>3, SignOutHolds
  <2> QED
    BY <1>1, <1>3, <2>1 DEF SignOutOf, WaitsOn
<1> QED
  BY <1>2, <1>3

LEMMA AllSignOutsKept ==
  ASSUME IInv, [Next]_vars, UNCHANGED signOut, \A g \in Gens : WaitsOn(g)
  PROVE  SignOutOK'
BY SignOutKept DEF IInv, SignOutOK

\* One sign-out changes, and no refresh of another.
LEMMA OneSignOut ==
  ASSUME IInv, [Next]_vars, NEW g \in Gens, NEW r \in SignOutRecords,
         signOut' = [signOut EXCEPT ![g] = r],
         signOut'[g] = r => SignOutOf(g)',
         \A h \in Gens : h # g => refresh'[h] = refresh[h]
  PROVE  SignOutOK'
<1>1. signOut \in [Gens -> SignOutRecords] /\ \A h \in Gens : SignOutOf(h)
  BY DEF IInv, SignOutOK
<1>2. signOut' \in [Gens -> SignOutRecords] /\ SignOutOf(g)'
  BY <1>1
<1>3. ASSUME NEW h \in Gens, h # g PROVE SignOutOf(h)'
  <2>1. signOut'[h] = signOut[h] /\ WaitsOn(h)
    BY <1>1, <1>3 DEF SignOutOf, WaitsOn
  <2> QED
    BY <2>1, SignOutKept
<1> QED
  BY <1>2, <1>3 DEF SignOutOK

LEMMA SignOutFinished ==
  ASSUME IInv, [Next]_vars, NEW g \in Gens, signOut[g].st \notin {"none", "settled"},
         NEW f \in BOOLEAN, NEW e \in SUBSET Sessions,
         e \subseteq IF Endable(g) THEN {Target(g)} ELSE {},
         f \/ ~Endable(g) \/ Target(g) \notin live', Finish(g, f, e),
         \A h \in Gens : h # g => refresh'[h] = refresh[h]
  PROVE  SignOutOK'
<1> DEFINE so == signOut[g]
           r == [NoSignOut EXCEPT !.st = "settled", !.cred = so.cred,
                                  !.error = f \/ ~Finishes(g), !.ended = e]
<1>1. so \in SignOutRecords /\ SignOutOf(g) /\ gen \in Nat /\ g \in Nat /\ signOut \in [Gens -> SignOutRecords]
  BY DEF IInv, SignOutOK, SessionOK, Gens
<1>2. (f \/ ~Finishes(g)) \in BOOLEAN
  BY Zenon
<1>3. /\ r \in SignOutRecords /\ r.st = "settled" /\ r.cred = so.cred /\ r.prior = "none"
      /\ r.ended = e /\ (r.error = (f \/ ~Finishes(g)))
  BY <1>1, <1>2, NoCredsTyped DEF SignOutRecords, NoSignOut
<1>4. signOut' = [signOut EXCEPT ![g] = r] /\ signOut'[g] = r
  BY <1>1 DEF Finish
<1> HIDE DEF r
<1>5. /\ Captured(g, signOut[g].cred)' /\ Known(signOut[g].cred)'
      /\ Target(g)' = Target(g) /\ Endable(g)' = Endable(g) /\ (g < gen => g < gen')
  BY <1>3, <1>4, SignOutHolds
<1>6. g < gen'
  <2>1. CASE g = gen
    <3>1. Finishes(g)
      BY <1>1, <2>1 DEF SignOutOf, Finishes, IsCurrent
    <3>2. gen' = gen + 1
      BY <3>1 DEF Finish, ClearSession, IsCurrent
    <3> QED
      BY <1>1, <2>1, <3>2
  <2>2. CASE g # gen
    BY <1>1, <1>5, <2>2 DEF SignOutOf, Captured
  <2> QED
    BY <2>1, <2>2
<1>7. ~r.error /\ Endable(g) => Target(g) \notin live'
  BY <1>3
<1>8. SignOutOf(g)'
  BY <1>3, <1>4, <1>5, <1>6, <1>7 DEF SignOutOf
<1> QED
  BY <1>3, <1>4, <1>8, OneSignOut
\* A sign-out that goes on: with what it sends, and the tokens its refresh
\* brought, if it waited for one.
LEMMA SignOutGoesOn ==
  ASSUME IInv, [Next]_vars, NEW g \in Gens,
         NEW r \in SignOutRecords, signOut' = [signOut EXCEPT ![g] = r],
         signOut[g].st \notin {"none", "settled"},
         r.cred = signOut[g].cred, r.ended = signOut[g].ended,
         r.st \in {"due", "logout", "revoke", "refreshing", "again"},
         r.st \in {"revoke", "refreshing", "again"} => Names(r.cred.access),
         r.st = "logout" => Endable(g) /\ r.sent.sid = Target(g),
         r.prior = "ok" =>
           /\ r.pair.refresh.sid = r.cred.refresh.sid
           /\ r.pair.refresh # NoToken
           /\ Names(r.cred.access) => r.pair.access.sid = r.cred.access.sid,
         \A h \in Gens : h # g => refresh'[h] = refresh[h]
  PROVE  SignOutOK'
<1>1. SignOutOf(g) /\ signOut'[g] = r
  BY DEF IInv, SignOutOK
<1>2. /\ Captured(g, signOut[g].cred)' /\ Known(signOut[g].cred)'
      /\ Target(g)' = Target(g) /\ Endable(g)' = Endable(g)
      /\ g = gen' => signOut'[g].cred = cred'
  BY <1>1, SignOutHolds
<1>3. SignOutOf(g)'
  BY <1>1, <1>2 DEF SignOutOf
<1> QED
  BY <1>3, OneSignOut

LEMMA SignOutAsked ==
  ASSUME IInv, [Next]_vars, SignOut
  PROVE  SignOutOK'
<1>0. PICK g \in Gens : g = gen
  BY DEF IInv, SessionOK
<1> DEFINE r == [NoSignOut EXCEPT !.st = SignOutBegins(g), !.cred = cred, !.user = user]
<1>1. /\ cred \in Creds /\ user \in Users \cup {NoUser} /\ cred.access.sid = owner
      /\ (cred.refresh # NoToken => cred.access # NoToken) /\ Known(cred) /\ g <= gen
      /\ signOut \in [Gens -> SignOutRecords]
  BY <1>0 DEF IInv, SessionOK, OwnSession, SignOutOK, Gens
<1>2. cred.access # NoToken
  BY <1>1 DEF SignOut, Creds, NoCreds
<1>3. /\ r \in SignOutRecords /\ r.st = SignOutBegins(g) /\ r.cred = cred /\ r.prior = "none"
      /\ r.ended = {} /\ r.st \in {"due", "waiting"}
  BY <1>1, NoCredsTyped DEF SignOutRecords, NoSignOut, SignOutBegins
<1>4. /\ signOut' = [signOut EXCEPT ![g] = r] /\ signOut'[g] = r /\ UNCHANGED <<session, refresh, issued>>
  BY <1>0, <1>1 DEF SignOut, server
<1> HIDE DEF r
<1>5. Captured(g, signOut[g].cred)' /\ Known(signOut[g].cred)'
  BY <1>1, <1>2, <1>3, <1>4 DEF Captured, Known, session
<1>6. r.st = "waiting" =>
        /\ refresh[g].st # "none"
        /\ refresh[g].cred.access.sid = cred.access.sid
        /\ refresh[g].cred.refresh.sid = cred.refresh.sid
  BY <1>0, <1>1, <1>3 DEF SignOutBegins, IInv, RefreshOK, RefreshOf, Captured
<1>7. SignOutOf(g)'
  BY <1>3, <1>4, <1>5, <1>6 DEF SignOutOf, session
<1>8. \A h \in Gens : h # g => refresh'[h] = refresh[h]
  BY <1>4
<1> QED
  BY <1>3, <1>4, <1>7, <1>8, OneSignOut

LEMMA SignOutSent ==
  ASSUME IInv, [Next]_vars, NEW g \in Gens, SignOutSends(g)
  PROVE  SignOutOK'
<1> DEFINE so == signOut[g]
           creds == SignOutCreds(g)
<1>1. /\ so \in SignOutRecords /\ SignOutOf(g) /\ so.st = "due" /\ UNCHANGED <<refresh, live>>
      /\ live \subseteq Sessions /\ signOut \in [Gens -> SignOutRecords]
  BY DEF IInv, SignOutOK, ServerOK, SignOutSends, server
<1>2. /\ creds \in Creds
      /\ creds.refresh.sid = so.cred.refresh.sid
      /\ Names(so.cred.access) => creds.access.sid = so.cred.access.sid
      /\ so.prior = "ok" => creds.refresh # NoToken
      /\ so.prior # "ok" => creds = so.cred
  BY <1>1 DEF SignOutOf, SignOutCreds, SignOutRecords
<1>3. creds.access \in Tokens /\ creds.refresh \in Tokens
  BY <1>2 DEF Creds
<1>4. CASE ByAccess(g) /\ signOut' = [signOut EXCEPT ![g].st = "revoke", ![g].sent = creds.access]
  <2> DEFINE r == [so EXCEPT !.st = "revoke", !.sent = creds.access]
  <2>1. /\ r \in SignOutRecords /\ r.st = "revoke" /\ r.cred = so.cred /\ r.ended = so.ended
        /\ r.prior = so.prior /\ r.pair = so.pair
    BY <1>1, <1>3 DEF SignOutRecords
  <2>2. signOut' = [signOut EXCEPT ![g] = r]
    BY <1>1, <1>4
  <2> HIDE DEF r
  <2>3. Names(so.cred.access)
    BY <1>4 DEF ByAccess
  <2> QED
    BY <1>1, <2>1, <2>2, <2>3, SignOutGoesOn DEF SignOutOf
<1>5. CASE /\ ~ByAccess(g) /\ creds.refresh # NoToken
           /\ signOut' = [signOut EXCEPT ![g].st = "logout", ![g].sent = creds.refresh]
  <2> DEFINE r == [so EXCEPT !.st = "logout", !.sent = creds.refresh]
  <2>1. /\ r \in SignOutRecords /\ r.st = "logout" /\ r.cred = so.cred /\ r.ended = so.ended
        /\ r.prior = so.prior /\ r.pair = so.pair /\ r.sent = creds.refresh
    BY <1>1, <1>3 DEF SignOutRecords
  <2>2. signOut' = [signOut EXCEPT ![g] = r]
    BY <1>1, <1>5
  <2> HIDE DEF r
  <2>3. so.cred.refresh # NoToken
    BY <1>1, <1>2, <1>3, <1>5, NoCredsTyped, TokenTyped DEF SignOutRecords, Creds
  <2>4. creds.refresh.sid = Target(g)
    <3>1. CASE ~Names(so.cred.access)
      BY <1>2, <2>3, <3>1 DEF Target
    <3>2. CASE Names(so.cred.access)
      <4>1. Verified(g, creds)
        BY <1>5, <3>2 DEF ByAccess
      <4>2. Matched(creds)
        BY <4>1 DEF Verified, IInv, VerifiedOK
      <4> QED
        BY <1>2, <1>5, <3>2, <4>2 DEF Matched, Target
    <3> QED
      BY <3>1, <3>2
  <2>5. Endable(g)
    BY <2>3 DEF Endable
  <2> QED
    BY <1>1, <2>1, <2>2, <2>4, <2>5, SignOutGoesOn DEF SignOutOf
<1>6. CASE ~ByAccess(g) /\ creds.refresh = NoToken /\ Finish(g, FALSE, {})
  <2>1. so.prior # "ok" /\ ~Names(so.cred.access)
    BY <1>2, <1>6 DEF ByAccess, Verified
  <2>2. ~Endable(g)
    BY <1>2, <1>6, <2>1 DEF Endable
  <2> QED
    <3>1. FALSE \in BOOLEAN /\ {} \in SUBSET Sessions
      BY Zenon
    <3> QED
      BY <1>1, <1>6, <2>2, <3>1, SignOutFinished
<1>7. CASE Finish(g, TRUE, {})
  BY <1>1, <1>7, SignOutFinished
<1> QED
  BY <1>4, <1>5, <1>6, <1>7 DEF SignOutSends
\* The refresh a sign-out waited for, answered.
LEMMA SignOutToldOfRefresh ==
  ASSUME IInv, [Next]_vars, NEW g \in Gens, RefreshSettles(g)
  PROVE  SignOutOK'
<1> DEFINE so == signOut[g]
           p == refresh[g].pair
<1>1. /\ so \in SignOutRecords /\ SignOutOf(g) /\ RefreshOK /\ refresh \in [Gens -> RefreshRecords]
      /\ signOut \in [Gens -> SignOutRecords]
  BY DEF IInv, SignOutOK, RefreshOK
<1>2. refresh' = [refresh EXCEPT ![g] = NoRefresh]
  BY DEF RefreshSettles
<1>3. \A h \in Gens : h # g => refresh'[h] = refresh[h]
  BY <1>1, <1>2
<1>4. CASE so.st # "waiting"
  <2>1. UNCHANGED signOut
    BY <1>4 DEF RefreshSettles
  <2>2. \A h \in Gens : WaitsOn(h)
    BY <1>3, <1>4 DEF WaitsOn, IInv, SignOutOK, SignOutOf
  <2> QED
    BY <2>1, <2>2, AllSignOutsKept
<1>5. CASE so.st = "waiting" /\ GoodRefresh(g)
  <2> DEFINE r == [so EXCEPT !.st = "due", !.prior = "ok", !.pair = p]
  <2>1. /\ p \in Creds /\ p.refresh.sid \in Sessions
        /\ p.refresh.sid = refresh[g].cred.refresh.sid /\ p.access.sid = refresh[g].cred.access.sid
    BY <1>1, <1>5, GoodOfSession
  <2>2. p.refresh.sid = so.cred.refresh.sid /\ p.access.sid = so.cred.access.sid
    BY <1>1, <1>5, <2>1 DEF SignOutOf
  <2>3. p.refresh # NoToken
    BY <2>1, TokenTyped DEF Creds
  <2>4. /\ r \in SignOutRecords /\ r.st = "due" /\ r.cred = so.cred /\ r.ended = so.ended
        /\ r.prior = "ok" /\ r.pair = p
    BY <1>1, <2>1 DEF SignOutRecords
  <2>5. signOut' = [signOut EXCEPT ![g] = r]
    BY <1>1, <1>5 DEF RefreshSettles
  <2> HIDE DEF r
  <2> QED
    BY <1>3, <1>5, <2>2, <2>3, <2>4, <2>5, SignOutGoesOn
<1>6. CASE so.st = "waiting" /\ ~GoodRefresh(g)
  <2> DEFINE r == [so EXCEPT !.st = "due", !.prior = "failed"]
  <2>1. /\ r \in SignOutRecords /\ r.st = "due" /\ r.cred = so.cred /\ r.ended = so.ended
        /\ r.prior = "failed"
    BY <1>1 DEF SignOutRecords
  <2>2. signOut' = [signOut EXCEPT ![g] = r]
    BY <1>1, <1>6 DEF RefreshSettles
  <2> HIDE DEF r
  <2> QED
    BY <1>3, <1>6, <2>1, <2>2, SignOutGoesOn
<1> QED
  BY <1>4, <1>5, <1>6

\* The requests that end a session: it is the sign-out's target.
LEMMA SignOutAnswered ==
  ASSUME IInv, [Next]_vars, NEW g \in Gens, LogoutSettles(g) \/ RevokeSettles(g)
  PROVE  SignOutOK'
<1> DEFINE so == signOut[g]
<1>1. so \in SignOutRecords /\ SignOutOf(g) /\ live \subseteq Sessions /\ so.st \notin {"none", "settled"}
  BY DEF IInv, SignOutOK, ServerOK, LogoutSettles, RevokeSettles, Revoking
<1>2. \A h \in Gens : h # g => refresh'[h] = refresh[h]
  BY DEF LogoutSettles, RevokeSettles
<1>3. CASE Finish(g, TRUE, {})
  <2>1. TRUE \in BOOLEAN /\ {} \in SUBSET Sessions
    BY Zenon
  <2> QED
    BY <1>1, <1>2, <1>3, <2>1, SignOutFinished
<1>4. CASE Endable(g) /\ Target(g) \in Sessions /\ live' = live \ {Target(g)}
         /\ \E e \in BOOLEAN : Finish(g, e, {Target(g)})
  BY <1>1, <1>2, <1>4, SignOutFinished
<1>5. ASSUME LogoutSettles(g), ~Finish(g, TRUE, {})
      PROVE  Endable(g) /\ Target(g) \in Sessions /\ live' = live \ {Target(g)}
         /\ \E e \in BOOLEAN : Finish(g, e, {Target(g)})
  <2>1. Endable(g) /\ so.sent.sid = Target(g)
    BY <1>1, <1>5 DEF LogoutSettles, SignOutOf
  <2> QED
    BY <1>1, <1>5, <2>1 DEF LogoutSettles, IsLatest
<1>6. ASSUME RevokeSettles(g), ~Finish(g, TRUE, {})
      PROVE  Endable(g) /\ Target(g) \in Sessions /\ live' = live \ {Target(g)}
         /\ \E e \in BOOLEAN : Finish(g, e, {Target(g)})
  <2>1. Names(so.cred.access)
    BY <1>1, <1>6 DEF RevokeSettles, Revoking, SignOutOf
  <2>2. Endable(g) /\ Target(g) = so.cred.access.sid /\ Target(g) \in Sessions
    BY <2>1 DEF Endable, Target, Names
  <2> QED
    BY <1>6, <2>2 DEF RevokeSettles
<1> QED
  BY <1>3, <1>4, <1>5, <1>6

\* The refresh made for a revocation alone.
LEMMA SignOutRefreshes ==
  ASSUME IInv, [Next]_vars, NEW g \in Gens, RevokeDenied(g) \/ SignOutRefreshed(g)
  PROVE  SignOutOK'
<1> DEFINE so == signOut[g]
<1>1. /\ so \in SignOutRecords /\ SignOutOf(g) /\ RefreshOK
      /\ signOut \in [Gens -> SignOutRecords] /\ refresh \in [Gens -> RefreshRecords]
      /\ so.st \in {"revoke", "refreshing"} /\ Names(so.cred.access)
  BY DEF IInv, SignOutOK, RefreshOK, SignOutOf, RevokeDenied, SignOutRefreshed
<1>2. \A h \in Gens : h # g => refresh'[h] = refresh[h]
  BY <1>1 DEF RevokeDenied, SendRefresh, SignOutRefreshed
<1>3. CASE RevokeDenied(g)
  <2> DEFINE r == [so EXCEPT !.st = "refreshing"]
  <2>1. /\ r \in SignOutRecords /\ r.st = "refreshing" /\ r.cred = so.cred /\ r.ended = so.ended
        /\ r.prior = so.prior /\ r.pair = so.pair
    BY <1>1 DEF SignOutRecords
  <2>2. signOut' = [signOut EXCEPT ![g] = r]
    BY <1>1, <1>3 DEF RevokeDenied
  <2> HIDE DEF r
  <2> QED
    BY <1>1, <1>2, <2>1, <2>2, SignOutGoesOn DEF SignOutOf
<1>4. CASE SignOutRefreshed(g) /\ GoodRefresh(g)
  <2> DEFINE r == [so EXCEPT !.st = "again", !.sent = refresh[g].pair.access]
  <2>1. refresh[g].pair.access \in Tokens
    BY <1>1, <1>4, GoodOfSession DEF Creds
  <2>2. /\ r \in SignOutRecords /\ r.st = "again" /\ r.cred = so.cred /\ r.ended = so.ended
        /\ r.prior = so.prior /\ r.pair = so.pair
    BY <1>1, <2>1 DEF SignOutRecords
  <2>3. signOut' = [signOut EXCEPT ![g] = r]
    BY <1>1, <1>4 DEF SignOutRefreshed
  <2> HIDE DEF r
  <2> QED
    BY <1>1, <1>2, <2>2, <2>3, SignOutGoesOn DEF SignOutOf
<1>5. CASE SignOutRefreshed(g) /\ ~GoodRefresh(g)
  <2>1. Finish(g, TRUE, {})
    BY <1>5 DEF SignOutRefreshed
  <2>2. TRUE \in BOOLEAN /\ {} \in SUBSET Sessions
    BY Zenon
  <2> QED
    BY <1>1, <1>2, <2>1, <2>2, SignOutFinished
<1> QED
  BY <1>3, <1>4, <1>5

LEMMA SignOutOKStep ==
  ASSUME IInv, [Next]_vars
  PROVE  SignOutOK'
<1> USE DEF operations
<1>0. /\ signOut \in [Gens -> SignOutRecords] /\ refresh \in [Gens -> RefreshRecords]
      /\ \A g \in Gens : SignOutOf(g)
  BY DEF IInv, SignOutOK, RefreshOK
<1>1. ASSUME UNCHANGED <<signOut, refresh>> PROVE SignOutOK'
  <2>1. \A g \in Gens : WaitsOn(g)
    BY <1>0, <1>1 DEF WaitsOn, SignOutOf
  <2> QED
    BY <1>1, <2>1, AllSignOutsKept
<1>2. ASSUME NEW c, Load(c) PROVE SignOutOK'
  <2>1. NoSignOut \in SignOutRecords /\ NoSignOut.st = "none" /\ NoSignOut.ended = {}
    BY NoCredsTyped DEF NoSignOut, SignOutRecords
  <2> QED
    BY <1>2, <2>1 DEF Load, SignOutOK, SignOutOf
<1>3. CASE UNCHANGED vars
  BY <1>1, <1>3 DEF vars
<1>4. ASSUME NEW s \in Revocable, Revoke(s) PROVE SignOutOK'
  BY <1>1, <1>4 DEF Revoke
<1>5. CASE ExchangeStep
  BY <1>1, <1>5 DEF ExchangeStep, ExchangeFails, ExchangeAnswers
<1>6. ASSUME NEW c \in Calls, SignIn(c) \/ (\E d \in BOOLEAN : Request(c, d)) PROVE SignOutOK'
  BY <1>1, <1>6 DEF SignIn, Request
<1>7. ASSUME NEW c \in Calls,
             \/ \E s \in Sessions : SignInAnswers(c, s)
             \/ SignInFails(c) \/ RequestSucceeds(c) \/ RequestLost(c) \/ RequestResumes(c)
      PROVE SignOutOK'
  BY <1>1, <1>7 DEF SignInAnswers, SignInFails, RequestSucceeds, RequestLost, RequestResumes
<1>8. ASSUME NEW g \in Gens, NEW c, StartOrJoin(g, c), UNCHANGED signOut PROVE SignOutOK'
  <2>1. CASE UNCHANGED refresh
    BY <1>1, <1>8, <2>1
  <2>2. CASE SendRefresh(g, c, user)
    <3>1. \A h \in Gens : h # g => refresh'[h] = refresh[h]
      BY <1>0, <2>2 DEF SendRefresh
    <3>2. \A h \in Gens : WaitsOn(h)
      BY <1>0, <1>8, <3>1 DEF WaitsOn, SignOutOf, StartOrJoin, MayRefresh
    <3> QED
      BY <1>8, <3>2, AllSignOutsKept
  <2> QED
    BY <1>8, <2>1, <2>2 DEF StartOrJoin
<1>9. ASSUME NEW c \in Calls, RequestDenied(c) PROVE SignOutOK'
  <2>1. call[c].gen \in Gens /\ UNCHANGED signOut
    BY <1>9 DEF RequestDenied, IInv, CallsOK, CallRecords
  <2> QED
    BY <1>1, <1>8, <1>9, <2>1 DEF RequestDenied, Ends
<1>10. ASSUME NEW s, NEW t, Adopt(s, t) \/ HandOver(s, t) PROVE SignOutOK'
  BY <1>1, <1>10 DEF Adopt, HandOver
<1>11. CASE LoadStored \/ (\E s, r : LoadSupplied(s, r))
  BY <1>2, <1>11 DEF LoadStored, LoadSupplied
<1>12. CASE RefreshSession
  <2>1. gen \in Gens
    BY DEF IInv, SessionOK
  <2>2. PICK g \in Gens : StartOrJoin(g, cred) /\ UNCHANGED signOut
    BY <1>12, <2>1 DEF RefreshSession
  <2> QED
    BY <1>8, <2>2
<1>13. ASSUME NEW g \in Gens, ServerRefresh(g) PROVE SignOutOK'
  <2>1. \E a \in Answers : \E p : refresh' = [refresh EXCEPT ![g].st = a, ![g].pair = p]
    BY <1>13 DEF ServerRefresh, Answers
  <2>2. PICK a \in Answers : \E p : refresh' = [refresh EXCEPT ![g].st = a, ![g].pair = p]
    BY <2>1
  <2>3. refresh'[g].st = a /\ refresh'[g].cred = refresh[g].cred
        /\ \A h \in Gens : h # g => refresh'[h] = refresh[h]
    BY <1>0, <2>2 DEF RefreshRecords
  <2>4. \A h \in Gens : WaitsOn(h)
    BY <1>0, <2>3 DEF WaitsOn, SignOutOf, Answers
  <2>5. UNCHANGED signOut
    BY <1>13 DEF ServerRefresh
  <2> QED
    BY <2>4, <2>5, AllSignOutsKept
<1>14. CASE SignOut
  BY <1>14, SignOutAsked
<1>15. ASSUME NEW g \in Gens, RefreshSettles(g) PROVE SignOutOK'
  BY <1>15, SignOutToldOfRefresh
<1>16. ASSUME NEW g \in Gens, SignOutStep(g) PROVE SignOutOK'
  BY <1>16, SignOutSent, SignOutAnswered, SignOutRefreshes DEF SignOutStep
<1> QED
  BY <1>3, <1>4, <1>5, <1>6, <1>7, <1>9, <1>10, <1>11, <1>12, <1>13, <1>14, <1>15, <1>16
  DEF Next, CallStep, RefreshStep

-----------------------------------------------------------------------------
\* The rest of the invariant, and all of it.

LEMMA RedirectStep ==
  ASSUME RedirectOK, [Next]_vars
  PROVE  RedirectOK'
<1>1. /\ exchange' = exchange \/ exchange' = FALSE
      /\ consumed' = consumed \/ consumed' = FALSE \/ consumed' = TRUE
  <2> USE DEF redirect
  <2>1. CASE UNCHANGED vars
    BY <2>1 DEF vars
  <2>2. ASSUME NEW s \in Revocable, Revoke(s) PROVE UNCHANGED redirect
    BY <2>2 DEF Revoke
  <2>3. CASE ExchangeStep
    BY <2>3 DEF ExchangeStep, ExchangeFails, ExchangeAnswers
  <2>4. ASSUME NEW c \in Calls, SignIn(c) \/ (\E d \in BOOLEAN : Request(c, d)) \/ CallStep(c)
        PROVE UNCHANGED redirect
    BY <2>4 DEF SignIn, Request, CallStep, SignInAnswers, SignInFails, RequestSucceeds, RequestLost,
       RequestDenied, RequestResumes
  <2>5. ASSUME NEW s, NEW t, Adopt(s, t) PROVE UNCHANGED redirect
    BY <2>5 DEF Adopt
  <2>6. ASSUME NEW s, NEW t, HandOver(s, t) PROVE exchange' = exchange /\ consumed' = TRUE
    BY <2>6 DEF HandOver
  <2>7. ASSUME LoadStored \/ \E s, r : LoadSupplied(s, r)
        PROVE exchange' = FALSE /\ consumed' = FALSE
    BY <2>7 DEF LoadStored, LoadSupplied, Load
  <2>8. CASE RefreshSession \/ SignOut
    BY <2>8 DEF RefreshSession, SignOut
  <2>9. ASSUME NEW g \in Gens, RefreshStep(g) \/ SignOutStep(g) PROVE UNCHANGED redirect
    BY <2>9 DEF RefreshStep, SignOutStep, ServerRefresh, RefreshSettles, SignOutSends, LogoutSettles,
       RevokeSettles, RevokeDenied, SignOutRefreshed
  <2> QED
    BY <2>1, <2>2, <2>3, <2>4, <2>5, <2>6, <2>7, <2>8, <2>9 DEF Next
<1> QED
  BY <1>1, Zenon DEF RedirectOK

LEMMA ReplacedStep ==
  ASSUME IInv, [Next]_vars
  PROVE  ReplacedOK'
<1> USE DEF operations
<1>0. ReplacedOK
  BY DEF IInv
<1>1. ASSUME UNCHANGED replaced PROVE ReplacedOK'
  BY <1>0, <1>1 DEF ReplacedOK
<1>2. ASSUME NEW g \in Gens, Verifies(g) PROVE ReplacedOK'
  <2>1. refresh[g].cred.refresh \in Tokens
    BY DEF IInv, RefreshOK, RefreshRecords, Creds
  <2> QED
    BY <1>0, <1>2, <2>1 DEF Verifies, ReplacedOK
<1>3. CASE UNCHANGED vars
  BY <1>1, <1>3 DEF vars
<1>4. ASSUME NEW s \in Revocable, Revoke(s) PROVE ReplacedOK'
  BY <1>1, <1>4 DEF Revoke
<1>5. CASE ExchangeStep
  BY <1>1, <1>5 DEF ExchangeStep, ExchangeFails, ExchangeAnswers
<1>6. ASSUME NEW c \in Calls, SignIn(c) \/ (\E d \in BOOLEAN : Request(c, d)) \/ CallStep(c)
      PROVE ReplacedOK'
  BY <1>1, <1>6 DEF SignIn, Request, CallStep, SignInAnswers, SignInFails, RequestSucceeds, RequestLost,
     RequestDenied, RequestResumes
<1>7. ASSUME NEW s, NEW t, Adopt(s, t) \/ HandOver(s, t) PROVE ReplacedOK'
  BY <1>1, <1>7 DEF Adopt, HandOver
<1>8. ASSUME LoadStored \/ \E s, r : LoadSupplied(s, r) PROVE ReplacedOK'
  BY <1>8 DEF LoadStored, LoadSupplied, Load, ReplacedOK
<1>9. CASE RefreshSession \/ SignOut
  BY <1>1, <1>9 DEF RefreshSession, SignOut
<1>10. ASSUME NEW g \in Gens, ServerRefresh(g) \/ SignOutSends(g) \/ LogoutSettles(g)
                              \/ RevokeSettles(g) \/ RevokeDenied(g)
       PROVE ReplacedOK'
  BY <1>1, <1>10 DEF ServerRefresh, SignOutSends, LogoutSettles, RevokeSettles, RevokeDenied
<1>11. ASSUME NEW g \in Gens, RefreshSettles(g) \/ SignOutRefreshed(g) PROVE ReplacedOK'
  BY <1>1, <1>2, <1>11 DEF RefreshSettles, SignOutRefreshed
<1> QED
  BY <1>3, <1>4, <1>5, <1>6, <1>7, <1>8, <1>9, <1>10, <1>11 DEF Next, RefreshStep, SignOutStep

LEMMA Invariance == Spec => []IInv
<1>1. IInv /\ [Next]_vars => IInv'
  <2> SUFFICES ASSUME IInv, [Next]_vars PROVE IInv'
    OBVIOUS
  <2>1. ServerOK /\ SessionOK /\ RedirectOK
    BY DEF IInv
  <2> QED
    BY <2>1, ServerStep, SessionOKStep, VerifiedStep, RefreshOKStep, SignOutOKStep, CallsOKStep,
       RedirectStep, ReplacedStep DEF IInv
<1> QED
  BY <1>1, InitOK, PTL DEF Spec

-----------------------------------------------------------------------------
\* Replaced tokens.  The refresh tokens of a session are numbered on, so one is
\* not replaced if every replaced one is earlier.

Fresh(g, t) == \A o \in replaced[g] : o.sid # t.sid \/ o.n < t.n

\* Whatever may yet be sent is fresh: the client's own token, the one of the
\* running refresh, and the one of a sign-out until it has sent it.
FreshOf(g) ==
  LET so == signOut[g]
      r == refresh[g]
  IN /\ g > gen => replaced[g] = {}
     /\ g = gen /\ so.st = "none" => Fresh(g, cred.refresh)
     /\ r.st # "none" =>
          /\ Fresh(g, r.cred.refresh)
          /\ g = gen => r.cred.refresh = cred.refresh
          /\ r.st = "ok" => r.pair.refresh.n = r.cred.refresh.n + 1
          /\ so.st \in {"none", "waiting", "refreshing"}
     /\ so.st = "waiting" => so.prior = "none" /\ r.cred.refresh = so.cred.refresh
     /\ so.st \in {"waiting", "due", "revoke"} /\ so.prior = "none" => Fresh(g, so.cred.refresh)
     /\ so.st = "due" => Fresh(g, SignOutCreds(g).refresh)
     /\ so.st = "logout" => Fresh(g, so.sent)

FInv == \A g \in Gens : FreshOf(g)

LEMMA TokenNumbered == ASSUME NEW t \in Tokens PROVE t.n \in Nat
BY DEF Tokens, NoToken

LEMMA FreshIsNew ==
  ASSUME NEW g, NEW t \in Tokens, Fresh(g, t)
  PROVE  t \notin replaced[g]
<1>1. t.n \in Nat
  BY TokenNumbered
<1> QED
  BY <1>1 DEF Fresh

LEMMA GenGrows ==
  ASSUME IInv, [Next]_vars
  PROVE  /\ gen \in Nat /\ gen' \in Nat
         /\ gen' = gen + 1 \/ (gen' = gen /\ cred' = cred)
              \/ (gen' = gen /\ signOut[gen].st = "none" /\ refresh'[gen] # refresh[gen])
<1>1. gen \in Nat /\ gen' \in Nat
  BY SessionOKStep DEF IInv, SessionOK, Gens
<1> QED
  BY <1>1, SessionStep DEF Established, Emptied, Continued, Stays

\* A generation whose sign-out, refresh and replaced tokens stay.
LEMMA FreshKept ==
  ASSUME IInv, FInv, [Next]_vars, NEW g \in Gens,
         refresh'[g] = refresh[g], signOut'[g] = signOut[g], replaced'[g] = replaced[g]
  PROVE  FreshOf(g)'
<1>1. FreshOf(g) /\ gen \in Nat /\ gen' \in Nat /\ g \in Nat
  BY GenGrows DEF FInv, Gens
<1>2. refresh[g].st # "none" => g <= gen
  BY DEF IInv, RefreshOK, RefreshOf, Captured
<1>3. gen' = gen + 1 \/ (gen' = gen /\ (g = gen => cred' = cred))
  BY GenGrows
<1>4. g > gen' => replaced'[g] = {}
  BY <1>1, <1>3 DEF FreshOf
<1>5. g = gen' /\ signOut[g].st = "none" => Fresh(g, cred.refresh)'
  BY <1>1, <1>3 DEF FreshOf, Fresh
<1>6. refresh[g].st # "none" /\ g = gen' => refresh[g].cred.refresh = cred'.refresh
  BY <1>1, <1>2, <1>3 DEF FreshOf
<1> QED
  BY <1>1, <1>4, <1>5, <1>6 DEF FreshOf, Fresh, SignOutCreds

LEMMA AllFreshKept ==
  ASSUME IInv, FInv, [Next]_vars, UNCHANGED <<refresh, signOut, replaced>>
  PROVE  FInv'
BY FreshKept DEF FInv

LEMMA OneFresh ==
  ASSUME IInv, FInv, [Next]_vars, NEW g \in Gens, FreshOf(g)',
         \A h \in Gens : h # g =>
           refresh'[h] = refresh[h] /\ signOut'[h] = signOut[h] /\ replaced'[h] = replaced[h]
  PROVE  FInv'
BY FreshKept DEF FInv

\* A sign-out that sends no refresh token any more.
LEMMA FreshAtEnd ==
  ASSUME IInv, [Next]_vars, NEW g \in Gens, g <= gen,
         refresh'[g].st = "none", signOut'[g].st \in {"again", "settled"}
  PROVE  FreshOf(g)'
<1>1. g <= gen' /\ gen' \in Nat /\ g \in Nat
  BY GenGrows DEF Gens
<1> QED
  BY <1>1 DEF FreshOf

\* A refresh of the client's own token.
LEMMA FreshSent ==
  ASSUME IInv, FInv, [Next]_vars, NEW g \in Gens, g = gen, NEW c, c.refresh = cred.refresh,
         UNCHANGED <<session, signOut, replaced>>, StartOrJoin(g, c)
  PROVE  FInv'
<1>1. CASE UNCHANGED refresh
  BY <1>1, AllFreshKept
<1>2. CASE SendRefresh(g, c, user)
  <2>1. /\ refresh'[g].st = "asked" /\ refresh'[g].cred = c
        /\ \A h \in Gens : h # g => refresh'[h] = refresh[h]
    BY <1>2 DEF SendRefresh, IInv, RefreshOK
  <2>2. signOut[g].st = "none" /\ FreshOf(g)
    BY DEF StartOrJoin, MayRefresh, FInv
  <2>3. FreshOf(g)'
    BY <2>1, <2>2 DEF FreshOf, Fresh, session
  <2> QED
    BY <2>1, <2>3, OneFresh
<1> QED
  BY <1>1, <1>2 DEF StartOrJoin

LEMMA FreshAnswered ==
  ASSUME IInv, FInv, [Next]_vars, NEW g \in Gens, ServerRefresh(g)
  PROVE  FInv'
<1> DEFINE t == refresh[g].cred.refresh
<1>1. /\ UNCHANGED <<session, signOut, replaced>> /\ refresh[g].st = "asked" /\ FreshOf(g)
      /\ refresh \in [Gens -> RefreshRecords]
  BY DEF ServerRefresh, FInv, IInv, RefreshOK
<1>2. \E a \in Answers : \E p :
        /\ refresh' = [refresh EXCEPT ![g].st = a, ![g].pair = p]
        /\ a = "ok" => p.refresh.n = t.n + 1
  <2> DEFINE Answer(a, p) == /\ refresh' = [refresh EXCEPT ![g].st = a, ![g].pair = p]
                             /\ a = "ok" => p.refresh.n = t.n + 1
  <2>1. CASE refresh' = [refresh EXCEPT ![g].st = "ok", ![g].pair = Pair(t.sid, t.n + 1)]
    <3>1. Pair(t.sid, t.n + 1).refresh.n = t.n + 1
      BY DEF Pair
    <3> QED
      BY <2>1, <3>1 DEF Answers
  <2>2. ASSUME NEW a \in Answers \ {"ok"}, refresh' = [refresh EXCEPT ![g].st = a, ![g].pair = NoCreds]
        PROVE  Answer(a, NoCreds)
    BY <2>2
  <2> QED
    BY <2>1, <2>2 DEF ServerRefresh, Answers
<1>3. PICK a, p : /\ refresh' = [refresh EXCEPT ![g].st = a, ![g].pair = p]
                  /\ a = "ok" => p.refresh.n = t.n + 1
  BY <1>2
<1>4. /\ refresh'[g].st = a /\ refresh'[g].pair = p /\ refresh'[g].cred = refresh[g].cred
      /\ \A h \in Gens : h # g => refresh'[h] = refresh[h]
  BY <1>1, <1>3 DEF RefreshRecords
<1>5. FreshOf(g)'
  BY <1>1, <1>3, <1>4 DEF FreshOf, Fresh, session, SignOutCreds
<1> QED
  BY <1>1, <1>4, <1>5, OneFresh

\* What was refreshed is replaced by a later token.
LEMMA FreshReplaces ==
  ASSUME IInv, FInv, NEW g \in Gens, GoodRefresh(g),
         replaced' = [replaced EXCEPT ![g] = @ \cup {refresh[g].cred.refresh}]
  PROVE  \A o \in replaced'[g] : o.sid # refresh[g].pair.refresh.sid \/ o.n < refresh[g].pair.refresh.n
<1> DEFINE t == refresh[g].cred.refresh
           p == refresh[g].pair.refresh
<1>1. FreshOf(g) /\ refresh[g].st = "ok"
  BY DEF FInv, GoodRefresh
<1>2. p.n = t.n + 1 /\ Fresh(g, t)
  BY <1>1 DEF FreshOf
<1>3. p.sid = t.sid
  BY GoodOfSession DEF IInv
<1>4. t \in Tokens /\ replaced \in [Gens -> SUBSET Tokens]
  BY DEF IInv, RefreshOK, RefreshRecords, Creds, ReplacedOK
<1>5. replaced'[g] = replaced[g] \cup {t} /\ t.n \in Nat
  BY <1>4, TokenNumbered
<1>6. ASSUME NEW o \in replaced'[g] PROVE o.sid # p.sid \/ o.n < p.n
  <2>1. CASE o = t
    BY <1>2, <1>5, <2>1
  <2>2. CASE o \in replaced[g]
    <3>1. o.n \in Nat
      BY <1>4, <2>2, TokenNumbered
    <3> QED
      BY <1>2, <1>3, <1>5, <2>2, <3>1 DEF Fresh
  <2> QED
    BY <1>5, <2>1, <2>2
<1> QED
  BY <1>6

LEMMA FreshSettled ==
  ASSUME IInv, FInv, [Next]_vars, NEW g \in Gens, RefreshSettles(g)
  PROVE  FInv'
<1> DEFINE so == signOut[g]
           r == refresh[g]
<1>1. /\ FreshOf(g) /\ r.st # "none" /\ so.st \in {"none", "waiting"}
      /\ refresh \in [Gens -> RefreshRecords] /\ replaced \in [Gens -> SUBSET Tokens]
      /\ signOut \in [Gens -> SignOutRecords] /\ so \in SignOutRecords
  BY DEF RefreshSettles, Answers, FInv, FreshOf, IInv, RefreshOK, ReplacedOK, SignOutOK
<1>2. g <= gen /\ g \in Nat /\ gen \in Nat /\ gen' \in Nat
  BY <1>1, GenGrows DEF IInv, RefreshOK, RefreshOf, Captured, Gens
<1>3. refresh'[g].st = "none" /\ \A h \in Gens : h # g => refresh'[h] = refresh[h]
  BY <1>1 DEF RefreshSettles, NoRefresh
<1>4. \A h \in Gens : h # g => signOut'[h] = signOut[h] /\ replaced'[h] = replaced[h]
  BY <1>1 DEF RefreshSettles, Verifies
<1>5. g <= gen'
  BY <1>2, GenGrows
<1>6. CASE so.st = "none" /\ GoodRefresh(g) /\ Adopts(g)
  <2>1. /\ signOut'[g].st = "none" /\ cred'.refresh = r.pair.refresh
        /\ replaced' = [replaced EXCEPT ![g] = @ \cup {r.cred.refresh}]
    BY <1>1, <1>6 DEF RefreshSettles, Verifies, GoodRefresh
  <2>2. Fresh(g, cred.refresh)'
    BY <1>6, <2>1, FreshReplaces DEF Fresh
  <2>3. FreshOf(g)'
    BY <1>2, <1>3, <1>5, <2>1, <2>2 DEF FreshOf
  <2> QED
    BY <1>3, <1>4, <2>3, OneFresh
<1>7. CASE so.st = "none" /\ GoodRefresh(g) /\ ~Adopts(g)
  <2>1. signOut'[g].st = "none" /\ UNCHANGED session
    BY <1>1, <1>7 DEF RefreshSettles, GoodRefresh
  <2>2. g # gen'
    BY <1>1, <1>7, <2>1 DEF Adopts, IsCurrent, FreshOf, session
  <2>3. FreshOf(g)'
    BY <1>2, <1>3, <1>5, <2>1, <2>2 DEF FreshOf
  <2> QED
    BY <1>3, <1>4, <2>3, OneFresh
<1>8. CASE so.st = "none" /\ ~GoodRefresh(g)
  <2>1. signOut'[g].st = "none" /\ UNCHANGED replaced
    BY <1>1, <1>8 DEF RefreshSettles, Verifies
  <2>2. gen' = gen => cred' = cred
    BY <1>1, <1>2, <1>8 DEF RefreshSettles, Clear, ClearAt, ClearSession, session
  <2>3. g = gen' => Fresh(g, cred.refresh)'
    BY <1>1, <1>2, <1>8, <2>1, <2>2, GenGrows DEF FreshOf, Fresh
  <2>4. FreshOf(g)'
    BY <1>2, <1>3, <1>5, <2>1, <2>3 DEF FreshOf
  <2> QED
    BY <1>3, <1>4, <2>4, OneFresh
<1>9. CASE so.st = "waiting" /\ GoodRefresh(g)
  <2>1. /\ signOut'[g] = [so EXCEPT !.st = "due", !.prior = "ok", !.pair = r.pair]
        /\ replaced' = [replaced EXCEPT ![g] = @ \cup {r.cred.refresh}]
    BY <1>1, <1>9 DEF RefreshSettles, Verifies
  <2>2. signOut'[g].st = "due" /\ signOut'[g].prior = "ok" /\ signOut'[g].pair = r.pair
    BY <1>1, <2>1 DEF SignOutRecords
  <2>3. Fresh(g, SignOutCreds(g).refresh)'
    BY <1>9, <2>1, <2>2, FreshReplaces DEF Fresh, SignOutCreds
  <2>4. FreshOf(g)'
    BY <1>2, <1>3, <1>5, <2>2, <2>3 DEF FreshOf
  <2> QED
    BY <1>3, <1>4, <2>4, OneFresh
<1>10. CASE so.st = "waiting" /\ ~GoodRefresh(g)
  <2>1. signOut'[g] = [so EXCEPT !.st = "due", !.prior = "failed"] /\ UNCHANGED replaced
    BY <1>1, <1>10 DEF RefreshSettles, Verifies
  <2>2. signOut'[g].st = "due" /\ signOut'[g].prior = "failed" /\ signOut'[g].cred = so.cred
    BY <1>1, <2>1 DEF SignOutRecords
  <2>3. Fresh(g, SignOutCreds(g).refresh)'
    BY <1>1, <1>10, <2>1, <2>2 DEF FreshOf, Fresh, SignOutCreds
  <2>4. FreshOf(g)'
    BY <1>2, <1>3, <1>5, <2>2, <2>3 DEF FreshOf
  <2> QED
    BY <1>3, <1>4, <2>4, OneFresh
<1> QED
  BY <1>1, <1>6, <1>7, <1>8, <1>9, <1>10

LEMMA FreshSignedOut ==
  ASSUME IInv, FInv, [Next]_vars, SignOut
  PROVE  FInv'
<1>1. PICK g \in Gens : g = gen
  BY DEF IInv, SessionOK
<1>2. /\ FreshOf(g) /\ signOut[g].st = "none" /\ UNCHANGED <<session, refresh, replaced>>
      /\ signOut \in [Gens -> SignOutRecords] /\ g \in Nat
  BY <1>1 DEF FInv, SignOut, IInv, SignOutOK, Gens
<1>3. /\ signOut'[g] = [NoSignOut EXCEPT !.st = SignOutBegins(g), !.cred = cred, !.user = user]
      /\ \A h \in Gens : h # g => signOut'[h] = signOut[h]
  BY <1>1, <1>2 DEF SignOut
<1>4. signOut'[g].st = SignOutBegins(g) /\ signOut'[g].cred = cred /\ signOut'[g].prior = "none"
  BY <1>3 DEF NoSignOut
<1>5. FreshOf(g)'
  BY <1>1, <1>2, <1>4 DEF FreshOf, Fresh, SignOutBegins, SignOutCreds, session
<1> QED
  BY <1>2, <1>3, <1>5, OneFresh

LEMMA FreshSignOutStep ==
  ASSUME IInv, FInv, [Next]_vars, NEW g \in Gens, SignOutStep(g)
  PROVE  FInv'
<1> DEFINE so == signOut[g]
<1>1. /\ FreshOf(g) /\ so.st \notin {"none", "waiting", "settled"} /\ SignOutOf(g)
      /\ signOut \in [Gens -> SignOutRecords] /\ so \in SignOutRecords
      /\ refresh \in [Gens -> RefreshRecords] /\ replaced \in [Gens -> SUBSET Tokens]
  BY DEF SignOutStep, SignOutSends, LogoutSettles, RevokeSettles, Revoking, RevokeDenied,
     SignOutRefreshed, FInv, IInv, SignOutOK, RefreshOK, ReplacedOK
<1>2. g <= gen /\ g \in Nat /\ gen \in Nat /\ gen' \in Nat /\ g <= gen'
  <2>1. g <= gen /\ g \in Nat /\ gen \in Nat /\ gen' \in Nat
    BY <1>1, GenGrows DEF SignOutOf, Captured, Gens
  <2> QED
    BY <2>1, GenGrows
<1>3. \A h \in Gens : h # g => refresh'[h] = refresh[h] /\ signOut'[h] = signOut[h] /\ replaced'[h] = replaced[h]
  BY <1>1 DEF SignOutStep, SignOutSends, LogoutSettles, RevokeSettles, RevokeDenied, SignOutRefreshed,
     Finish, SendRefresh, Verifies
<1>4. ASSUME refresh'[g].st = "none", NEW f, NEW e, Finish(g, f, e) PROVE FInv'
  <2>1. signOut'[g].st = "settled"
    BY <1>1, <1>4 DEF Finish, NoSignOut
  <2> QED
    BY <1>2, <1>3, <1>4, <2>1, FreshAtEnd, OneFresh
<1>5. so.st # "refreshing" => refresh[g].st = "none"
  BY <1>1 DEF FreshOf
<1>6. ASSUME NEW st \in {"revoke", "logout"}, NEW t \in Tokens, UNCHANGED <<session, refresh, replaced>>,
             signOut' = [signOut EXCEPT ![g].st = st, ![g].sent = t], so.st = "due",
             st = "logout" => Fresh(g, t)
      PROVE  FInv'
  <2>1. /\ signOut'[g].st = st /\ signOut'[g].sent = t /\ signOut'[g].cred = so.cred
        /\ signOut'[g].prior = so.prior
    BY <1>1, <1>6 DEF SignOutRecords
  <2>2. FreshOf(g)'
    BY <1>1, <1>2, <1>5, <1>6, <2>1 DEF FreshOf, Fresh, session
  <2> QED
    BY <1>3, <2>2, OneFresh
<1>7. CASE SignOutSends(g)
  <2>1. /\ so.st = "due" /\ UNCHANGED <<refresh, replaced>>
        /\ Fresh(g, SignOutCreds(g).refresh)
        /\ SignOutCreds(g).access \in Tokens /\ SignOutCreds(g).refresh \in Tokens
    BY <1>1, <1>7 DEF SignOutSends, FreshOf, SignOutCreds, SignOutRecords, Creds
  <2> QED
    BY <1>4, <1>5, <1>6, <1>7, <2>1 DEF SignOutSends
<1>8. CASE LogoutSettles(g) \/ RevokeSettles(g)
  BY <1>4, <1>5, <1>8 DEF LogoutSettles, RevokeSettles, Revoking
<1>9. CASE RevokeDenied(g)
  <2>1. /\ refresh'[g].st = "asked" /\ refresh'[g].cred = so.cred /\ signOut'[g].st = "refreshing"
        /\ UNCHANGED <<session, replaced>> /\ so.st = "revoke" /\ so.prior = "none"
    BY <1>1, <1>9 DEF RevokeDenied, SendRefresh, SignOutRecords
  <2>2. g = gen => so.cred = cred
    BY <1>1, <2>1 DEF SignOutOf
  <2>3. FreshOf(g)'
    BY <1>1, <1>2, <2>1, <2>2 DEF FreshOf, Fresh, session
  <2> QED
    BY <1>3, <2>3, OneFresh
<1>10. CASE SignOutRefreshed(g)
  <2>1. refresh'[g].st = "none"
    BY <1>1, <1>10 DEF SignOutRefreshed, NoRefresh
  <2>2. CASE GoodRefresh(g)
    <3>1. signOut'[g].st = "again"
      BY <1>1, <1>10, <2>2 DEF SignOutRefreshed, SignOutRecords
    <3> QED
      BY <1>2, <1>3, <2>1, <3>1, FreshAtEnd, OneFresh
  <2>3. CASE ~GoodRefresh(g)
    BY <1>4, <1>10, <2>1, <2>3 DEF SignOutRefreshed
  <2> QED
    BY <2>2, <2>3
<1> QED
  BY <1>7, <1>8, <1>9, <1>10 DEF SignOutStep

LEMMA FreshStep ==
  ASSUME IInv, FInv, [Next]_vars
  PROVE  FInv'
<1> USE DEF operations
<1>1. ASSUME UNCHANGED <<refresh, signOut, replaced>> PROVE FInv'
  BY <1>1, AllFreshKept
<1>2. ASSUME NEW c, Load(c) PROVE FInv'
  <2>1. /\ refresh' = [g \in Gens |-> NoRefresh] /\ signOut' = [g \in Gens |-> NoSignOut]
        /\ replaced' = [g \in Gens |-> {}]
    BY <1>2 DEF Load
  <2>2. NoRefresh.st = "none" /\ NoSignOut.st = "none"
    BY DEF NoRefresh, NoSignOut
  <2>3. ASSUME NEW g \in Gens PROVE FreshOf(g)'
    <3>1. refresh'[g].st = "none" /\ signOut'[g].st = "none" /\ replaced'[g] = {}
      BY <2>1, <2>2
    <3> QED
      BY <3>1 DEF FreshOf, Fresh
  <2> QED
    BY <2>3 DEF FInv
<1>3. CASE UNCHANGED vars
  BY <1>1, <1>3 DEF vars
<1>4. ASSUME NEW s \in Revocable, Revoke(s) PROVE FInv'
  BY <1>1, <1>4 DEF Revoke
<1>5. CASE ExchangeStep
  BY <1>1, <1>5 DEF ExchangeStep, ExchangeFails, ExchangeAnswers
<1>6. ASSUME NEW c \in Calls, SignIn(c) \/ (\E d \in BOOLEAN : Request(c, d)) PROVE FInv'
  BY <1>1, <1>6 DEF SignIn, Request
<1>7. ASSUME NEW c \in Calls,
             \/ \E s \in Sessions : SignInAnswers(c, s)
             \/ SignInFails(c) \/ RequestSucceeds(c) \/ RequestLost(c) \/ RequestResumes(c)
      PROVE FInv'
  BY <1>1, <1>7 DEF SignInAnswers, SignInFails, RequestSucceeds, RequestLost, RequestResumes
<1>8. ASSUME NEW c \in Calls, RequestDenied(c) PROVE FInv'
  <2>1. UNCHANGED <<session, signOut, replaced>>
    BY <1>8 DEF RequestDenied
  <2>2. CASE UNCHANGED refresh
    BY <1>1, <2>1, <2>2
  <2>3. CASE IsCurrent(call[c].gen) /\ ~AlreadyRefreshed(c) /\ StartOrJoin(call[c].gen, call[c].cred)
    <3>0. PICK g \in Gens : g = call[c].gen
      BY DEF IInv, CallsOK, CallRecords
    <3>1. PICK k : g = call[c].gen /\ k = call[c].cred
      BY <3>0
    <3>2. g = gen /\ k.refresh = cred.refresh
      BY <2>3, <3>1 DEF IsCurrent, AlreadyRefreshed
    <3>3. StartOrJoin(g, k)
      BY <2>3, <3>1
    <3> QED
      BY <2>1, <3>2, <3>3, FreshSent
  <2> QED
    BY <1>8, <2>2, <2>3 DEF RequestDenied, Ends
<1>9. ASSUME NEW s, NEW t, Adopt(s, t) \/ HandOver(s, t) PROVE FInv'
  BY <1>1, <1>9 DEF Adopt, HandOver
<1>10. CASE LoadStored \/ (\E s, r : LoadSupplied(s, r))
  BY <1>2, <1>10 DEF LoadStored, LoadSupplied
<1>11. CASE RefreshSession
  <2>0. PICK g \in Gens : g = gen
    BY DEF IInv, SessionOK
  <2>1. PICK k : g = gen /\ k = cred
    BY <2>0
  <2>2. StartOrJoin(g, k) /\ UNCHANGED <<session, signOut, replaced>>
    BY <1>11, <2>1 DEF RefreshSession
  <2> QED
    BY <2>1, <2>2, FreshSent
<1>12. ASSUME NEW g \in Gens, RefreshStep(g) PROVE FInv'
  BY <1>12, FreshAnswered, FreshSettled DEF RefreshStep
<1>13. ASSUME NEW g \in Gens, SignOutStep(g) PROVE FInv'
  BY <1>13, FreshSignOutStep
<1>14. CASE SignOut
  BY <1>14, FreshSignedOut
<1> QED
  BY <1>3, <1>4, <1>5, <1>6, <1>7, <1>8, <1>9, <1>10, <1>11, <1>12, <1>13, <1>14 DEF Next, CallStep

LEMMA FreshInvariance == Spec => []FInv
<1>1. Init => FInv
  BY DEF Init, FInv, FreshOf, Fresh, NoRefresh, NoSignOut
<1> QED
  BY <1>1, FreshStep, Invariance, PTL DEF Spec

-----------------------------------------------------------------------------
\* Every variable keeps its type, and no refresh token is ever held without an
\* access token.
THEOREM TypeCorrect == Spec => []TypeOK
BY Invariance, Typed, PTL

\* The client's tokens are those of the session last established, and its user
\* that session's: no late refresh brings another session back.
THEOREM KeepsOwnSession == Spec => []OwnSession
<1>1. IInv => OwnSession
  BY DEF IInv
<1> QED
  BY <1>1, Invariance, PTL

\* A reload finds the tokens in memory, or those from before a session was
\* adopted in memory only; never the tokens of two sessions, and nothing once
\* the client is signed out.
THEOREM ReloadFindsTheSession == Spec => []StorageFollows
<1>1. IInv => StorageFollows
  BY DEF IInv
<1> QED
  BY <1>1, Invariance, PTL

\* A session whose sign-out has answered is not the client's any more.
THEOREM StaysSignedOut == Spec => []SignedOutForGood
<1>1. IInv => SignedOutForGood
  <2> SUFFICES ASSUME IInv, NEW g \in Gens, signOut[g].st = "settled" PROVE gen # g
    BY DEF SignedOutForGood
  <2>1. g < gen /\ gen \in Nat /\ g \in Nat
    BY DEF IInv, SignOutOK, SignOutOf, SessionOK, Gens
  <2> QED
    BY <2>1
<1> QED
  BY <1>1, Invariance, PTL

\* A sign-out ends its target and no other session, and when it reports no
\* error its target has ended, also where the server refreshed the tokens on
\* the way: unless it had no session to ask for (~Endable), when it ends none
\* and reports no error either.
THEOREM EndsWhatItCaptured == Spec => []SignOutEndsItsOwn
<1>1. IInv => SignOutEndsItsOwn
  <2> SUFFICES ASSUME IInv, NEW g \in Gens
               PROVE  /\ signOut[g].ended \subseteq IF Endable(g) THEN {Target(g)} ELSE {}
                      /\ signOut[g].st = "settled" /\ ~signOut[g].error /\ Endable(g) =>
                           Target(g) \notin live
    BY DEF SignOutEndsItsOwn
  <2>1. SignOutOf(g)
    BY DEF IInv, SignOutOK
  <2> QED
    BY <2>1 DEF SignOutOf
<1> QED
  BY <1>1, Invariance, PTL

\* A refresh token whose replacement is known is sent neither to refresh nor to
\* sign out, whatever ran under its generation.
THEOREM SendsNoReplacedToken == Spec => []NoTokenSentAgain
<1>1. IInv /\ FInv => NoTokenSentAgain
  <2> SUFFICES ASSUME IInv, FInv, NEW g \in Gens
               PROVE  /\ refresh[g].st = "asked" => refresh[g].cred.refresh \notin replaced[g]
                      /\ signOut[g].st = "logout" => signOut[g].sent \notin replaced[g]
    BY DEF NoTokenSentAgain
  <2>1. FreshOf(g) /\ refresh[g].cred.refresh \in Tokens /\ signOut[g].sent \in Tokens
    BY DEF FInv, IInv, RefreshOK, RefreshRecords, Creds, SignOutOK, SignOutRecords
  <2> QED
    BY <2>1, FreshIsNew DEF FreshOf
<1> QED
  BY <1>1, Invariance, FreshInvariance, PTL

\* A request that is sent again after a refresh, is sent under the session it
\* was first sent under.
THEOREM SendsAgainAsItself == Spec => []SentAgainAsItself
<1>1. IInv => SentAgainAsItself
  BY DEF IInv, CallsOK, CallOf, SentAgainAsItself
<1> QED
  BY <1>1, Invariance, PTL

\* No answer to what was begun under an earlier generation, whatever it is,
\* touches the tokens, the user or what is stored.
THEOREM LateChangesNothing == Spec => EarlierChangesNothing
<1> USE DEF session
<1>1. ASSUME NEW g, g # gen, \E c : Answered(g, c) PROVE UNCHANGED session
  BY <1>1 DEF Answered, IsCurrent
<1>2. ASSUME NEW g, g # gen, ClearAt(g) \/ (\E c : Clear(g, c)) \/ (\E f, e : Finish(g, f, e))
      PROVE  UNCHANGED session
  BY <1>2 DEF Clear, ClearAt, ClearSession, Finish, Finishes, IsCurrent
<1>3. ASSUME NEW c \in Calls, call[c].gen # gen, CallStep(c) PROVE UNCHANGED session
  BY <1>1, <1>2, <1>3 DEF CallStep, SignInAnswers, SignInFails, RequestSucceeds, RequestLost, RequestDenied,
     RequestResumes, SameUser, IsCurrent
<1>4. ASSUME NEW g \in Gens, g # gen, RefreshStep(g) PROVE UNCHANGED session
  BY <1>2, <1>4 DEF RefreshStep, ServerRefresh, RefreshSettles, Adopts, IsCurrent
<1>5. ASSUME NEW g \in Gens, g # gen, SignOutStep(g) PROVE UNCHANGED session
  BY <1>2, <1>5 DEF SignOutStep, SignOutSends, LogoutSettles, RevokeSettles, RevokeDenied, SignOutRefreshed
<1>6. ASSUME gen # 0, ExchangeStep PROVE UNCHANGED session
  BY <1>1, <1>6 DEF ExchangeStep, ExchangeFails, ExchangeAnswers
<1>7. \/ UNCHANGED session
      \/ /\ \A c \in Calls : call[c].gen = gen \/ ~CallStep(c)
         /\ \A g \in Gens \ {gen} : ~RefreshStep(g) /\ ~SignOutStep(g)
         /\ gen = 0 \/ ~ExchangeStep
  BY <1>3, <1>4, <1>5, <1>6
<1> QED
  BY <1>7, PTL DEF EarlierChangesNothing
=============================================================================
