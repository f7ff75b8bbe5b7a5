---------------------------- MODULE AuthSession ----------------------------
(***************************************************************************)
(* The session of one client: sign-in, adoption, redirects, refresh,       *)
(* authenticated requests that refresh once, deletion of the own session   *)
(* and sign-out, all of them in flight together, against a server that     *)
(* rotates refresh tokens and may revoke a session at any time.            *)
(*                                                                         *)
(* Every session change makes a new generation.  Contexts are captured     *)
(* with their generation and its AuthSessionOperations; that object is     *)
(* replaced with the generation by whatever sets tokens, and no context    *)
(* that holds a token outlives a clear, so here the generation names both. *)
(***************************************************************************)
EXTENDS Naturals, FiniteSets

CONSTANTS
  Sessions,    \* the server's sessions
  NoSession,
  Users, NoUser,
  UserOf,      \* the user of each session
  Revocable,   \* the sessions that may be revoked elsewhere
  Readable,    \* the sessions whose access tokens name them (session_id)
  Calls,       \* sign-ins and authenticated requests in flight
  Kinds,       \* bound of the model: what the calls in flight are
  MaxRotation, \* bound of the model: refreshes of one session
  MaxGen       \* bound of the model: generations

ASSUME NoSessionAssumption == NoSession \notin Sessions
ASSUME UsersAssumption == NoUser \notin Users /\ UserOf \in [Sessions -> Users]
ASSUME SubsetsAssumption == Readable \subseteq Sessions /\ Revocable \subseteq Sessions
ASSUME KindsAssumption == Kinds \subseteq {"signIn", "request", "delete"}
ASSUME BoundsAssumption == MaxRotation \in Nat /\ MaxGen \in Nat \ {0}

VARIABLES
  issued, live, rotation, \* server: sessions made, still valid, refreshed
  gen,                    \* _sessionGeneration
  cred, user,             \* accessToken with refreshToken, and currentUser
  stored,                 \* the tokens in localStorage
  verified, cleared,      \* verifiedPair and locallyCleared of a generation
  refresh,                \* its running refresh
  signOut,                \* its sign-out
  exchange,               \* an OAuth exchange is pending
  consumed,               \* _urlSessionConsumed
  call,                   \* the calls in flight
  owner,                  \* history: the session last established
  unsaved,                \* history: that was in memory only
  replaced                \* history: refresh tokens a generation saw replaced

server == <<issued, live, rotation>>
session == <<gen, cred, user, stored, owner, unsaved>>
operations == <<verified, cleared, refresh, signOut, replaced>>
redirect == <<exchange, consumed>>
vars == <<server, session, operations, redirect, call>>

Gens == 0..MaxGen

NoToken == [sid |-> NoSession, n |-> 0]
Tokens == [sid : Sessions, n : 0..MaxRotation] \cup {NoToken}
Creds == [access : Tokens, refresh : Tokens]
NoCreds == [access |-> NoToken, refresh |-> NoToken]

\* Both tokens of a session as its n-th refresh left them.
Pair(s, n) == [access |-> [sid |-> s, n |-> n], refresh |-> [sid |-> s, n |-> n]]
Latest(s) == Pair(s, rotation[s])

\* The server's answers to a refresh: 200, 401 or 403, 429, anything else.
Answers == {"ok", "denied", "limited", "lost"}

NoRefresh == [st |-> "none", cred |-> NoCreds, user |-> NoUser, was |-> FALSE, pair |-> NoCreds]
NoSignOut == [st |-> "none", cred |-> NoCreds, user |-> NoUser, prior |-> "none",
              pair |-> NoCreds, sent |-> NoToken, ended |-> {}, error |-> FALSE]
NoCall == [st |-> "idle", gen |-> 0, cred |-> NoCreds, deletes |-> FALSE, sent |-> NoToken]

\* That the client never holds a refresh token alone is part of it.
TypeOK ==
  /\ live \subseteq issued /\ issued \subseteq Sessions
  /\ rotation \in [Sessions -> 0..MaxRotation]
  /\ gen \in Gens /\ cred \in Creds /\ user \in Users \cup {NoUser} /\ stored \in Creds
  /\ cred.refresh # NoToken => cred.access # NoToken
  /\ verified \in [Gens -> Creds] /\ cleared \in [Gens -> BOOLEAN]
  /\ refresh \in [Gens -> [st : {"none", "asked"} \cup Answers, cred : Creds,
                           user : Users \cup {NoUser}, was : BOOLEAN, pair : Creds]]
  /\ signOut \in [Gens ->
       [st : {"none", "waiting", "due", "logout", "revoke", "refreshing", "again", "settled"},
        cred : Creds, user : Users \cup {NoUser}, prior : {"none", "ok", "failed"}, pair : Creds,
        sent : Tokens, ended : SUBSET Sessions, error : BOOLEAN]]
  /\ exchange \in BOOLEAN /\ consumed \in BOOLEAN
  /\ call \in [Calls ->
       [st : {"idle", "signing", "first", "waiting", "refreshed", "failed", "second"},
        gen : Gens, cred : Creds, deletes : BOOLEAN, sent : Tokens]]
  /\ owner \in Sessions \cup {NoSession} /\ unsaved \in BOOLEAN
  /\ replaced \in [Gens -> SUBSET Tokens]

\* A page opens with nothing stored, maybe on the callback of an OAuth sign-in.
Init ==
  /\ issued = {} /\ live = {} /\ rotation = [s \in Sessions |-> 0]
  /\ gen = 0 /\ cred = NoCreds /\ user = NoUser /\ stored = NoCreds
  /\ exchange \in BOOLEAN /\ consumed = FALSE
  /\ verified = [g \in Gens |-> NoCreds] /\ cleared = [g \in Gens |-> FALSE]
  /\ refresh = [g \in Gens |-> NoRefresh] /\ signOut = [g \in Gens |-> NoSignOut]
  /\ replaced = [g \in Gens |-> {}]
  /\ call = [c \in Calls |-> NoCall]
  /\ owner = NoSession /\ unsaved = FALSE

-----------------------------------------------------------------------------
\* Helpers.  A definition named Mut... is a wrong variant of the one after it.

\* A generation for whatever sets a session, one being left to clear it.
Room == gen + 1 < MaxGen

\* extractSessionIdFromToken(token) is not null.
Names(t) == t.sid \in Readable

\* hasVerifiedPair
Verified(g, c) == c.refresh # NoToken /\ verified[g] = c

\* verifyPair
VerifyPair(g, c) ==
  verified' = IF cleared[g] THEN verified ELSE [verified EXCEPT ![g] = c]

\* Mutant: an earlier generation may still set its session.
MutIsCurrent(g) == TRUE

\* isAuthContextCurrent
IsCurrent(g) == g = gen

\* Tokens of another session: the generation and its operations are new.
Establish(c, u) ==
  /\ gen' = gen + 1
  /\ cred' = c /\ user' = u
  /\ owner' = c.access.sid

\* Mutant: a session without refresh token leaves the stored one.
MutSave(c) ==
  /\ stored' = IF c.refresh = NoToken THEN [stored EXCEPT !.access = c.access] ELSE c
  /\ unsaved' = FALSE

\* Both keys of localStorage; without a refresh token its key is removed.
Save(c) == stored' = c /\ unsaved' = FALSE

\* setSession, once its generation is current: sign-ins are verified pairs.
SetSession(c, u) ==
  /\ Establish(c, u)
  /\ Save(c)
  /\ verified' = [verified EXCEPT ![gen + 1] = c]

\* clearSessionAtGeneration
ClearSession(g) ==
  IF IsCurrent(g)
  THEN /\ gen' = gen + 1 /\ cred' = NoCreds /\ user' = NoUser
       /\ stored' = NoCreds
       /\ owner' = NoSession /\ unsaved' = FALSE
  ELSE UNCHANGED session

\* The same with clearLocalCredentials, which leaves a sign-out its pair.
ClearAt(g) ==
  /\ ClearSession(g)
  /\ IF IsCurrent(g) /\ signOut[g].st = "none"
     THEN /\ cleared' = [cleared EXCEPT ![g] = TRUE]
          /\ verified' = [verified EXCEPT ![g] = NoCreds]
     ELSE UNCHANGED <<cleared, verified>>

\* clearSession: only while the refresh token is the context's.
Clear(g, c) ==
  IF c.refresh = cred.refresh THEN ClearAt(g) ELSE UNCHANGED <<session, cleared, verified>>

\* Mutant: any session's credentials continue this one.
MutContinues(c, u, new) == TRUE

\* validateSessionContinuation: the same server session, the same user.
Continues(c, u, new) ==
  /\ Names(c.access) => new.access.sid = c.access.sid
  /\ u # NoUser => UserOf[new.access.sid] = u

\* refreshSessionForContext's last checks, validateRefreshSource among them.
Refreshable(g, c) == c.refresh # NoToken /\ (Verified(g, c) \/ Names(c.access))

\* fetchSessionRefresh up to its request.
SendRefresh(g, c, u) ==
  /\ refresh' = [refresh EXCEPT ![g] =
       [st |-> "asked", cred |-> c, user |-> u, was |-> Verified(g, c), pair |-> NoCreds]]
  /\ VerifyPair(g, NoCreds)

\* AuthSessionOperations.refresh refuses otherwise.
MayRefresh(g) == signOut[g].st = "none" /\ ~cleared[g]

\* performSessionRefresh: one refresh of a generation runs at a time.
StartOrJoin(g, c) ==
  /\ MayRefresh(g)
  /\ IF refresh[g].st = "none"
     THEN SendRefresh(g, c, user)
     ELSE UNCHANGED <<refresh, verified>>

-----------------------------------------------------------------------------
\* The server.

\* A session is revoked elsewhere.
Revoke(s) ==
  /\ s \in live
  /\ live' = live \ {s}
  /\ UNCHANGED <<issued, rotation, session, operations, redirect, call>>

IsLatest(t) == t.sid \in live /\ t.n = rotation[t.sid]

\* POST /auth/refresh: the token is rotated, and the answer may be lost.  429
\* matters to a verified pair only: to another it is a failure like any.
ServerRefresh(g) ==
  LET t == refresh[g].cred.refresh
      Reply(a, p) == refresh' = [refresh EXCEPT ![g].st = a, ![g].pair = p]
  IN /\ refresh[g].st = "asked"
     /\ \/ /\ IsLatest(t) /\ rotation[t.sid] < MaxRotation
           /\ rotation' = [rotation EXCEPT ![t.sid] = @ + 1]
           /\ Reply("ok", Pair(t.sid, t.n + 1)) \/ Reply("lost", NoCreds)
        \/ ~IsLatest(t) /\ Reply("denied", NoCreds) /\ UNCHANGED rotation
        \/ refresh[g].was /\ Reply("limited", NoCreds) /\ UNCHANGED rotation
        \/ Reply("lost", NoCreds) /\ UNCHANGED rotation
  /\ UNCHANGED <<issued, live, session, verified, cleared, signOut, replaced, redirect, call>>

-----------------------------------------------------------------------------
\* Sessions are established.

SignIn(c) ==
  /\ call[c].st = "idle" /\ "signIn" \in Kinds
  /\ call' = [call EXCEPT ![c] = [NoCall EXCEPT !.st = "signing", !.gen = gen]]
  /\ UNCHANGED <<server, session, operations, redirect>>

Issue(s) == issued' = issued \cup {s} /\ live' = live \cup {s} /\ UNCHANGED rotation

\* The answer to a sign-in of generation g; a later session is kept.
Answered(g, c) ==
  IF IsCurrent(g)
  THEN Room /\ SetSession(c, UserOf[c.access.sid])
  ELSE UNCHANGED <<session, verified>>

SignInAnswers(c, s) ==
  /\ call[c].st = "signing" /\ s \notin issued
  /\ Issue(s)
  /\ Answered(call[c].gen, Pair(s, 0))
  /\ call' = [call EXCEPT ![c] = NoCall]
  /\ UNCHANGED <<cleared, refresh, signOut, replaced, redirect>>

SignInFails(c) ==
  /\ call[c].st = "signing"
  /\ call' = [call EXCEPT ![c] = NoCall]
  /\ UNCHANGED <<server, session, operations, redirect>>

\* The exchange began with the page; it may bring no refresh token.
ExchangeAnswers(s) ==
  /\ exchange /\ s \notin issued
  /\ Issue(s)
  /\ \E r \in {Pair(s, 0).refresh, NoToken} : Answered(0, [access |-> Pair(s, 0).access, refresh |-> r])
  /\ exchange' = FALSE
  /\ UNCHANGED <<cleared, refresh, signOut, replaced, consumed, call>>

ExchangeFails ==
  /\ exchange /\ exchange' = FALSE
  /\ UNCHANGED <<server, session, operations, consumed, call>>

\* auth.setSession: a complete session from elsewhere, in memory only.  Its
\* tokens need not belong together.
Adopt(s, t) ==
  /\ Room
  /\ issued' = issued \cup {s, t} /\ live' = live \cup ({s, t} \ issued)
  /\ Establish([access |-> Latest(s).access, refresh |-> Latest(t).refresh], UserOf[s])
  /\ unsaved' = TRUE
  /\ UNCHANGED <<rotation, stored, operations, redirect, call>>

\* replaceSessionFromUrl: the hosted pages hand a session over, once.
HandOver(s, withRefresh) ==
  /\ Room /\ ~consumed /\ s \notin issued
  /\ consumed' = TRUE
  /\ Issue(s)
  /\ LET c == [access |-> Pair(s, 0).access,
               refresh |-> IF withRefresh THEN Pair(s, 0).refresh ELSE NoToken]
     IN Establish(c, NoUser) /\ Save(c)
  /\ UNCHANGED <<operations, exchange, call>>

\* A new page and its client: whatever was in flight is gone.  It takes the
\* tokens the application supplies, or else those stored.  Its generations are
\* numbered on from the last page's, so that MaxGen bounds the reloads too.
Load(c) ==
  /\ Room
  /\ Establish(c, NoUser)
  /\ unsaved' = (c # stored)
  /\ consumed' = FALSE /\ exchange' = FALSE
  /\ verified' = [g \in Gens |-> NoCreds] /\ cleared' = [g \in Gens |-> FALSE]
  /\ refresh' = [g \in Gens |-> NoRefresh] /\ signOut' = [g \in Gens |-> NoSignOut]
  /\ replaced' = [g \in Gens |-> {}]
  /\ call' = [d \in Calls |-> NoCall]
  /\ UNCHANGED <<server, stored>>

LoadStored == Load(stored)

LoadSupplied(s, r) ==
  /\ s \in issued
  /\ Load([access |-> Latest(s).access, refresh |-> r])

-----------------------------------------------------------------------------
\* Refresh.

\* refreshSession()
RefreshSession ==
  /\ ~exchange
  /\ Refreshable(gen, cred) /\ refresh[gen].st = "none"
  /\ StartOrJoin(gen, cred)
  /\ UNCHANGED <<server, session, cleared, signOut, replaced, redirect, call>>

\* The credentials of an answered refresh are good ones.
GoodRefresh(g) ==
  /\ refresh[g].st = "ok"
  /\ Continues(refresh[g].cred, IF IsCurrent(g) THEN user ELSE refresh[g].user, refresh[g].pair)

\* Mutant: what is refreshed during a sign-out is adopted.
MutAdopts(g) == IsCurrent(g)

\* refreshResult and setRefreshedSession adopt what was refreshed.
Adopts(g) ==
  IsCurrent(g) /\ signOut[g].st = "none" /\ refresh[g].cred.refresh = cred.refresh

\* The end of fetchSessionRefresh for g: a replaced token is replaced for
\* good, and after 429 the old pair is still the verified one.
Verifies(g) ==
  /\ IF GoodRefresh(g) THEN VerifyPair(g, refresh[g].pair)
     ELSE IF refresh[g].st = "limited" THEN VerifyPair(g, refresh[g].cred)
     ELSE UNCHANGED verified
  /\ replaced' = IF GoodRefresh(g)
                 THEN [replaced EXCEPT ![g] = @ \cup {refresh[g].cred.refresh}]
                 ELSE replaced

\* refreshResult, and the callers that joined it continue.
RefreshSettles(g) ==
  /\ refresh[g].st \in Answers /\ signOut[g].st # "refreshing"
  /\ IF refresh[g].st = "denied" /\ signOut[g].st = "none"
     THEN Clear(g, refresh[g].cred) /\ UNCHANGED replaced
     ELSE /\ Verifies(g) /\ UNCHANGED cleared
          /\ IF GoodRefresh(g) /\ Adopts(g)
             THEN /\ cred' = refresh[g].pair /\ user' = UserOf[refresh[g].pair.access.sid]
                  /\ Save(refresh[g].pair)
                  /\ UNCHANGED <<gen, owner>>
             ELSE UNCHANGED session
  /\ signOut' = IF signOut[g].st # "waiting" THEN signOut
                ELSE [signOut EXCEPT ![g] =
                       IF GoodRefresh(g)
                       THEN [@ EXCEPT !.st = "due", !.prior = "ok", !.pair = refresh[g].pair]
                       ELSE [@ EXCEPT !.st = "due", !.prior = "failed"]]
  /\ call' = [c \in Calls |->
       IF call[c].st = "waiting" /\ call[c].gen = g
       THEN [call[c] EXCEPT !.st = IF GoodRefresh(g) THEN "refreshed" ELSE "failed"]
       ELSE call[c]]
  /\ refresh' = [refresh EXCEPT ![g] = NoRefresh]
  /\ UNCHANGED <<server, redirect>>

-----------------------------------------------------------------------------
\* Authenticated requests: getUser and those like it, which take the user of
\* the answer, and deleteSession of the session the access token names.

Request(c, deletes) ==
  /\ call[c].st = "idle" /\ (IF deletes THEN "delete" ELSE "request") \in Kinds
  /\ ~exchange /\ cred.access # NoToken
  /\ deletes => Names(cred.access)
  /\ call' = [call EXCEPT ![c] = [st |-> "first", gen |-> gen, cred |-> cred,
                                  deletes |-> deletes, sent |-> cred.access]]
  /\ UNCHANGED <<server, session, operations, redirect>>

Requesting(c) == call[c].st \in {"first", "second"}

\* isUserResponseCurrent
SameUser(c) ==
  IsCurrent(call[c].gen) /\ user \in {NoUser, UserOf[call[c].sent.sid]}

RequestSucceeds(c) ==
  /\ Requesting(c) /\ call[c].sent.sid \in live
  /\ IF call[c].deletes
     THEN /\ live' = live \ {call[c].sent.sid}
          /\ ClearAt(call[c].gen)
     ELSE /\ user' = IF SameUser(c) THEN UserOf[call[c].sent.sid] ELSE user
          /\ UNCHANGED <<live, gen, cred, stored, owner, unsaved, cleared, verified>>
  /\ call' = [call EXCEPT ![c] = NoCall]
  /\ UNCHANGED <<issued, rotation, refresh, signOut, replaced, redirect>>

\* No answer: a deletion whose outcome is uncertain clears too.
RequestLost(c) ==
  /\ Requesting(c)
  /\ IF call[c].deletes
     THEN live' \in {live, live \ {call[c].sent.sid}} /\ ClearAt(call[c].gen)
     ELSE UNCHANGED <<live, session, cleared, verified>>
  /\ call' = [call EXCEPT ![c] = NoCall]
  /\ UNCHANGED <<issued, rotation, refresh, signOut, replaced, redirect>>

Ends(c) == call' = [call EXCEPT ![c] = NoCall] /\ UNCHANGED <<refresh, verified>>

SendAgain(c) == call' = [call EXCEPT ![c].st = "second", ![c].sent = cred.access]

\* Mutant: the token is refreshed although another call just did.
MutAlreadyRefreshed(c) == FALSE

\* refreshSessionForContext answers without a refresh.
AlreadyRefreshed(c) == call[c].cred.refresh # cred.refresh

\* 401: an expired or revoked access token.  The first one is refreshed.
RequestDenied(c) ==
  LET g == call[c].gen
  IN /\ Requesting(c)
     /\ IF \/ call[c].st = "second" \/ call[c].cred.refresh = NoToken \/ ~IsCurrent(g)
        THEN Ends(c)
        ELSE IF AlreadyRefreshed(c)
        THEN SendAgain(c) /\ UNCHANGED <<refresh, verified>>
        ELSE IF Refreshable(g, call[c].cred) /\ MayRefresh(g)
        THEN StartOrJoin(g, call[c].cred) /\ call' = [call EXCEPT ![c].st = "waiting"]
        ELSE Ends(c)
  /\ UNCHANGED <<server, session, cleared, signOut, replaced, redirect>>

\* Mutant: the request is sent again whatever session is there by then.
MutMaySendAgain(c) == call[c].st = "refreshed"

\* settledRefresh, and the check before the second request.
MaySendAgain(c) ==
  call[c].st = "refreshed" /\ IsCurrent(call[c].gen) /\ signOut[call[c].gen].st = "none"

RequestResumes(c) ==
  /\ call[c].st \in {"refreshed", "failed"}
  /\ IF MaySendAgain(c)
     THEN SendAgain(c)
     ELSE call' = [call EXCEPT ![c] = NoCall]
  /\ UNCHANGED <<server, session, operations, redirect>>

-----------------------------------------------------------------------------
\* Sign-out.

\* Mutant: sign-out waits for a refresh that nobody started.
MutSignOutBegins(g) == "waiting"

\* AuthSessionOperations.signOut: the refresh under way is let through first.
SignOutBegins(g) == IF refresh[g].st = "none" THEN "due" ELSE "waiting"

\* signOut(), when there is a session; one sign-out of a generation runs.
SignOut ==
  /\ ~exchange /\ cred # NoCreds /\ signOut[gen].st = "none"
  /\ signOut' = [signOut EXCEPT ![gen] =
       [NoSignOut EXCEPT !.st = SignOutBegins(gen), !.cred = cred, !.user = user]]
  /\ UNCHANGED <<server, session, verified, cleared, refresh, replaced, redirect, call>>

\* credentialsForSignOut
SignOutCreds(g) == IF signOut[g].prior = "ok" THEN signOut[g].pair ELSE signOut[g].cred

\* Mutant: a refresh token that came with the access token is trusted.
MutByAccess(g) == Names(signOut[g].cred.access) /\ SignOutCreds(g).refresh = NoToken

\* The session the access token names is revoked by its name, unless the
\* refresh token is known to be of the same one.
ByAccess(g) == Names(signOut[g].cred.access) /\ ~Verified(g, SignOutCreds(g))

\* What finishSignOut clears is what the sign-out captured.
Finishes(g) ==
  /\ IsCurrent(g)
  /\ Names(signOut[g].cred.access) \/ signOut[g].cred.refresh = cred.refresh

\* finishSignOut, and the operations' own end: no pair is verified any more.
Finish(g, failed, ends) ==
  /\ IF Finishes(g) THEN ClearSession(gen) ELSE UNCHANGED session
  /\ signOut' = [signOut EXCEPT ![g] = [NoSignOut EXCEPT
       !.st = "settled", !.cred = signOut[g].cred,
       !.error = failed \/ ~Finishes(g), !.ended = ends]]
  /\ VerifyPair(g, NoCreds)
  /\ UNCHANGED cleared

\* logoutError up to its first request.
SignOutSends(g) ==
  LET so == signOut[g]
      creds == SignOutCreds(g)
      Sends(st, t) == /\ signOut' = [signOut EXCEPT ![g].st = st, ![g].sent = t]
                      /\ UNCHANGED <<session, verified, cleared>>
  IN /\ so.st = "due"
     /\ IF ByAccess(g) THEN Sends("revoke", creds.access)
        ELSE IF creds.refresh = NoToken THEN Finish(g, FALSE, {})
        ELSE IF so.prior = "failed" /\ ~Verified(g, creds) THEN Finish(g, TRUE, {})
        ELSE Sends("logout", creds.refresh)
  /\ UNCHANGED <<server, refresh, replaced, redirect, call>>

\* POST /auth/logout; an error may follow what the server did.
LogoutSettles(g) ==
  LET s == signOut[g].sent.sid
  IN /\ signOut[g].st = "logout"
     /\ \/ IsLatest(signOut[g].sent) /\ live' = live \ {s} /\ \E e \in BOOLEAN : Finish(g, e, {s})
        \/ UNCHANGED live /\ Finish(g, TRUE, {})
  /\ UNCHANGED <<issued, rotation, refresh, replaced, redirect, call>>

Revoking(g) == signOut[g].st \in {"revoke", "again"}

\* DELETE /auth/user/sessions/<the session the access token names>.
RevokeSettles(g) ==
  LET s == signOut[g].cred.access.sid
  IN /\ Revoking(g)
     /\ \/ /\ signOut[g].sent.sid \in live /\ live' = live \ {s}
           /\ \E e \in BOOLEAN : Finish(g, e, {s})
        \/ UNCHANGED live /\ Finish(g, TRUE, {})
  /\ UNCHANGED <<issued, rotation, refresh, replaced, redirect, call>>

\* 401: unless a refresh has run already, one is made for this alone.
RevokeDenied(g) ==
  /\ signOut[g].st = "revoke"
  /\ signOut[g].cred.refresh # NoToken /\ signOut[g].prior = "none"
  /\ SendRefresh(g, signOut[g].cred, signOut[g].user)
  /\ signOut' = [signOut EXCEPT ![g].st = "refreshing"]
  /\ UNCHANGED <<server, session, cleared, replaced, redirect, call>>

\* revokeAccessSession after that refresh.
SignOutRefreshed(g) ==
  /\ signOut[g].st = "refreshing" /\ refresh[g].st \in Answers
  /\ IF GoodRefresh(g)
     THEN /\ Verifies(g)
          /\ signOut' = [signOut EXCEPT ![g].st = "again", ![g].sent = refresh[g].pair.access]
          /\ UNCHANGED <<session, cleared>>
     ELSE Finish(g, TRUE, {}) /\ UNCHANGED replaced
  /\ refresh' = [refresh EXCEPT ![g] = NoRefresh]
  /\ UNCHANGED <<server, redirect, call>>

-----------------------------------------------------------------------------
CallStep(c) ==
  \/ \E s \in Sessions : SignInAnswers(c, s)
  \/ SignInFails(c)
  \/ RequestSucceeds(c) \/ RequestLost(c) \/ RequestDenied(c) \/ RequestResumes(c)

RefreshStep(g) == ServerRefresh(g) \/ RefreshSettles(g)

SignOutStep(g) ==
  \/ SignOutSends(g) \/ LogoutSettles(g) \/ RevokeSettles(g) \/ RevokeDenied(g)
  \/ SignOutRefreshed(g)

ExchangeStep == ExchangeFails \/ \E s \in Sessions : ExchangeAnswers(s)

Next ==
  \/ \E s \in Revocable : Revoke(s)
  \/ ExchangeStep
  \/ \E c \in Calls : SignIn(c) \/ (\E d \in BOOLEAN : Request(c, d)) \/ CallStep(c)
  \/ \E s, t \in Sessions : Adopt(s, t)
  \/ \E s \in Sessions, r \in BOOLEAN : HandOver(s, r)
  \/ LoadStored
  \/ \E s \in Sessions, t \in issued : LoadSupplied(s, Latest(t).refresh)
  \/ \E s \in Sessions : LoadSupplied(s, NoToken)
  \/ RefreshSession \/ SignOut
  \/ \E g \in Gens : RefreshStep(g) \/ SignOutStep(g)

Spec == Init /\ [][Next]_vars

\* The event loop runs what waited for an answer.  Nothing is assumed of the
\* answers themselves: one whose body stalls after its head is ended by nothing.
Fairness ==
  /\ \A g \in Gens :
       WF_vars(RefreshSettles(g)) /\ WF_vars(SignOutSends(g)) /\ WF_vars(SignOutRefreshed(g))
  /\ \A c \in Calls : WF_vars(RequestResumes(c))

FairSpec == Spec /\ Fairness

-----------------------------------------------------------------------------
\* Properties

\* The tokens are those of the session last established by a sign-in, an
\* adoption, a redirect or a page load, and none after it was cleared: no
\* late refresh brings another session, or one that was cleared, back.  And
\* currentUser is never the profile of another session's user.
OwnSession ==
  /\ cred.access.sid = owner
  /\ user # NoUser => cred.access # NoToken /\ user = UserOf[cred.access.sid]

\* What was begun under an earlier session leaves the session alone: a late
\* answer to a sign-in, an exchange, a request, a refresh or a sign-out.
EarlierChangesNothing ==
  [][ \/ UNCHANGED session
      \/ /\ \A c \in Calls : call[c].gen = gen \/ ~CallStep(c)
         /\ \A g \in Gens \ {gen} : ~RefreshStep(g) /\ ~SignOutStep(g)
         /\ gen = 0 \/ ~ExchangeStep ]_vars

\* What a reload will find: unless a session was adopted in memory, the very
\* tokens in memory; never the two tokens of different sessions; and nothing
\* once the client is signed out.
StorageFollows ==
  /\ unsaved \/ stored = cred
  /\ cred = NoCreds => stored = NoCreds
  /\ stored.refresh # NoToken => stored.refresh.sid = stored.access.sid

\* Once sign-out has answered, the session it captured is not the client's.
SignedOutForGood == \A g \in Gens : signOut[g].st = "settled" => gen # g

\* The sign-out has a session to ask for: its access token names it, or there is
\* a refresh token.
Endable(g) == Names(signOut[g].cred.access) \/ signOut[g].cred.refresh # NoToken

\* The session captured: the one its access token names; where that token names
\* none, the one of the refresh token that came with it, if any did.
Target(g) ==
  LET c == signOut[g].cred
  IN IF Names(c.access) \/ c.refresh = NoToken THEN c.access.sid ELSE c.refresh.sid

\* A sign-out ends no session but the one it captured, and when it reports no
\* error that session has ended, with one exception: for an access token that
\* names no session and came without a refresh token logoutError sends nothing
\* and reports nothing, and the server's session lives on.
SignOutEndsItsOwn ==
  \A g \in Gens :
    /\ signOut[g].ended \subseteq IF Endable(g) THEN {Target(g)} ELSE {}
    /\ signOut[g].st = "settled" /\ ~signOut[g].error /\ Endable(g) => Target(g) \notin live

\* No refresh token is sent again once its replacement is known.
NoTokenSentAgain ==
  \A g \in Gens :
    /\ refresh[g].st = "asked" => refresh[g].cred.refresh \notin replaced[g]
    /\ signOut[g].st = "logout" => signOut[g].sent \notin replaced[g]

\* A request is sent again only under the session it was first sent under.
SentAgainAsItself ==
  \A c \in Calls : call[c].st = "second" => call[c].sent.sid = call[c].cred.access.sid

\* What is asked of the server for generation g is answered: its refreshes, and
\* what its sign-out sends.
RefreshNeverHangs(g) == []<>(refresh[g].st # "asked")
SignOutNeverHangs(g) == []<>(signOut[g].st \notin {"logout", "revoke", "again"})

\* A sign-out and a call wait for nothing but the very requests they are made
\* of: a sign-out for the refresh of its generation and its own requests, a call
\* for its own and the refresh it joined.  Where these are answered it ends, or
\* the page does, whatever is never answered elsewhere.
Settles ==
  /\ \A g \in Gens : RefreshNeverHangs(g) /\ SignOutNeverHangs(g) =>
       (signOut[g].st \notin {"none", "settled"} ~> signOut[g].st \in {"none", "settled"})
  /\ \A c \in Calls, g \in Gens :
       RefreshNeverHangs(g) /\ []<>(call[c].st \notin {"signing", "first", "second"}) =>
       (call[c].st # "idle" /\ call[c].gen = g ~> call[c].st = "idle")
=============================================================================
