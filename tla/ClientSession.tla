----------------------------- MODULE ClientSession -----------------------------
(***************************************************************************)
(* The session as the calls of a client see it: AuthSession reduced to its *)
(* generation and to how often its tokens were refreshed.  Every session   *)
(* has a refresh token.  Calls in flight are modelled by the modules that  *)
(* extend this one; what changes the session beside them is here.          *)
(***************************************************************************)
EXTENDS Naturals

CONSTANTS
  MaxGen,      \* bound of the model: generations of the session
  MaxRotation, \* bound of the model: tokens of one generation
  MaxEvents    \* bound of the model: what happens meanwhile

VARIABLES
  gen, tok,  \* _sessionGeneration, and accessToken, 0 when there is none
  pending,   \* pendingSignOut() of the generation
  denied,    \* the generations whose refresh cleared them: refreshClearedSession
  exchange,  \* _oauthExchangePromise
  events     \* counts what is bounded by MaxEvents

session == <<gen, tok, pending, denied, exchange>>

Contexts == [gen : 0..MaxGen, tok : 0..MaxRotation]
Current == [gen |-> gen, tok |-> tok]
IsCurrent(x) == x.gen = gen

SessionInit ==
  /\ gen = 1 /\ tok \in {0, 1} /\ pending = FALSE /\ denied = {}
  /\ exchange \in {x \in BOOLEAN : x => tok = 0}
  /\ events = 0

Event == events < MaxEvents /\ events' = events + 1

\* A session begins, or the present one ends.
NewSession(t) ==
  /\ gen < MaxGen /\ gen' = gen + 1
  /\ tok' = t /\ pending' = FALSE

SignIn == Event /\ NewSession(1) /\ UNCHANGED <<denied, exchange>>

SignOutBegins ==
  /\ Event /\ tok # 0 /\ ~pending /\ pending' = TRUE
  /\ UNCHANGED <<gen, tok, denied, exchange>>

SignOutEnds == pending /\ NewSession(0) /\ UNCHANGED <<denied, exchange, events>>

\* A request of another kind refreshed the session.
RefreshedElsewhere ==
  /\ Event /\ tok \in 1..(MaxRotation - 1) /\ ~pending
  /\ tok' = tok + 1
  /\ UNCHANGED <<gen, pending, denied, exchange>>

\* The exchange of the page's first generation; a later session is kept.
ExchangeEnds ==
  /\ exchange /\ exchange' = FALSE
  /\ \/ gen = 1 /\ NewSession(1)
     \/ UNCHANGED <<gen, tok, pending>>
  /\ UNCHANGED <<denied, events>>

SessionChanges ==
  SignIn \/ SignOutBegins \/ SignOutEnds \/ RefreshedElsewhere \/ ExchangeEnds

-----------------------------------------------------------------------------
\* refreshSessionForContext, of a call with context x.

\* What is known without a request: "same" when another call refreshed.
Asked(x) ==
  IF ~IsCurrent(x) THEN "discarded"
  ELSE IF x.tok # tok THEN "same"
  ELSE IF tok = 0 THEN "failed"
  ELSE IF pending THEN "discarded" ELSE "none"

\* The refresh of generation g is answered.  What it brings is adopted, and a
\* session that is over is left, unless a sign-out began.
Taken(g, answer) ==
  IF g # gen \/ pending \/ answer = "failed"
  THEN UNCHANGED <<gen, tok, pending, denied>>
  ELSE IF answer = "ok"
  THEN tok < MaxRotation /\ tok' = tok + 1 /\ UNCHANGED <<gen, pending, denied>>
  ELSE NewSession(0) /\ denied' = denied \cup {g}

\* settledRefresh, and the check of its context by the call that goes on.
Refreshed(x, ans) == IsCurrent(x) /\ (ans = "same" \/ (ans = "ok" /\ ~pending))
Discarded(x, ans) == ans \in {"ok", "same", "discarded"} /\ ~Refreshed(x, ans)
================================================================================
