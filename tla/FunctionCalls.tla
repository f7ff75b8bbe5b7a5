----------------------------- MODULE FunctionCalls -----------------------------
(***************************************************************************)
(* Function invocations of one client: the name is resolved through the    *)
(* cache that all clients share, with the requests in flight shared too,   *)
(* the function is invoked with the current credential, and a 401 or a 404 *)
(* of the platform is recovered from: by one refresh, by one resolution    *)
(* afresh.  Meanwhile the session may be refreshed, left or replaced, and  *)
(* the function deleted and made anew.                                     *)
(*                                                                         *)
(* One function name: a key of the cache is then the credential.           *)
(***************************************************************************)
EXTENDS ClientSession, FiniteSets

CONSTANTS
  Calls,       \* invocations in flight
  MaxEntries,  \* maxEntries of the cache
  MaxId        \* bound of the model: times the function is made

ASSUME BoundsAssumption ==
  {MaxEntries, MaxGen, MaxRotation, MaxId, MaxEvents} \subseteq Nat \ {0}

VARIABLES
  deployed,  \* the platform: the function's latest id
  exists,    \* the platform: it is not deleted
  cache, inFlight, flight, \* FunctionResolveState and its requests
  call,
  ran,       \* history: how often a call's function ran
  used       \* history: the identities a call sent requests as

platform == <<deployed, exists>>
shared == <<cache, inFlight, flight>>
vars == <<session, platform, shared, call, events, ran, used>>

\* What a resolution answers: an id, 404, 401, or anything else.
Ids == 1..MaxId
NotFound == 0
Denied == MaxId + 1

\* No answer, or one without a valid id and time to live.
Lost == MaxId + 2

\* No entry, or one that another copy of the SDK left and that cannot be read.
None == MaxId + 3

\* A call owns at most two requests: its second follows a refresh.
Flights == Calls \X {1, 2}
Nobody == <<>>
Anon == [gen |-> 0, tok |-> 0]
NoFlight == [st |-> "none", key |-> Anon, out |-> None]
NoCall == [st |-> "idle", op |-> Anon, ctx |-> Anon, anon |-> FALSE, round |-> 1,
           again |-> FALSE, fl |-> Nobody, out |-> None, key |-> Anon, ans |-> "none",
           gone |-> None, cleared |-> Anon, told |-> "none"]

Init ==
  /\ SessionInit
  /\ deployed = 1 /\ exists = TRUE
  /\ cache = [k \in Contexts |-> None] /\ inFlight = [k \in Contexts |-> Nobody]
  /\ flight = [f \in Flights |-> NoFlight]
  /\ call = [c \in Calls |-> NoCall]
  /\ ran = [c \in Calls |-> 0] /\ used = [c \in Calls |-> {}]

-----------------------------------------------------------------------------
\* The surroundings.

\* The function is deleted; a function of its name has another id.
Delete ==
  /\ Event /\ exists /\ exists' = FALSE
  /\ UNCHANGED <<deployed, session, shared, call, ran, used>>

MakeAnew ==
  /\ Event /\ ~exists /\ deployed < MaxId
  /\ exists' = TRUE /\ deployed' = deployed + 1
  /\ UNCHANGED <<session, shared, call, ran, used>>

\* An entry whose time is over is dropped when it is next seen.
Expire(k) ==
  /\ Event /\ cache[k] # None
  /\ cache' = [cache EXCEPT ![k] = None]
  /\ UNCHANGED <<session, platform, inFlight, flight, call, ran, used>>

-----------------------------------------------------------------------------
\* Resolution.  A definition named Mut... is a wrong variant of the one after it.

\* functionResolveCacheKey: all anonymous calls have the anon key.
KeyOf(r) == IF r.anon THEN Anon ELSE r.ctx

\* Who a request with this credential is from; 0 is the anon key's bearer.
As(r, x) == IF r.anon THEN 0 ELSE x.gen

\* finalize
Finalized(r, t) ==
  [NoCall EXCEPT !.st = "ended",
                 !.told = IF IsCurrent(r.op) \/ t = "discarded" THEN t ELSE "changed"]

\* A resolution failed: initialResolution returns that as it is.
Failed(r, t) ==
  IF r.round = 1 THEN [NoCall EXCEPT !.st = "ended", !.told = t] ELSE Finalized(r, t)

\* Mutant: the owner takes away whatever is shared under its keys by now.
MutRelease(c, shares) ==
  [k \in Contexts |-> IF \E i \in {1, 2} : flight[<<c, i>>].st # "none" /\ flight[<<c, i>>].key = k
                      THEN Nobody ELSE shares[k]]

\* The finally of resolveUncachedFunction, for the requests the call owns.
Release(c, shares) ==
  [k \in Contexts |-> IF shares[k] # Nobody /\ shares[k][1] = c THEN Nobody ELSE shares[k]]

Leave(c, r, shares) ==
  /\ call' = [call EXCEPT ![c] = r]
  /\ inFlight' = Release(c, shares)
  /\ flight' = [f \in Flights |-> IF f[1] = c THEN NoFlight ELSE flight[f]]

\* _resolveFunctionIdByName, with the cache and the shared requests as its
\* caller left them.  A request is sent with the context's credential.
Resolve(c, r, entries, shares) ==
  LET k == KeyOf(r)
      f == <<c, IF r.again THEN 2 ELSE 1>>
      waits == [r EXCEPT !.st = "resolving", !.key = k, !.out = None]
      Joined(e) == IF flight[e].st = "settled" THEN flight[e].out ELSE None
      sends == IsCurrent(r.ctx) /\ entries[k] \notin Ids \cup {NotFound} /\ shares[k] = Nobody
  IN /\ cache' = entries
     /\ used' = IF sends THEN [used EXCEPT ![c] = @ \cup {As(r, r.ctx)}] ELSE used
     /\ IF ~IsCurrent(r.ctx) THEN Leave(c, Failed(r, "changed"), shares)
        ELSE IF entries[k] \in Ids
        THEN Leave(c, [waits EXCEPT !.st = "resolved", !.out = entries[k]], shares)
        ELSE IF entries[k] = NotFound THEN Leave(c, Failed(r, "failed"), shares)
        ELSE IF shares[k] # Nobody
        THEN /\ call' = [call EXCEPT ![c] = [waits EXCEPT !.fl = shares[k], !.out = Joined(shares[k])]]
             /\ inFlight' = shares
             /\ UNCHANGED flight
        ELSE /\ call' = [call EXCEPT ![c] = [waits EXCEPT !.fl = f]]
             /\ inFlight' = [shares EXCEPT ![k] = f]
             /\ flight' = [flight EXCEPT ![f] = [st |-> "sent", key |-> k, out |-> None]]

\* The platform answers GET /functions/resolve.
FlightAnswers(f) ==
  /\ flight[f].st = "sent"
  /\ \E out \in {IF exists THEN deployed ELSE NotFound, Denied, Lost} :
       flight' = [flight EXCEPT ![f] = [@ EXCEPT !.st = "answered", !.out = out]]
  /\ UNCHANGED <<session, platform, cache, inFlight, call, events, ran, used>>

Entries(entries) == {k \in Contexts : entries[k] # None}

\* An id or a 404 is cached, and what is then too much is dropped; which
\* entries depends on the time each is given by the platform.
Remembered(k, out) ==
  LET filled == [cache EXCEPT ![k] = out]
      excess == IF Cardinality(Entries(filled)) > MaxEntries
                THEN Cardinality(Entries(filled)) - MaxEntries ELSE 0
  IN \E drop \in {d \in SUBSET Entries(filled) : Cardinality(d) = excess} :
       cache' = [j \in Contexts |-> IF j \in drop THEN None ELSE filled[j]]

\* resolveFunctionByHttp ends, and all that share it are told.
FlightSettles(f) ==
  LET out == flight[f].out
  IN /\ flight[f].st = "answered"
     /\ flight' = [flight EXCEPT ![f].st = "settled"]
     /\ IF out \in Ids \cup {NotFound} THEN Remembered(flight[f].key, out) ELSE UNCHANGED cache
     /\ call' = [c \in Calls |-> IF call[c].fl = f THEN [call[c] EXCEPT !.out = out] ELSE call[c]]
     /\ UNCHANGED <<session, platform, inFlight, events, ran, used>>


-----------------------------------------------------------------------------
\* Refresh within a call.

Waiting(c) == call[c].st \in {"refreshing", "refreshing to send"} /\ call[c].ans = "none"

\* refreshSessionForContext up to its request.
Refreshes(r, st) == [r EXCEPT !.st = st, !.ans = Asked(r.ctx)]

\* The refresh of generation g ends for all that joined it.
RefreshEnds(g) ==
  /\ \E c \in Calls : Waiting(c) /\ call[c].ctx.gen = g
  /\ \E answer \in {"ok", "denied", "failed"} :
       /\ call' = [c \in Calls |->
            IF Waiting(c) /\ call[c].ctx.gen = g THEN [call[c] EXCEPT !.ans = answer] ELSE call[c]]
       /\ Taken(g, answer)
  /\ UNCHANGED <<exchange, platform, shared, events, ran, used>>

-----------------------------------------------------------------------------
\* Invocation.

\* invokeFunction: a name that is none, or a payload that is no JSON.
Rejected(c) ==
  /\ call[c].st = "idle"
  /\ call' = [call EXCEPT ![c] = [@ EXCEPT !.st = "ended", !.told = "invalid"]]
  /\ UNCHANGED <<session, platform, shared, events, ran, used>>

\* FunctionInvocation.run up to its first wait.
Begin(c) ==
  /\ call[c].st = "idle"
  /\ call' = [call EXCEPT ![c] =
       IF pending THEN [@ EXCEPT !.st = "ended", !.told = "changed"]
       ELSE IF exchange THEN [@ EXCEPT !.st = "exchanging"]
       ELSE [@ EXCEPT !.st = "ready", !.op = Current, !.ctx = Current, !.anon = (tok = 0)]]
  /\ UNCHANGED <<session, platform, shared, events, ran, used>>

\* completeOAuthExchange: the call is made as who signed in by then.
AfterExchange(c) ==
  /\ call[c].st = "exchanging" /\ ~exchange
  /\ call' = [call EXCEPT ![c] =
       [@ EXCEPT !.st = "ready", !.op = Current, !.ctx = Current, !.anon = (tok = 0)]]
  /\ UNCHANGED <<session, platform, shared, events, ran, used>>

FirstResolution(c) ==
  /\ call[c].st = "ready"
  /\ Resolve(c, call[c], cache, inFlight)
  /\ UNCHANGED <<session, platform, events, ran>>

\* awaitFunctionResolution and handleFunctionResolutionError
Resolved(c) ==
  LET r == call[c]
  IN /\ r.st = "resolving" /\ r.out # None
     /\ IF ~IsCurrent(r.ctx) THEN Leave(c, Failed(r, "changed"), inFlight)
        ELSE IF r.out \in Ids THEN Leave(c, [r EXCEPT !.st = "resolved", !.fl = Nobody], inFlight)
        ELSE IF r.out = Denied /\ ~r.anon /\ ~r.again
        THEN /\ call' = [call EXCEPT ![c] = Refreshes([r EXCEPT !.fl = Nobody], "refreshing")]
             /\ UNCHANGED <<inFlight, flight>>
        ELSE Leave(c, Failed(r, "failed"), inFlight)
     /\ UNCHANGED <<session, platform, cache, events, ran, used>>

\* retryFunctionResolution after its refresh
ResolvesAgain(c) ==
  LET r == call[c]
  IN /\ r.st = "refreshing" /\ r.ans # "none"
     /\ IF Refreshed(r.ctx, r.ans)
        THEN Resolve(c, [r EXCEPT !.ctx = Current, !.again = TRUE], cache, inFlight)
        ELSE /\ Leave(c, Failed(r, IF Discarded(r.ctx, r.ans) THEN "discarded" ELSE "failed"), inFlight)
             /\ UNCHANGED <<cache, used>>
     /\ UNCHANGED <<session, platform, events, ran>>

\* invokeWithCurrentCredential and invokeOnce
MaySend(r) == IsCurrent(r.op) /\ (r.anon \/ tok # 0) /\ ~pending

\* request: the present credential is sent.
Send(c, r, again) ==
  /\ call' = [call EXCEPT ![c] =
       [r EXCEPT !.st = "invoking", !.ctx = Current, !.again = again, !.ans = "none"]]
  /\ used' = [used EXCEPT ![c] = @ \cup {As(r, Current)}]

Invoke(c) ==
  LET r == call[c]
  IN /\ r.st = "resolved"
     /\ IF MaySend(r) THEN Send(c, r, FALSE)
        ELSE call' = [call EXCEPT ![c] = Finalized(r, "changed")] /\ UNCHANGED used
     /\ UNCHANGED <<session, platform, shared, events, ran>>

\* The platform refuses the request, or runs the function, which answers what
\* it likes; the answer may be lost.  Of the platform it is assumed that an error
\* it answers without its marker came before the function ran: were a 504 of its
\* own to follow a run, the SDK could not tell it from a refusal.
Answers(c) ==
  /\ call[c].st = "invoking" /\ call[c].ans = "none"
  /\ \/ /\ \E a \in {"401", "lost"} : call' = [call EXCEPT ![c].ans = a]
        /\ UNCHANGED ran
     \/ /\ ~exists \/ call[c].out # deployed
        /\ call' = [call EXCEPT ![c].ans = "404"]
        /\ UNCHANGED ran
     \/ /\ exists /\ call[c].out = deployed
        /\ ran' = [ran EXCEPT ![c] = @ + 1]
        /\ \E a \in {"its own", "its own 401", "its own 404", "lost"} :
             call' = [call EXCEPT ![c].ans = a]
  /\ UNCHANGED <<session, platform, shared, events, used>>

\* Mutant: the marker of the platform is not looked at.
MutDispatched(a) == FALSE

\* functionWasDispatched
Dispatched(a) == a \in {"its own", "its own 401", "its own 404"}

Refused(a, status) ==
  /\ ~Dispatched(a)
  /\ a \in (IF status = 401 THEN {"401", "its own 401"} ELSE {"404", "its own 404"})

\* What clearFunctionResolveCache leaves of the requests in flight.
Forgotten(k, shares) == [shares EXCEPT ![k] = Nobody]

\* transportFailure: the function may have run or not.
TransportFailure(r) == Finalized(r, "lost")

\* functionInvokeResult: a refusal of the platform's is an error, anything the
\* function answered is its result.
Result(a) == IF Dispatched(a) THEN a ELSE "refused"

\* The answer: 401 refreshes once, 404 resolves afresh once.
Answered(c) ==
  LET r == call[c]
  IN /\ r.st = "invoking" /\ r.ans # "none"
     /\ IF Refused(r.ans, 401) /\ ~r.anon /\ ~r.again
        THEN call' = [call EXCEPT ![c] = Refreshes(r, "refreshing to send")]
             /\ UNCHANGED <<shared, used>>
        ELSE IF Refused(r.ans, 404) /\ r.round = 1 /\ IsCurrent(r.op)
        THEN Resolve(c, [r EXCEPT !.round = 2, !.ctx = Current, !.again = FALSE, !.gone = r.out,
                                  !.cleared = r.key, !.ans = "none"],
                     [cache EXCEPT ![r.key] = None], Forgotten(r.key, inFlight))
        ELSE /\ call' = [call EXCEPT ![c] =
                  IF r.ans = "lost" THEN TransportFailure(r) ELSE Finalized(r, Result(r.ans))]
             /\ UNCHANGED <<shared, used>>
     /\ UNCHANGED <<session, platform, events, ran>>

\* captureRefreshClear: the call's own refresh ended its session.
Cleared(r) == r.ctx.gen \in denied /\ gen = r.ctx.gen + 1

\* refreshAndRetry and retryWithFreshCredential
SendsAgain(c) ==
  LET r == call[c]
  IN /\ r.st = "refreshing to send" /\ r.ans # "none"
     /\ IF Refreshed(r.ctx, r.ans) /\ ~pending THEN Send(c, r, TRUE)
        ELSE /\ call' = [call EXCEPT ![c] =
                  IF Refreshed(r.ctx, r.ans) THEN Finalized(r, "changed")
                  ELSE IF Discarded(r.ctx, r.ans) THEN Finalized(r, "discarded")
                  ELSE Finalized(IF Cleared(r) THEN [r EXCEPT !.op = Current] ELSE r, "refused")]
             /\ UNCHANGED used
     /\ UNCHANGED <<session, platform, shared, events, ran>>

-----------------------------------------------------------------------------
\* What a call waits for, itself and the platform.
Progress(c) ==
  \/ AfterExchange(c) \/ FirstResolution(c) \/ Resolved(c) \/ ResolvesAgain(c)
  \/ Invoke(c) \/ Answers(c) \/ Answered(c) \/ SendsAgain(c)
  \/ RefreshEnds(call[c].ctx.gen)
  \/ \E f \in Flights : f[1] = c /\ (FlightAnswers(f) \/ FlightSettles(f))

Surroundings ==
  \/ SessionChanges /\ UNCHANGED <<platform, shared, call, ran, used>>
  \/ Delete \/ MakeAnew
  \/ \E k \in Contexts : Expire(k)

\* The only way to stop: every call has its answer.
AllTold == (\A c \in Calls : call[c].st = "ended") /\ UNCHANGED vars

Next == Surroundings \/ (\E c \in Calls : Rejected(c) \/ Begin(c) \/ Progress(c)) \/ AllTold

Spec == Init /\ [][Next]_vars

-----------------------------------------------------------------------------
\* Properties.

\* The side effects of a call happen once: what the function itself answered,
\* 401 and 404 included, is never taken for the platform's refusal and sent
\* again, in whatever order refresh and renewed resolution come.
RunsOnce == \A c \in Calls : ran[c] <= 1

\* A call that is answered was run once, and one that is refused was not: also
\* the refusal that is told after a refresh failed, or of a second resolution.
\* For refusals this rests on what Answers assumes of the platform.
InvokedAsTold ==
  \A c \in Calls :
    /\ Dispatched(call[c].told) => ran[c] = 1
    /\ call[c].told \in {"invalid", "failed", "discarded", "refused"} => ran[c] = 0

\* All requests a call sends, to resolve its name and to invoke the function, are
\* from one session, or all are anonymous: what it resolved, refreshed or waited
\* for does not carry it into another one.
OneIdentity == \A c \in Calls : Cardinality(used[c]) <= 1

\* A shared request is of its key and has an owner that is still waiting for it or
\* retrying it: none is left behind for later calls to join.
NothingLeaks ==
  \A k \in Contexts : inFlight[k] # Nobody =>
    /\ flight[inFlight[k]].key = k
    /\ call[inFlight[k][1]].st \in {"resolving", "refreshing"}

\* And none is taken away but by its owner, who leaves, or by a call that was told
\* by 404 to forget the key: a call whose own request was forgotten meanwhile
\* leaves the newer one of its key to those who share that.
TakesNone ==
  \A k \in Contexts : inFlight[k] # Nobody /\ inFlight'[k] # inFlight[k] =>
    \/ call'[inFlight[k][1]].st \notin {"resolving", "refreshing"}
    \/ \E c \in Calls : /\ call[c].st = "invoking" /\ Refused(call[c].ans, 404)
                        /\ call[c].key = k /\ call'[c] # call[c]

\* No step takes a shared request away from those who share it, but those two.
NothingTaken == [][TakesNone]_vars

\* A call that was told its function is gone goes on with what was resolved
\* since: the entry and the request it forgot are not what it then uses, even
\* if an older request of another call puts its answer into the cache later.
\* Under a credential that is newer than the one it forgot this does not hold.
FreshAfterClear ==
  \A c \in Calls :
    /\ call[c].round = 2 /\ call[c].st \in {"resolved", "invoking"}
    /\ call[c].key = call[c].cleared
    => call[c].out # call[c].gone

\* The tests say it of every retry: the id that answered 404 is not used again.
RetryIsFresh ==
  \A c \in Calls : call[c].round = 2 /\ call[c].st \in {"resolved", "invoking"} =>
    call[c].out # call[c].gone
================================================================================
