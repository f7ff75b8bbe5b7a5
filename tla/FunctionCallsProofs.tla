-------------------------- MODULE FunctionCallsProofs --------------------------
(***************************************************************************)
(* Proofs about FunctionCalls, for any number of invocations, sessions,    *)
(* refreshes and deletions, and a cache of any size: a call runs its       *)
(* function at most once, tells of it what happened, and sends all its     *)
(* requests as one and the same; and what calls share of the resolution of *)
(* its name is shared as long as it is good for all of them.               *)
(***************************************************************************)
EXTENDS FunctionCalls, FiniteSetTheorems, TLAPS

\* The fields of a call.
Fields ==
  {"st", "op", "ctx", "anon", "round", "again", "fl", "out", "key", "ans", "gone", "cleared", "told"}

Shaped ==
  /\ DOMAIN call = Calls /\ DOMAIN ran = Calls /\ DOMAIN used = Calls
  /\ \A c \in Calls : DOMAIN call[c] = Fields

\* Who the requests of a call are from, as it was when the call was made.
Who(r) == IF r.anon THEN 0 ELSE r.op.gen

\* Nothing was sent that the platform may have run the function for.
Unsent(r) == r.st \notin {"invoking", "ended"}

Denials == {"invalid", "failed", "discarded", "refused"}

\* A function has run only in a call whose request is being answered, or that has ended.
RanOnce(r, n) ==
  /\ n \in {0, 1}
  /\ Unsent(r) => n = 0
  /\ r.st # "ended" => r.told = "none"
  /\ r.st = "invoking" =>
       /\ r.ans \in {"none", "401", "404", "lost"} \/ Dispatched(r.ans)
       /\ r.ans \in {"none", "401", "404"} => n = 0
       /\ Dispatched(r.ans) => n = 1
  /\ Dispatched(r.told) => n = 1
  /\ r.told \in Denials => n = 0

\* What was sent is from one; and what a call has yet to send is of the generation
\* it was made in.
SentAsOne(r, u) ==
  /\ \E x : u \subseteq {x}
  /\ r.st # "ended" => u \subseteq {Who(r)}
  /\ r.st \in {"idle", "exchanging"} => u = {}
  /\ r.st \notin {"idle", "exchanging", "ended"} => r.ctx.gen = r.op.gen

CallOK(c) == RanOnce(call[c], ran[c]) /\ SentAsOne(call[c], used[c])

IInv == Shaped /\ \A c \in Calls : CallOK(c)

-----------------------------------------------------------------------------
\* A step of one call: the others stay as they are.
LEMMA OneCall ==
  ASSUME IInv, NEW c \in Calls, NEW r, DOMAIN r = Fields,
         call' = [call EXCEPT ![c] = r], 
         DOMAIN ran' = Calls, DOMAIN used' = Calls,
         \A d \in Calls \ {c} : ran'[d] = ran[d] /\ used'[d] = used[d],
         RanOnce(r, ran'[c]), SentAsOne(r, used'[c])
  PROVE  IInv'
<1>1. Shaped'
  BY DEF IInv, Shaped
<1>2. \A d \in Calls : CallOK(d)'
  <2> TAKE d \in Calls
  <2>1. CASE d = c
    <3>1. call'[c] = r
      BY DEF IInv, Shaped
    <3> QED
      BY <2>1, <3>1 DEF CallOK
  <2>2. CASE d # c
    <3>1. call'[d] = call[d] /\ ran'[d] = ran[d] /\ used'[d] = used[d]
      BY <2>2 DEF IInv, Shaped
    <3>2. RanOnce(call[d], ran[d]) /\ SentAsOne(call[d], used[d])
      BY DEF IInv, CallOK
    <3> QED
      BY <3>1, <3>2 DEF CallOK
  <2> QED
    BY <2>1, <2>2
<1> QED
  BY <1>1, <1>2 DEF IInv

\* A call that goes on without invoking, or ends without the function having run.
LEMMA GoesOnUnsent ==
  ASSUME NEW r, NEW s, NEW n, NEW u, RanOnce(r, n), u \subseteq {Who(r)}, n = 0, r.st # "ended",
         \/ /\ s.st \in {"resolving", "resolved", "refreshing"} /\ s.told = "none"
            /\ s.op = r.op /\ s.anon = r.anon /\ s.ctx.gen = r.op.gen
         \/ s.st = "ended" /\ ~Dispatched(s.told)
  PROVE  RanOnce(s, n) /\ SentAsOne(s, u)
BY DEF RanOnce, SentAsOne, Unsent, Denials, Who

\* What a call is told that ends without an answer of its function.
LEMMA EndsUnrun ==
  ASSUME NEW r, NEW t, ~Dispatched(t)
  PROVE  /\ DOMAIN Failed(r, t) = Fields /\ Failed(r, t).st = "ended" /\ ~Dispatched(Failed(r, t).told)
         /\ DOMAIN Finalized(r, t) = Fields /\ Finalized(r, t).st = "ended"
         /\ ~Dispatched(Finalized(r, t).told)
BY DEF Failed, Finalized, Fields, NoCall, Dispatched

\* A resolution ends the call, or has it wait or go on.
LEMMA ResolveGoesOn ==
  ASSUME NEW c \in Calls, NEW r, DOMAIN r = Fields, r.told = "none",
         NEW entries, NEW shares, Resolve(c, r, entries, shares)
  PROVE  /\ \E s :
              /\ DOMAIN s = Fields /\ call' = [call EXCEPT ![c] = s]
              /\ \/ /\ s.st \in {"resolving", "resolved"} /\ s.told = "none"
                    /\ s.op = r.op /\ s.anon = r.anon /\ s.ctx = r.ctx
                 \/ s.st = "ended" /\ ~Dispatched(s.told)
         /\ used' \in {used, [used EXCEPT ![c] = @ \cup {As(r, r.ctx)}]}
<1> DEFINE k == KeyOf(r)
           f == <<c, IF r.again THEN 2 ELSE 1>>
           waits == [r EXCEPT !.st = "resolving", !.key = k, !.out = None]
           Joined(e) == IF flight[e].st = "settled" THEN flight[e].out ELSE None
           Good(s) == /\ DOMAIN s = Fields
                      /\ \/ /\ s.st \in {"resolving", "resolved"} /\ s.told = "none"
                            /\ s.op = r.op /\ s.anon = r.anon /\ s.ctx = r.ctx
                         \/ s.st = "ended" /\ ~Dispatched(s.told)
<1>1. Good(Failed(r, "changed")) /\ Good(Failed(r, "failed"))
  BY EndsUnrun DEF Dispatched
<1>2. \A o : Good([waits EXCEPT !.st = "resolved", !.out = o])
  BY DEF Fields
<1>3. \A g, o : Good([waits EXCEPT !.fl = g, !.out = o]) /\ Good([waits EXCEPT !.fl = g])
  BY DEF Fields
<1>4. \E s : Good(s) /\ call' = [call EXCEPT ![c] = s]
  <2>1. CASE ~IsCurrent(r.ctx)
    BY <2>1, <1>1 DEF Resolve, Leave
  <2>2. CASE IsCurrent(r.ctx) /\ entries[k] \in Ids
    BY <2>2, <1>2 DEF Resolve, Leave
  <2>3. CASE IsCurrent(r.ctx) /\ entries[k] \notin Ids /\ entries[k] = NotFound
    BY <2>3, <1>1 DEF Resolve, Leave
  <2>4. CASE IsCurrent(r.ctx) /\ entries[k] \notin Ids /\ entries[k] # NotFound
    <3>1. CASE shares[k] # Nobody
      BY <2>4, <3>1, <1>3 DEF Resolve
    <3>2. CASE shares[k] = Nobody
      BY <2>4, <3>2, <1>3 DEF Resolve
    <3> QED
      BY <3>1, <3>2
  <2> QED
    BY <2>1, <2>2, <2>3, <2>4
<1>5. PICK s : Good(s) /\ call' = [call EXCEPT ![c] = s]
  BY <1>4
<1>6. used' \in {used, [used EXCEPT ![c] = @ \cup {As(r, r.ctx)}]}
  BY DEF Resolve
<1> QED
  BY <1>5, <1>6

-----------------------------------------------------------------------------
\* Every step keeps the invariant.

\* The invariant holds of a client that has asked for nothing.
LEMMA InitOK == Init => IInv
<1> SUFFICES ASSUME Init PROVE IInv
  OBVIOUS
<1>1. Shaped
  BY DEF Init, Shaped, NoCall, Fields
<1>2. \A c \in Calls : CallOK(c)
  BY DEF Init, CallOK, RanOnce, SentAsOne, NoCall, Unsent, Dispatched, Denials
<1> QED
  BY <1>1, <1>2 DEF IInv

\* What other calls, the session and the platform do beside the calls.
LEMMA QuietOK == ASSUME IInv, UNCHANGED <<call, ran, used>> PROVE IInv'
<1>1. call' = call /\ ran' = ran /\ used' = used
  OBVIOUS
<1> QED
  BY <1>1 DEF IInv, Shaped, CallOK

\* An answer is noted in calls that have sent no request to their function.
LEMMA NotedOK ==
  ASSUME IInv, UNCHANGED <<ran, used>>, DOMAIN call' = Calls,
         \A c \in Calls : \/ call'[c] = call[c]
                          \/ \E x : call'[c] = [call[c] EXCEPT !.out = x]
                          \/ Waiting(c) /\ \E x : call'[c] = [call[c] EXCEPT !.ans = x]
  PROVE  IInv'
<1>1. ran' = ran /\ used' = used
  OBVIOUS
<1>2. \A c \in Calls : DOMAIN call'[c] = Fields /\ CallOK(c)'
  <2> TAKE c \in Calls
  <2>1. DOMAIN call[c] = Fields /\ RanOnce(call[c], ran[c]) /\ SentAsOne(call[c], used[c])
    BY DEF IInv, Shaped, CallOK
  <2>2. CASE call'[c] = call[c]
    BY <1>1, <2>1, <2>2 DEF CallOK
  <2>3. ASSUME NEW x, call'[c] = [call[c] EXCEPT !.out = x] PROVE DOMAIN call'[c] = Fields /\ CallOK(c)'
    <3>1. /\ DOMAIN call'[c] = Fields
          /\ call'[c].st = call[c].st /\ call'[c].ans = call[c].ans /\ call'[c].told = call[c].told
          /\ call'[c].op = call[c].op /\ call'[c].ctx = call[c].ctx /\ call'[c].anon = call[c].anon
      BY <2>1, <2>3 DEF Fields
    <3> QED
      BY <1>1, <2>1, <3>1 DEF CallOK, RanOnce, SentAsOne, Unsent, Who
  <2>4. ASSUME Waiting(c), NEW x, call'[c] = [call[c] EXCEPT !.ans = x]
        PROVE  DOMAIN call'[c] = Fields /\ CallOK(c)'
    <3>1. /\ DOMAIN call'[c] = Fields
          /\ call'[c].st = call[c].st /\ call'[c].told = call[c].told
          /\ call'[c].op = call[c].op /\ call'[c].ctx = call[c].ctx /\ call'[c].anon = call[c].anon
      BY <2>1, <2>4 DEF Fields
    <3>2. call[c].st # "invoking"
      BY <2>4 DEF Waiting
    <3> QED
      BY <1>1, <2>1, <3>1, <3>2 DEF CallOK, RanOnce, SentAsOne, Unsent, Who
  <2> QED
    BY <2>2, <2>3, <2>4
<1> QED
  BY <1>1, <1>2 DEF IInv, Shaped

LEMMA FlightSettlesOK == ASSUME IInv, NEW f \in Flights, FlightSettles(f) PROVE IInv'
<1> DEFINE out == flight[f].out
<1>1. call' = [c \in Calls |-> IF call[c].fl = f THEN [call[c] EXCEPT !.out = out] ELSE call[c]]
  BY DEF FlightSettles
<1>2. UNCHANGED <<ran, used>>
  BY DEF FlightSettles
<1> HIDE DEF out
<1> QED
  BY <1>1, <1>2, NotedOK

LEMMA RefreshEndsOK == ASSUME IInv, NEW g, RefreshEnds(g) PROVE IInv'
<1>1. PICK answer : call' = [c \in Calls |->
            IF Waiting(c) /\ call[c].ctx.gen = g THEN [call[c] EXCEPT !.ans = answer] ELSE call[c]]
  BY DEF RefreshEnds
<1>2. UNCHANGED <<ran, used>>
  BY DEF RefreshEnds
<1> QED
  BY <1>1, <1>2, NotedOK

\* What the invariant says of one call.
LEMMA OfCall ==
  ASSUME IInv, NEW c \in Calls
  PROVE  /\ DOMAIN call[c] = Fields /\ RanOnce(call[c], ran[c]) /\ SentAsOne(call[c], used[c])
         /\ DOMAIN call = Calls /\ DOMAIN ran = Calls /\ DOMAIN used = Calls
BY DEF IInv, Shaped, CallOK

\* A call that goes on without invoking, its name resolved by a request of its own
\* perhaps, or ends without an answer.
LEMMA StepUnsent ==
  ASSUME IInv, NEW c \in Calls, call[c].st # "ended", ran[c] = 0, ran' = ran,
         used' \in {used, [used EXCEPT ![c] = @ \cup {Who(call[c])}]},
         NEW s, DOMAIN s = Fields, call' = [call EXCEPT ![c] = s],
         \/ /\ s.st \in {"resolving", "resolved", "refreshing"} /\ s.told = "none"
            /\ s.op = call[c].op /\ s.anon = call[c].anon /\ s.ctx.gen = call[c].op.gen
         \/ s.st = "ended" /\ ~Dispatched(s.told)
  PROVE  IInv'
<1>1. used[c] \subseteq {Who(call[c])} /\ RanOnce(call[c], ran[c])
  BY OfCall DEF SentAsOne
<1>2. /\ used'[c] \subseteq {Who(call[c])} /\ DOMAIN used' = Calls
      /\ \A d \in Calls \ {c} : used'[d] = used[d]
  BY <1>1, OfCall
<1>3. RanOnce(s, ran[c]) /\ SentAsOne(s, used'[c])
  BY <1>1, <1>2, GoesOnUnsent
<1> QED
  BY <1>2, <1>3, OfCall, OneCall

LEMMA RejectedOK == ASSUME IInv, NEW c \in Calls, Rejected(c) PROVE IInv'
<1> DEFINE s == [call[c] EXCEPT !.st = "ended", !.told = "invalid"]
<1>1. call' = [call EXCEPT ![c] = s] /\ UNCHANGED <<ran, used>>
  BY DEF Rejected
<1>2. call[c].st = "idle" /\ ran[c] = 0
  BY OfCall DEF Rejected, RanOnce, Unsent
<1>3. DOMAIN s = Fields /\ s.st = "ended" /\ s.told = "invalid"
  BY OfCall DEF Fields
<1>4. ~Dispatched(s.told)
  BY <1>3 DEF Dispatched
<1> HIDE DEF s
<1> QED
  BY <1>1, <1>2, <1>3, <1>4, StepUnsent

LEMMA BeginOK == ASSUME IInv, NEW c \in Calls, Begin(c) PROVE IInv'
<1>1. call[c].st = "idle" /\ ran[c] = 0 /\ used[c] = {} /\ call[c].told = "none"
  BY OfCall DEF Begin, RanOnce, SentAsOne, Unsent
<1>2. ran' = ran /\ used' = used
  BY DEF Begin
<1>3. PICK s : /\ call' = [call EXCEPT ![c] = s] /\ DOMAIN s = Fields
               /\ \/ s.st = "ended" /\ s.told = "changed"
                  \/ s.st \in {"exchanging", "ready"} /\ s.told = "none"
                     /\ (s.st = "ready" => s.ctx = s.op)
  <2>1. CASE pending
    <3> DEFINE s == [call[c] EXCEPT !.st = "ended", !.told = "changed"]
    <3>1. DOMAIN s = Fields /\ s.st = "ended" /\ s.told = "changed"
      BY OfCall DEF Fields
    <3> QED
      BY <2>1, <3>1 DEF Begin
  <2>2. CASE ~pending /\ exchange
    <3> DEFINE s == [call[c] EXCEPT !.st = "exchanging"]
    <3>1. DOMAIN s = Fields /\ s.st = "exchanging" /\ s.told = "none"
      BY <1>1, OfCall DEF Fields
    <3> QED
      BY <2>2, <3>1 DEF Begin
  <2>3. CASE ~pending /\ ~exchange
    <3> DEFINE s == [call[c] EXCEPT !.st = "ready", !.op = Current, !.ctx = Current, !.anon = (tok = 0)]
    <3>1. DOMAIN s = Fields /\ s.st = "ready" /\ s.told = "none" /\ s.ctx = s.op
      BY <1>1, OfCall DEF Fields
    <3>2. call' = [call EXCEPT ![c] = s]
      BY <2>3 DEF Begin
    <3> HIDE DEF s
    <3> QED
      BY <3>1, <3>2
  <2> QED
    BY <2>1, <2>2, <2>3
<1>4. RanOnce(s, ran'[c]) /\ SentAsOne(s, used'[c])
  BY <1>1, <1>2, <1>3 DEF RanOnce, SentAsOne, Unsent, Dispatched, Denials
<1> QED
  BY <1>2, <1>3, <1>4, OfCall, OneCall

LEMMA AfterExchangeOK == ASSUME IInv, NEW c \in Calls, AfterExchange(c) PROVE IInv'
<1> DEFINE s == [call[c] EXCEPT !.st = "ready", !.op = Current, !.ctx = Current, !.anon = (tok = 0)]
<1>1. ran[c] = 0 /\ used[c] = {} /\ call[c].told = "none"
  BY OfCall DEF AfterExchange, RanOnce, SentAsOne, Unsent
<1>2. ran' = ran /\ used' = used
  BY DEF AfterExchange
<1>3. call' = [call EXCEPT ![c] = s]
  BY DEF AfterExchange
<1>4. DOMAIN s = Fields /\ s.st = "ready" /\ s.told = "none" /\ s.ctx = s.op
  BY <1>1, OfCall DEF Fields
<1> HIDE DEF s
<1>5. RanOnce(s, ran'[c]) /\ SentAsOne(s, used'[c])
  BY <1>1, <1>2, <1>4 DEF RanOnce, SentAsOne, Unsent, Dispatched, Denials
<1> QED
  BY <1>2, <1>3, <1>4, <1>5, OfCall, OneCall

\* A resolution, of the call as it is or with another context of its generation.
LEMMA ResolveOK ==
  ASSUME IInv, NEW c \in Calls, call[c].st # "ended", ran[c] = 0, ran' = ran,
         NEW r, DOMAIN r = Fields, r.told = "none", r.op = call[c].op, r.anon = call[c].anon,
         r.ctx.gen = r.op.gen,
         NEW entries, NEW shares, Resolve(c, r, entries, shares)
  PROVE  IInv'
<1>1. PICK s :
        /\ DOMAIN s = Fields /\ call' = [call EXCEPT ![c] = s]
        /\ \/ /\ s.st \in {"resolving", "resolved"} /\ s.told = "none"
              /\ s.op = r.op /\ s.anon = r.anon /\ s.ctx = r.ctx
           \/ s.st = "ended" /\ ~Dispatched(s.told)
  BY ResolveGoesOn
<1>2. used' \in {used, [used EXCEPT ![c] = @ \cup {As(r, r.ctx)}]}
  BY ResolveGoesOn
<1>3. As(r, r.ctx) = Who(call[c])
  BY DEF As, Who
<1> QED
  BY <1>1, <1>2, <1>3, StepUnsent

LEMMA FirstResolutionOK == ASSUME IInv, NEW c \in Calls, FirstResolution(c) PROVE IInv'
<1>1. call[c].st = "ready" /\ Resolve(c, call[c], cache, inFlight) /\ ran' = ran
  BY DEF FirstResolution
<1>2. ran[c] = 0 /\ call[c].told = "none" /\ call[c].ctx.gen = call[c].op.gen
  BY <1>1, OfCall DEF RanOnce, SentAsOne, Unsent
<1> QED
  BY <1>1, <1>2, OfCall, ResolveOK

LEMMA ResolvedOK == ASSUME IInv, NEW c \in Calls, Resolved(c) PROVE IInv'
<1> DEFINE r == call[c]
           Good(s) == /\ DOMAIN s = Fields
                      /\ \/ /\ s.st \in {"resolving", "resolved", "refreshing"} /\ s.told = "none"
                            /\ s.op = r.op /\ s.anon = r.anon /\ s.ctx.gen = r.op.gen
                         \/ s.st = "ended" /\ ~Dispatched(s.told)
           next == [r EXCEPT !.st = "resolved", !.fl = Nobody]
           renew == Refreshes([r EXCEPT !.fl = Nobody], "refreshing")
<1>1. r.st = "resolving" /\ ran' = ran /\ used' = used
  BY DEF Resolved
<1>2. ran[c] = 0 /\ r.told = "none" /\ DOMAIN r = Fields /\ r.ctx.gen = r.op.gen
  BY <1>1, OfCall DEF RanOnce, SentAsOne, Unsent
<1>3. Good(next)
  BY <1>2 DEF Fields
<1>4. Good(renew)
  BY <1>2 DEF Fields, Refreshes
<1>5. Good(Failed(r, "changed")) /\ Good(Failed(r, "failed"))
  BY EndsUnrun DEF Dispatched
<1>6. call' \in {[call EXCEPT ![c] = s] : s \in {next, renew, Failed(r, "changed"), Failed(r, "failed")}}
  BY DEF Resolved, Leave
<1>7. \E s : Good(s) /\ call' = [call EXCEPT ![c] = s]
  <2> HIDE DEF next, renew, Good
  <2> QED
    BY <1>3, <1>4, <1>5, <1>6
<1>8. PICK s : Good(s) /\ call' = [call EXCEPT ![c] = s]
  BY <1>7
<1> QED
  BY <1>1, <1>2, <1>8, StepUnsent

LEMMA ResolvesAgainOK == ASSUME IInv, NEW c \in Calls, ResolvesAgain(c) PROVE IInv'
<1> DEFINE r == call[c]
           anew == [r EXCEPT !.ctx = Current, !.again = TRUE]
<1>1. r.st = "refreshing" /\ ran' = ran
  BY DEF ResolvesAgain
<1>2. ran[c] = 0 /\ r.told = "none" /\ DOMAIN r = Fields /\ r.ctx.gen = r.op.gen
  BY <1>1, OfCall DEF RanOnce, SentAsOne, Unsent
<1>3. CASE Refreshed(r.ctx, r.ans)
  <2>1. Resolve(c, anew, cache, inFlight)
    BY <1>3 DEF ResolvesAgain
  <2>2. DOMAIN anew = Fields /\ anew.told = "none" /\ anew.op = r.op /\ anew.anon = r.anon
        /\ anew.ctx = Current
    BY <1>2 DEF Fields
  <2> HIDE DEF anew
  <2>3. anew.ctx.gen = anew.op.gen
    <3>1. Current.gen = gen /\ r.ctx.gen = gen
      BY <1>3 DEF Refreshed, IsCurrent, Current
    <3> QED
      BY <1>2, <2>2, <3>1
  <2> QED
    BY <1>1, <1>2, <2>1, <2>2, <2>3, ResolveOK
<1>4. CASE ~Refreshed(r.ctx, r.ans)
  <2>1. PICK t \in {"discarded", "failed"} : call' = [call EXCEPT ![c] = Failed(r, t)] /\ used' = used
    BY <1>4 DEF ResolvesAgain, Leave
  <2>2. ~Dispatched(t)
    BY DEF Dispatched
  <2>3. DOMAIN Failed(r, t) = Fields /\ Failed(r, t).st = "ended" /\ ~Dispatched(Failed(r, t).told)
    BY <2>2, EndsUnrun
  <2> QED
    BY <1>1, <1>2, <2>1, <2>3, StepUnsent
<1> QED
  BY <1>3, <1>4

\* The request is sent by a call of the generation it was made in.
LEMMA SendOK ==
  ASSUME IInv, NEW c \in Calls, call[c].st # "ended", ran[c] = 0, ran' = ran,
         IsCurrent(call[c].op), NEW again, Send(c, call[c], again)
  PROVE  IInv'
<1> DEFINE r == call[c]
           s == [r EXCEPT !.st = "invoking", !.ctx = Current, !.again = again, !.ans = "none"]
<1>1. /\ call' = [call EXCEPT ![c] = s]
      /\ used' = [used EXCEPT ![c] = @ \cup {As(r, Current)}]
  BY DEF Send
<1>2. DOMAIN r = Fields /\ r.told = "none" /\ used[c] \subseteq {Who(r)}
  BY OfCall DEF RanOnce, SentAsOne
<1>3. /\ DOMAIN s = Fields /\ s.st = "invoking" /\ s.ans = "none" /\ s.told = "none"
      /\ s.ctx = Current /\ s.op = r.op /\ s.anon = r.anon
  BY <1>2 DEF Fields
<1>4. Current.gen = gen /\ r.op.gen = gen
  BY DEF Current, IsCurrent
<1> HIDE DEF s
<1>5. As(r, Current) = Who(r) /\ Who(s) = Who(r) /\ s.ctx.gen = s.op.gen
  BY <1>3, <1>4 DEF As, Who
<1>6. used'[c] \subseteq {Who(r)}
  BY <1>1, <1>2, <1>5, OfCall
<1>7. RanOnce(s, ran'[c])
  BY <1>3 DEF RanOnce, Unsent, Dispatched, Denials
<1>8. SentAsOne(s, used'[c])
  BY <1>3, <1>5, <1>6 DEF SentAsOne
<1>9. DOMAIN used' = Calls /\ \A d \in Calls \ {c} : used'[d] = used[d]
  BY <1>1, OfCall
<1> QED
  BY <1>1, <1>3, <1>7, <1>8, <1>9, OfCall, OneCall

LEMMA InvokeOK == ASSUME IInv, NEW c \in Calls, Invoke(c) PROVE IInv'
<1>1. call[c].st = "resolved" /\ ran' = ran
  BY DEF Invoke
<1>2. ran[c] = 0
  BY <1>1, OfCall DEF RanOnce, Unsent
<1>3. CASE MaySend(call[c])
  <2>1. IsCurrent(call[c].op) /\ Send(c, call[c], FALSE)
    BY <1>3 DEF Invoke, MaySend
  <2> QED
    BY <1>1, <1>2, <2>1, SendOK
<1>4. CASE ~MaySend(call[c])
  <2>1. call' = [call EXCEPT ![c] = Finalized(call[c], "changed")] /\ UNCHANGED <<ran, used>>
    BY <1>4 DEF Invoke
  <2>2. /\ DOMAIN Finalized(call[c], "changed") = Fields /\ Finalized(call[c], "changed").st = "ended"
        /\ ~Dispatched(Finalized(call[c], "changed").told)
    BY EndsUnrun DEF Dispatched
  <2> QED
    BY <1>1, <1>2, <2>1, <2>2, StepUnsent
<1> QED
  BY <1>3, <1>4

LEMMA AnswersOK == ASSUME IInv, NEW c \in Calls, Answers(c) PROVE IInv'
<1> DEFINE Said(a) == [call[c] EXCEPT !.ans = a]
<1>1. call[c].st = "invoking" /\ call[c].ans = "none" /\ used' = used
  BY DEF Answers
<1>2. DOMAIN call[c] = Fields /\ ran[c] = 0 /\ call[c].told = "none"
  BY <1>1, OfCall DEF RanOnce
<1>3. PICK a : /\ call' = [call EXCEPT ![c] = Said(a)]
               /\ \/ a \in {"401", "lost", "404"} /\ ran' = ran
                  \/ /\ a \in {"its own", "its own 401", "its own 404", "lost"}
                     /\ ran' = [ran EXCEPT ![c] = @ + 1]
  BY DEF Answers
<1>4. /\ DOMAIN Said(a) = Fields /\ Said(a).st = "invoking" /\ Said(a).ans = a
      /\ Said(a).told = "none" /\ Said(a).op = call[c].op /\ Said(a).ctx = call[c].ctx
      /\ Said(a).anon = call[c].anon
  BY <1>1, <1>2 DEF Fields
<1> HIDE DEF Said
<1>5. RanOnce(Said(a), ran'[c])
  <2>1. \/ a \in {"401", "lost", "404"} /\ ran'[c] = 0
        \/ a \in {"its own", "its own 401", "its own 404", "lost"} /\ ran'[c] = 1
    <3>1. CASE a \in {"401", "lost", "404"} /\ ran' = ran
      BY <1>2, <3>1
    <3>2. CASE a \in {"its own", "its own 401", "its own 404", "lost"} /\ ran' = [ran EXCEPT ![c] = @ + 1]
      <4>1. ran'[c] = ran[c] + 1
        BY <3>2, OfCall
      <4>2. ran'[c] = 1
        BY <1>2, <4>1
      <4> QED
        BY <3>2, <4>2, Zenon
    <3>3. \/ a \in {"401", "lost", "404"} /\ ran' = ran
          \/ a \in {"its own", "its own 401", "its own 404", "lost"} /\ ran' = [ran EXCEPT ![c] = @ + 1]
      BY <1>3
    <3> QED
      BY <3>1, <3>2, <3>3
  <2>2. Said(a).told \notin Denials /\ ~Dispatched(Said(a).told)
    BY <1>4 DEF Denials, Dispatched
  <2> QED
    BY <1>4, <2>1, <2>2 DEF RanOnce, Unsent, Dispatched
<1>6. SentAsOne(Said(a), used'[c])
  BY <1>1, <1>4, OfCall DEF SentAsOne, Who
<1>7. DOMAIN ran' = Calls /\ \A d \in Calls \ {c} : ran'[d] = ran[d]
  BY <1>3, OfCall
<1> QED
  BY <1>1, <1>3, <1>4, <1>5, <1>6, <1>7, OfCall, OneCall

\* The end of a call whose function answered, did not, or was refused to it.
LEMMA EndOK ==
  ASSUME IInv, NEW c \in Calls, UNCHANGED <<ran, used>>, NEW r, r.told = "none", NEW t,
         call' = [call EXCEPT ![c] = Finalized(r, t)],
         Dispatched(t) => ran[c] = 1, t \in Denials => ran[c] = 0
  PROVE  IInv'
<1> DEFINE s == Finalized(r, t)
<1>1. DOMAIN s = Fields /\ s.st = "ended" /\ s.told \in {t, "changed"}
  BY DEF Finalized, Fields, NoCall
<1>2. ran' = ran /\ used' = used
  OBVIOUS
<1> HIDE DEF s
<1>3. RanOnce(s, ran'[c])
  BY <1>1, <1>2, OfCall DEF RanOnce, Unsent, Dispatched, Denials
<1>4. SentAsOne(s, used'[c])
  BY <1>1, <1>2, OfCall DEF SentAsOne
<1>5. call' = [call EXCEPT ![c] = s]
  BY DEF s
<1> QED
  BY <1>1, <1>2, <1>3, <1>4, <1>5, OfCall, OneCall

LEMMA AnsweredOK == ASSUME IInv, NEW c \in Calls, Answered(c) PROVE IInv'
<1> DEFINE r == call[c]
           again == Refreshes(r, "refreshing to send")
           anew == [r EXCEPT !.round = 2, !.ctx = Current, !.again = FALSE, !.gone = r.out,
                             !.cleared = r.key, !.ans = "none"]
<1>1. r.st = "invoking" /\ r.ans # "none" /\ ran' = ran
  BY DEF Answered
<1>2. /\ DOMAIN r = Fields /\ r.told = "none" /\ RanOnce(r, ran[c]) /\ SentAsOne(r, used[c])
  BY <1>1, OfCall DEF RanOnce
<1>3. CASE Refused(r.ans, 401) /\ ~r.anon /\ ~r.again
  <2>1. call' = [call EXCEPT ![c] = again] /\ used' = used
    BY <1>3 DEF Answered
  <2>2. r.ans = "401"
    BY <1>3 DEF Refused, Dispatched
  <2>3. ran[c] = 0
    BY <1>1, <1>2, <2>2 DEF RanOnce
  <2>4. /\ DOMAIN again = Fields /\ again.st = "refreshing to send" /\ again.told = "none"
        /\ again.op = r.op /\ again.ctx = r.ctx /\ again.anon = r.anon
    BY <1>2 DEF Fields, Refreshes
  <2> HIDE DEF again
  <2>5. RanOnce(again, ran'[c]) /\ SentAsOne(again, used'[c])
    BY <1>1, <1>2, <2>1, <2>3, <2>4 DEF RanOnce, SentAsOne, Unsent, Dispatched, Denials, Who
  <2> QED
    BY <1>1, <2>1, <2>4, <2>5, OfCall, OneCall
<1>4. CASE ~(Refused(r.ans, 401) /\ ~r.anon /\ ~r.again)
           /\ Refused(r.ans, 404) /\ r.round = 1 /\ IsCurrent(r.op)
  <2>1. Resolve(c, anew, [cache EXCEPT ![r.key] = None], Forgotten(r.key, inFlight))
    BY <1>4 DEF Answered
  <2>2. r.ans = "404"
    <3>1. Refused(r.ans, 404) /\ 404 # 401
      BY <1>4
    <3> QED
      BY <3>1 DEF Refused, Dispatched
  <2>3. ran[c] = 0
    BY <1>1, <1>2, <2>2 DEF RanOnce
  <2>4. DOMAIN anew = Fields /\ anew.told = "none" /\ anew.op = r.op /\ anew.anon = r.anon
        /\ anew.ctx = Current
    BY <1>2 DEF Fields
  <2> HIDE DEF anew
  <2>5. anew.ctx.gen = anew.op.gen
    BY <1>4, <2>4 DEF IsCurrent, Current
  <2> QED
    BY <1>1, <2>1, <2>3, <2>4, <2>5, ResolveOK
<1>5. CASE /\ ~(Refused(r.ans, 401) /\ ~r.anon /\ ~r.again)
           /\ ~(Refused(r.ans, 404) /\ r.round = 1 /\ IsCurrent(r.op))
  <2> DEFINE t == IF r.ans = "lost" THEN "lost" ELSE Result(r.ans)
  <2>1. call' = [call EXCEPT ![c] = Finalized(r, t)] /\ used' = used
    BY <1>5 DEF Answered, TransportFailure
  <2>2. Dispatched(t) => ran[c] = 1
    BY <1>1, <1>2 DEF RanOnce, Result, Dispatched
  <2>3. t \in Denials => ran[c] = 0
    BY <1>1, <1>2 DEF RanOnce, Result, Dispatched, Denials
  <2> HIDE DEF t
  <2> QED
    BY <1>1, <1>2, <2>1, <2>2, <2>3, EndOK
<1> QED
  BY <1>3, <1>4, <1>5

LEMMA SendsAgainOK == ASSUME IInv, NEW c \in Calls, SendsAgain(c) PROVE IInv'
<1> DEFINE r == call[c]
<1>1. r.st = "refreshing to send" /\ ran' = ran
  BY DEF SendsAgain
<1>2. /\ ran[c] = 0 /\ DOMAIN r = Fields /\ r.told = "none" /\ r.ctx.gen = r.op.gen
  BY <1>1, OfCall DEF RanOnce, SentAsOne, Unsent
<1>3. CASE Refreshed(r.ctx, r.ans) /\ ~pending
  <2>1. Send(c, r, TRUE)
    BY <1>3 DEF SendsAgain
  <2>2. IsCurrent(r.op)
    BY <1>2, <1>3 DEF Refreshed, IsCurrent
  <2> QED
    BY <1>1, <1>2, <2>1, <2>2, SendOK
<1>4. CASE ~(Refreshed(r.ctx, r.ans) /\ ~pending)
  <2> DEFINE cleared == IF Cleared(r) THEN [r EXCEPT !.op = Current] ELSE r
  <2>1. cleared.told = "none"
    BY <1>2 DEF Fields
  <2>2. \E q \in {r, cleared}, t \in {"changed", "discarded", "refused"} :
          call' = [call EXCEPT ![c] = Finalized(q, t)]
    BY <1>4 DEF SendsAgain
  <2> HIDE DEF cleared
  <2>3. PICK q \in {r, cleared}, t \in {"changed", "discarded", "refused"} :
          call' = [call EXCEPT ![c] = Finalized(q, t)]
    BY <2>2
  <2>4. UNCHANGED <<ran, used>>
    BY <1>1, <1>4 DEF SendsAgain
  <2>5. q.told = "none" /\ ~Dispatched(t)
    BY <1>2, <2>1 DEF Dispatched
  <2> QED
    BY <1>2, <2>3, <2>4, <2>5, EndOK
<1> QED
  BY <1>3, <1>4

\* What a call does next, or is done to it.
LEMMA ProgressOK == ASSUME IInv, NEW c \in Calls, Progress(c) PROVE IInv'
<1>1. CASE AfterExchange(c)
  BY <1>1, AfterExchangeOK
<1>2. CASE FirstResolution(c)
  BY <1>2, FirstResolutionOK
<1>3. CASE Resolved(c)
  BY <1>3, ResolvedOK
<1>4. CASE ResolvesAgain(c)
  BY <1>4, ResolvesAgainOK
<1>5. CASE Invoke(c)
  BY <1>5, InvokeOK
<1>6. CASE Answers(c)
  BY <1>6, AnswersOK
<1>7. CASE Answered(c)
  BY <1>7, AnsweredOK
<1>8. CASE SendsAgain(c)
  BY <1>8, SendsAgainOK
<1>9. CASE RefreshEnds(call[c].ctx.gen)
  BY <1>9, RefreshEndsOK
<1>10. ASSUME NEW f \in Flights, FlightAnswers(f) PROVE IInv'
  BY <1>10, QuietOK DEF FlightAnswers
<1>11. ASSUME NEW f \in Flights, FlightSettles(f) PROVE IInv'
  BY <1>11, FlightSettlesOK
<1> QED
  BY <1>1, <1>2, <1>3, <1>4, <1>5, <1>6, <1>7, <1>8, <1>9, <1>10, <1>11 DEF Progress

\* Every step of the specification.
LEMMA NextOK == ASSUME IInv, [Next]_vars PROVE IInv'
<1>1. CASE Surroundings
  <2>1. UNCHANGED <<call, ran, used>>
    BY <1>1 DEF Surroundings, Delete, MakeAnew, Expire
  <2> QED
    BY <2>1, QuietOK
<1>2. ASSUME NEW c \in Calls, Rejected(c) PROVE IInv'
  BY <1>2, RejectedOK
<1>3. ASSUME NEW c \in Calls, Begin(c) PROVE IInv'
  BY <1>3, BeginOK
<1>4. ASSUME NEW c \in Calls, Progress(c) PROVE IInv'
  BY <1>4, ProgressOK
<1>5. CASE UNCHANGED vars
  <2>1. UNCHANGED <<call, ran, used>>
    BY <1>5 DEF vars
  <2> QED
    BY <2>1, QuietOK
<1> QED
  BY <1>1, <1>2, <1>3, <1>4, <1>5 DEF Next, AllTold

\* The invariant holds in every behaviour of the calls.
THEOREM Invariance == Spec => []IInv
<1> QED
  BY InitOK, NextOK, PTL DEF Spec

-----------------------------------------------------------------------------
\* The side effects of a call happen at most once: no answer of the function
\* itself is taken for a refusal of the platform's and answered by another request.
THEOREM FunctionsRunOnce == Spec => []RunsOnce
<1>1. IInv => RunsOnce
  BY DEF IInv, CallOK, RanOnce, RunsOnce
<1> QED
  BY <1>1, Invariance, PTL

\* What an invocation is told is what happened: an answer of the function's says it
\* ran once, a refusal that it did not run.
THEOREM CallsInvokedAsTold == Spec => []InvokedAsTold
<1>1. IInv => InvokedAsTold
  BY DEF IInv, CallOK, RanOnce, InvokedAsTold, Denials
<1> QED
  BY <1>1, Invariance, PTL

LEMMA OneIs == IInv => OneIdentity
<1> SUFFICES ASSUME IInv, NEW c \in Calls PROVE Cardinality(used[c]) <= 1
  BY DEF OneIdentity
<1>1. PICK x : used[c] \subseteq {x}
  BY OfCall DEF SentAsOne
<1>2. used[c] = {} \/ used[c] = {x}
  BY <1>1
<1>3. Cardinality({}) = 0 /\ Cardinality({x}) = 1
  BY FS_EmptySet, FS_Singleton
<1> QED
  BY <1>2, <1>3

\* The requests of a call, those that resolve its name and those that invoke the
\* function, are all of one session, or all anonymous.
THEOREM CallsAreOfOne == Spec => []OneIdentity
<1> QED
  BY OneIs, Invariance, PTL

-----------------------------------------------------------------------------
\* What is shared between calls: the entries of the cache and the requests in
\* flight.  The session and the platform only go on, so that a call that asks
\* again with a newer credential has another key than the one it forgot.

\* A credential that is not newer than another.
Le(x, y) == x.gen < y.gen \/ (x.gen = y.gen /\ x.tok <= y.tok)

SessionOK == gen \in 0..MaxGen /\ tok \in 0..MaxRotation

\* An id that was given: the platform's latest is the greatest.
Given(x) == x \in Ids => x <= deployed

\* An id whose function is gone, which stays so.
IsGone(x) == x < deployed \/ (x = deployed /\ ~exists)

GoodEntries(entries) == entries \in [Contexts -> Nat] /\ \A k \in Contexts : Given(entries[k])

FlightsOK ==
  /\ flight \in [Flights -> [st : {"none", "sent", "answered", "settled"}, key : Contexts, out : Nat]]
  /\ \A f \in Flights : Given(flight[f].out)

\* A request that is shared is its owner's, who waits for it or asks again.
SharedOK ==
  /\ inFlight \in [Contexts -> Flights \cup {Nobody}]
  /\ \A k \in Contexts : inFlight[k] # Nobody =>
       /\ flight[inFlight[k]].key = k
       /\ call[inFlight[k][1]].st \in {"resolving", "refreshing"}
       /\ inFlight[k][2] = 2 => call[inFlight[k][1]].st = "resolving" /\ call[inFlight[k][1]].again

HasId == {"resolved", "invoking", "refreshing to send"}

\* A call's credentials were the client's; one that asks again after a refresh
\* does so with a newer one.
KeysOK(r) ==
  /\ r.ctx \in Contexts /\ r.key \in Contexts /\ r.cleared \in Contexts
  /\ Le(r.ctx, Current) /\ Le(r.key, Current)
  /\ r.st = "refreshing" =>
       /\ ~r.anon /\ ~r.again
       /\ IsCurrent(r.ctx) /\ (r.ans = "same" \/ (r.ans = "ok" /\ ~pending)) => r.ctx.tok < tok

\* A call has the id it goes on with, and that of a function that is gone is answered 404.
AnswerOK(r) ==
  /\ r.out \in Nat /\ Given(r.out)
  /\ r.st # "resolving" => r.fl = Nobody
  /\ r.st \in HasId => r.out \in Ids
  /\ r.st = "invoking" /\ r.ans = "404" => IsGone(r.out)

\* In its second round a call has another key than the one it forgot, or waits for
\* a request of its own that was sent since.
RoundOK(c, r) ==
  /\ r.st \in {"idle", "exchanging", "ready"} => r.round = 1
  /\ r.round = 2 =>
       /\ r.gone \in Ids /\ IsGone(r.gone) /\ Le(r.cleared, r.ctx)
       /\ r.key = r.cleared =>
            /\ r.st \in HasId => r.out # r.gone
            /\ r.st = "resolving" =>
                 r.out # r.gone /\ r.fl = <<c, 1>> /\ flight[<<c, 1>>].out # r.gone

Fine(c, r) == KeysOK(r) /\ AnswerOK(r) /\ RoundOK(c, r)

SInv ==
  /\ SessionOK /\ deployed \in Ids /\ GoodEntries(cache) /\ FlightsOK /\ SharedOK
  /\ \A c \in Calls : Fine(c, call[c])

-----------------------------------------------------------------------------
\* The bounds are numbers.
LEMMA BoundsAre ==
  /\ MaxGen \in Nat /\ MaxRotation \in Nat /\ MaxId \in Nat
  /\ MaxGen >= 1 /\ MaxRotation >= 1 /\ MaxId >= 1
BY BoundsAssumption

\* A credential is two numbers, and the one none has is older than any.
LEMMA ContextIs ==
  /\ \A x \in Contexts : x.gen \in Nat /\ x.tok \in Nat
  /\ Anon \in Contexts /\ Anon.gen = 0 /\ Anon.tok = 0
  /\ Current.gen = gen /\ Current.tok = tok
  /\ SessionOK => Current \in Contexts
BY BoundsAre DEF Contexts, Anon, Current, SessionOK

\* What is not an id.
LEMMA NoId == None \notin Ids /\ Denied \notin Ids /\ Lost \notin Ids /\ NotFound \notin Ids
              /\ None \in Nat /\ Denied \in Nat /\ Lost \in Nat /\ NotFound \in Nat
              /\ Ids \subseteq Nat
BY BoundsAre DEF None, Denied, Lost, NotFound, Ids

\* No older credential becomes newer by comparing over one between.
LEMMA LeTransitive ==
  ASSUME NEW x \in Contexts, NEW y \in Contexts, NEW z \in Contexts, Le(x, y), Le(y, z)
  PROVE  Le(x, z)
BY ContextIs DEF Le

\* What the client has is a credential.
LEMMA CurrentIs == SessionOK => Current \in Contexts /\ Le(Current, Current)
<1> SUFFICES ASSUME SessionOK PROVE Current \in Contexts /\ Le(Current, Current)
  OBVIOUS
<1>1. gen \in Nat /\ tok \in Nat
  BY BoundsAre DEF SessionOK
<1> QED
  BY <1>1, ContextIs DEF Le

\* The session goes on.
Onward ==
  /\ gen' \in 0..MaxGen /\ tok' \in 0..MaxRotation
  /\ gen < gen' \/ (gen = gen' /\ tok <= tok' /\ (pending => pending'))

\* The platform does.
Evolves ==
  /\ deployed' \in Ids /\ deployed <= deployed'
  /\ deployed = deployed' => (exists' => exists)

\* Any change of the session is one onward.
LEMMA SessionGoesOn ==
  ASSUME SessionOK,
         SessionChanges \/ UNCHANGED session \/ (\E g, answer : Taken(g, answer))
  PROVE  Onward
<1>1. gen \in Nat /\ tok \in Nat /\ gen <= MaxGen /\ tok <= MaxRotation
  BY BoundsAre DEF SessionOK
<1>2. ASSUME NEW t \in {0, 1}, NewSession(t) PROVE Onward
  BY <1>1, <1>2, BoundsAre DEF NewSession, Onward
<1>3. CASE UNCHANGED <<gen, tok, pending>>
  BY <1>1, <1>3, BoundsAre DEF Onward
<1>4. CASE UNCHANGED session
  BY <1>3, <1>4 DEF session
<1>5. ASSUME NEW g, NEW answer, Taken(g, answer) PROVE Onward
  <2>1. CASE g # gen \/ pending \/ answer = "failed"
    BY <1>3, <1>5, <2>1 DEF Taken
  <2>2. CASE ~(g # gen \/ pending \/ answer = "failed") /\ answer = "ok"
    <3>1. tok < MaxRotation /\ tok' = tok + 1 /\ gen' = gen /\ pending' = pending
      BY <1>5, <2>2 DEF Taken
    <3> QED
      BY <1>1, <3>1, BoundsAre DEF Onward
  <2>3. CASE ~(g # gen \/ pending \/ answer = "failed") /\ answer # "ok"
    BY <1>2, <1>5, <2>3 DEF Taken
  <2> QED
    BY <2>1, <2>2, <2>3
<1>6. CASE SessionChanges
  <2>1. CASE SignIn
    BY <1>2, <2>1 DEF SignIn
  <2>2. CASE SignOutBegins
    BY <1>1, <2>2, BoundsAre DEF SignOutBegins, Onward
  <2>3. CASE SignOutEnds
    BY <1>2, <2>3 DEF SignOutEnds
  <2>4. CASE RefreshedElsewhere
    BY <1>1, <2>4, BoundsAre DEF RefreshedElsewhere, Onward
  <2>5. CASE ExchangeEnds
    <3>1. NewSession(1) \/ UNCHANGED <<gen, tok, pending>>
      BY <2>5 DEF ExchangeEnds
    <3> QED
      BY <1>2, <1>3, <3>1
  <2> QED
    BY <1>6, <2>1, <2>2, <2>3, <2>4, <2>5 DEF SessionChanges
<1> QED
  BY <1>4, <1>5, <1>6

\* What was the client's credential stays older than what it has by now.
LEMMA KeysLast ==
  ASSUME SessionOK, Onward, NEW r, KeysOK(r)
  PROVE  KeysOK(r)'
<1>1. gen \in Nat /\ tok \in Nat /\ gen' \in Nat /\ tok' \in Nat
  BY BoundsAre DEF SessionOK, Onward
<1>2. r.ctx.gen \in Nat /\ r.ctx.tok \in Nat /\ r.key.gen \in Nat /\ r.key.tok \in Nat
  BY ContextIs DEF KeysOK
<1>3. Current'.gen = gen' /\ Current'.tok = tok'
  BY DEF Current
<1>4. Le(r.ctx, Current)' /\ Le(r.key, Current)'
  BY <1>1, <1>2, <1>3, ContextIs DEF KeysOK, Le, Onward
<1>5. ASSUME r.st = "refreshing", IsCurrent(r.ctx)', r.ans = "same" \/ (r.ans = "ok" /\ ~pending')
      PROVE  r.ctx.tok < tok'
  <2>1. r.ctx.gen = gen'
    BY <1>5 DEF IsCurrent
  <2>2. gen = gen' /\ tok <= tok' /\ (pending => pending')
    BY <1>1, <1>2, <2>1, ContextIs DEF KeysOK, Le, Onward
  <2>3. r.ctx.tok < tok
    BY <1>5, <2>1, <2>2 DEF KeysOK, IsCurrent
  <2> QED
    BY <1>1, <1>2, <2>2, <2>3
<1> QED
  BY <1>4, <1>5 DEF KeysOK

\* What is gone stays gone, and what was given stays given.
LEMMA IdsLast ==
  ASSUME deployed \in Ids, Evolves
  PROVE  /\ \A x \in Nat : IsGone(x) => IsGone(x)'
         /\ \A x \in Nat : Given(x) => Given(x)'
<1>1. deployed \in Nat /\ deployed' \in Nat
  BY NoId DEF Evolves
<1> QED
  BY <1>1, NoId DEF Evolves, IsGone, Given

-----------------------------------------------------------------------------
\* What the invariants say of one call.
LEMMA OfShared ==
  ASSUME IInv, SInv, NEW c \in Calls
  PROVE  /\ DOMAIN call[c] = Fields /\ DOMAIN call = Calls
         /\ KeysOK(call[c]) /\ AnswerOK(call[c]) /\ RoundOK(c, call[c])
BY OfCall DEF SInv, Fine

\* A step of one call, while the session and the platform stay.
LEMMA OneShares ==
  ASSUME IInv, SInv, NEW c \in Calls, NEW r,
         call' = [call EXCEPT ![c] = r], UNCHANGED <<session, platform>>,
         GoodEntries(cache)', FlightsOK', SharedOK', Fine(c, r)',
         \A d \in Calls \ {c} : flight'[<<d, 1>>] = flight[<<d, 1>>]
  PROVE  SInv'
<1>1. gen' = gen /\ tok' = tok /\ pending' = pending /\ deployed' = deployed /\ exists' = exists
  BY DEF session, platform
<1>2. SessionOK' /\ (deployed \in Ids)'
  BY <1>1 DEF SInv, SessionOK
<1>3. SessionOK /\ Onward
  BY <1>1, BoundsAre DEF SInv, SessionOK, Onward
<1>4. deployed \in Ids /\ Evolves
  BY <1>1, NoId DEF SInv, Evolves
<1>5. \A d \in Calls : Fine(d, call[d])'
  <2> TAKE d \in Calls
  <2>1. CASE d = c
    <3>1. call'[c] = r
      BY OfShared
    <3> QED
      BY <2>1, <3>1 DEF Fine, KeysOK, AnswerOK, RoundOK
  <2>2. CASE d # c
    <3>1. PICK q : q = call[d]
      OBVIOUS
    <3>2. call'[d] = q /\ KeysOK(q) /\ AnswerOK(q) /\ RoundOK(d, q)
      BY <2>2, <3>1, OfShared
    <3>3. KeysOK(q)'
      BY <1>3, <3>2, KeysLast
    <3>4. AnswerOK(q)'
      BY <1>4, <3>2, IdsLast, NoId DEF AnswerOK
    <3>5. RoundOK(d, q)'
      <4>1. flight'[<<d, 1>>] = flight[<<d, 1>>]
        BY <2>2
      <4>2. q.round = 2 => IsGone(q.gone)'
        BY <1>4, <3>2, IdsLast, NoId DEF RoundOK
      <4> QED
        BY <3>2, <4>1, <4>2 DEF RoundOK, Le
    <3> QED
      BY <3>2, <3>3, <3>4, <3>5 DEF Fine, KeysOK, AnswerOK, RoundOK
  <2> QED
    BY <2>1, <2>2
<1> QED
  BY <1>2, <1>5 DEF SInv

\* A step of a call that neither waits for a request nor owns one.
LEMMA OneAlone ==
  ASSUME IInv, SInv, NEW c \in Calls, call[c].st \notin {"resolving", "refreshing"}, NEW r,
         call' = [call EXCEPT ![c] = r], UNCHANGED <<session, platform, shared>>, Fine(c, r)
  PROVE  SInv'
<1>1. /\ gen' = gen /\ tok' = tok /\ pending' = pending /\ deployed' = deployed /\ exists' = exists
      /\ cache' = cache /\ inFlight' = inFlight /\ flight' = flight
  BY DEF session, platform, shared
<1>2. GoodEntries(cache)' /\ FlightsOK'
  BY <1>1 DEF SInv, GoodEntries, FlightsOK, Given
<1>3. SharedOK'
  <2>1. \A d \in Calls \ {c} : call'[d] = call[d]
    BY OfShared
  <2>2. \A k \in Contexts : inFlight[k] # Nobody => inFlight[k] \in Flights /\ inFlight[k][1] # c
    BY DEF SInv, SharedOK
  <2>3. \A f \in Flights : f[1] \in Calls
    BY DEF Flights
  <2> QED
    BY <1>1, <2>1, <2>2, <2>3 DEF SInv, SharedOK
<1>4. Fine(c, r)'
  <2>1. KeysOK(r)'
    BY <1>1 DEF Fine, KeysOK, Le, Current, IsCurrent
  <2>2. AnswerOK(r)'
    BY <1>1 DEF Fine, AnswerOK, Given, IsGone
  <2>3. RoundOK(c, r)'
    BY <1>1 DEF Fine, RoundOK, IsGone, Le
  <2> QED
    BY <2>1, <2>2, <2>3 DEF Fine
<1> QED
  BY <1>1, <1>2, <1>3, <1>4, OneShares

\* A call that has ended keeps nothing.
LEMMA EndedFine ==
  ASSUME SInv, NEW c, NEW r, NEW t
  PROVE  /\ Fine(c, Finalized(r, t)) /\ Finalized(r, t).st = "ended"
         /\ Fine(c, Failed(r, t)) /\ Failed(r, t).st = "ended"
<1>1. ASSUME NEW s, s.st = "ended", s.ctx = Anon, s.key = Anon, s.cleared = Anon, s.out = None,
             s.fl = Nobody, s.round = 1
      PROVE  Fine(c, s)
  <2>1. KeysOK(s)
    BY <1>1, ContextIs, BoundsAre DEF KeysOK, Le, SInv, SessionOK
  <2>2. AnswerOK(s)
    BY <1>1, NoId DEF AnswerOK, Given, HasId
  <2>3. RoundOK(c, s)
    BY <1>1 DEF RoundOK
  <2> QED
    BY <2>1, <2>2, <2>3 DEF Fine
<1>2. ASSUME NEW u
      PROVE  LET s == [NoCall EXCEPT !.st = "ended", !.told = u]
             IN /\ s.st = "ended" /\ s.ctx = Anon /\ s.key = Anon /\ s.cleared = Anon /\ s.out = None
                /\ s.fl = Nobody /\ s.round = 1
  BY DEF NoCall
<1>3. \A u : Fine(c, [NoCall EXCEPT !.st = "ended", !.told = u])
             /\ [NoCall EXCEPT !.st = "ended", !.told = u].st = "ended"
  BY <1>1, <1>2
<1>4. Fine(c, Finalized(r, t)) /\ Finalized(r, t).st = "ended"
  BY <1>3 DEF Finalized
<1> QED
  BY <1>3, <1>4 DEF Failed

\* A call leaves what it owned; the requests of others stay.
LEMMA LeaveShares ==
  ASSUME IInv, SInv, NEW c \in Calls, UNCHANGED <<session, platform>>, GoodEntries(cache)',
         NEW shares, shares \in [Contexts -> Flights \cup {Nobody}],
         \A k \in Contexts : shares[k] \in {inFlight[k], Nobody},
         NEW r, Leave(c, r, shares), KeysOK(r), AnswerOK(r), RoundOK(c, r), r.st # "resolving"
  PROVE  SInv'
<1>0. /\ call' = [call EXCEPT ![c] = r] /\ inFlight' = Release(c, shares)
      /\ flight' = [f \in Flights |-> IF f[1] = c THEN NoFlight ELSE flight[f]]
  BY DEF Leave
<1>1. gen' = gen /\ tok' = tok /\ pending' = pending /\ deployed' = deployed /\ exists' = exists
  BY DEF session, platform
<1>2. FlightsOK'
  <2>1. NoFlight \in [st : {"none", "sent", "answered", "settled"}, key : Contexts, out : Nat]
        /\ NoFlight.out = None
    BY ContextIs, NoId DEF NoFlight
  <2>2. \A f \in Flights : Given(flight'[f].out)
    BY <1>0, <2>1, NoId DEF SInv, FlightsOK, Given
  <2>3. flight' \in [Flights -> [st : {"none", "sent", "answered", "settled"}, key : Contexts, out : Nat]]
    BY <1>0, <2>1 DEF SInv, FlightsOK
  <2> QED
    BY <1>1, <2>2, <2>3 DEF FlightsOK, Given
<1>3. SharedOK'
  <2>1. \A d \in Calls \ {c} : call'[d] = call[d]
    BY <1>0, OfShared
  <2>2. inFlight' \in [Contexts -> Flights \cup {Nobody}]
    BY <1>0 DEF Release
  <2>3. ASSUME NEW k \in Contexts, inFlight'[k] # Nobody
        PROVE  /\ inFlight'[k] = inFlight[k] /\ inFlight[k] \in Flights /\ inFlight[k][1] # c
               /\ inFlight[k][1] \in Calls /\ flight'[inFlight[k]] = flight[inFlight[k]]
    <3>1. inFlight'[k] = inFlight[k] /\ inFlight[k][1] # c /\ inFlight[k] \in Flights
      BY <1>0, <2>3 DEF Release, SInv, SharedOK
    <3>2. inFlight[k][1] \in Calls
      BY <3>1 DEF Flights
    <3> QED
      BY <1>0, <3>1, <3>2
  <2> QED
    BY <2>1, <2>2, <2>3 DEF SInv, SharedOK
<1>4. Fine(c, r)'
  <2>1. KeysOK(r)'
    BY <1>1 DEF KeysOK, Le, Current, IsCurrent
  <2>2. AnswerOK(r)'
    BY <1>1 DEF AnswerOK, Given, IsGone
  <2>3. RoundOK(c, r)'
    BY <1>1 DEF RoundOK, IsGone, Le
  <2> QED
    BY <2>1, <2>2, <2>3 DEF Fine
<1>5. \A d \in Calls \ {c} : flight'[<<d, 1>>] = flight[<<d, 1>>]
  BY <1>0 DEF Flights
<1> QED
  BY <1>0, <1>2, <1>3, <1>4, <1>5, OneShares

\* A resolution: of the first round, of a call whose refresh brought a newer credential,
\* or of one that forgot what its key stood for.
LEMMA ResolveShares ==
  ASSUME IInv, SInv, NEW c \in Calls, UNCHANGED <<session, platform>>,
         NEW entries, GoodEntries(entries),
         NEW shares, shares \in [Contexts -> Flights \cup {Nobody}],
         \A k \in Contexts : shares[k] \in {inFlight[k], Nobody},
         NEW r, DOMAIN r = Fields, Resolve(c, r, entries, shares),
         r.ctx \in Contexts, Le(r.ctx, Current), r.cleared \in Contexts, r.fl = Nobody,
         \A k \in Contexts : shares[k] # Nobody /\ shares[k][1] = c => shares[k][2] = 1 /\ r.again,
         r.round = 2 =>
           /\ r.gone \in Ids /\ IsGone(r.gone) /\ Le(r.cleared, r.ctx)
           /\ KeyOf(r) = r.cleared =>
                ~r.again /\ entries[r.cleared] \notin Ids /\ shares[r.cleared] = Nobody
  PROVE  SInv'
<1> DEFINE k == KeyOf(r)
           f == <<c, IF r.again THEN 2 ELSE 1>>
           waits == [r EXCEPT !.st = "resolving", !.key = k, !.out = None]
           Joined(e) == IF flight[e].st = "settled" THEN flight[e].out ELSE None
           found == [waits EXCEPT !.st = "resolved", !.out = entries[k]]
           joins == [waits EXCEPT !.fl = shares[k], !.out = Joined(shares[k])]
           asks == [waits EXCEPT !.fl = f]
<1>1. /\ gen' = gen /\ tok' = tok /\ pending' = pending /\ deployed' = deployed /\ exists' = exists
      /\ cache' = entries
  BY DEF session, platform, Resolve
<1>2. GoodEntries(cache)'
  BY <1>1 DEF GoodEntries, Given
<1>3. k \in Contexts /\ Le(k, Current)
  BY ContextIs, BoundsAre DEF KeyOf, Le, SInv, SessionOK
<1>4. f \in Flights
  BY DEF Flights
<1>5. entries[k] \in Nat /\ Given(entries[k])
  BY <1>3 DEF GoodEntries
<1>7. CASE ~IsCurrent(r.ctx)
  <2>1. Leave(c, Failed(r, "changed"), shares)
    BY <1>7 DEF Resolve
  <2>2. /\ KeysOK(Failed(r, "changed")) /\ AnswerOK(Failed(r, "changed"))
        /\ RoundOK(c, Failed(r, "changed")) /\ Failed(r, "changed").st # "resolving"
    BY EndedFine DEF Fine
  <2> QED
    BY <1>2, <2>1, <2>2, LeaveShares
<1>8. CASE IsCurrent(r.ctx) /\ entries[k] \in Ids
  <2>1. Leave(c, found, shares)
    BY <1>8 DEF Resolve
  <2>2. /\ found.st = "resolved" /\ found.key = k /\ found.out = entries[k] /\ found.ctx = r.ctx
        /\ found.cleared = r.cleared /\ found.fl = Nobody /\ found.gone = r.gone /\ found.round = r.round
    BY DEF Fields
  <2> HIDE DEF found, k
  <2>3. KeysOK(found)
    BY <1>3, <2>2 DEF KeysOK
  <2>4. AnswerOK(found)
    BY <1>5, <1>8, <2>2 DEF AnswerOK, HasId
  <2>5. k = r.cleared => r.round # 2
    BY <1>8 DEF k
  <2>6. RoundOK(c, found)
    BY <2>2, <2>5 DEF RoundOK
  <2> QED
    BY <1>2, <2>1, <2>2, <2>3, <2>4, <2>6, LeaveShares
<1>9. CASE IsCurrent(r.ctx) /\ entries[k] \notin Ids /\ entries[k] = NotFound
  <2>1. Leave(c, Failed(r, "failed"), shares)
    BY <1>9 DEF Resolve
  <2>2. /\ KeysOK(Failed(r, "failed")) /\ AnswerOK(Failed(r, "failed"))
        /\ RoundOK(c, Failed(r, "failed")) /\ Failed(r, "failed").st # "resolving"
    BY EndedFine DEF Fine
  <2> QED
    BY <1>2, <2>1, <2>2, LeaveShares
\* The requests of the others keep their owners.
<1>10. ASSUME NEW s, s.st = "resolving", s.again = r.again, call' = [call EXCEPT ![c] = s],
              inFlight' \in [Contexts -> Flights \cup {Nobody}],
              \A j \in Contexts : inFlight'[j] # Nobody =>
                /\ flight'[inFlight'[j]].key = j
                /\ inFlight'[j] = shares[j] \/ inFlight'[j] = f
       PROVE  SharedOK'
  <2> HIDE DEF f
  <2>1. call'[c] = s /\ \A d \in Calls \ {c} : call'[d] = call[d]
    BY <1>10, OfShared
  <2>2. f[1] = c /\ (f[2] = 2 => r.again)
    BY DEF f
  <2>3. ASSUME NEW j \in Contexts, inFlight'[j] # Nobody
        PROVE  /\ call'[inFlight'[j][1]].st \in {"resolving", "refreshing"}
               /\ inFlight'[j][2] = 2 =>
                    call'[inFlight'[j][1]].st = "resolving" /\ call'[inFlight'[j][1]].again
    <3>1. CASE inFlight'[j] = f
      BY <1>10, <2>1, <2>2, <3>1
    <3>2. CASE inFlight'[j] = shares[j] /\ shares[j][1] = c
      <4>1. shares[j][2] = 1
        BY <2>3, <3>2
      <4> QED
        BY <1>10, <2>1, <3>2, <4>1
    <3>3. CASE inFlight'[j] = shares[j] /\ shares[j][1] # c
      <4>1. shares[j] = inFlight[j] /\ inFlight[j] # Nobody /\ inFlight[j] \in Flights
        BY <2>3, <3>3 DEF SInv, SharedOK
      <4>2. inFlight[j][1] \in Calls \ {c}
        BY <3>3, <4>1 DEF Flights
      <4> QED
        BY <2>1, <3>3, <4>1, <4>2 DEF SInv, SharedOK
    <3> QED
      BY <1>10, <2>3, <3>1, <3>2, <3>3
  <2> QED
    BY <1>10, <2>3 DEF SharedOK
<1>11. CASE IsCurrent(r.ctx) /\ entries[k] \notin Ids /\ entries[k] # NotFound /\ shares[k] # Nobody
  <2>1. call' = [call EXCEPT ![c] = joins] /\ inFlight' = shares /\ flight' = flight
    BY <1>11 DEF Resolve
  <2>2. /\ joins.st = "resolving" /\ joins.key = k /\ joins.out = Joined(shares[k]) /\ joins.ctx = r.ctx
        /\ joins.cleared = r.cleared /\ joins.gone = r.gone /\ joins.round = r.round
        /\ joins.again = r.again
    BY DEF Fields
  <2>3. Joined(shares[k]) \in Nat /\ Given(Joined(shares[k]))
    <3>1. shares[k] \in Flights
      BY <1>3, <1>11
    <3> QED
      BY <3>1, NoId DEF SInv, FlightsOK, Given
  <2>4. k = r.cleared => r.round # 2
    BY <1>11
  <2>5. PICK s : s = joins
    OBVIOUS
  <2> HIDE DEF joins, k, f, Joined
  <2>6. KeysOK(s)'
    BY <1>1, <1>3, <2>2, <2>5 DEF KeysOK, Le, Current, IsCurrent
  <2>7. AnswerOK(s)'
    BY <1>1, <2>2, <2>3, <2>5 DEF AnswerOK, HasId, Given
  <2>8. RoundOK(c, s)'
    BY <1>1, <2>2, <2>4, <2>5 DEF RoundOK, IsGone, Le
  <2>9. FlightsOK'
    BY <1>1, <2>1 DEF SInv, FlightsOK, Given
  <2>10. SharedOK'
    <3>1. \A j \in Contexts : inFlight'[j] # Nobody => flight'[inFlight'[j]].key = j
      BY <2>1 DEF SInv, SharedOK
    <3> QED
      BY <1>10, <2>1, <2>2, <3>1
  <2> QED
    BY <1>2, <2>1, <2>5, <2>6, <2>7, <2>8, <2>9, <2>10, OneShares DEF Fine
<1>12. CASE IsCurrent(r.ctx) /\ entries[k] \notin Ids /\ entries[k] # NotFound /\ shares[k] = Nobody
  <2> DEFINE sent == [st |-> "sent", key |-> k, out |-> None]
  <2>1. call' = [call EXCEPT ![c] = asks] /\ inFlight' = [shares EXCEPT ![k] = f]
        /\ flight' = [flight EXCEPT ![f] = sent]
    BY <1>12 DEF Resolve
  <2>2. /\ asks.st = "resolving" /\ asks.key = k /\ asks.out = None /\ asks.ctx = r.ctx
        /\ asks.cleared = r.cleared /\ asks.gone = r.gone /\ asks.round = r.round
        /\ asks.again = r.again /\ asks.fl = f
    BY DEF Fields
  <2>3. flight'[f] = sent /\ \A e \in Flights \ {f} : flight'[e] = flight[e]
    BY <1>4, <2>1 DEF SInv, FlightsOK
  <2>4. r.round = 2 /\ k = r.cleared => f = <<c, 1>>
    OBVIOUS
  <2>5. sent \in [st : {"none", "sent", "answered", "settled"}, key : Contexts, out : Nat]
        /\ sent.key = k /\ sent.out = None
    BY <1>3, NoId
  <2>6. f[1] = c /\ (\A d \in Calls \ {c} : <<d, 1>> # f /\ <<d, 1>> \in Flights)
    BY DEF Flights
  <2>7. \A j \in Contexts : shares[j] # f
    <3> SUFFICES ASSUME NEW j \in Contexts, shares[j] = f PROVE FALSE
      OBVIOUS
    <3>1. \A x, y : <<x, y>> # Nobody
      BY DEF Nobody
    <3>2. shares[j] # Nobody /\ shares[j][1] = c
      BY <3>1
    <3>3. shares[j][2] = 1 /\ r.again
      BY <3>2
    <3> QED
      BY <3>3
  <2> HIDE DEF asks, k, f, sent
  <2>8. KeysOK(asks)'
    BY <1>1, <1>3, <2>2 DEF KeysOK, Le, Current, IsCurrent
  <2>9. AnswerOK(asks)'
    BY <1>1, <2>2, NoId DEF AnswerOK, HasId, Given
  <2>10. RoundOK(c, asks)'
    <3>1. r.round = 2 => /\ r.gone \in Ids /\ IsGone(r.gone)' /\ Le(r.cleared, r.ctx)
      BY <1>1 DEF IsGone
    <3>2. r.round = 2 /\ k = r.cleared => f = <<c, 1>> /\ flight'[<<c, 1>>].out # r.gone /\ None # r.gone
      BY <2>3, <2>4, <2>5, <3>1, NoId
    <3> QED
      BY <2>2, <3>1, <3>2 DEF RoundOK, HasId, Le
  <2>11. FlightsOK'
    <3>1. flight' \in [Flights -> [st : {"none", "sent", "answered", "settled"}, key : Contexts, out : Nat]]
      BY <2>1, <2>5 DEF SInv, FlightsOK
    <3>2. \A e \in Flights : Given(flight'[e].out)
      BY <2>3, <2>5, NoId DEF SInv, FlightsOK, Given
    <3> QED
      BY <1>1, <3>1, <3>2 DEF FlightsOK, Given
  <2>12. SharedOK'
    <3>1. inFlight' \in [Contexts -> Flights \cup {Nobody}]
      BY <1>3, <1>4, <2>1
    <3>2. ASSUME NEW j \in Contexts, inFlight'[j] # Nobody
          PROVE  flight'[inFlight'[j]].key = j /\ (inFlight'[j] = shares[j] \/ inFlight'[j] = f)
      <4>1. CASE j = k
        BY <1>3, <2>1, <2>3, <2>5, <4>1
      <4>2. CASE j # k
        <5>1. inFlight'[j] = shares[j] /\ shares[j] = inFlight[j] /\ shares[j] # f /\ shares[j] \in Flights
          BY <2>1, <2>7, <3>2, <4>2
        <5> QED
          BY <2>3, <3>2, <5>1 DEF SInv, SharedOK
      <4> QED
        BY <4>1, <4>2
    <3> QED
      BY <1>10, <2>1, <2>2, <3>1, <3>2
  <2>13. \A d \in Calls \ {c} : flight'[<<d, 1>>] = flight[<<d, 1>>]
    BY <2>3, <2>6
  <2> QED
    BY <1>2, <2>1, <2>8, <2>9, <2>10, <2>11, <2>12, <2>13, OneShares DEF Fine
<1> QED
  BY <1>7, <1>8, <1>9, <1>11, <1>12

-----------------------------------------------------------------------------
\* Every step keeps it.

LEMMA SharesInit == Init => SInv
<1> SUFFICES ASSUME Init PROVE SInv
  OBVIOUS
<1>1. SessionOK /\ deployed \in Ids
  BY BoundsAre DEF Init, SessionInit, SessionOK, Ids
<1>2. GoodEntries(cache)
  BY NoId DEF Init, GoodEntries, Given
<1>3. FlightsOK
  <2>1. NoFlight \in [st : {"none", "sent", "answered", "settled"}, key : Contexts, out : Nat]
        /\ NoFlight.out = None
    BY ContextIs, NoId DEF NoFlight
  <2> QED
    BY <2>1, NoId DEF Init, FlightsOK, Given
<1>4. SharedOK
  BY DEF Init, SharedOK
<1>5. ASSUME NEW c \in Calls PROVE Fine(c, NoCall)
  <2>1. /\ NoCall.st = "idle" /\ NoCall.ctx = Anon /\ NoCall.key = Anon /\ NoCall.cleared = Anon
        /\ NoCall.out = None /\ NoCall.fl = Nobody /\ NoCall.round = 1
    BY DEF NoCall
  <2>2. KeysOK(NoCall)
    BY <1>1, <2>1, ContextIs, BoundsAre DEF KeysOK, Le, SessionOK
  <2>3. AnswerOK(NoCall)
    BY <2>1, NoId DEF AnswerOK, Given, HasId
  <2>4. RoundOK(c, NoCall)
    BY <2>1 DEF RoundOK
  <2> QED
    BY <2>2, <2>3, <2>4 DEF Fine
<1> QED
  BY <1>1, <1>2, <1>3, <1>4, <1>5 DEF SInv, Init

\* What the session and the platform do beside the calls, and what that does to them.
LEMMA AroundShares ==
  ASSUME IInv, SInv, Onward, Evolves, UNCHANGED <<inFlight, flight>>, GoodEntries(cache)',
         DOMAIN call' = Calls,
         \A c \in Calls : KeysOK(call[c]) =>
           /\ KeysOK(call[c])'
           /\ call'[c].st = call[c].st /\ call'[c].again = call[c].again /\ call'[c].fl = call[c].fl
           /\ call'[c].out = call[c].out /\ call'[c].round = call[c].round
           /\ call'[c].gone = call[c].gone /\ call'[c].cleared = call[c].cleared
           /\ call'[c].key = call[c].key /\ call'[c].ctx = call[c].ctx
           /\ call[c].st = "invoking" => call'[c].ans = call[c].ans
  PROVE  SInv'
<1>1. inFlight' = inFlight /\ flight' = flight
  OBVIOUS
<1>2. deployed \in Ids /\ SessionOK' /\ (deployed \in Ids)'
  BY DEF SInv, Onward, SessionOK, Evolves
<1>3. FlightsOK'
  <2>1. \A f \in Flights : flight[f].out \in Nat /\ Given(flight[f].out)
    BY DEF SInv, FlightsOK
  <2>2. \A f \in Flights : Given(flight[f].out)'
    BY <1>1, <1>2, <2>1, IdsLast
  <2> QED
    BY <1>1, <2>2 DEF SInv, FlightsOK
<1>4. ASSUME NEW c \in Calls
      PROVE  /\ KeysOK(call[c])'
             /\ call'[c].st = call[c].st /\ call'[c].again = call[c].again /\ call'[c].fl = call[c].fl
             /\ call'[c].out = call[c].out /\ call'[c].round = call[c].round
             /\ call'[c].gone = call[c].gone /\ call'[c].cleared = call[c].cleared
             /\ call'[c].key = call[c].key /\ call'[c].ctx = call[c].ctx
             /\ call[c].st = "invoking" => call'[c].ans = call[c].ans
  BY OfShared
<1>5. SharedOK'
  <2>1. \A f \in Flights : f[1] \in Calls
    BY DEF Flights
  <2> QED
    BY <1>1, <1>4, <2>1 DEF SInv, SharedOK
<1>6. ASSUME NEW c \in Calls PROVE Fine(c, call[c])'
  <2>1. PICK q, p : q = call[c] /\ p = call'[c]
    OBVIOUS
  <2>2. AnswerOK(q) /\ RoundOK(c, q)
    BY <2>1, OfShared
  <2>3. AnswerOK(p)'
    BY <1>2, <1>4, <2>1, <2>2, IdsLast, NoId DEF AnswerOK
  <2>4. RoundOK(c, p)'
    <3>1. q.round = 2 => IsGone(q.gone)'
      BY <1>2, <2>2, IdsLast, NoId DEF RoundOK
    <3> QED
      BY <1>1, <1>4, <2>1, <2>2, <3>1 DEF RoundOK, Le
  <2>5. KeysOK(p)'
    BY <1>4, <2>1
  <2> QED
    BY <2>1, <2>3, <2>4, <2>5 DEF Fine, KeysOK, AnswerOK, RoundOK
<1> QED
  BY <1>2, <1>3, <1>5, <1>6 DEF SInv

\* Nothing happens to the calls.
LEMMA QuietShares ==
  ASSUME IInv, SInv, Onward, Evolves, UNCHANGED <<inFlight, flight, call>>,
         \A k \in Contexts : cache'[k] \in {cache[k], None}, cache' \in [Contexts -> Nat]
  PROVE  SInv'
<1>1. call' = call
  OBVIOUS
<1>2. GoodEntries(cache)'
  BY IdsLast, NoId DEF SInv, GoodEntries, Given, Evolves
<1>3. ASSUME NEW c \in Calls PROVE KeysOK(call[c])'
  <2>1. PICK q : q = call[c]
    OBVIOUS
  <2>2. KeysOK(q)'
    BY <2>1, OfShared, KeysLast DEF SInv
  <2> QED
    BY <1>1, <2>1, <2>2 DEF KeysOK
<1>4. DOMAIN call' = Calls /\ UNCHANGED <<inFlight, flight>>
  BY <1>1 DEF IInv, Shaped
<1> QED
  BY <1>1, <1>2, <1>3, <1>4, AroundShares

LEMMA StaysStill ==
  ASSUME SInv, UNCHANGED <<gen, tok, pending, deployed, exists>>
  PROVE  Onward /\ Evolves
BY BoundsAre, NoId DEF SInv, SessionOK, Onward, Evolves

\* The refresh of a generation ends; one that brought a token is newer.
LEMMA RefreshShares == ASSUME IInv, SInv, NEW g, RefreshEnds(g) PROVE SInv'
<1>1. PICK answer \in {"ok", "denied", "failed"} :
        /\ call' = [c \in Calls |->
             IF Waiting(c) /\ call[c].ctx.gen = g THEN [call[c] EXCEPT !.ans = answer] ELSE call[c]]
        /\ Taken(g, answer)
  BY DEF RefreshEnds
<1>2. /\ deployed' = deployed /\ exists' = exists /\ cache' = cache
      /\ inFlight' = inFlight /\ flight' = flight
  BY DEF RefreshEnds, platform, shared
<1>3. Onward
  BY <1>1, SessionGoesOn DEF SInv
<1>4. Evolves
  BY <1>2, NoId DEF SInv, Evolves
<1>5. GoodEntries(cache)'
  BY <1>2 DEF SInv, GoodEntries, Given
<1>6. ASSUME NEW c \in Calls
      PROVE  /\ KeysOK(call[c])'
             /\ call'[c].st = call[c].st /\ call'[c].again = call[c].again /\ call'[c].fl = call[c].fl
             /\ call'[c].out = call[c].out /\ call'[c].round = call[c].round
             /\ call'[c].gone = call[c].gone /\ call'[c].cleared = call[c].cleared
             /\ call'[c].key = call[c].key /\ call'[c].ctx = call[c].ctx
             /\ call[c].st = "invoking" => call'[c].ans = call[c].ans
  <2>1. PICK q : q = call[c]
    OBVIOUS
  <2>2. DOMAIN q = Fields /\ KeysOK(q) /\ KeysOK(q)'
    BY <1>3, <2>1, OfShared, KeysLast DEF SInv
  <2>3. CASE ~(Waiting(c) /\ call[c].ctx.gen = g)
    <3>1. call'[c] = q
      BY <1>1, <2>1, <2>3
    <3> QED
      BY <2>1, <2>2, <3>1 DEF KeysOK
  <2>4. CASE Waiting(c) /\ call[c].ctx.gen = g
    <3> DEFINE p == [q EXCEPT !.ans = answer]
    <3>1. call'[c] = p
      BY <1>1, <2>1, <2>4
    <3>2. /\ p.st = q.st /\ p.again = q.again /\ p.fl = q.fl /\ p.out = q.out /\ p.round = q.round
          /\ p.gone = q.gone /\ p.cleared = q.cleared /\ p.key = q.key /\ p.ctx = q.ctx /\ p.anon = q.anon
          /\ p.ans = answer
      BY <2>2 DEF Fields
    <3>3. q.st # "invoking" /\ q.ctx.gen = g
      BY <2>1, <2>4 DEF Waiting
    <3> HIDE DEF p
    <3>4. ASSUME q.st = "refreshing", q.ctx.gen = gen', answer = "ok", ~pending'
          PROVE  q.ctx.tok < tok'
      <4>1. gen \in Nat /\ tok \in Nat /\ q.ctx.gen \in Nat /\ q.ctx.tok \in Nat
        BY <2>2, ContextIs, BoundsAre DEF SInv, SessionOK, KeysOK
      <4>2. g = gen'
        BY <3>3, <3>4
      <4>3. tok' = tok + 1 /\ gen' = gen
        <5>1. CASE g # gen \/ pending
          <6>1. gen' = gen /\ pending' = pending
            BY <1>1, <5>1 DEF Taken
          <6> QED
            BY <3>4, <4>2, <5>1, <6>1
        <5>2. CASE ~(g # gen \/ pending)
          BY <1>1, <3>4, <5>2 DEF Taken
        <5> QED
          BY <5>1, <5>2
      <4>4. q.ctx.tok <= tok
        BY <3>4, <4>1, <4>3, <2>2, ContextIs DEF KeysOK, Le
      <4> QED
        BY <4>1, <4>3, <4>4
    <3>5. KeysOK(p)'
      BY <2>2, <3>2, <3>4 DEF KeysOK, IsCurrent
    <3> QED
      BY <2>1, <3>1, <3>2, <3>3, <3>5 DEF KeysOK
  <2> QED
    BY <2>3, <2>4
<1>7. DOMAIN call' = Calls
  BY <1>1
<1> QED
  BY <1>2, <1>3, <1>4, <1>5, <1>6, <1>7, AroundShares

\* What the platform answers is not the id of a function that is gone.
LEMMA AnswersShares == ASSUME IInv, SInv, NEW f \in Flights, FlightAnswers(f) PROVE SInv'
<1>1. PICK out \in {IF exists THEN deployed ELSE NotFound, Denied, Lost} :
        flight' = [flight EXCEPT ![f] = [@ EXCEPT !.st = "answered", !.out = out]]
  BY DEF FlightAnswers
<1>2. /\ gen' = gen /\ tok' = tok /\ pending' = pending /\ deployed' = deployed /\ exists' = exists
      /\ cache' = cache /\ inFlight' = inFlight /\ call' = call
  BY DEF FlightAnswers, session, platform
<1>3. out \in Nat /\ Given(out)
  BY NoId DEF SInv, Given
<1>4. \A x \in Ids : IsGone(x) => out # x
  <2>1. deployed \in Nat
    BY NoId DEF SInv
  <2> QED
    BY <2>1, NoId DEF IsGone
<1>5. /\ flight' \in [Flights -> [st : {"none", "sent", "answered", "settled"}, key : Contexts, out : Nat]]
      /\ flight'[f].out = out /\ flight'[f].key = flight[f].key
      /\ \A e \in Flights \ {f} : flight'[e] = flight[e]
  <2>1. flight[f] \in [st : {"none", "sent", "answered", "settled"}, key : Contexts, out : Nat]
    BY DEF SInv, FlightsOK
  <2> QED
    BY <1>1, <1>3, <2>1 DEF SInv, FlightsOK
<1>6. FlightsOK'
  <2>1. \A e \in Flights : Given(flight'[e].out)
    BY <1>3, <1>5 DEF SInv, FlightsOK
  <2> QED
    BY <1>2, <1>5, <2>1 DEF FlightsOK, Given
<1>7. SharedOK'
  <2>1. \A e \in Flights : flight'[e].key = flight[e].key
    BY <1>5
  <2> QED
    BY <1>2, <2>1 DEF SInv, SharedOK
<1>8. ASSUME NEW c \in Calls PROVE Fine(c, call[c])'
  <2>1. PICK q : q = call[c]
    OBVIOUS
  <2>2. KeysOK(q) /\ AnswerOK(q) /\ RoundOK(c, q) /\ call'[c] = q
    BY <1>2, <2>1, OfShared
  <2>3. KeysOK(q)'
    BY <1>2, <2>2 DEF KeysOK, Le, Current, IsCurrent
  <2>4. AnswerOK(q)'
    BY <1>2, <2>2 DEF AnswerOK, Given, IsGone
  <2>5. RoundOK(c, q)'
    <3>1. <<c, 1>> \in Flights
      BY DEF Flights
    <3>2. q.round = 2 /\ flight[<<c, 1>>].out # q.gone => flight'[<<c, 1>>].out # q.gone
      BY <1>4, <1>5, <2>2, <3>1 DEF RoundOK
    <3>3. q.round = 2 => IsGone(q.gone)'
      BY <1>2, <2>2 DEF RoundOK, IsGone
    <3> QED
      BY <2>2, <3>2, <3>3 DEF RoundOK, Le
  <2> QED
    BY <2>2, <2>3, <2>4, <2>5 DEF Fine, KeysOK, AnswerOK, RoundOK
<1> QED
  BY <1>2, <1>6, <1>7, <1>8 DEF SInv, SessionOK, GoodEntries, Given

\* Its answer is remembered, and told to all who wait for it.
LEMMA SettlesShares == ASSUME IInv, SInv, NEW f \in Flights, FlightSettles(f) PROVE SInv'
<1> DEFINE out == flight[f].out
<1>1. /\ flight' = [flight EXCEPT ![f].st = "settled"]
      /\ call' = [c \in Calls |-> IF call[c].fl = f THEN [call[c] EXCEPT !.out = out] ELSE call[c]]
  BY DEF FlightSettles
<1>2. /\ gen' = gen /\ tok' = tok /\ pending' = pending /\ deployed' = deployed /\ exists' = exists
      /\ inFlight' = inFlight
  BY DEF FlightSettles, session, platform
<1>3. flight[f] \in [st : {"none", "sent", "answered", "settled"}, key : Contexts, out : Nat]
      /\ out \in Nat /\ Given(out)
  BY DEF SInv, FlightsOK
<1>4. GoodEntries(cache)'
  <2>1. CASE out \in Ids \cup {NotFound}
    <3> DEFINE filled == [cache EXCEPT ![flight[f].key] = out]
    <3>1. \E drop : cache' = [j \in Contexts |-> IF j \in drop THEN None ELSE filled[j]]
      BY <2>1 DEF FlightSettles, Remembered
    <3>2. PICK drop : cache' = [j \in Contexts |-> IF j \in drop THEN None ELSE filled[j]]
      BY <3>1
    <3>3. \A j \in Contexts : filled[j] \in Nat /\ Given(filled[j])
      BY <1>3 DEF SInv, GoodEntries
    <3> HIDE DEF filled
    <3>4. \A j \in Contexts : cache'[j] \in Nat /\ (cache'[j] = None \/ Given(cache'[j]))
      BY <3>2, <3>3, NoId
    <3>5. cache' \in [Contexts -> Nat]
      BY <3>2, <3>4
    <3> QED
      BY <1>2, <3>4, <3>5, NoId DEF GoodEntries, Given
  <2>2. CASE out \notin Ids \cup {NotFound}
    <3>1. cache' = cache
      BY <2>2 DEF FlightSettles
    <3> QED
      BY <1>2, <3>1 DEF SInv, GoodEntries, Given
  <2> QED
    BY <2>1, <2>2
<1>5. /\ flight' \in [Flights -> [st : {"none", "sent", "answered", "settled"}, key : Contexts, out : Nat]]
      /\ \A e \in Flights : flight'[e].out = flight[e].out /\ flight'[e].key = flight[e].key
  BY <1>1, <1>3 DEF SInv, FlightsOK
<1>6. FlightsOK'
  BY <1>2, <1>5 DEF SInv, FlightsOK, Given
<1>7. f # Nobody
  BY DEF Flights, Nobody
<1>8. ASSUME NEW c \in Calls
      PROVE  Fine(c, call[c])' /\ call'[c].st = call[c].st /\ call'[c].again = call[c].again
  <2>1. PICK q, o : q = call[c] /\ o = out
    OBVIOUS
  <2>2. DOMAIN q = Fields /\ KeysOK(q) /\ AnswerOK(q) /\ RoundOK(c, q)
    BY <2>1, OfShared
  <2>3. PICK p : /\ call'[c] = p /\ p.st = q.st /\ p.again = q.again /\ p.fl = q.fl /\ p.round = q.round
                 /\ p.gone = q.gone /\ p.cleared = q.cleared /\ p.key = q.key /\ p.ctx = q.ctx
                 /\ p.anon = q.anon /\ p.ans = q.ans
                 /\ p.out = IF q.fl = f THEN o ELSE q.out
    <3> DEFINE s == [q EXCEPT !.out = o]
    <3>1. /\ s.st = q.st /\ s.again = q.again /\ s.fl = q.fl /\ s.round = q.round
          /\ s.gone = q.gone /\ s.cleared = q.cleared /\ s.key = q.key /\ s.ctx = q.ctx
          /\ s.anon = q.anon /\ s.ans = q.ans /\ s.out = o
      BY <2>2 DEF Fields
    <3>2. call'[c] = IF q.fl = f THEN s ELSE q
      BY <1>1, <2>1
    <3> HIDE DEF s
    <3> QED
      BY <3>1, <3>2
  <2>4. KeysOK(p)'
    BY <1>2, <2>2, <2>3 DEF KeysOK, Le, Current, IsCurrent
  <2>5. q.fl = f => q.st = "resolving"
    BY <1>7, <2>2 DEF AnswerOK
  <2>6. AnswerOK(p)'
    BY <1>2, <1>3, <2>1, <2>2, <2>3, <2>5 DEF AnswerOK, Given, IsGone, HasId
  <2>7. RoundOK(c, p)'
    <3>1. <<c, 1>> \in Flights
      BY DEF Flights
    <3>2. flight'[<<c, 1>>].out = flight[<<c, 1>>].out
      BY <1>5, <3>1
    <3>3. q.round = 2 => IsGone(q.gone)'
      BY <1>2, <2>2 DEF RoundOK, IsGone
    <3> QED
      BY <2>1, <2>2, <2>3, <2>5, <3>2, <3>3 DEF RoundOK, HasId, Le
  <2> QED
    BY <2>1, <2>3, <2>4, <2>6, <2>7 DEF Fine, KeysOK, AnswerOK, RoundOK
<1>9. SharedOK'
  <2>1. \A e \in Flights : e[1] \in Calls
    BY DEF Flights
  <2> QED
    BY <1>2, <1>5, <1>8, <2>1 DEF SInv, SharedOK
<1> QED
  BY <1>2, <1>4, <1>6, <1>8, <1>9 DEF SInv, SessionOK

\* A call begins, with the credential of that moment.
LEMMA BeginsShares ==
  ASSUME IInv, SInv, NEW c \in Calls, Rejected(c) \/ Begin(c) \/ AfterExchange(c)
  PROVE  SInv'
<1> DEFINE r == call[c]
           told(t) == [r EXCEPT !.st = "ended", !.told = t]
           waits == [r EXCEPT !.st = "exchanging"]
           ready == [r EXCEPT !.st = "ready", !.op = Current, !.ctx = Current, !.anon = (tok = 0)]
<1>1. /\ r.st \in {"idle", "exchanging"} /\ UNCHANGED <<session, platform, shared>>
      /\ \E s \in {told("invalid"), told("changed"), waits, ready} : call' = [call EXCEPT ![c] = s]
  BY DEF Rejected, Begin, AfterExchange
<1>2. DOMAIN r = Fields /\ KeysOK(r) /\ AnswerOK(r) /\ RoundOK(c, r)
  BY OfShared
<1>3. r.round = 1
  BY <1>1, <1>2 DEF RoundOK
<1>4. ASSUME NEW s \in {told("invalid"), told("changed"), waits, ready} PROVE Fine(c, s)
  <2>1. /\ s.st \in {"ended", "exchanging", "ready"} /\ s.ctx \in {r.ctx, Current} /\ s.key = r.key
        /\ s.cleared = r.cleared /\ s.out = r.out /\ s.fl = r.fl /\ s.round = 1
    <3>1. CASE s = told("invalid") \/ s = told("changed")
      BY <1>2, <1>3, <3>1 DEF Fields
    <3>2. CASE s = waits
      BY <1>2, <1>3, <3>2 DEF Fields
    <3>3. CASE s = ready
      <4>1. /\ ready.st = "ready" /\ ready.ctx = Current /\ ready.key = r.key
            /\ ready.cleared = r.cleared /\ ready.out = r.out /\ ready.fl = r.fl /\ ready.round = r.round
        BY <1>2 DEF Fields
      <4> HIDE DEF ready
      <4> QED
        BY <1>3, <3>3, <4>1
    <3> QED
      BY <3>1, <3>2, <3>3
  <2>2. Le(Current, Current) /\ Current \in Contexts
    BY CurrentIs DEF SInv
  <2> HIDE DEF told, waits, ready
  <2>3. KeysOK(s)
    BY <1>2, <2>1, <2>2 DEF KeysOK
  <2>4. AnswerOK(s)
    BY <1>1, <1>2, <2>1 DEF AnswerOK, HasId
  <2>5. RoundOK(c, s)
    BY <2>1 DEF RoundOK
  <2> QED
    BY <2>3, <2>4, <2>5 DEF Fine
<1>5. PICK s \in {told("invalid"), told("changed"), waits, ready} : call' = [call EXCEPT ![c] = s]
  BY <1>1
<1>6. Fine(c, s)
  BY <1>4
<1> QED
  BY <1>1, <1>5, <1>6, OneAlone

\* The end of a call that owns nothing.
LEMMA EndsShares ==
  ASSUME IInv, SInv, NEW c \in Calls, call[c].st \notin {"resolving", "refreshing"},
         UNCHANGED <<session, platform, shared>>, NEW r, NEW t,
         call' = [call EXCEPT ![c] = Finalized(r, t)]
  PROVE  SInv'
BY EndedFine, OneAlone

\* A request is sent for the id the call has.
LEMMA SendShares ==
  ASSUME IInv, SInv, NEW c \in Calls, call[c].st \in {"resolved", "refreshing to send"}, NEW again,
         Send(c, call[c], again), UNCHANGED <<session, platform, shared>>
  PROVE  SInv'
<1> DEFINE r == call[c]
           s == [r EXCEPT !.st = "invoking", !.ctx = Current, !.again = again, !.ans = "none"]
<1>1. call' = [call EXCEPT ![c] = s]
  BY DEF Send
<1>2. DOMAIN r = Fields /\ KeysOK(r) /\ AnswerOK(r) /\ RoundOK(c, r)
  BY OfShared
<1>3. /\ s.st = "invoking" /\ s.ctx = Current /\ s.ans = "none" /\ s.key = r.key /\ s.out = r.out
      /\ s.cleared = r.cleared /\ s.fl = r.fl /\ s.gone = r.gone /\ s.round = r.round
  BY <1>2 DEF Fields
<1>4. Le(Current, Current) /\ Current \in Contexts
  BY CurrentIs DEF SInv
<1>5. r.round = 2 => r.cleared \in Contexts /\ Le(r.cleared, Current)
  <2>1. r.round = 2 => Le(r.cleared, r.ctx) /\ Le(r.ctx, Current) /\ r.cleared \in Contexts /\ r.ctx \in Contexts
    BY <1>2 DEF RoundOK, KeysOK
  <2> QED
    BY <1>4, <2>1, LeTransitive
<1> HIDE DEF s
<1>6. KeysOK(s)
  BY <1>2, <1>3, <1>4 DEF KeysOK
<1>7. AnswerOK(s)
  BY <1>2, <1>3 DEF AnswerOK, HasId
<1>8. RoundOK(c, s)
  BY <1>2, <1>3, <1>5 DEF RoundOK, HasId
<1> QED
  BY <1>1, <1>6, <1>7, <1>8, OneAlone DEF Fine

LEMMA InvokeShares == ASSUME IInv, SInv, NEW c \in Calls, Invoke(c) PROVE SInv'
<1>1. call[c].st = "resolved" /\ UNCHANGED <<session, platform, shared>>
  BY DEF Invoke
<1>2. CASE MaySend(call[c])
  BY <1>1, <1>2, SendShares DEF Invoke
<1>3. CASE ~MaySend(call[c])
  <2>1. call' = [call EXCEPT ![c] = Finalized(call[c], "changed")]
    BY <1>3 DEF Invoke
  <2> QED
    BY <1>1, <2>1, EndsShares
<1> QED
  BY <1>2, <1>3

LEMMA SendsAgainShares == ASSUME IInv, SInv, NEW c \in Calls, SendsAgain(c) PROVE SInv'
<1> DEFINE r == call[c]
<1>1. r.st = "refreshing to send" /\ UNCHANGED <<session, platform, shared>>
  BY DEF SendsAgain
<1>2. CASE Refreshed(r.ctx, r.ans) /\ ~pending
  <2>1. Send(c, r, TRUE)
    BY <1>2 DEF SendsAgain
  <2> QED
    BY <1>1, <2>1, SendShares
<1>3. CASE ~(Refreshed(r.ctx, r.ans) /\ ~pending)
  <2>1. \E q, t : call' = [call EXCEPT ![c] = Finalized(q, t)]
    BY <1>3 DEF SendsAgain
  <2>2. PICK q, t : call' = [call EXCEPT ![c] = Finalized(q, t)]
    BY <2>1
  <2> QED
    BY <1>1, <2>2, EndsShares
<1> QED
  BY <1>2, <1>3

\* The platform answers 404 of what is gone only.
LEMMA AnsweredByPlatform == ASSUME IInv, SInv, NEW c \in Calls, Answers(c) PROVE SInv'
<1> DEFINE r == call[c]
           Said(a) == [r EXCEPT !.ans = a]
<1>1. r.st = "invoking" /\ UNCHANGED <<session, platform, shared>>
  BY DEF Answers
<1>2. DOMAIN r = Fields /\ KeysOK(r) /\ AnswerOK(r) /\ RoundOK(c, r)
  BY OfShared
<1>3. PICK a : call' = [call EXCEPT ![c] = Said(a)] /\ (a = "404" => ~exists \/ r.out # deployed)
  BY DEF Answers
<1>4. /\ Said(a).st = "invoking" /\ Said(a).ans = a /\ Said(a).ctx = r.ctx /\ Said(a).key = r.key
      /\ Said(a).out = r.out /\ Said(a).cleared = r.cleared /\ Said(a).fl = r.fl
      /\ Said(a).gone = r.gone /\ Said(a).round = r.round
  BY <1>1, <1>2 DEF Fields
<1>5. a = "404" => IsGone(r.out)
  <2>1. r.out \in Nat /\ deployed \in Nat /\ r.out <= deployed
    BY <1>1, <1>2, NoId DEF AnswerOK, HasId, Given, SInv
  <2> QED
    BY <1>3, <2>1 DEF IsGone
<1> HIDE DEF Said
<1>6. KeysOK(Said(a))
  BY <1>2, <1>4 DEF KeysOK
<1>7. AnswerOK(Said(a))
  BY <1>1, <1>2, <1>4, <1>5 DEF AnswerOK, HasId
<1>8. RoundOK(c, Said(a))
  BY <1>1, <1>2, <1>4 DEF RoundOK, HasId
<1> QED
  BY <1>1, <1>3, <1>6, <1>7, <1>8, OneAlone DEF Fine

\* Asked for the first time.
LEMMA FirstShares == ASSUME IInv, SInv, NEW c \in Calls, FirstResolution(c) PROVE SInv'
<1> DEFINE r == call[c]
<1>1. r.st = "ready" /\ Resolve(c, r, cache, inFlight) /\ UNCHANGED <<session, platform>>
  BY DEF FirstResolution
<1>2. DOMAIN r = Fields /\ KeysOK(r) /\ AnswerOK(r) /\ RoundOK(c, r)
  BY OfShared
<1>3. /\ r.ctx \in Contexts /\ Le(r.ctx, Current) /\ r.cleared \in Contexts /\ r.fl = Nobody
      /\ r.round = 1
  BY <1>1, <1>2 DEF KeysOK, AnswerOK, RoundOK
<1>4. \A k \in Contexts : inFlight[k] # Nobody => inFlight[k][1] # c
  BY <1>1 DEF SInv, SharedOK
<1>5. GoodEntries(cache) /\ inFlight \in [Contexts -> Flights \cup {Nobody}]
  BY DEF SInv, SharedOK
<1> QED
  BY <1>1, <1>2, <1>3, <1>4, <1>5, ResolveShares

\* An answer that is waited for is taken, or leads to a refresh.
LEMMA ResolvedShares == ASSUME IInv, SInv, NEW c \in Calls, Resolved(c) PROVE SInv'
<1> DEFINE r == call[c]
           next == [r EXCEPT !.st = "resolved", !.fl = Nobody]
           renew == Refreshes([r EXCEPT !.fl = Nobody], "refreshing")
<1>1. r.st = "resolving" /\ UNCHANGED <<session, platform, cache>>
  BY DEF Resolved
<1>2. /\ gen' = gen /\ tok' = tok /\ pending' = pending /\ deployed' = deployed /\ exists' = exists
      /\ cache' = cache
  BY <1>1 DEF session, platform
<1>3. DOMAIN r = Fields /\ KeysOK(r) /\ AnswerOK(r) /\ RoundOK(c, r)
  BY OfShared
<1>4. /\ GoodEntries(cache)' /\ inFlight \in [Contexts -> Flights \cup {Nobody}]
      /\ \A k \in Contexts : inFlight[k] \in {inFlight[k], Nobody}
  BY <1>2 DEF SInv, GoodEntries, Given, SharedOK
<1>5. ASSUME NEW t, Leave(c, Failed(r, t), inFlight) PROVE SInv'
  <2>1. /\ KeysOK(Failed(r, t)) /\ AnswerOK(Failed(r, t)) /\ RoundOK(c, Failed(r, t))
        /\ Failed(r, t).st # "resolving"
    BY EndedFine DEF Fine
  <2>2. PICK q : q = Failed(r, t)
    OBVIOUS
  <2> QED
    BY <1>1, <1>4, <1>5, <2>1, <2>2, LeaveShares
<1>6. CASE ~IsCurrent(r.ctx)
  BY <1>5, <1>6 DEF Resolved
<1>7. CASE IsCurrent(r.ctx) /\ r.out \in Ids
  <2>1. Leave(c, next, inFlight)
    BY <1>7 DEF Resolved
  <2>2. /\ next.st = "resolved" /\ next.fl = Nobody /\ next.out = r.out /\ next.ctx = r.ctx
        /\ next.key = r.key /\ next.cleared = r.cleared /\ next.gone = r.gone /\ next.round = r.round
    BY <1>3 DEF Fields
  <2> HIDE DEF next
  <2>3. KeysOK(next) /\ next.st # "resolving"
    BY <1>3, <2>2 DEF KeysOK
  <2>4. AnswerOK(next)
    BY <1>3, <1>7, <2>2 DEF AnswerOK, HasId
  <2>5. RoundOK(c, next)
    BY <1>1, <1>3, <2>2 DEF RoundOK, HasId
  <2> QED
    BY <1>1, <1>4, <2>1, <2>3, <2>4, <2>5, LeaveShares
<1>8. CASE IsCurrent(r.ctx) /\ r.out \notin Ids /\ r.out = Denied /\ ~r.anon /\ ~r.again
  <2>1. /\ call' = [call EXCEPT ![c] = renew] /\ inFlight' = inFlight /\ flight' = flight
    BY <1>8 DEF Resolved
  <2>2. /\ renew.st = "refreshing" /\ renew.fl = Nobody /\ renew.out = r.out /\ renew.ctx = r.ctx
        /\ renew.key = r.key /\ renew.cleared = r.cleared /\ renew.gone = r.gone
        /\ renew.round = r.round /\ renew.ans = Asked(r.ctx)
        /\ renew.anon = r.anon /\ renew.again = r.again
    BY <1>3 DEF Fields, Refreshes
  <2>3. PICK s : s = renew
    OBVIOUS
  <2> HIDE DEF renew
  <2>4. (s.ans = "same" \/ s.ans = "ok") => r.ctx.tok < tok
    <3>1. gen \in Nat /\ tok \in Nat /\ r.ctx.gen \in Nat /\ r.ctx.tok \in Nat
      BY <1>3, ContextIs, BoundsAre DEF SInv, SessionOK, KeysOK
    <3>2. r.ctx.gen = gen /\ r.ctx.tok <= tok
      BY <1>3, <1>8, <3>1, ContextIs DEF KeysOK, Le, IsCurrent
    <3>3. CASE r.ctx.tok # tok
      BY <3>1, <3>2, <3>3
    <3>4. CASE r.ctx.tok = tok
      BY <1>8, <2>2, <2>3, <3>4 DEF Asked
    <3> QED
      BY <3>3, <3>4
  <2>5. KeysOK(s)'
    BY <1>2, <1>3, <1>8, <2>2, <2>3, <2>4 DEF KeysOK, Le, Current, IsCurrent
  <2>6. AnswerOK(s)'
    BY <1>2, <1>3, <2>2, <2>3 DEF AnswerOK, Given, HasId
  <2>7. RoundOK(c, s)'
    BY <1>2, <1>3, <2>2, <2>3 DEF RoundOK, IsGone, Le, HasId
  <2>8. FlightsOK'
    BY <1>2, <2>1 DEF SInv, FlightsOK, Given
  <2>9. SharedOK'
    <3>1. call'[c] = s /\ \A d \in Calls \ {c} : call'[d] = call[d]
      BY <2>1, <2>3, OfShared
    <3>2. \A e \in Flights : e[1] \in Calls
      BY DEF Flights
    <3>3. \A k \in Contexts : inFlight[k] # Nobody /\ inFlight[k][1] = c => inFlight[k][2] # 2
      BY <1>8 DEF SInv, SharedOK
    <3> QED
      BY <2>1, <2>2, <2>3, <3>1, <3>2, <3>3 DEF SInv, SharedOK
  <2>10. call' = [call EXCEPT ![c] = s] /\ \A d \in Calls \ {c} : flight'[<<d, 1>>] = flight[<<d, 1>>]
    BY <2>1, <2>3
  <2> QED
    BY <1>1, <1>4, <2>5, <2>6, <2>7, <2>8, <2>9, <2>10, OneShares DEF Fine
<1>9. CASE IsCurrent(r.ctx) /\ r.out \notin Ids /\ ~(r.out = Denied /\ ~r.anon /\ ~r.again)
  <2>1. Leave(c, Failed(r, "failed"), inFlight)
    BY <1>9 DEF Resolved
  <2> QED
    BY <1>5, <2>1
<1> QED
  BY <1>6, <1>7, <1>8, <1>9

\* Asked again with a credential newer than the one that was denied.
LEMMA ResolvesAgainShares == ASSUME IInv, SInv, NEW c \in Calls, ResolvesAgain(c) PROVE SInv'
<1> DEFINE r == call[c]
           anew == [r EXCEPT !.ctx = Current, !.again = TRUE]
<1>1. r.st = "refreshing" /\ UNCHANGED <<session, platform>>
  BY DEF ResolvesAgain
<1>2. DOMAIN r = Fields /\ KeysOK(r) /\ AnswerOK(r) /\ RoundOK(c, r)
  BY OfShared
<1>3. GoodEntries(cache) /\ inFlight \in [Contexts -> Flights \cup {Nobody}]
  BY DEF SInv, SharedOK
<1>4. CASE Refreshed(r.ctx, r.ans)
  <2>1. Resolve(c, anew, cache, inFlight)
    BY <1>4 DEF ResolvesAgain
  <2>2. /\ DOMAIN anew = Fields /\ anew.ctx = Current /\ anew.again = TRUE /\ anew.anon = r.anon
        /\ anew.cleared = r.cleared /\ anew.fl = r.fl /\ anew.round = r.round /\ anew.gone = r.gone
    BY <1>2 DEF Fields
  <2> HIDE DEF anew
  <2>3. Current \in Contexts /\ Le(Current, Current)
    BY CurrentIs DEF SInv
  <2>4. r.ctx.tok < tok /\ r.ctx.gen = gen /\ ~r.anon
    BY <1>1, <1>2, <1>4 DEF KeysOK, Refreshed, IsCurrent
  <2>5. KeyOf(anew) = Current
    BY <2>2, <2>4 DEF KeyOf
  <2>6. r.round = 2 => r.gone \in Ids /\ IsGone(r.gone) /\ Le(r.cleared, Current) /\ r.cleared # Current
    <3> SUFFICES ASSUME r.round = 2
                 PROVE  r.gone \in Ids /\ IsGone(r.gone) /\ Le(r.cleared, Current) /\ r.cleared # Current
      OBVIOUS
    <3>1. r.gone \in Ids /\ IsGone(r.gone) /\ Le(r.cleared, r.ctx)
      BY <1>2 DEF RoundOK
    <3>2. r.cleared \in Contexts /\ r.ctx \in Contexts /\ Le(r.ctx, Current)
      BY <1>2 DEF KeysOK
    <3>3. Le(r.cleared, Current)
      BY <2>3, <3>1, <3>2, LeTransitive
    <3>4. r.cleared # Current
      <4>1. /\ r.ctx.tok \in Nat /\ r.ctx.gen \in Nat /\ r.cleared.tok \in Nat /\ r.cleared.gen \in Nat
            /\ Current.tok = tok /\ Current.gen = gen /\ tok \in Nat
        BY <3>2, ContextIs, BoundsAre DEF SInv, SessionOK
      <4>2. SUFFICES ASSUME r.cleared = Current PROVE FALSE
        OBVIOUS
      <4>3. r.cleared.tok = tok /\ r.cleared.gen = r.ctx.gen
        BY <2>4, <4>1, <4>2
      <4> QED
        BY <2>4, <3>1, <4>1, <4>3 DEF Le
    <3> QED
      BY <3>1, <3>3, <3>4
  <2>7. \A k \in Contexts : inFlight[k] # Nobody /\ inFlight[k][1] = c => inFlight[k][2] = 1
    <3>1. \A f \in Flights : f[2] \in {1, 2}
      BY DEF Flights
    <3> QED
      BY <1>1, <1>3, <3>1 DEF SInv, SharedOK
  <2>8. anew.cleared \in Contexts /\ anew.fl = Nobody
    BY <1>1, <1>2, <2>2 DEF KeysOK, AnswerOK
  <2> QED
    BY <1>1, <1>3, <2>1, <2>2, <2>3, <2>5, <2>6, <2>7, <2>8, ResolveShares
<1>5. CASE ~Refreshed(r.ctx, r.ans)
  <2>1. PICK t \in {"discarded", "failed"} : Leave(c, Failed(r, t), inFlight) /\ cache' = cache
    BY <1>5 DEF ResolvesAgain
  <2>2. PICK q : q = Failed(r, t)
    OBVIOUS
  <2>3. KeysOK(q) /\ AnswerOK(q) /\ RoundOK(c, q) /\ q.st # "resolving"
    BY <2>2, EndedFine DEF Fine
  <2>4. GoodEntries(cache)'
    BY <1>1, <1>3, <2>1 DEF GoodEntries, Given, platform
  <2> QED
    BY <1>1, <1>3, <2>1, <2>2, <2>3, <2>4, LeaveShares
<1> QED
  BY <1>4, <1>5

\* The answer: a refresh, a resolution afresh after a 404, or the end.
LEMMA AnsweredShares == ASSUME IInv, SInv, NEW c \in Calls, Answered(c) PROVE SInv'
<1> DEFINE r == call[c]
           again == Refreshes(r, "refreshing to send")
           anew == [r EXCEPT !.round = 2, !.ctx = Current, !.again = FALSE, !.gone = r.out,
                             !.cleared = r.key, !.ans = "none"]
<1>1. r.st = "invoking" /\ UNCHANGED <<session, platform>>
  BY DEF Answered
<1>2. DOMAIN r = Fields /\ KeysOK(r) /\ AnswerOK(r) /\ RoundOK(c, r)
  BY OfShared
<1>3. CASE Refused(r.ans, 401) /\ ~r.anon /\ ~r.again
  <2>1. call' = [call EXCEPT ![c] = again] /\ UNCHANGED shared
    BY <1>3 DEF Answered
  <2>2. /\ again.st = "refreshing to send" /\ again.ctx = r.ctx /\ again.key = r.key /\ again.out = r.out
        /\ again.cleared = r.cleared /\ again.fl = r.fl /\ again.gone = r.gone /\ again.round = r.round
    BY <1>2 DEF Fields, Refreshes
  <2>3. PICK s : s = again
    OBVIOUS
  <2> HIDE DEF again
  <2>4. KeysOK(s)
    BY <1>2, <2>2, <2>3 DEF KeysOK
  <2>5. AnswerOK(s)
    BY <1>1, <1>2, <2>2, <2>3 DEF AnswerOK, HasId
  <2>6. RoundOK(c, s)
    BY <1>1, <1>2, <2>2, <2>3 DEF RoundOK, HasId
  <2> QED
    BY <1>1, <2>1, <2>3, <2>4, <2>5, <2>6, OneAlone DEF Fine
<1>4. CASE ~(Refused(r.ans, 401) /\ ~r.anon /\ ~r.again)
           /\ Refused(r.ans, 404) /\ r.round = 1 /\ IsCurrent(r.op)
  <2> DEFINE entries == [cache EXCEPT ![r.key] = None]
             shares == Forgotten(r.key, inFlight)
  <2>1. Resolve(c, anew, entries, shares)
    BY <1>4 DEF Answered
  <2>2. r.ans = "404" \/ r.ans = "its own 404"
    <3>1. Refused(r.ans, 404) /\ 404 # 401
      BY <1>4
    <3> QED
      BY <3>1 DEF Refused
  <2>3. r.ans = "404"
    BY <1>4, <2>2 DEF Refused, Dispatched
  <2>4. r.key \in Contexts /\ Le(r.key, Current)
    BY <1>2 DEF KeysOK
  <2>5. r.out \in Ids /\ IsGone(r.out) /\ r.fl = Nobody
    BY <1>1, <1>2, <2>3 DEF AnswerOK, HasId
  <2>6. /\ DOMAIN anew = Fields /\ anew.ctx = Current /\ anew.again = FALSE /\ anew.anon = r.anon
        /\ anew.cleared = r.key /\ anew.fl = r.fl /\ anew.round = 2 /\ anew.gone = r.out
    BY <1>2 DEF Fields
  <2>7. entries \in [Contexts -> Nat] /\ entries[r.key] = None
        /\ \A k \in Contexts : entries[k] \in {cache[k], None}
    BY <2>4, NoId DEF SInv, GoodEntries
  <2>8. GoodEntries(entries)
    BY <2>7, NoId DEF SInv, GoodEntries, Given
  <2>9. /\ shares \in [Contexts -> Flights \cup {Nobody}] /\ shares[r.key] = Nobody
        /\ \A k \in Contexts : shares[k] \in {inFlight[k], Nobody}
    BY <2>4 DEF SInv, SharedOK, Forgotten
  <2>10. Current \in Contexts /\ Le(Current, Current)
    BY CurrentIs DEF SInv
  <2>11. \A k \in Contexts : shares[k] # Nobody => shares[k][1] # c
    <3>1. \A k \in Contexts : inFlight[k] # Nobody => inFlight[k][1] # c
      BY <1>1 DEF SInv, SharedOK
    <3> QED
      BY <2>9, <3>1
  <2> HIDE DEF entries, shares
  <2>12. PICK q, e, h : q = anew /\ e = entries /\ h = shares
    OBVIOUS
  <2> HIDE DEF anew
  <2>13. entries[r.key] \notin Ids
    BY <2>7, NoId
  <2> QED
    BY <1>1, <2>1, <2>4, <2>5, <2>6, <2>8, <2>9, <2>10, <2>11, <2>12, <2>13, ResolveShares
<1>5. CASE /\ ~(Refused(r.ans, 401) /\ ~r.anon /\ ~r.again)
           /\ ~(Refused(r.ans, 404) /\ r.round = 1 /\ IsCurrent(r.op))
  <2>1. (\E t : call' = [call EXCEPT ![c] = Finalized(r, t)]) /\ UNCHANGED shared
    BY <1>5 DEF Answered, TransportFailure
  <2>2. PICK t : call' = [call EXCEPT ![c] = Finalized(r, t)]
    BY <2>1
  <2> QED
    BY <1>1, <2>1, <2>2, EndsShares
<1> QED
  BY <1>3, <1>4, <1>5

-----------------------------------------------------------------------------
\* Every step of the specification.
LEMMA NextShares == ASSUME IInv, SInv, [Next]_vars PROVE SInv'
<1>1. CASE Surroundings
  <2>1. CASE SessionChanges /\ UNCHANGED <<platform, shared, call, ran, used>>
    <3>1. /\ deployed' = deployed /\ exists' = exists /\ cache' = cache
          /\ UNCHANGED <<inFlight, flight, call>>
      BY <2>1 DEF platform, shared
    <3>2. Onward
      BY <2>1, SessionGoesOn DEF SInv
    <3>3. Evolves
      BY <3>1, NoId DEF SInv, Evolves
    <3>4. (\A k \in Contexts : cache'[k] \in {cache[k], None}) /\ cache' \in [Contexts -> Nat]
      BY <3>1 DEF SInv, GoodEntries
    <3> QED
      BY <3>1, <3>2, <3>3, <3>4, QuietShares
  <2>2. CASE Delete \/ MakeAnew
    <3>1. gen' = gen /\ tok' = tok /\ pending' = pending /\ cache' = cache
          /\ UNCHANGED <<inFlight, flight, call>>
      BY <2>2 DEF Delete, MakeAnew, session, shared
    <3>2. Onward
      BY <3>1, BoundsAre DEF SInv, SessionOK, Onward
    <3>3. Evolves
      <4>1. deployed \in Nat /\ deployed >= 1 /\ deployed <= MaxId
        BY BoundsAre DEF SInv, Ids
      <4> QED
        BY <2>2, <4>1, BoundsAre DEF Delete, MakeAnew, Evolves, Ids
    <3>4. (\A k \in Contexts : cache'[k] \in {cache[k], None}) /\ cache' \in [Contexts -> Nat]
      BY <3>1 DEF SInv, GoodEntries
    <3> QED
      BY <3>1, <3>2, <3>3, <3>4, QuietShares
  <2>3. ASSUME NEW k \in Contexts, Expire(k) PROVE SInv'
    <3>1. /\ UNCHANGED <<gen, tok, pending, deployed, exists>> /\ cache' = [cache EXCEPT ![k] = None]
          /\ UNCHANGED <<inFlight, flight, call>>
      BY <2>3 DEF Expire, session, platform
    <3>2. (\A j \in Contexts : cache'[j] \in {cache[j], None}) /\ cache' \in [Contexts -> Nat]
      BY <3>1, NoId DEF SInv, GoodEntries
    <3> QED
      BY <3>1, <3>2, StaysStill, QuietShares
  <2> QED
    BY <1>1, <2>1, <2>2, <2>3 DEF Surroundings
<1>2. ASSUME NEW c \in Calls, Rejected(c) \/ Begin(c) PROVE SInv'
  BY <1>2, BeginsShares
<1>3. ASSUME NEW c \in Calls, Progress(c) PROVE SInv'
  <2>1. CASE AfterExchange(c)
    BY <2>1, BeginsShares
  <2>2. CASE FirstResolution(c)
    BY <2>2, FirstShares
  <2>3. CASE Resolved(c)
    BY <2>3, ResolvedShares
  <2>4. CASE ResolvesAgain(c)
    BY <2>4, ResolvesAgainShares
  <2>5. CASE Invoke(c)
    BY <2>5, InvokeShares
  <2>6. CASE Answers(c)
    BY <2>6, AnsweredByPlatform
  <2>7. CASE Answered(c)
    BY <2>7, AnsweredShares
  <2>8. CASE SendsAgain(c)
    BY <2>8, SendsAgainShares
  <2>9. CASE RefreshEnds(call[c].ctx.gen)
    <3>1. PICK g : g = call[c].ctx.gen
      OBVIOUS
    <3> QED
      BY <2>9, <3>1, RefreshShares
  <2>10. ASSUME NEW f \in Flights, FlightAnswers(f) PROVE SInv'
    BY <2>10, AnswersShares
  <2>11. ASSUME NEW f \in Flights, FlightSettles(f) PROVE SInv'
    BY <2>11, SettlesShares
  <2> QED
    BY <1>3, <2>1, <2>2, <2>3, <2>4, <2>5, <2>6, <2>7, <2>8, <2>9, <2>10, <2>11 DEF Progress
<1>4. CASE UNCHANGED vars
  <2>1. /\ UNCHANGED <<gen, tok, pending, deployed, exists>> /\ cache' = cache
        /\ UNCHANGED <<inFlight, flight, call>>
    BY <1>4 DEF vars, session, platform, shared
  <2>2. (\A j \in Contexts : cache'[j] \in {cache[j], None}) /\ cache' \in [Contexts -> Nat]
    BY <2>1 DEF SInv, GoodEntries
  <2> QED
    BY <2>1, <2>2, StaysStill, QuietShares
<1> QED
  BY <1>1, <1>2, <1>3, <1>4 DEF Next, AllTold

\* What is shared is as it has to be in every behaviour of the calls.
THEOREM SharesInvariance == Spec => []SInv
<1>1. IInv /\ SInv /\ [Next]_vars => SInv'
  BY NextShares
<1> QED
  BY <1>1, SharesInit, Invariance, PTL DEF Spec

\* No request stays shared that nobody works on: whatever order calls begin, fail,
\* refresh and leave in, the one who sent it still waits for it or asks again.
THEOREM NoRequestLeaks == Spec => []NothingLeaks
<1>1. SInv => NothingLeaks
  BY DEF SInv, SharedOK, NothingLeaks
<1> QED
  BY <1>1, SharesInvariance, PTL

\* A call that was told its function is gone does not go on with what it forgot of
\* it under its key, even if another call's older answer is cached after that.
THEOREM FreshWhenForgotten == Spec => []FreshAfterClear
<1>1. SInv => FreshAfterClear
  BY DEF SInv, Fine, RoundOK, HasId, FreshAfterClear
<1> QED
  BY <1>1, SharesInvariance, PTL

-----------------------------------------------------------------------------
\* What is shared is taken away by its owner, or by a call that was told to forget it.

\* A call that was told by 404 to forget what it shared under a key.
Forgets(c, k) == call[c].st = "invoking" /\ Refused(call[c].ans, 404) /\ call[c].key = k

\* A call that leaves takes away what it owns, and what it had to forget.
LEMMA LeaveTakesNone ==
  ASSUME IInv, SInv, NEW c \in Calls, NEW shares,
         \A k \in Contexts : inFlight[k] # Nobody /\ shares[k] # inFlight[k] => Forgets(c, k),
         NEW r, r.st \notin {"invoking", "resolving", "refreshing"}, Leave(c, r, shares)
  PROVE  TakesNone
<1>1. call' = [call EXCEPT ![c] = r] /\ inFlight' = Release(c, shares)
  BY DEF Leave
<1>2. call'[c] = r /\ (call[c].st = "invoking" => call'[c] # call[c])
  BY <1>1, OfShared
<1>3. ASSUME NEW k \in Contexts, inFlight[k] # Nobody, inFlight'[k] # inFlight[k]
      PROVE  \/ call'[inFlight[k][1]].st \notin {"resolving", "refreshing"}
             \/ \E d \in Calls : /\ call[d].st = "invoking" /\ Refused(call[d].ans, 404)
                                 /\ call[d].key = k /\ call'[d] # call[d]
  <2>1. CASE shares[k] # inFlight[k]
    BY <1>2, <1>3, <2>1 DEF Forgets
  <2>2. CASE shares[k] = inFlight[k]
    <3>1. inFlight[k][1] = c
      BY <1>1, <1>3, <2>2 DEF Release
    <3> QED
      BY <1>2, <3>1
  <2> QED
    BY <2>1, <2>2
<1> QED
  BY <1>3 DEF TakesNone

\* A resolution takes away nothing else either.
LEMMA ResolveTakesNone ==
  ASSUME IInv, SInv, NEW c \in Calls, NEW shares, shares \in [Contexts -> Flights \cup {Nobody}],
         \A k \in Contexts : inFlight[k] # Nobody /\ shares[k] # inFlight[k] => Forgets(c, k),
         NEW r, DOMAIN r = Fields, NEW entries, Resolve(c, r, entries, shares)
  PROVE  TakesNone
<1> DEFINE k == KeyOf(r)
           f == <<c, IF r.again THEN 2 ELSE 1>>
           waits == [r EXCEPT !.st = "resolving", !.key = k, !.out = None]
           Joined(e) == IF flight[e].st = "settled" THEN flight[e].out ELSE None
<1>1. \A t : Failed(r, t).st = "ended"
  BY DEF Failed, Finalized, NoCall
<1>2. CASE ~IsCurrent(r.ctx)
  <2>1. Leave(c, Failed(r, "changed"), shares)
    BY <1>2 DEF Resolve
  <2> QED
    BY <1>1, <2>1, LeaveTakesNone
<1>3. CASE IsCurrent(r.ctx) /\ entries[k] \in Ids
  <2>1. Leave(c, [waits EXCEPT !.st = "resolved", !.out = entries[k]], shares)
    BY <1>3 DEF Resolve
  <2>2. [waits EXCEPT !.st = "resolved", !.out = entries[k]].st = "resolved"
    BY DEF Fields
  <2> QED
    BY <2>1, <2>2, LeaveTakesNone
<1>4. CASE IsCurrent(r.ctx) /\ entries[k] \notin Ids /\ entries[k] = NotFound
  <2>1. Leave(c, Failed(r, "failed"), shares)
    BY <1>4 DEF Resolve
  <2> QED
    BY <1>1, <2>1, LeaveTakesNone
<1>5. CASE IsCurrent(r.ctx) /\ entries[k] \notin Ids /\ entries[k] # NotFound
  <2>1. /\ \E s : s.st = "resolving" /\ call' = [call EXCEPT ![c] = s]
        /\ inFlight' = shares \/ (shares[k] = Nobody /\ inFlight' = [shares EXCEPT ![k] = f])
    <3>1. \A g, o : [waits EXCEPT !.fl = g, !.out = o].st = "resolving"
                    /\ [waits EXCEPT !.fl = g].st = "resolving"
      BY DEF Fields
    <3>2. CASE shares[k] # Nobody
      <4>1. /\ call' = [call EXCEPT ![c] = [waits EXCEPT !.fl = shares[k], !.out = Joined(shares[k])]]
            /\ inFlight' = shares
        BY <1>5, <3>2 DEF Resolve
      <4> QED
        BY <3>1, <4>1, Zenon
    <3>3. CASE shares[k] = Nobody
      <4>1. /\ call' = [call EXCEPT ![c] = [waits EXCEPT !.fl = f]]
            /\ inFlight' = [shares EXCEPT ![k] = f]
        BY <1>5, <3>3 DEF Resolve
      <4> QED
        BY <3>1, <3>3, <4>1, Zenon
    <3> QED
      BY <3>2, <3>3
  <2>2. call[c].st = "invoking" => call'[c] # call[c]
    BY <2>1, OfShared
  <2>3. ASSUME NEW j \in Contexts, inFlight[j] # Nobody, inFlight'[j] # inFlight[j]
        PROVE  Forgets(c, j)
    BY <2>1, <2>3
  <2> QED
    BY <2>2, <2>3 DEF TakesNone, Forgets
<1> QED
  BY <1>2, <1>3, <1>4, <1>5

\* Every step of the specification.
LEMMA NextTakesNone == ASSUME IInv, SInv, [Next]_vars PROVE TakesNone
<1>1. inFlight' = inFlight => TakesNone
  BY DEF TakesNone
<1>2. inFlight \in [Contexts -> Flights \cup {Nobody}]
  BY DEF SInv, SharedOK
<1>3. \A c \in Calls : DOMAIN call[c] = Fields
  BY OfShared
<1>4. ASSUME NEW c \in Calls, FirstResolution(c) PROVE TakesNone
  <2>1. Resolve(c, call[c], cache, inFlight)
    BY <1>4 DEF FirstResolution
  <2> QED
    BY <1>2, <1>3, <2>1, ResolveTakesNone
<1>5. ASSUME NEW c \in Calls, NEW t, Leave(c, Failed(call[c], t), inFlight) PROVE TakesNone
  <2>1. PICK q : q = Failed(call[c], t)
    OBVIOUS
  <2>2. q.st = "ended"
    BY <2>1 DEF Failed, Finalized, NoCall
  <2> QED
    BY <1>5, <2>1, <2>2, LeaveTakesNone
<1>6. ASSUME NEW c \in Calls, Resolved(c) PROVE TakesNone
  <2> DEFINE next == [call[c] EXCEPT !.st = "resolved", !.fl = Nobody]
  <2>1. \/ \E t : Leave(c, Failed(call[c], t), inFlight)
        \/ Leave(c, next, inFlight)
        \/ inFlight' = inFlight
    BY <1>6 DEF Resolved
  <2>2. next.st = "resolved"
    BY <1>3 DEF Fields
  <2> HIDE DEF next
  <2>3. Leave(c, next, inFlight) => TakesNone
    BY <2>2, LeaveTakesNone
  <2> QED
    BY <1>1, <1>5, <2>1, <2>3
<1>7. ASSUME NEW c \in Calls, ResolvesAgain(c) PROVE TakesNone
  <2> DEFINE anew == [call[c] EXCEPT !.ctx = Current, !.again = TRUE]
  <2>1. \/ \E t : Leave(c, Failed(call[c], t), inFlight)
        \/ Resolve(c, anew, cache, inFlight)
    BY <1>7 DEF ResolvesAgain
  <2>2. DOMAIN anew = Fields
    BY <1>3
  <2> HIDE DEF anew
  <2> QED
    BY <1>2, <1>5, <2>1, <2>2, ResolveTakesNone
<1>8. ASSUME NEW c \in Calls, Answered(c) PROVE TakesNone
  <2> DEFINE anew == [call[c] EXCEPT !.round = 2, !.ctx = Current, !.again = FALSE,
                        !.gone = call[c].out, !.cleared = call[c].key, !.ans = "none"]
             entries == [cache EXCEPT ![call[c].key] = None]
             shares == Forgotten(call[c].key, inFlight)
  <2>1. \/ UNCHANGED shared
        \/ Refused(call[c].ans, 404) /\ Resolve(c, anew, entries, shares)
    BY <1>8 DEF Answered
  <2>2. UNCHANGED shared => TakesNone
    BY <1>1 DEF shared
  <2>3. CASE Refused(call[c].ans, 404) /\ Resolve(c, anew, entries, shares)
    <3>1. DOMAIN anew = Fields
      BY <1>3
    <3>2. shares \in [Contexts -> Flights \cup {Nobody}]
      BY <1>2 DEF Forgotten
    <3>3. \A k \in Contexts : shares[k] # inFlight[k] => Forgets(c, k)
      BY <1>2, <1>8, <2>3 DEF Forgotten, Forgets, Answered
    <3> HIDE DEF anew, entries, shares
    <3> QED
      BY <2>3, <3>1, <3>2, <3>3, ResolveTakesNone
  <2> QED
    BY <2>1, <2>2, <2>3
<1>9. \/ inFlight' = inFlight
      \/ \E c \in Calls : FirstResolution(c) \/ Resolved(c) \/ ResolvesAgain(c) \/ Answered(c)
  BY DEF Next, vars, shared, Surroundings, Delete, MakeAnew, Expire, Rejected, Begin, Progress,
     AfterExchange, Invoke, Answers, SendsAgain, RefreshEnds, FlightAnswers, FlightSettles, AllTold
<1> QED
  BY <1>1, <1>4, <1>6, <1>7, <1>8, <1>9

\* No request that calls share is taken from them but by its owner, who leaves, or by a
\* call that was told by 404 to forget it: who leaves late leaves a newer one alone.
THEOREM NoneIsTaken == Spec => NothingTaken
<1>1. IInv /\ SInv /\ [Next]_vars => [TakesNone]_vars
  BY NextTakesNone
<1> QED
  BY <1>1, Invariance, SharesInvariance, PTL DEF Spec, NothingTaken
================================================================================
