---------------------------- MODULE LockSession ----------------------------
(***************************************************************************)
(* withLock(): calls that compete for one project lock.  Each acquires a   *)
(* lease, with one retry, runs its callback while LockSession renews the   *)
(* lease beside it, and releases it.  The server keeps the lease on a      *)
(* clock of its own.  Requests and answers take time, answers are lost,    *)
(* timers run late, workers die, and the two clocks a session reads may be *)
(* paused or corrected: LeaseClock needs one of the two not to lag.        *)
(*                                                                         *)
(* Time is counted in ticks.  A worker's clocks are counted from the start *)
(* of its withLock, the server's from the grant.                           *)
(***************************************************************************)
EXTENDS Integers

CONSTANTS
  Workers,   \* the withLock calls; each has an ownership token of its own
  NoWorker,
  TTL,       \* ttl
  Life,      \* MAX_LEASE_LIFETIME_MS, 90 days
  Margin,    \* RENEWAL_SAFETY_MARGIN_MS + RENEWAL_REQUEST_BUDGET_MS
  Pauses,    \* a third of the TTL, with jitter: what waitToRenew may wait
  MaxTimer,  \* maxTimerDelayMs, 24 hours
  Advances,  \* how the clocks of a worker may advance in one tick
  Forceable  \* the lock may be released by force

Clocks == {"mono", "wall"}   \* performance.now() and Date.now()

\* Clock k of worker w is never paused or set back.
Runs(w, k) == \A a \in Advances[w] : a[k] >= 1

ASSUME WorkersAssumption == NoWorker \notin Workers
ASSUME TimesAssumption ==
  /\ TTL \in Nat /\ Life \in Nat /\ Margin \in Nat /\ MaxTimer \in Nat
  /\ TTL > 0 /\ Life > 0 /\ MaxTimer > 0
  /\ Pauses \subseteq Nat \ {0} /\ Pauses # {}
ASSUME ClocksAssumption ==
  /\ \A w \in Workers : Advances[w] \subseteq [Clocks -> Nat]
  /\ \A w \in Workers : \E k \in Clocks : Runs(w, k)
ASSUME ForceableAssumption == Forceable \in BOOLEAN

VARIABLES
  holder, used,     \* server: whose lease is valid, who has had one
  age, leaseEnd,    \* server: time since the grant, and when the lease ends
  phase, retried,   \* where withLock is; its acquisition was sent again
  acquire, renewal, \* the requests: asked, or their answer under way
  clock,            \* the worker's two clocks
  start,            \* startedAt of the last request
  deadline,         \* the LeaseClock's deadlines
  expiry, wake,     \* expiryTimer and renewalTimer: when due, or NoTimer
  failed,           \* failure # null; the callback's signal is aborted
  result            \* what withLock answers

server == <<holder, used, age, leaseEnd>>
timers == <<expiry, wake>>
vars == <<server, phase, retried, acquire, renewal, clock, start, deadline, timers, failed, result>>

NoTimer == 0
Zero == [k \in Clocks |-> 0]

DataOK ==
  /\ holder \in Workers \cup {NoWorker} /\ used \subseteq Workers
  /\ age \in 0..Life /\ leaseEnd \in 0..Life
  /\ phase \in [Workers -> {"idle", "acquiring", "preparing", "running", "releasing", "over"}]
  /\ acquire \in [Workers -> {"none", "asked", "granted", "taken", "lost", "failed"}]
  /\ renewal \in [Workers -> {"none", "asked", "granted", "failed"}]
  /\ clock \in [Workers -> [Clocks -> 0..Life]]
  /\ start \in [Workers -> [Clocks -> 0..Life]]
  /\ deadline \in [Workers -> [Clocks -> 0..Life]]
  /\ expiry \in [Workers -> 0..Life] /\ wake \in [Workers -> 0..Life]
  /\ result \in [Workers -> {"none", "ok", "error", "contended"}]

FlagsOK == retried \in [Workers -> BOOLEAN] /\ failed \in [Workers -> BOOLEAN]

\* That no deadline or timer is past the 90 days is part of it.
TypeOK == DataOK /\ FlagsOK

Init ==
  /\ holder = NoWorker /\ used = {} /\ age = 0 /\ leaseEnd = 0
  /\ phase = [w \in Workers |-> "idle"] /\ retried = [w \in Workers |-> FALSE]
  /\ acquire = [w \in Workers |-> "none"] /\ renewal = [w \in Workers |-> "none"]
  /\ clock = [w \in Workers |-> Zero] /\ start = [w \in Workers |-> Zero]
  /\ deadline = [w \in Workers |-> Zero]
  /\ expiry = [w \in Workers |-> NoTimer] /\ wake = [w \in Workers |-> NoTimer]
  /\ failed = [w \in Workers |-> FALSE] /\ result = [w \in Workers |-> "none"]

-----------------------------------------------------------------------------
\* LeaseClock.  A definition named Mut... is a wrong variant of the next one.

Lesser(a, b) == IF a < b THEN a ELSE b

\* Mutant: the deadline counts from the answer.
MutStartedAt(w) == clock[w]

\* lockRequestStart(), taken before the request is sent.
StartedAt(w) == start[w]

\* deadlines(): the clocks count from the acquisition's startedAt.
Deadlines(w) == [k \in Clocks |-> Lesser(StartedAt(w)[k] + TTL, Life)]

\* remaining(), for deadlines d.
Left(w, d) ==
  LET l == Lesser(d["mono"] - clock[w]["mono"], d["wall"] - clock[w]["wall"])
  IN IF l > 0 THEN l ELSE 0

\* latestDelay of renewalDelay(); the delay is 0 when this is.
Window(w, d) == IF Left(w, d) > Margin THEN Left(w, d) - Margin ELSE 0

-----------------------------------------------------------------------------
\* The session's timers, for deadlines d.

\* scheduleExpiry(), when something remains.
Arm(w, d) ==
  expiry' = [expiry EXCEPT ![w] = clock[w]["mono"] + Lesser(MaxTimer, Left(w, d))]

\* waitToRenew(), when the window is open.
Wait(w, d) ==
  \E p \in Pauses : wake' = [wake EXCEPT ![w] = clock[w]["mono"] + Lesser(p, Window(w, d))]

\* Mutant: the renewal timer stays.
MutStopTimers(w) == expiry' = [expiry EXCEPT ![w] = NoTimer] /\ UNCHANGED wake

StopTimers(w) ==
  /\ expiry' = [expiry EXCEPT ![w] = NoTimer]
  /\ wake' = [wake EXCEPT ![w] = NoTimer]

\* The session is gone, and with it its fields; what it asked for is not.
Gone(w) ==
  /\ phase' = [phase EXCEPT ![w] = "over"]
  /\ acquire' = [acquire EXCEPT ![w] = IF @ = "asked" THEN @ ELSE "none"]
  /\ renewal' = [renewal EXCEPT ![w] = IF @ = "asked" THEN @ ELSE "none"]
  /\ clock' = [clock EXCEPT ![w] = Zero] /\ start' = [start EXCEPT ![w] = Zero]
  /\ deadline' = [deadline EXCEPT ![w] = Zero]
  /\ retried' = [retried EXCEPT ![w] = FALSE] /\ failed' = [failed EXCEPT ![w] = FALSE]
  /\ StopTimers(w)

Active(w) == phase[w] \in {"preparing", "running"} /\ ~failed[w]

\* Mutant: the request is aborted, the callback's signal is not.
MutMarkLost(w) ==
  /\ StopTimers(w)
  /\ UNCHANGED failed
  /\ IF phase[w] = "running"
     THEN UNCHANGED <<phase, result>>
     ELSE /\ phase' = [phase EXCEPT ![w] = "releasing"]
          /\ result' = [result EXCEPT ![w] = "error"]

\* markLost(): the signal is aborted, and while the lease is prepared the
\* cleanup follows at once.
MarkLost(w) ==
  /\ failed' = [failed EXCEPT ![w] = TRUE]
  /\ StopTimers(w)
  /\ IF phase[w] = "running"
     THEN UNCHANGED <<phase, result>>
     ELSE /\ phase' = [phase EXCEPT ![w] = "releasing"]
          /\ result' = [result EXCEPT ![w] = "error"]

\* start(), and the callback is called.
Begin(w, d) ==
  /\ phase' = [phase EXCEPT ![w] = "running"]
  /\ Arm(w, d) /\ Wait(w, d)

\* renewLease() up to its request.
SendRenewal(w) ==
  /\ renewal' = [renewal EXCEPT ![w] = "asked"]
  /\ start' = [start EXCEPT ![w] = clock[w]]

-----------------------------------------------------------------------------
\* Time.

TimerDue(w) == expiry[w] # NoTimer /\ expiry[w] <= clock[w]["mono"]

Counting(w) == phase[w] \notin {"idle", "over"}

\* A tick.  Clocks that reach Life need not be told apart past it: no
\* deadline is later.
Tick(adv) ==
  /\ clock' = [w \in Workers |->
       IF Counting(w)
       THEN [k \in Clocks |-> Lesser(clock[w][k] + adv[w][k], Life)]
       ELSE clock[w]]
  /\ IF holder = NoWorker
     THEN UNCHANGED <<holder, age>>
     ELSE /\ age' = age + 1
          /\ holder' = IF age + 1 = leaseEnd THEN NoWorker ELSE holder
  /\ UNCHANGED <<used, leaseEnd, phase, retried, acquire, renewal, start, deadline, timers,
                 failed, result>>

-----------------------------------------------------------------------------
\* The server.

Keeps(w) ==
  /\ leaseEnd' = Lesser(age + TTL, Life)
  /\ UNCHANGED <<holder, used, age>>

\* The lock is free for w, or is w's already: the acquisition was sent again.
\* It may or may not start the lease anew.
Grants(w) ==
  \/ /\ holder = NoWorker /\ w \notin used
     /\ holder' = w /\ used' = used \cup {w}
     /\ age' = 0 /\ leaseEnd' = Lesser(TTL, Life)
  \/ holder = w /\ (Keeps(w) \/ UNCHANGED server)

\* The answer goes to a worker that is still there.
AcquireAnswer(w, a) == acquire' = [acquire EXCEPT ![w] = IF Counting(w) THEN a ELSE "none"]
RenewalAnswer(w, a) == renewal' = [renewal EXCEPT ![w] = IF Counting(w) THEN a ELSE "none"]

\* Answered, unreadably perhaps, or the answer is lost; refused, a lapsed lease
\* of w's own being one more reason; or failed for another reason.
ServerAcquires(w) ==
  /\ acquire[w] = "asked"
  /\ \/ Grants(w) /\ \E a \in {"granted", "lost", "failed"} : AcquireAnswer(w, a)
     \/ /\ holder # w /\ (holder # NoWorker \/ w \in used)
        /\ AcquireAnswer(w, "taken")
        /\ UNCHANGED server
     \/ (\E a \in {"lost", "failed"} : AcquireAnswer(w, a)) /\ UNCHANGED server
  /\ UNCHANGED <<phase, retried, renewal, clock, start, deadline, timers, failed, result>>

ServerRenews(w) ==
  /\ renewal[w] = "asked"
  /\ \/ /\ holder = w /\ Keeps(w)
        /\ \E a \in {"granted", "failed"} : RenewalAnswer(w, a)
     \/ RenewalAnswer(w, "failed") /\ UNCHANGED server
  /\ UNCHANGED <<phase, retried, acquire, clock, start, deadline, timers, failed, result>>

\* forceRelease(), by whoever may.
ForceRelease ==
  /\ Forceable /\ holder # NoWorker
  /\ holder' = NoWorker
  /\ UNCHANGED <<used, age, leaseEnd, phase, retried, acquire, renewal, clock, start, deadline,
                 timers, failed, result>>

-----------------------------------------------------------------------------
\* Acquisition.

WithLock(w) ==
  /\ phase[w] = "idle"
  /\ phase' = [phase EXCEPT ![w] = "acquiring"]
  /\ acquire' = [acquire EXCEPT ![w] = "asked"]
  /\ UNCHANGED <<server, retried, renewal, clock, start, deadline, timers, failed, result>>

\* retryable(), and the first attempt.
MayRetry(w) == acquire[w] = "lost" /\ ~retried[w]

\* tryAcquire: once more after a transport failure or 503, as it was.
AcquireAgain(w) ==
  /\ phase[w] = "acquiring" /\ MayRetry(w)
  /\ retried' = [retried EXCEPT ![w] = TRUE]
  /\ acquire' = [acquire EXCEPT ![w] = "asked"]
  /\ UNCHANGED <<server, phase, renewal, clock, start, deadline, timers, failed, result>>

\* Contention is no error; what else fails is, and a lease the server may
\* have granted is left to lapse.
NotAcquired(w) ==
  /\ phase[w] = "acquiring"
  /\ acquire[w] \in {"taken", "failed"} \/ (acquire[w] = "lost" /\ retried[w])
  /\ Gone(w)
  /\ result' = [result EXCEPT ![w] = IF acquire[w] = "taken" THEN "contended" ELSE "error"]
  /\ UNCHANGED server

\* The lease arrives: the session begins, after a renewal when the
\* acquisition was slow, or not at all.
Acquired(w) ==
  /\ phase[w] = "acquiring" /\ acquire[w] = "granted"
  /\ acquire' = [acquire EXCEPT ![w] = "none"]
  /\ deadline' = [deadline EXCEPT ![w] = Deadlines(w)]
  /\ \/ /\ Window(w, Deadlines(w)) > 0
        /\ Begin(w, Deadlines(w))
        /\ UNCHANGED <<renewal, start, failed, result>>
     \/ /\ Window(w, Deadlines(w)) = 0 /\ Left(w, Deadlines(w)) > 0
        /\ phase' = [phase EXCEPT ![w] = "preparing"]
        /\ Arm(w, Deadlines(w)) /\ SendRenewal(w)
        /\ UNCHANGED <<wake, failed, result>>
     \/ /\ Left(w, Deadlines(w)) = 0
        /\ MarkLost(w)
        /\ UNCHANGED <<renewal, start>>
  /\ UNCHANGED <<server, retried, clock>>

-----------------------------------------------------------------------------
\* The session.

\* The wait is over: renewLease().
WakeFires(w) ==
  /\ wake[w] # NoTimer /\ wake[w] <= clock[w]["mono"]
  /\ wake' = [wake EXCEPT ![w] = NoTimer]
  /\ SendRenewal(w)
  /\ UNCHANGED <<server, phase, retried, acquire, clock, deadline, expiry, failed, result>>

\* Mutant: an answer is taken whenever it comes.
MutAccepts(w) == phase[w] # "over"

\* acceptRenewal's first guard.
Accepts(w) == Active(w)

\* acceptRenewal: the lease is renewed, or what is left of it is too short.
RenewalGranted(w) ==
  /\ renewal[w] = "granted" /\ Accepts(w)
  /\ renewal' = [renewal EXCEPT ![w] = "none"]
  /\ deadline' = [deadline EXCEPT ![w] = Deadlines(w)]
  /\ IF Window(w, Deadlines(w)) > 0
     THEN Begin(w, Deadlines(w)) /\ UNCHANGED <<failed, result>>
     ELSE MarkLost(w)
  /\ UNCHANGED <<server, retried, acquire, clock, start>>

\* Any error of the renewal loses the lease.  One thrown while the lease is
\* prepared fails the call alike, though failure stays null.
RenewalFails(w) ==
  /\ renewal[w] = "failed" /\ Accepts(w)
  /\ renewal' = [renewal EXCEPT ![w] = "none"]
  /\ MarkLost(w)
  /\ UNCHANGED <<server, retried, acquire, clock, start, deadline>>

\* An aborted renewal, or one answered after the loss or the cleanup.
RenewalIgnored(w) ==
  /\ renewal[w] \in {"granted", "failed"} /\ ~Accepts(w)
  /\ renewal' = [renewal EXCEPT ![w] = "none"]
  /\ UNCHANGED <<server, phase, retried, acquire, clock, start, deadline, timers, failed, result>>

\* Mutant: a timer that was cut short is not set again.
MutRearm(w) == expiry' = [expiry EXCEPT ![w] = NoTimer]

Rearm(w) == Arm(w, deadline[w])

\* checkExpiry()
ExpiryFires(w) ==
  /\ TimerDue(w)
  /\ IF Left(w, deadline[w]) > 0
     THEN Rearm(w) /\ UNCHANGED <<wake, phase, failed, result>>
     ELSE MarkLost(w)
  /\ UNCHANGED <<server, retried, acquire, renewal, clock, start, deadline>>

\* Mutant: cleanup() leaves the expiry to its timer.
MutLapsed(w) == FALSE

\* cleanup() finds the lease expired.
Lapsed(w) == Left(w, deadline[w]) = 0

\* The callback returns (ok) or throws, and cleanup() runs up to the release.
CallbackEnds(w, ok) ==
  /\ phase[w] = "running"
  /\ phase' = [phase EXCEPT ![w] = "releasing"]
  /\ failed' = [failed EXCEPT ![w] = @ \/ Lapsed(w)]
  /\ result' = [result EXCEPT ![w] = IF ok /\ ~failed'[w] THEN "ok" ELSE "error"]
  /\ StopTimers(w)
  /\ UNCHANGED <<server, retried, acquire, renewal, clock, start, deadline>>

\* release(): done, done and the answer lost, refused, or not done.
Release(w) ==
  /\ phase[w] = "releasing"
  /\ Gone(w)
  /\ \/ holder = w /\ holder' = NoWorker /\ UNCHANGED result
     \/ /\ holder' = IF holder = w THEN NoWorker ELSE holder
        /\ result' = [result EXCEPT ![w] = "error"]
     \/ UNCHANGED holder /\ result' = [result EXCEPT ![w] = "error"]
  /\ UNCHANGED <<used, age, leaseEnd>>

\* The worker dies; requests it has sent may still be carried out.
Crash(w) ==
  /\ Counting(w)
  /\ Gone(w)
  /\ result' = [result EXCEPT ![w] = "none"]
  /\ UNCHANGED server

-----------------------------------------------------------------------------
ServerStep(w) == ServerAcquires(w) \/ ServerRenews(w)

WorkerStep(w) ==
  \/ AcquireAgain(w) \/ NotAcquired(w) \/ Acquired(w)
  \/ WakeFires(w) \/ RenewalGranted(w) \/ RenewalFails(w) \/ RenewalIgnored(w)
  \/ ExpiryFires(w) \/ Release(w)

Steps == [Workers -> UNION {Advances[w] : w \in Workers}]

TimePasses == \E adv \in Steps : (\A w \in Workers : adv[w] \in Advances[w]) /\ Tick(adv)

Next ==
  \/ TimePasses
  \/ ForceRelease
  \/ \E w \in Workers : \/ WithLock(w) \/ ServerStep(w) \/ WorkerStep(w) \/ Crash(w)
                        \/ \E ok \in BOOLEAN : CallbackEnds(w, ok)

Spec == Init /\ [][Next]_vars

\* Clocks run, each request is answered or fails, the event loop runs what is
\* due, and a callback whose signal is aborted ends.
Fairness ==
  /\ \A w \in Workers, k \in Clocks : SF_vars(TimePasses /\ clock'[w][k] > clock[w][k])
  /\ WF_vars(TimePasses)
  /\ \A w \in Workers : /\ WF_vars(ServerStep(w)) /\ WF_vars(WorkerStep(w))
                        /\ WF_vars(failed[w] /\ \E ok \in BOOLEAN : CallbackEnds(w, ok))

FairSpec == Spec /\ Fairness

-----------------------------------------------------------------------------
\* Properties

\* The worker takes itself to be the holder: its callback runs, the signal is
\* not aborted, and its clocks say that something of the lease remains.
Relies(w) == phase[w] = "running" /\ ~failed[w] /\ Left(w, deadline[w]) > 0

\* A worker that relies on the lock is the server's holder, however long the
\* requests took, whichever answers were lost and whichever clock lagged.
ReliedOnIsHeld == Forceable \/ \A w \in Workers : Relies(w) => holder = w

\* withLock reports success only of a callback that had the lock to its end:
\* a lease that lapsed meanwhile is an error even if no timer saw it.
SuccessWasHeld ==
  [][\A w \in Workers :
       phase[w] = "running" /\ result'[w] = "ok" => Forceable \/ holder = w]_vars

\* Where performance.now is not paused, the server does not end the lease of a
\* callback before the timer is due that aborts its signal.
AbortedInTime ==
  Forceable \/ \A w \in Workers :
    Runs(w, "mono") /\ phase[w] = "running" /\ ~failed[w] => holder = w \/ TimerDue(w)

\* While the session is active its renewal loop is at exactly one place:
\* waiting, or at a request.  It neither dies nor doubles; and neither a loss
\* nor the cleanup leaves a timer behind.
OneRenewal ==
  \A w \in Workers :
    IF Active(w) THEN (wake[w] = NoTimer) # (renewal[w] = "none")
    ELSE expiry[w] = NoTimer /\ wake[w] = NoTimer

\* After a loss or the cleanup no answer moves the deadlines, no renewal is
\* sent, and the callback's signal stays aborted.
NothingRevived ==
  [][\A w \in Workers : failed[w] \/ phase[w] = "releasing" =>
       \/ phase'[w] = "over"
       \/ /\ deadline'[w] = deadline[w]
          /\ renewal'[w] = "asked" => renewal[w] = "asked"
          /\ failed[w] => failed'[w]]_vars

\* withLock implements an exclusive lease.
Promise == INSTANCE ExclusiveLease WITH relying <- {w \in Workers : Relies(w)}
KeepsPromise == Promise!Spec

\* A callback whose lease the server ended, by force too, is told or ends;
\* every withLock ends if its callback honours the signal; and the lock does
\* not stay with any worker, dead or alive.
EveryLockEnds ==
  \A w \in Workers :
    /\ phase[w] = "running" /\ holder # w ~> failed[w] \/ phase[w] # "running"
    /\ phase[w] # "idle" ~> phase[w] = "over"
    /\ holder = w ~> holder # w
=============================================================================
