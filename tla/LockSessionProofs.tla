------------------------- MODULE LockSessionProofs -------------------------
(***************************************************************************)
(* Proofs about LockSession, for every set of workers, every TTL and life  *)
(* of a lease, and every way the clocks may advance of which one does not  *)
(* lag.                                                                    *)
(***************************************************************************)
EXTENDS LockSession, TLAPS

USE WorkersAssumption, TimesAssumption, ClocksAssumption, ForceableAssumption

Readings == [Clocks -> 0..Life]

-----------------------------------------------------------------------------
\* The LeaseClock and the timers.

\* remaining() never reaches past either deadline.
LEMMA LeftBounds ==
  ASSUME NEW w \in Workers, clock[w] \in Readings, NEW d \in Readings
  PROVE  /\ Left(w, d) \in 0..Life
         /\ Left(w, d) > 0 => \A k \in Clocks : clock[w][k] + Left(w, d) <= d[k]
<1>1. /\ d["mono"] \in 0..Life /\ d["wall"] \in 0..Life
      /\ clock[w]["mono"] \in 0..Life /\ clock[w]["wall"] \in 0..Life
  BY DEF Readings, Clocks
<1> QED
  BY <1>1 DEF Left, Lesser, Clocks

\* An open renewal window is part of what remains.
LEMMA WindowBounds ==
  ASSUME NEW w \in Workers, clock[w] \in Readings, NEW d \in Readings
  PROVE  /\ Window(w, d) \in Nat
         /\ Window(w, d) > 0 => Left(w, d) > 0 /\ Window(w, d) <= Left(w, d)
<1>1. Left(w, d) \in 0..Life
  BY LeftBounds
<1> QED
  BY <1>1 DEF Window

\* A deadline is no later than the 90 days.
LEMMA DeadlinesType ==
  ASSUME NEW w \in Workers, start[w] \in Readings
  PROVE  Deadlines(w) \in Readings
BY DEF Deadlines, StartedAt, Lesser, Readings

\* The expiry timer is due by the monotonic deadline.
LEMMA ArmDue ==
  ASSUME NEW w \in Workers, clock[w] \in Readings, NEW d \in Readings, Left(w, d) > 0,
         expiry \in [Workers -> 0..Life], Arm(w, d)
  PROVE  /\ expiry' \in [Workers -> 0..Life]
         /\ expiry'[w] # NoTimer /\ expiry'[w] <= d["mono"]
         /\ \A u \in Workers \ {w} : expiry'[u] = expiry[u]
<1> DEFINE due == clock[w]["mono"] + Lesser(MaxTimer, Left(w, d))
<1>1. /\ d["mono"] \in 0..Life /\ clock[w]["mono"] \in 0..Life
      /\ Left(w, d) \in 0..Life /\ clock[w]["mono"] + Left(w, d) <= d["mono"]
  BY LeftBounds DEF Readings, Clocks
<1>2. due \in 1..Life /\ due <= d["mono"]
  BY <1>1 DEF Lesser
<1>3. expiry' = [expiry EXCEPT ![w] = due]
  BY DEF Arm
<1> QED
  BY <1>2, <1>3 DEF NoTimer

\* The renewal timer is set, and due while the lease still has its margin.
LEMMA WaitDue ==
  ASSUME NEW w \in Workers, clock[w] \in Readings, NEW d \in Readings, Window(w, d) > 0,
         wake \in [Workers -> 0..Life], Wait(w, d)
  PROVE  /\ wake' \in [Workers -> 0..Life]
         /\ wake'[w] # NoTimer
         /\ \A u \in Workers \ {w} : wake'[u] = wake[u]
<1>1. PICK p \in Pauses : wake' = [wake EXCEPT ![w] = clock[w]["mono"] + Lesser(p, Window(w, d))]
  BY DEF Wait
<1> DEFINE due == clock[w]["mono"] + Lesser(p, Window(w, d))
<1>2. /\ d["mono"] \in 0..Life /\ clock[w]["mono"] \in 0..Life
      /\ Left(w, d) \in 0..Life /\ Left(w, d) > 0 /\ clock[w]["mono"] + Left(w, d) <= d["mono"]
      /\ Window(w, d) \in Nat /\ Window(w, d) <= Left(w, d)
  BY LeftBounds, WindowBounds DEF Readings, Clocks
<1>3. p \in Nat \ {0}
  OBVIOUS
<1>4. due \in 1..Life
  BY <1>2, <1>3 DEF Lesser
<1> QED
  BY <1>1, <1>4 DEF NoTimer

-----------------------------------------------------------------------------
\* Type correctness.

\* A step of time reads every clock on, to 90 days at most.
LEMMA TickClocks ==
  ASSUME DataOK, NEW adv \in Steps, \A w \in Workers : adv[w] \in Advances[w], Tick(adv)
  PROVE  /\ clock' \in [Workers -> Readings]
         /\ \A w \in Workers, k \in Clocks :
              clock'[w][k] = IF Counting(w) THEN Lesser(clock[w][k] + adv[w][k], Life)
                             ELSE clock[w][k]
         /\ \A w \in Workers, k \in Clocks : adv[w][k] \in Nat
<1>1. \A w \in Workers, k \in Clocks : adv[w][k] \in Nat /\ clock[w][k] \in 0..Life
  <2> TAKE w \in Workers, k \in Clocks
  <2>1. adv[w] \in [Clocks -> Nat]
    OBVIOUS
  <2>2. clock[w] \in [Clocks -> 0..Life]
    BY DEF DataOK
  <2> QED
    BY <2>1, <2>2
<1>2. \A w \in Workers, k \in Clocks : Lesser(clock[w][k] + adv[w][k], Life) \in 0..Life
  BY <1>1 DEF Lesser
<1>3. \A w \in Workers : clock[w] \in Readings
  BY DEF DataOK, Readings
<1>4. \A w \in Workers : clock'[w] \in Readings
  <2> TAKE w \in Workers
  <2>1. CASE Counting(w)
    <3>1. clock'[w] = [k \in Clocks |-> Lesser(clock[w][k] + adv[w][k], Life)]
      BY <2>1 DEF Tick
    <3> QED
      BY <3>1, <1>2 DEF Readings
  <2>2. CASE ~Counting(w)
    BY <2>2, <1>3 DEF Tick
  <2> QED
    BY <2>1, <2>2
<1>5. clock' \in [Workers -> Readings]
  BY <1>4 DEF Tick
<1>6. \A w \in Workers, k \in Clocks :
        clock'[w][k] = IF Counting(w) THEN Lesser(clock[w][k] + adv[w][k], Life)
                       ELSE clock[w][k]
  BY DEF Tick
<1> QED
  BY <1>1, <1>5, <1>6

\* The server's fields keep their types.
ServerOK ==
  /\ holder \in Workers \cup {NoWorker} /\ used \subseteq Workers
  /\ age \in 0..Life /\ leaseEnd \in 0..Life

\* A valid lease is one that was granted; it ends later than now, no later
\* than a TTL from now, and no earlier than a TTL after its grant.
LeaseOK ==
  holder # NoWorker =>
    /\ holder \in used
    /\ age < leaseEnd /\ leaseEnd <= age + TTL /\ Lesser(TTL, Life) <= leaseEnd

LEMMA GrantedLease ==
  ASSUME NEW w \in Workers, ServerOK, LeaseOK, Grants(w)
  PROVE  ServerOK' /\ LeaseOK' /\ holder' = w
<1>1. CASE holder = NoWorker /\ w \notin used /\ holder' = w /\ used' = used \cup {w}
           /\ age' = 0 /\ leaseEnd' = Lesser(TTL, Life)
  BY <1>1 DEF ServerOK, LeaseOK, Lesser
<1>2. CASE holder = w /\ Keeps(w)
  BY <1>2 DEF ServerOK, LeaseOK, Lesser, Keeps
<1>3. CASE holder = w /\ UNCHANGED server
  BY <1>3 DEF ServerOK, LeaseOK, server
<1> QED
  BY <1>1, <1>2, <1>3 DEF Grants

\* The server's part of a step.
LEMMA ServerSteps ==
  ASSUME ServerOK, LeaseOK, [Next]_vars
  PROVE  ServerOK' /\ LeaseOK'
<1>1. CASE UNCHANGED server
  BY <1>1 DEF server, ServerOK, LeaseOK
<1>2. ASSUME NEW adv \in Steps, Tick(adv) PROVE ServerOK' /\ LeaseOK'
  BY <1>2 DEF Tick, ServerOK, LeaseOK
<1>3. CASE ForceRelease
  BY <1>3 DEF ForceRelease, ServerOK, LeaseOK
<1>4. ASSUME NEW w \in Workers, Release(w) PROVE ServerOK' /\ LeaseOK'
  BY <1>4 DEF Release, ServerOK, LeaseOK
<1>5. ASSUME NEW w \in Workers, ServerAcquires(w) PROVE ServerOK' /\ LeaseOK'
  <2>1. Grants(w) \/ UNCHANGED server
    BY <1>5 DEF ServerAcquires
  <2> QED
    BY <2>1, <1>1, GrantedLease
<1>6. ASSUME NEW w \in Workers, ServerRenews(w) PROVE ServerOK' /\ LeaseOK'
  <2>1. (holder = w /\ Keeps(w)) \/ UNCHANGED server
    BY <1>6 DEF ServerRenews
  <2> QED
    BY <2>1, <1>1, GrantedLease DEF Grants
<1>7. ASSUME NEW w \in Workers,
             \/ WithLock(w) \/ AcquireAgain(w) \/ NotAcquired(w) \/ Acquired(w)
             \/ WakeFires(w) \/ RenewalGranted(w) \/ RenewalFails(w) \/ RenewalIgnored(w)
             \/ ExpiryFires(w) \/ Crash(w) \/ \E ok \in BOOLEAN : CallbackEnds(w, ok)
      PROVE  UNCHANGED server
  BY <1>7 DEF WithLock, AcquireAgain, NotAcquired, Acquired, WakeFires, RenewalGranted,
              RenewalFails, RenewalIgnored, ExpiryFires, Crash, CallbackEnds
<1>8. CASE UNCHANGED vars
  BY <1>8, <1>1 DEF vars
<1> QED
  BY <1>1, <1>2, <1>3, <1>4, <1>5, <1>6, <1>7, <1>8
     DEF Next, TimePasses, ServerStep, WorkerStep

\* The fields of the calls keep their types, but for the timers and clocks.
PlacesOK ==
  /\ phase \in [Workers -> {"idle", "acquiring", "preparing", "running", "releasing", "over"}]
  /\ acquire \in [Workers -> {"none", "asked", "granted", "taken", "lost", "failed"}]
  /\ renewal \in [Workers -> {"none", "asked", "granted", "failed"}]
  /\ result \in [Workers -> {"none", "ok", "error", "contended"}]

TimesOK ==
  /\ clock \in [Workers -> Readings] /\ start \in [Workers -> Readings]
  /\ deadline \in [Workers -> Readings]
  /\ expiry \in [Workers -> 0..Life] /\ wake \in [Workers -> 0..Life]

LEMMA TypeParts == DataOK <=> ServerOK /\ PlacesOK /\ TimesOK
BY DEF DataOK, ServerOK, PlacesOK, TimesOK, Readings

LEMMA PlacesSteps ==
  ASSUME PlacesOK, [Next]_vars
  PROVE  PlacesOK'
<1>1. CASE UNCHANGED vars
  BY <1>1 DEF vars, PlacesOK
<1>2. ASSUME NEW adv \in Steps, Tick(adv) PROVE PlacesOK'
  BY <1>2 DEF Tick, PlacesOK
<1>3. CASE ForceRelease
  BY <1>3 DEF ForceRelease, PlacesOK
<1>4. ASSUME NEW w \in Workers, WithLock(w) PROVE PlacesOK'
  BY <1>4 DEF WithLock, PlacesOK
<1>5. ASSUME NEW w \in Workers, ServerAcquires(w) PROVE PlacesOK'
  BY <1>5 DEF ServerAcquires, AcquireAnswer, PlacesOK
<1>6. ASSUME NEW w \in Workers, ServerRenews(w) PROVE PlacesOK'
  BY <1>6 DEF ServerRenews, RenewalAnswer, PlacesOK
<1>7. ASSUME NEW w \in Workers, AcquireAgain(w) PROVE PlacesOK'
  BY <1>7 DEF AcquireAgain, PlacesOK
<1>8. ASSUME NEW w \in Workers, NotAcquired(w) PROVE PlacesOK'
  BY <1>8 DEF NotAcquired, Gone, PlacesOK
<1>9. ASSUME NEW w \in Workers, Acquired(w) PROVE PlacesOK'
  BY <1>9 DEF Acquired, Begin, SendRenewal, MarkLost, PlacesOK
<1>10. ASSUME NEW w \in Workers, WakeFires(w) PROVE PlacesOK'
  BY <1>10 DEF WakeFires, SendRenewal, PlacesOK
<1>11. ASSUME NEW w \in Workers, RenewalGranted(w) PROVE PlacesOK'
  BY <1>11 DEF RenewalGranted, Begin, MarkLost, PlacesOK
<1>12. ASSUME NEW w \in Workers, RenewalFails(w) PROVE PlacesOK'
  BY <1>12 DEF RenewalFails, MarkLost, PlacesOK
<1>13. ASSUME NEW w \in Workers, RenewalIgnored(w) PROVE PlacesOK'
  BY <1>13 DEF RenewalIgnored, PlacesOK
<1>14. ASSUME NEW w \in Workers, ExpiryFires(w) PROVE PlacesOK'
  BY <1>14 DEF ExpiryFires, MarkLost, PlacesOK
<1>15. ASSUME NEW w \in Workers, Release(w) PROVE PlacesOK'
  BY <1>15 DEF Release, Gone, PlacesOK
<1>16. ASSUME NEW w \in Workers, Crash(w) PROVE PlacesOK'
  BY <1>16 DEF Crash, Gone, PlacesOK
<1>17. ASSUME NEW w \in Workers, NEW ok \in BOOLEAN, CallbackEnds(w, ok) PROVE PlacesOK'
  BY <1>17 DEF CallbackEnds, PlacesOK
<1> QED
  BY <1>1, <1>2, <1>3, <1>4, <1>5, <1>6, <1>7, <1>8, <1>9, <1>10, <1>11, <1>12, <1>13,
     <1>14, <1>15, <1>16, <1>17 DEF Next, TimePasses, ServerStep, WorkerStep

LEMMA StopTimersType ==
  ASSUME NEW w \in Workers, TimesOK, StopTimers(w)
  PROVE  /\ expiry' \in [Workers -> 0..Life] /\ wake' \in [Workers -> 0..Life]
         /\ expiry'[w] = NoTimer /\ wake'[w] = NoTimer
         /\ \A u \in Workers \ {w} : expiry'[u] = expiry[u] /\ wake'[u] = wake[u]
BY DEF StopTimers, TimesOK, NoTimer

LEMMA GoneTypes ==
  ASSUME NEW w \in Workers, TimesOK, Gone(w)
  PROVE  TimesOK'
<1>1. Zero \in Readings
  BY DEF Zero, Readings
<1>2. expiry' \in [Workers -> 0..Life] /\ wake' \in [Workers -> 0..Life]
  BY StopTimersType DEF Gone
<1> QED
  BY <1>1, <1>2 DEF Gone, TimesOK

\* The session starts, or renews, with its timers set.
LEMMA BeginTypes ==
  ASSUME NEW w \in Workers, NEW d \in Readings, TimesOK, Window(w, d) > 0, Begin(w, d)
  PROVE  /\ expiry' \in [Workers -> 0..Life] /\ wake' \in [Workers -> 0..Life]
         /\ expiry'[w] # NoTimer /\ wake'[w] # NoTimer /\ expiry'[w] <= d["mono"]
         /\ \A u \in Workers \ {w} : expiry'[u] = expiry[u] /\ wake'[u] = wake[u]
<1>1. clock[w] \in Readings
  BY DEF TimesOK
<1>2. Left(w, d) > 0
  BY <1>1, WindowBounds
<1> QED
  BY <1>1, <1>2, ArmDue, WaitDue DEF Begin, TimesOK

LEMMA TimesSteps ==
  ASSUME DataOK, TimesOK, [Next]_vars
  PROVE  TimesOK'
<1>a. ASSUME NEW w \in Workers PROVE clock[w] \in Readings /\ Deadlines(w) \in Readings
  BY DeadlinesType DEF TimesOK
<1>1. CASE UNCHANGED vars
  BY <1>1 DEF vars, timers, TimesOK
<1>2. ASSUME NEW adv \in Steps, \A w \in Workers : adv[w] \in Advances[w], Tick(adv)
      PROVE  TimesOK'
  <2>1. clock' \in [Workers -> Readings]
    BY <1>2, TickClocks
  <2> QED
    BY <2>1, <1>2 DEF Tick, TimesOK, timers
<1>3. CASE ForceRelease
  BY <1>3 DEF ForceRelease, TimesOK, timers
<1>4. ASSUME NEW w \in Workers,
             WithLock(w) \/ ServerAcquires(w) \/ ServerRenews(w) \/ AcquireAgain(w) \/ RenewalIgnored(w)
      PROVE  TimesOK'
  BY <1>4 DEF WithLock, ServerAcquires, ServerRenews, AcquireAgain, RenewalIgnored, TimesOK, timers
<1>5. ASSUME NEW w \in Workers, NotAcquired(w) \/ Release(w) \/ Crash(w) PROVE TimesOK'
  BY <1>5, GoneTypes DEF NotAcquired, Release, Crash
<1>6. ASSUME NEW w \in Workers, Acquired(w) PROVE TimesOK'
  <2>1. deadline' \in [Workers -> Readings] /\ clock' \in [Workers -> Readings]
    BY <1>6, <1>a DEF Acquired, TimesOK
  <2>2. CASE Window(w, Deadlines(w)) > 0 /\ Begin(w, Deadlines(w)) /\ UNCHANGED start
    BY <2>1, <2>2, <1>a, BeginTypes DEF TimesOK
  <2>3. CASE /\ Left(w, Deadlines(w)) > 0 /\ Arm(w, Deadlines(w)) /\ SendRenewal(w)
             /\ UNCHANGED wake
    BY <2>1, <2>3, <1>a, ArmDue DEF TimesOK, SendRenewal
  <2>4. CASE MarkLost(w) /\ UNCHANGED start
    BY <2>1, <2>4, StopTimersType DEF TimesOK, MarkLost
  <2> QED
    BY <1>6, <2>2, <2>3, <2>4 DEF Acquired
<1>7. ASSUME NEW w \in Workers, WakeFires(w) PROVE TimesOK'
  BY <1>7 DEF WakeFires, SendRenewal, TimesOK, NoTimer
<1>8. ASSUME NEW w \in Workers, RenewalGranted(w) PROVE TimesOK'
  <2>1. /\ deadline' \in [Workers -> Readings] /\ clock' \in [Workers -> Readings]
        /\ start' \in [Workers -> Readings]
    BY <1>8, <1>a DEF RenewalGranted, TimesOK
  <2>2. CASE Window(w, Deadlines(w)) > 0 /\ Begin(w, Deadlines(w))
    BY <2>1, <2>2, <1>a, BeginTypes DEF TimesOK
  <2>3. CASE MarkLost(w)
    BY <2>1, <2>3, StopTimersType DEF TimesOK, MarkLost
  <2> QED
    BY <1>8, <2>2, <2>3 DEF RenewalGranted
<1>9. ASSUME NEW w \in Workers, RenewalFails(w) PROVE TimesOK'
  BY <1>9, StopTimersType DEF RenewalFails, MarkLost, TimesOK
<1>10. ASSUME NEW w \in Workers, ExpiryFires(w) PROVE TimesOK'
  <2>1. deadline[w] \in Readings
    BY DEF TimesOK
  <2>2. CASE Left(w, deadline[w]) > 0 /\ Rearm(w) /\ UNCHANGED wake
    BY <2>1, <2>2, <1>10, <1>a, ArmDue DEF ExpiryFires, Rearm, TimesOK
  <2>3. CASE MarkLost(w)
    BY <1>10, <2>3, StopTimersType DEF ExpiryFires, MarkLost, TimesOK
  <2> QED
    BY <1>10, <2>2, <2>3 DEF ExpiryFires
<1>11. ASSUME NEW w \in Workers, NEW ok \in BOOLEAN, CallbackEnds(w, ok) PROVE TimesOK'
  BY <1>11, StopTimersType DEF CallbackEnds, TimesOK
<1> QED
  BY <1>1, <1>2, <1>3, <1>4, <1>5, <1>6, <1>7, <1>8, <1>9, <1>10, <1>11
     DEF Next, TimePasses, ServerStep, WorkerStep

LEMMA FlagsSteps ==
  ASSUME FlagsOK, [Next]_vars
  PROVE  FlagsOK'
<1>1. CASE UNCHANGED <<retried, failed>>
  BY <1>1 DEF FlagsOK
<1>2. ASSUME NEW w \in Workers, failed' = [failed EXCEPT ![w] = TRUE], UNCHANGED retried
      PROVE  FlagsOK'
  BY <1>2 DEF FlagsOK
<1>3. ASSUME NEW w \in Workers, AcquireAgain(w) PROVE FlagsOK'
  BY <1>3 DEF AcquireAgain, FlagsOK
<1>4. ASSUME NEW w \in Workers, NotAcquired(w) \/ Release(w) \/ Crash(w) PROVE FlagsOK'
  BY <1>4 DEF NotAcquired, Release, Crash, Gone, FlagsOK
<1>5. ASSUME NEW w \in Workers, NEW ok \in BOOLEAN, CallbackEnds(w, ok) PROVE FlagsOK'
  <2>1. (failed[w] \/ Lapsed(w)) \in BOOLEAN
    OBVIOUS
  <2>2. /\ failed' = [failed EXCEPT ![w] = failed[w] \/ Lapsed(w)]
        /\ retried' = retried
    BY <1>5 DEF CallbackEnds
  <2> QED
    BY <2>1, <2>2 DEF FlagsOK
<1>6. ASSUME NEW w \in Workers,
             Acquired(w) \/ RenewalGranted(w) \/ RenewalFails(w) \/ ExpiryFires(w)
      PROVE  UNCHANGED retried /\ (UNCHANGED failed \/ failed' = [failed EXCEPT ![w] = TRUE])
  BY <1>6 DEF Acquired, RenewalGranted, RenewalFails, ExpiryFires, MarkLost
<1>7. ASSUME NEW w \in Workers,
             \/ WithLock(w) \/ ServerAcquires(w) \/ ServerRenews(w) \/ WakeFires(w)
             \/ RenewalIgnored(w)
      PROVE  UNCHANGED <<retried, failed>>
  BY <1>7 DEF WithLock, ServerAcquires, ServerRenews, WakeFires, RenewalIgnored
<1>8. ASSUME UNCHANGED vars \/ ForceRelease \/ \E adv \in Steps : Tick(adv)
      PROVE  UNCHANGED <<retried, failed>>
  BY <1>8 DEF vars, ForceRelease, Tick
<1> QED
  BY <1>1, <1>2, <1>3, <1>4, <1>5, <1>6, <1>7, <1>8 DEF Next, TimePasses, ServerStep, WorkerStep

TypedLease == DataOK /\ FlagsOK /\ LeaseOK

LEMMA TypedInit == Init => TypedLease
<1> SUFFICES ASSUME Init PROVE TypedLease
  OBVIOUS
<1>1. Zero \in Readings /\ NoTimer \in 0..Life
  BY DEF Zero, Readings, NoTimer
<1>2. ServerOK /\ LeaseOK
  BY DEF Init, ServerOK, LeaseOK
<1>3. PlacesOK /\ TimesOK
  BY <1>1 DEF Init, PlacesOK, TimesOK
<1>4. FlagsOK
  BY DEF Init, FlagsOK
<1> QED
  BY <1>2, <1>3, <1>4, TypeParts DEF TypedLease

LEMMA TypedSteps ==
  ASSUME TypedLease, [Next]_vars
  PROVE  TypedLease'
<1>1. ServerOK /\ PlacesOK /\ TimesOK
  BY TypeParts DEF TypedLease
<1>2. ServerOK' /\ LeaseOK'
  BY <1>1, ServerSteps DEF TypedLease
<1>3. PlacesOK'
  BY <1>1, PlacesSteps
<1>4. TimesOK'
  BY <1>1, TimesSteps DEF TypedLease
<1>5. FlagsOK'
  BY FlagsSteps DEF TypedLease
<1>6. DataOK'
  BY <1>2, <1>3, <1>4 DEF DataOK, ServerOK, PlacesOK, TimesOK, Readings
<1> QED
  BY <1>2, <1>5, <1>6 DEF TypedLease

\* Every field keeps its type: no deadline and no timer of a session is ever
\* past the 90 days of the acquisition.
THEOREM TypeCorrect == Spec => []TypeOK
<1>1. TypedLease => TypeOK
  BY DEF TypedLease, TypeOK
<1> QED
  BY <1>1, TypedInit, TypedSteps, PTL DEF Spec

-----------------------------------------------------------------------------
\* Sessions.

\* The fields of u's session stay as they are.
Same(u) ==
  /\ phase'[u] = phase[u] /\ acquire'[u] = acquire[u] /\ renewal'[u] = renewal[u]
  /\ clock'[u] = clock[u] /\ start'[u] = start[u] /\ deadline'[u] = deadline[u]
  /\ expiry'[u] = expiry[u] /\ wake'[u] = wake[u]
  /\ failed'[u] = failed[u] /\ result'[u] = result[u]

WorkerAction(w) ==
  \/ WithLock(w) \/ ServerStep(w) \/ WorkerStep(w) \/ Crash(w)
  \/ \E ok \in BOOLEAN : CallbackEnds(w, ok)

LEMMA NextCases ==
  ASSUME [Next]_vars
  PROVE  \/ UNCHANGED vars
         \/ ForceRelease
         \/ \E adv \in Steps : (\A w \in Workers : adv[w] \in Advances[w]) /\ Tick(adv)
         \/ \E w \in Workers : WorkerAction(w)
BY DEF Next, TimePasses, WorkerAction

LEMMA TimersOfOthers ==
  ASSUME NEW w \in Workers, NEW u \in Workers \ {w}, TimesOK
  PROVE  /\ \A d : Arm(w, d) \/ Rearm(w) \/ UNCHANGED expiry => expiry'[u] = expiry[u]
         /\ \A d : Wait(w, d) \/ UNCHANGED wake => wake'[u] = wake[u]
         /\ StopTimers(w) => expiry'[u] = expiry[u] /\ wake'[u] = wake[u]
BY DEF TimesOK, Arm, Rearm, Wait, StopTimers

\* What one worker does leaves the others' sessions alone.
LEMMA OthersSame ==
  ASSUME NEW w \in Workers, NEW u \in Workers \ {w}, DataOK, FlagsOK, TimesOK, WorkerAction(w)
  PROVE  Same(u)
<1>1. CASE WithLock(w)
  BY <1>1 DEF WithLock, Same, DataOK, FlagsOK, timers
<1>2. CASE ServerAcquires(w)
  BY <1>2 DEF ServerAcquires, AcquireAnswer, Same, DataOK, FlagsOK, timers
<1>3. CASE ServerRenews(w)
  BY <1>3 DEF ServerRenews, RenewalAnswer, Same, DataOK, FlagsOK, timers
<1>4. CASE AcquireAgain(w)
  BY <1>4 DEF AcquireAgain, Same, DataOK, FlagsOK, timers
<1>5. CASE NotAcquired(w) \/ Release(w) \/ Crash(w)
  <2>1. Gone(w)
    BY <1>5 DEF NotAcquired, Release, Crash
  <2>2. result'[u] = result[u]
    BY <1>5 DEF NotAcquired, Release, Crash, DataOK
  <2> QED
    BY <2>1, <2>2, TimersOfOthers DEF Gone, Same, DataOK, FlagsOK
<1>6. ASSUME MarkLost(w)
      PROVE  /\ phase'[u] = phase[u] /\ result'[u] = result[u] /\ failed'[u] = failed[u]
             /\ expiry'[u] = expiry[u] /\ wake'[u] = wake[u]
  BY <1>6, TimersOfOthers DEF MarkLost, DataOK, FlagsOK
<1>7. ASSUME NEW d, Begin(w, d)
      PROVE  phase'[u] = phase[u] /\ expiry'[u] = expiry[u] /\ wake'[u] = wake[u]
  BY <1>7, TimersOfOthers DEF Begin, DataOK
<1>8. CASE Acquired(w)
  <2>1. /\ acquire'[u] = acquire[u] /\ deadline'[u] = deadline[u] /\ clock'[u] = clock[u]
    BY <1>8 DEF Acquired, DataOK
  <2>2. CASE Begin(w, Deadlines(w)) /\ UNCHANGED <<renewal, start, failed, result>>
    BY <2>1, <2>2, <1>7 DEF Same
  <2>3. CASE /\ phase' = [phase EXCEPT ![w] = "preparing"]
             /\ Arm(w, Deadlines(w)) /\ SendRenewal(w)
             /\ UNCHANGED <<wake, failed, result>>
    BY <2>1, <2>3, TimersOfOthers DEF Same, SendRenewal, DataOK
  <2>4. CASE MarkLost(w) /\ UNCHANGED <<renewal, start>>
    BY <2>1, <2>4, <1>6 DEF Same
  <2> QED
    BY <1>8, <2>2, <2>3, <2>4 DEF Acquired
<1>9. CASE WakeFires(w)
  BY <1>9 DEF WakeFires, SendRenewal, Same, DataOK, FlagsOK
<1>10. CASE RenewalGranted(w)
  <2>1. /\ acquire'[u] = acquire[u] /\ deadline'[u] = deadline[u] /\ clock'[u] = clock[u]
        /\ renewal'[u] = renewal[u] /\ start'[u] = start[u]
    BY <1>10 DEF RenewalGranted, DataOK
  <2> QED
    BY <2>1, <1>6, <1>7, <1>10 DEF RenewalGranted, Same
<1>11. CASE RenewalFails(w)
  BY <1>11, <1>6 DEF RenewalFails, Same, DataOK
<1>12. CASE RenewalIgnored(w)
  BY <1>12 DEF RenewalIgnored, Same, DataOK, FlagsOK, timers
<1>13. CASE ExpiryFires(w)
  BY <1>13, <1>6, TimersOfOthers DEF ExpiryFires, Same
<1>14. ASSUME NEW ok \in BOOLEAN, CallbackEnds(w, ok) PROVE Same(u)
  BY <1>14, TimersOfOthers DEF CallbackEnds, Same, DataOK, FlagsOK
<1> QED
  BY <1>1, <1>2, <1>3, <1>4, <1>5, <1>8, <1>9, <1>10, <1>11, <1>12, <1>13, <1>14
     DEF WorkerAction, ServerStep, WorkerStep

\* A call that has not begun has no lease, one that has no lease yet has no
\* renewal, and none has a result before its callback ends.
BegunOK(w) ==
  /\ phase[w] = "idle" => w \notin used /\ acquire[w] = "none"
  /\ phase[w] \in {"idle", "acquiring"} =>
       renewal[w] = "none" /\ \A k \in Clocks : start[w][k] = 0
  /\ phase[w] \in {"idle", "acquiring", "preparing"} => ~failed[w]
  /\ phase[w] \in {"idle", "acquiring", "preparing", "running"} => result[w] = "none"
  /\ \A k \in Clocks : start[w][k] <= clock[w][k]

\* An active session has its expiry timer, and is at one place of its renewal
\* loop; any other has no timer.
TimersOK(w) ==
  /\ Active(w) => /\ expiry[w] # NoTimer /\ expiry[w] <= deadline[w]["mono"]
                  /\ (wake[w] = NoTimer) # (renewal[w] = "none")
  /\ ~Active(w) => expiry[w] = NoTimer /\ wake[w] = NoTimer

SessionOK(w) == BegunOK(w) /\ TimersOK(w)

LEMMA SameSession ==
  ASSUME NEW u \in Workers, SessionOK(u), Same(u), u \in used' => u \in used
  PROVE  SessionOK(u)'
BY DEF SessionOK, BegunOK, TimersOK, Active, Same

\* Only a worker that has asked for the lock is granted it.
LEMMA UsedByAsking ==
  ASSUME NEW u \in Workers, BegunOK(u), [Next]_vars, u \in used', u \notin used
  PROVE  ServerAcquires(u)
<1>1. CASE UNCHANGED used
  BY <1>1
<1>2. ASSUME NEW w \in Workers, ServerAcquires(w), w # u PROVE UNCHANGED used \/ used' = used \cup {w}
  BY <1>2 DEF ServerAcquires, Grants, Keeps, server
<1>3. ASSUME NEW w \in Workers, WorkerAction(w), ~ServerAcquires(w) PROVE UNCHANGED used
  BY <1>3 DEF WorkerAction, ServerStep, WorkerStep, WithLock, ServerRenews, Keeps, AcquireAgain,
              NotAcquired, Acquired, WakeFires, RenewalGranted, RenewalFails, RenewalIgnored,
              ExpiryFires, Release, Crash, CallbackEnds, server
<1>4. ASSUME UNCHANGED vars \/ ForceRelease \/ \E adv \in Steps : Tick(adv) PROVE UNCHANGED used
  BY <1>4 DEF vars, server, ForceRelease, Tick
<1> QED
  BY <1>1, <1>2, <1>3, <1>4, NextCases

\* A session that is lost, or gone, leaves no timer behind.
LEMMA LostSession ==
  ASSUME NEW w \in Workers, TypedLease, SessionOK(w), MarkLost(w),
         phase[w] \in {"acquiring", "preparing", "running"}
  PROVE  /\ TimersOK(w)'
         /\ failed'[w] /\ phase'[w] \in {"running", "releasing"}
         /\ phase'[w] = "running" => phase[w] = "running" /\ result'[w] = result[w]
<1>1. TimesOK
  BY TypeParts DEF TypedLease
<1>2. expiry'[w] = NoTimer /\ wake'[w] = NoTimer
  BY <1>1, StopTimersType DEF MarkLost
<1>3. failed'[w]
  BY DEF MarkLost, TypedLease, FlagsOK
<1>4. /\ phase'[w] \in {"running", "releasing"}
      /\ phase'[w] = "running" => phase[w] = "running" /\ result'[w] = result[w]
  BY DEF MarkLost, TypedLease, DataOK
<1> QED
  BY <1>2, <1>3, <1>4 DEF TimersOK, Active

LEMMA GoneSession ==
  ASSUME NEW w \in Workers, TypedLease, Gone(w)
  PROVE  SessionOK(w)'
<1>1. TimesOK
  BY TypeParts DEF TypedLease
<1>2. expiry'[w] = NoTimer /\ wake'[w] = NoTimer
  BY <1>1, StopTimersType DEF Gone
<1>3. phase'[w] = "over" /\ clock'[w] = Zero /\ start'[w] = Zero
  BY <1>1 DEF Gone, TypedLease, DataOK, TimesOK
<1> QED
  BY <1>2, <1>3 DEF SessionOK, BegunOK, TimersOK, Active, Zero

\* The session begins or is renewed: both timers are set anew.
LEMMA BegunSession ==
  ASSUME NEW w \in Workers, TypedLease, ~failed[w], UNCHANGED failed, Window(w, Deadlines(w)) > 0,
         Begin(w, Deadlines(w)), deadline' = [deadline EXCEPT ![w] = Deadlines(w)],
         renewal'[w] = "none"
  PROVE  TimersOK(w)' /\ phase'[w] = "running"
<1>1. TimesOK
  BY TypeParts DEF TypedLease
<1>2. Deadlines(w) \in Readings
  BY <1>1, DeadlinesType DEF TimesOK
<1>3. expiry'[w] # NoTimer /\ wake'[w] # NoTimer /\ expiry'[w] <= Deadlines(w)["mono"]
  BY <1>1, <1>2, BeginTypes
<1>4. phase'[w] = "running" /\ deadline'[w] = Deadlines(w)
  BY <1>1 DEF Begin, TypedLease, DataOK, TimesOK
<1> QED
  BY <1>3, <1>4 DEF TimersOK, Active

\* Time changes the clocks of a session only.
LEMMA TickSession ==
  ASSUME NEW u \in Workers, TypedLease, SessionOK(u),
         NEW adv \in Steps, \A w \in Workers : adv[w] \in Advances[w], Tick(adv)
  PROVE  SessionOK(u)'
<1>1. \A k \in Clocks : clock'[u][k] >= clock[u][k]
  <2> TAKE k \in Clocks
  <2>1. clock[u] \in [Clocks -> 0..Life]
    BY DEF TypedLease, DataOK
  <2>2. clock[u][k] \in 0..Life
    BY <2>1
  <2>3. /\ clock'[u][k] = IF Counting(u) THEN Lesser(clock[u][k] + adv[u][k], Life) ELSE clock[u][k]
        /\ adv[u][k] \in Nat
    BY TickClocks DEF TypedLease
  <2> QED
    BY <2>2, <2>3 DEF Lesser
<1>2. \A k \in Clocks : clock'[u][k] \in Int /\ clock[u][k] \in Int /\ start[u][k] \in Int
  <2>1. /\ clock[u] \in Readings /\ start[u] \in Readings /\ clock'[u] \in Readings
    BY TickClocks DEF TypedLease, DataOK, Readings
  <2> QED
    BY <2>1 DEF Readings
<1>3. \A k \in Clocks : start[u][k] <= clock'[u][k]
  BY <1>1, <1>2 DEF SessionOK, BegunOK
<1>4. /\ phase' = phase /\ acquire' = acquire /\ renewal' = renewal /\ used' = used
      /\ start' = start /\ deadline' = deadline /\ failed' = failed /\ result' = result
      /\ expiry' = expiry /\ wake' = wake
  BY DEF Tick, timers
<1> QED
  BY <1>3, <1>4 DEF SessionOK, BegunOK, TimersOK, Active

\* What a worker does keeps its session in order.
LEMMA OwnSession ==
  ASSUME NEW w \in Workers, TypedLease, SessionOK(w), [Next]_vars, WorkerAction(w)
  PROVE  SessionOK(w)'
<1>a. TimesOK
  BY TypeParts DEF TypedLease
<1>b. clock[w] \in Readings /\ start[w] \in Readings /\ deadline[w] \in Readings
  BY <1>a DEF TimesOK
<1>c. \A k \in Clocks : clock[w][k] \in Int /\ clock[w][k] <= clock[w][k]
  BY <1>b DEF Readings
<1>d. w \in used' /\ w \notin used => ServerAcquires(w)
  BY UsedByAsking DEF SessionOK
<1>1. CASE WithLock(w)
  BY <1>1, <1>d DEF WithLock, ServerAcquires, SessionOK, BegunOK, TimersOK, Active, timers,
                    TypedLease, DataOK
<1>2. CASE ServerAcquires(w)
  BY <1>2 DEF ServerAcquires, AcquireAnswer, SessionOK, BegunOK, TimersOK, Active, timers,
              TypedLease, DataOK
<1>3. CASE ServerRenews(w)
  <2>1. /\ renewal[w] = "asked" /\ UNCHANGED <<phase, acquire, clock, start, deadline, failed, result>>
        /\ expiry' = expiry /\ wake' = wake /\ used' = used
    BY <1>3 DEF ServerRenews, Keeps, timers, server
  <2>2. Active(w) => renewal'[w] \in {"granted", "failed"}
    BY <1>3 DEF ServerRenews, RenewalAnswer, Counting, Active, TypedLease, DataOK
  <2> QED
    BY <2>1, <2>2 DEF SessionOK, BegunOK, TimersOK, Active
<1>4. CASE AcquireAgain(w)
  BY <1>4, <1>d DEF AcquireAgain, ServerAcquires, SessionOK, BegunOK, TimersOK, Active, timers,
                    TypedLease, DataOK
<1>5. CASE NotAcquired(w) \/ Release(w) \/ Crash(w)
  BY <1>5, GoneSession DEF NotAcquired, Release, Crash
<1>6. CASE Acquired(w)
  <2>1. /\ phase[w] = "acquiring" /\ clock' = clock
        /\ deadline' = [deadline EXCEPT ![w] = Deadlines(w)]
    BY <1>6 DEF Acquired
  <2>2. ~failed[w] /\ renewal[w] = "none" /\ result[w] = "none" /\ ~Active(w)
        /\ wake[w] = NoTimer
    BY <2>1 DEF SessionOK, BegunOK, TimersOK, Active
  <2>3. CASE /\ Window(w, Deadlines(w)) > 0 /\ Begin(w, Deadlines(w))
             /\ UNCHANGED <<renewal, start, failed, result>>
    <3>1. TimersOK(w)' /\ phase'[w] = "running"
      BY <2>1, <2>2, <2>3, BegunSession
    <3> QED
      BY <2>1, <2>2, <2>3, <3>1 DEF SessionOK, BegunOK
  <2>4. CASE /\ Left(w, Deadlines(w)) > 0
             /\ phase' = [phase EXCEPT ![w] = "preparing"]
             /\ Arm(w, Deadlines(w)) /\ SendRenewal(w)
             /\ UNCHANGED <<wake, failed, result>>
    <3>1. Deadlines(w) \in Readings
      BY <1>b, DeadlinesType
    <3>2. expiry'[w] # NoTimer /\ expiry'[w] <= Deadlines(w)["mono"]
      BY <2>4, <3>1, <1>a, <1>b, ArmDue DEF TimesOK
    <3>3. /\ phase'[w] = "preparing" /\ deadline'[w] = Deadlines(w) /\ renewal'[w] = "asked"
          /\ start'[w] = clock[w]
      BY <2>1, <2>4, <1>a DEF SendRenewal, TypedLease, DataOK, TimesOK
    <3> QED
      BY <2>1, <2>2, <2>4, <3>2, <3>3, <1>c DEF SessionOK, BegunOK, TimersOK, Active
  <2>5. CASE MarkLost(w) /\ UNCHANGED <<renewal, start>>
    <3>1. TimersOK(w)' /\ phase'[w] = "releasing"
      BY <2>1, <2>5, LostSession
    <3> QED
      BY <2>1, <2>5, <3>1 DEF SessionOK, BegunOK
  <2> QED
    BY <1>6, <2>3, <2>4, <2>5 DEF Acquired
<1>7. CASE WakeFires(w)
  <2>1. Active(w) /\ expiry' = expiry /\ deadline' = deadline
        /\ UNCHANGED <<phase, acquire, clock, failed, result>>
    BY <1>7 DEF WakeFires, SessionOK, TimersOK
  <2>2. wake'[w] = NoTimer /\ renewal'[w] = "asked" /\ start'[w] = clock[w]
    BY <1>7, <1>a DEF WakeFires, SendRenewal, TypedLease, DataOK, TimesOK
  <2> QED
    BY <2>1, <2>2, <1>c DEF SessionOK, BegunOK, TimersOK, Active
<1>8. CASE RenewalGranted(w)
  <2>1. /\ Active(w) /\ clock' = clock /\ start' = start
        /\ deadline' = [deadline EXCEPT ![w] = Deadlines(w)]
    BY <1>8 DEF RenewalGranted, Accepts
  <2>2. renewal'[w] = "none"
    BY <1>8 DEF RenewalGranted, TypedLease, DataOK
  <2>3. CASE /\ Window(w, Deadlines(w)) > 0 /\ Begin(w, Deadlines(w)) /\ UNCHANGED <<failed, result>>
    <3>1. TimersOK(w)' /\ phase'[w] = "running"
      BY <2>1, <2>2, <2>3, BegunSession DEF Active
    <3> QED
      BY <2>1, <2>3, <3>1 DEF SessionOK, BegunOK, Active
  <2>4. CASE MarkLost(w)
    <3>1. /\ TimersOK(w)' /\ phase'[w] \in {"running", "releasing"}
          /\ phase'[w] = "running" => phase[w] = "running" /\ result'[w] = result[w]
      BY <2>1, <2>4, LostSession DEF Active
    <3> QED
      BY <2>1, <2>4, <3>1 DEF SessionOK, BegunOK
  <2> QED
    BY <1>8, <2>3, <2>4 DEF RenewalGranted
<1>9. CASE RenewalFails(w)
  <2>1. Active(w) /\ MarkLost(w) /\ UNCHANGED <<clock, start>>
    BY <1>9 DEF RenewalFails, Accepts
  <2>2. /\ TimersOK(w)' /\ phase'[w] \in {"running", "releasing"}
        /\ phase'[w] = "running" => phase[w] = "running" /\ result'[w] = result[w]
    BY <2>1, LostSession DEF Active
  <2> QED
    BY <2>1, <2>2 DEF SessionOK, BegunOK
<1>10. CASE RenewalIgnored(w)
  <2>1. ~Active(w)
    BY <1>10 DEF RenewalIgnored, Accepts
  <2>2. renewal'[w] = "none"
    BY <1>10 DEF RenewalIgnored, TypedLease, DataOK
  <2> QED
    BY <1>10, <2>1, <2>2, <1>d
       DEF RenewalIgnored, ServerAcquires, SessionOK, BegunOK, TimersOK, Active, timers, server
<1>11. CASE ExpiryFires(w)
  <2>1. /\ Active(w) /\ UNCHANGED <<clock, start, deadline, renewal>>
    BY <1>11 DEF ExpiryFires, TimerDue, SessionOK, TimersOK
  <2>2. CASE /\ Left(w, deadline[w]) > 0 /\ Rearm(w) /\ UNCHANGED <<wake, phase, failed, result>>
    <3>1. expiry'[w] # NoTimer /\ expiry'[w] <= deadline[w]["mono"]
      BY <2>2, <1>a, <1>b, ArmDue DEF Rearm, TimesOK
    <3> QED
      BY <2>1, <2>2, <3>1 DEF SessionOK, BegunOK, TimersOK, Active
  <2>3. CASE MarkLost(w)
    <3>1. /\ TimersOK(w)' /\ phase'[w] \in {"running", "releasing"}
          /\ phase'[w] = "running" => phase[w] = "running" /\ result'[w] = result[w]
      BY <2>1, <2>3, LostSession DEF Active
    <3> QED
      BY <2>1, <2>3, <3>1 DEF SessionOK, BegunOK
  <2> QED
    BY <1>11, <2>2, <2>3 DEF ExpiryFires
<1>12. ASSUME NEW ok \in BOOLEAN, CallbackEnds(w, ok) PROVE SessionOK(w)'
  <2>1. expiry'[w] = NoTimer /\ wake'[w] = NoTimer
    BY <1>12, <1>a, StopTimersType DEF CallbackEnds
  <2>2. phase'[w] = "releasing" /\ UNCHANGED <<clock, start>>
    BY <1>12 DEF CallbackEnds, TypedLease, DataOK
  <2> QED
    BY <2>1, <2>2 DEF SessionOK, BegunOK, TimersOK, Active
<1> QED
  BY <1>1, <1>2, <1>3, <1>4, <1>5, <1>6, <1>7, <1>8, <1>9, <1>10, <1>11, <1>12
     DEF WorkerAction, ServerStep, WorkerStep

Sessions == \A w \in Workers : SessionOK(w)

LEMMA SessionSteps ==
  ASSUME TypedLease, Sessions, [Next]_vars
  PROVE  Sessions'
<1> SUFFICES ASSUME NEW u \in Workers PROVE SessionOK(u)'
  BY DEF Sessions
<1>0. SessionOK(u) /\ TimesOK
  BY TypeParts DEF Sessions, TypedLease
<1>1. CASE UNCHANGED vars \/ ForceRelease
  BY <1>0, <1>1, SameSession DEF vars, server, timers, ForceRelease, Same
<1>2. ASSUME NEW adv \in Steps, \A w \in Workers : adv[w] \in Advances[w], Tick(adv)
      PROVE  SessionOK(u)'
  BY <1>0, <1>2, TickSession
<1>3. CASE WorkerAction(u)
  BY <1>0, <1>3, OwnSession
<1>4. ASSUME NEW w \in Workers \ {u}, WorkerAction(w), ~WorkerAction(u) PROVE SessionOK(u)'
  <2>1. u \in used' => u \in used
    BY <1>0, <1>4, UsedByAsking DEF SessionOK, WorkerAction, ServerStep
  <2>2. Same(u)
    BY <1>0, <1>4, OthersSame DEF TypedLease
  <2> QED
    BY <1>0, <2>1, <2>2, SameSession
<1> QED
  BY <1>1, <1>2, <1>3, <1>4, NextCases

-----------------------------------------------------------------------------
\* Leases.  Clock k of w has run at least as long as the server's since the
\* grant, if k does not lag.
KeptUp(w, k) ==
  holder = w /\ phase[w] \in {"acquiring", "preparing", "running"} => age <= clock[w][k]

\* The server's lease lasts as long as clock k of w says of deadline x.
Lasts(w, k, x) ==
  ~Forceable /\ clock[w][k] < x => holder = w /\ x - clock[w][k] <= leaseEnd - age

\* It does for the deadline the session has, and for the ones it will have
\* once the answer under way arrives.
Covered(w, k) ==
  /\ phase[w] = "acquiring" /\ acquire[w] = "granted" => Lasts(w, k, Deadlines(w)[k])
  /\ phase[w] \in {"preparing", "running"} => Lasts(w, k, deadline[w][k])
  /\ phase[w] \in {"preparing", "running"} /\ renewal[w] = "granted" => Lasts(w, k, Deadlines(w)[k])

Held == \A w \in Workers, k \in Clocks : Runs(w, k) => KeptUp(w, k) /\ Covered(w, k)

\* The inductive invariant.
IInv == TypedLease /\ Sessions /\ Held

LEMMA ReadingTypes ==
  ASSUME NEW w \in Workers, NEW k \in Clocks, TypedLease
  PROVE  /\ clock[w][k] \in 0..Life /\ start[w][k] \in 0..Life /\ deadline[w][k] \in 0..Life
         /\ Deadlines(w)[k] \in 0..Life /\ Deadlines(w)[k] = Lesser(start[w][k] + TTL, Life)
<1>1. clock[w] \in Readings /\ start[w] \in Readings /\ deadline[w] \in Readings
  BY DEF TypedLease, DataOK, Readings
<1>2. Deadlines(w) \in Readings
  BY <1>1, DeadlinesType
<1> QED
  BY <1>1, <1>2 DEF Readings, Deadlines, StartedAt

\* Time: what lasts by the clock lasts on by the server's.
LEMMA TickHeld ==
  ASSUME NEW u \in Workers, NEW k \in Clocks, Runs(u, k), TypedLease,
         KeptUp(u, k), Covered(u, k),
         NEW adv \in Steps, \A w \in Workers : adv[w] \in Advances[w], Tick(adv)
  PROVE  KeptUp(u, k)' /\ Covered(u, k)'
<1>1. /\ clock'[u][k] = IF Counting(u) THEN Lesser(clock[u][k] + adv[u][k], Life) ELSE clock[u][k]
      /\ adv[u][k] \in Nat /\ adv[u][k] >= 1
  BY TickClocks DEF TypedLease, Runs
<1>2. clock[u][k] \in 0..Life
  BY ReadingTypes
<1>3. ServerOK /\ LeaseOK
  BY TypeParts DEF TypedLease
<1>4. /\ phase' = phase /\ acquire' = acquire /\ renewal' = renewal
      /\ start' = start /\ deadline' = deadline /\ leaseEnd' = leaseEnd
      /\ IF holder = NoWorker THEN holder' = holder /\ age' = age
         ELSE age' = age + 1 /\ holder' = IF age + 1 = leaseEnd THEN NoWorker ELSE holder
  BY DEF Tick
<1>5. Deadlines(u)' = Deadlines(u)
  BY <1>4 DEF Deadlines, StartedAt
<1>6. ASSUME phase[u] \in {"acquiring", "preparing", "running"} PROVE KeptUp(u, k)'
  BY <1>1, <1>2, <1>3, <1>4, <1>6 DEF KeptUp, Counting, Lesser, ServerOK, LeaseOK
<1>7. ASSUME NEW x \in 0..Life, phase[u] \in {"acquiring", "preparing", "running"}, Lasts(u, k, x)
      PROVE  Lasts(u, k, x)'
  BY <1>1, <1>2, <1>3, <1>4, <1>7 DEF Lasts, Counting, Lesser, ServerOK, LeaseOK
<1>8. deadline[u][k] \in 0..Life /\ Deadlines(u)[k] \in 0..Life
  BY ReadingTypes
<1>9. Covered(u, k)'
  BY <1>4, <1>5, <1>7, <1>8 DEF Covered, Lasts
<1> QED
  BY <1>4, <1>6, <1>9 DEF KeptUp

\* What a step other than the passing of time, and other than u's own release,
\* does to a lease of u: it may be granted anew, and it ends no sooner.
Onward(u) ==
  /\ holder' = u => age' = 0 \/ (holder = u /\ age' = age)
  /\ ~Forceable /\ holder = u => holder' = u /\ age' = age /\ leaseEnd <= leaseEnd'

LEMMA OnwardSteps ==
  ASSUME NEW u \in Workers, ServerOK, LeaseOK,
         \/ UNCHANGED server
         \/ ForceRelease
         \/ \E w \in Workers : ServerAcquires(w) \/ ServerRenews(w)
         \/ \E w \in Workers \ {u} : Release(w)
  PROVE  Onward(u)
<1>1. CASE UNCHANGED server
  BY <1>1 DEF server, Onward, ServerOK
<1>2. CASE ForceRelease
  BY <1>2 DEF ForceRelease, Onward
<1>3. ASSUME NEW w \in Workers, Grants(w) PROVE Onward(u)
  BY <1>3, <1>1 DEF Grants, Keeps, Onward, ServerOK, LeaseOK, Lesser
<1>4. ASSUME NEW w \in Workers, ServerAcquires(w) PROVE Onward(u)
  BY <1>4, <1>3, <1>1 DEF ServerAcquires
<1>5. ASSUME NEW w \in Workers, ServerRenews(w) PROVE Onward(u)
  <2>1. Grants(w) \/ UNCHANGED server
    BY <1>5 DEF ServerRenews, Grants
  <2> QED
    BY <2>1, <1>3, <1>1
<1>6. ASSUME NEW w \in Workers \ {u}, Release(w) PROVE Onward(u)
  BY <1>6 DEF Release, Onward, ServerOK
<1> QED
  BY <1>1, <1>2, <1>4, <1>5, <1>6

\* Between ticks what lasts, and what kept up, goes on to.
LEMMA OnwardLasts ==
  ASSUME NEW u \in Workers, NEW k \in Clocks, TypedLease, Onward(u), clock'[u] = clock[u],
         ServerOK'
  PROVE  /\ phase[u] \in {"acquiring", "preparing", "running"} /\ KeptUp(u, k) =>
              (holder' = u => age' <= clock'[u][k])
         /\ \A x \in 0..Life : Lasts(u, k, x) =>
              (~Forceable /\ clock'[u][k] < x =>
                 holder' = u /\ x - clock'[u][k] <= leaseEnd' - age')
<1>1. clock[u][k] \in 0..Life /\ ServerOK
  BY ReadingTypes, TypeParts DEF TypedLease
<1> QED
  BY <1>1 DEF Onward, KeptUp, Lasts, ServerOK

\* The steps of others leave it so.
LEMMA OthersHeld ==
  ASSUME NEW u \in Workers, NEW k \in Clocks, TypedLease, Onward(u), ServerOK', Same(u),
         KeptUp(u, k), Covered(u, k)
  PROVE  KeptUp(u, k)' /\ Covered(u, k)'
<1>1. Deadlines(u)' = Deadlines(u)
  BY DEF Same, Deadlines, StartedAt
<1>2. deadline[u][k] \in 0..Life /\ Deadlines(u)[k] \in 0..Life
  BY ReadingTypes
<1>3. KeptUp(u, k)'
  BY OnwardLasts DEF KeptUp, Same
<1>4. Covered(u, k)'
  BY <1>1, <1>2, OnwardLasts DEF Covered, Lasts, Same
<1> QED
  BY <1>3, <1>4

\* The lease granted, or kept, outlasts the deadline counted from the request.
LEMMA GrantLasts ==
  ASSUME NEW w \in Workers, NEW k \in Clocks, TypedLease, KeptUp(w, k),
         phase[w] \in {"acquiring", "preparing", "running"}, clock'[w] = clock[w],
         start[w][k] <= clock[w][k],
         \/ Grants(w) /\ start[w][k] = 0
         \/ holder = w /\ Keeps(w)
  PROVE  holder' = w /\ Deadlines(w)[k] - clock'[w][k] <= leaseEnd' - age'
<1>1. /\ clock[w][k] \in 0..Life /\ start[w][k] \in 0..Life
      /\ Deadlines(w)[k] = Lesser(start[w][k] + TTL, Life)
  BY ReadingTypes
<1>2. ServerOK /\ LeaseOK
  BY TypeParts DEF TypedLease
<1>3. CASE holder = w /\ Keeps(w)
  BY <1>1, <1>2, <1>3 DEF Keeps, Lesser, KeptUp, ServerOK
<1>4. CASE /\ holder = NoWorker /\ holder' = w /\ age' = 0 /\ leaseEnd' = Lesser(TTL, Life)
           /\ start[w][k] = 0
  BY <1>1, <1>4 DEF Lesser
<1>5. CASE holder = w /\ UNCHANGED server /\ start[w][k] = 0
  BY <1>1, <1>2, <1>5 DEF server, Lesser, KeptUp, ServerOK, LeaseOK
<1> QED
  BY <1>3, <1>4, <1>5 DEF Grants

\* What is left of the server's state by steps that do not touch it.
LEMMA ServerAlone ==
  ASSUME NEW w \in Workers, WorkerAction(w)
  PROVE  UNCHANGED server \/ ServerAcquires(w) \/ ServerRenews(w) \/ Release(w)
BY DEF WorkerAction, ServerStep, WorkerStep, WithLock, AcquireAgain, NotAcquired, Acquired,
       WakeFires, RenewalGranted, RenewalFails, RenewalIgnored, ExpiryFires, Crash, CallbackEnds

\* A worker's own steps: its deadlines are the ones the server's lease outlasts.
LEMMA OwnHeld ==
  ASSUME NEW w \in Workers, NEW k \in Clocks, TypedLease, SessionOK(w), ServerOK', PlacesOK',
         KeptUp(w, k), Covered(w, k), WorkerAction(w)
  PROVE  KeptUp(w, k)' /\ Covered(w, k)'
<1>a. /\ deadline[w][k] \in 0..Life /\ Deadlines(w)[k] \in 0..Life /\ clock[w][k] \in 0..Life
      /\ start[w][k] \in 0..Life
  BY ReadingTypes
<1>b. ServerOK /\ LeaseOK
  BY TypeParts DEF TypedLease
<1>c. ASSUME phase'[w] \in {"idle", "releasing", "over"} PROVE KeptUp(w, k)' /\ Covered(w, k)'
  BY <1>c DEF KeptUp, Covered
<1>d. ASSUME UNCHANGED server, clock'[w] = clock[w],
             phase[w] \in {"acquiring", "preparing", "running"}
      PROVE  /\ KeptUp(w, k)'
             /\ \A x \in 0..Life : Lasts(w, k, x) =>
                  (~Forceable /\ clock'[w][k] < x =>
                     holder' = w /\ x - clock'[w][k] <= leaseEnd' - age')
  BY <1>d DEF server, KeptUp, Lasts
<1>1. CASE WithLock(w)
  <2>1. w \notin used /\ phase'[w] = "acquiring" /\ acquire'[w] = "asked" /\ holder' = holder
    BY <1>1 DEF WithLock, SessionOK, BegunOK, TypedLease, DataOK, server
  <2> QED
    BY <2>1, <1>b DEF KeptUp, Covered, LeaseOK, ServerOK
<1>2. CASE ServerAcquires(w)
  <2>1. /\ phase' = phase /\ renewal' = renewal /\ clock' = clock /\ start' = start
        /\ deadline' = deadline
    BY <1>2 DEF ServerAcquires
  <2>2. Deadlines(w)' = Deadlines(w)
    BY <2>1 DEF Deadlines, StartedAt
  <2>3. Onward(w)
    BY <1>2, <1>b, OnwardSteps
  <2>4. KeptUp(w, k)'
    BY <2>1, <2>3, OnwardLasts DEF KeptUp
  <2>5. ASSUME phase[w] = "acquiring", acquire'[w] = "granted" PROVE Lasts(w, k, Deadlines(w)[k])'
    <3>1. Grants(w)
      BY <1>2, <2>5 DEF ServerAcquires, AcquireAnswer, TypedLease, DataOK
    <3>2. start[w][k] = 0
      BY <2>5 DEF SessionOK, BegunOK
    <3>3. holder' = w /\ Deadlines(w)[k] - clock'[w][k] <= leaseEnd' - age'
      BY <3>1, <3>2, <2>1, <2>5, <1>a, GrantLasts
    <3> QED
      BY <3>3, <2>2 DEF Lasts
  <2>6. ASSUME phase[w] \in {"preparing", "running"}
        PROVE  /\ Lasts(w, k, deadline[w][k])'
               /\ renewal'[w] = "granted" => Lasts(w, k, Deadlines(w)[k])'
    BY <2>1, <2>2, <2>3, <2>6, <1>a, OnwardLasts DEF Covered, Lasts
  <2> QED
    BY <2>1, <2>4, <2>5, <2>6 DEF Covered
<1>3. CASE ServerRenews(w)
  <2>1. /\ phase' = phase /\ acquire' = acquire /\ clock' = clock /\ start' = start
        /\ deadline' = deadline
    BY <1>3 DEF ServerRenews
  <2>2. Deadlines(w)' = Deadlines(w)
    BY <2>1 DEF Deadlines, StartedAt
  <2>3. Onward(w)
    BY <1>3, <1>b, OnwardSteps
  <2>4. KeptUp(w, k)'
    BY <2>1, <2>3, OnwardLasts DEF KeptUp
  <2>5. ASSUME phase[w] \in {"preparing", "running"}, renewal'[w] = "granted"
        PROVE  Lasts(w, k, Deadlines(w)[k])'
    <3>1. holder = w /\ Keeps(w)
      BY <1>3, <2>5 DEF ServerRenews, RenewalAnswer, TypedLease, DataOK
    <3>2. start[w][k] <= clock[w][k]
      BY DEF SessionOK, BegunOK
    <3>3. holder' = w /\ Deadlines(w)[k] - clock'[w][k] <= leaseEnd' - age'
      BY <3>1, <3>2, <2>1, <2>5, GrantLasts
    <3> QED
      BY <3>3, <2>2 DEF Lasts
  <2>6. phase[w] = "acquiring" /\ acquire[w] = "granted" => Lasts(w, k, Deadlines(w)[k])'
    BY <2>1, <2>2, <2>3, <1>a, OnwardLasts DEF Covered, Lasts
  <2>7. phase[w] \in {"preparing", "running"} => Lasts(w, k, deadline[w][k])'
    BY <2>1, <2>3, <1>a, OnwardLasts DEF Covered, Lasts
  <2> QED
    BY <2>1, <2>4, <2>5, <2>6, <2>7 DEF Covered
<1>4. CASE AcquireAgain(w)
  <2>1. /\ UNCHANGED server /\ clock' = clock /\ phase' = phase /\ phase[w] = "acquiring"
        /\ acquire'[w] = "asked"
    BY <1>4 DEF AcquireAgain, TypedLease, DataOK
  <2> QED
    BY <2>1, <1>d DEF Covered
<1>5. CASE NotAcquired(w) \/ Release(w) \/ Crash(w)
  <2>1. phase'[w] = "over"
    BY <1>5 DEF NotAcquired, Release, Crash, Gone, TypedLease, DataOK
  <2> QED
    BY <2>1, <1>c
<1>6. CASE Acquired(w)
  <2>1. /\ UNCHANGED server /\ clock' = clock /\ phase[w] = "acquiring" /\ acquire[w] = "granted"
        /\ acquire'[w] = "none" /\ deadline'[w] = Deadlines(w)
    BY <1>6 DEF Acquired, TypedLease, DataOK
  <2>2. renewal[w] = "none"
    BY <2>1 DEF SessionOK, BegunOK
  <2>3. renewal'[w] # "granted"
    BY <1>6, <2>2 DEF Acquired, SendRenewal, TypedLease, DataOK
  <2> QED
    BY <2>1, <2>3, <1>a, <1>d DEF Covered, Lasts
<1>7. CASE WakeFires(w)
  <2>1. Active(w)
    BY <1>7 DEF WakeFires, SessionOK, TimersOK
  <2>2. /\ UNCHANGED server /\ clock' = clock /\ phase' = phase /\ deadline' = deadline
        /\ renewal'[w] = "asked"
    BY <1>7 DEF WakeFires, SendRenewal, TypedLease, DataOK
  <2> QED
    BY <2>1, <2>2, <1>a, <1>d DEF Covered, Lasts, Active
<1>8. CASE RenewalGranted(w)
  <2>1. /\ UNCHANGED server /\ clock' = clock /\ Active(w) /\ renewal[w] = "granted"
        /\ renewal'[w] = "none" /\ deadline'[w] = Deadlines(w)
    BY <1>8 DEF RenewalGranted, Accepts, TypedLease, DataOK
  <2>2. phase'[w] # "acquiring"
    BY <1>8, <2>1 DEF RenewalGranted, Begin, MarkLost, Active, TypedLease, DataOK
  <2> QED
    BY <2>1, <2>2, <1>a, <1>d DEF Covered, Lasts, Active
<1>9. CASE RenewalFails(w)
  <2>1. /\ UNCHANGED server /\ clock' = clock /\ Active(w) /\ deadline' = deadline
        /\ renewal'[w] = "none" /\ MarkLost(w)
    BY <1>9 DEF RenewalFails, Accepts, TypedLease, DataOK
  <2>2. phase'[w] \in {phase[w], "releasing"}
    BY <2>1 DEF MarkLost, TypedLease, DataOK
  <2> QED
    BY <2>1, <2>2, <1>a, <1>c, <1>d DEF Covered, Lasts, Active
<1>10. CASE RenewalIgnored(w)
  <2>1. /\ UNCHANGED <<server, phase, acquire, clock, start, deadline>>
        /\ renewal'[w] = "none"
    BY <1>10 DEF RenewalIgnored, TypedLease, DataOK
  <2>2. Deadlines(w)' = Deadlines(w)
    BY <2>1 DEF Deadlines, StartedAt
  <2> QED
    BY <2>1, <2>2 DEF KeptUp, Covered, Lasts, server
<1>11. CASE ExpiryFires(w)
  <2>1. /\ UNCHANGED <<server, acquire, renewal, clock, start, deadline>> /\ Active(w)
    BY <1>11 DEF ExpiryFires, TimerDue, SessionOK, TimersOK
  <2>2. phase'[w] \in {phase[w], "releasing"}
    BY <1>11 DEF ExpiryFires, MarkLost, TypedLease, DataOK
  <2>3. Deadlines(w)' = Deadlines(w)
    BY <2>1 DEF Deadlines, StartedAt
  <2> QED
    BY <2>1, <2>2, <2>3, <1>c DEF KeptUp, Covered, Lasts, server
<1>12. ASSUME NEW ok \in BOOLEAN, CallbackEnds(w, ok) PROVE KeptUp(w, k)' /\ Covered(w, k)'
  <2>1. phase'[w] = "releasing"
    BY <1>12 DEF CallbackEnds, TypedLease, DataOK
  <2> QED
    BY <2>1, <1>c
<1> QED
  BY <1>1, <1>2, <1>3, <1>4, <1>5, <1>6, <1>7, <1>8, <1>9, <1>10, <1>11, <1>12
     DEF WorkerAction, ServerStep, WorkerStep

LEMMA HeldSteps ==
  ASSUME TypedLease, Sessions, Held, [Next]_vars
  PROVE  Held'
<1> SUFFICES ASSUME NEW u \in Workers, NEW k \in Clocks, Runs(u, k)
             PROVE  KeptUp(u, k)' /\ Covered(u, k)'
  BY DEF Held, Runs
<1>0. KeptUp(u, k) /\ Covered(u, k) /\ SessionOK(u)
  BY DEF Held, Sessions
<1>a. ServerOK /\ LeaseOK /\ PlacesOK /\ TimesOK
  BY TypeParts DEF TypedLease
<1>b. ServerOK' /\ PlacesOK'
  BY <1>a, ServerSteps, PlacesSteps
<1>1. CASE UNCHANGED vars \/ ForceRelease
  <2>1. Same(u)
    BY <1>1 DEF vars, timers, ForceRelease, Same
  <2>2. Onward(u)
    BY <1>1, <1>a, OnwardSteps DEF vars
  <2> QED
    BY <1>0, <1>b, <2>1, <2>2, OthersHeld
<1>2. ASSUME NEW adv \in Steps, \A w \in Workers : adv[w] \in Advances[w], Tick(adv)
      PROVE  KeptUp(u, k)' /\ Covered(u, k)'
  BY <1>0, <1>2, TickHeld
<1>3. CASE WorkerAction(u)
  BY <1>0, <1>b, <1>3, OwnHeld
<1>4. ASSUME NEW w \in Workers \ {u}, WorkerAction(w) PROVE KeptUp(u, k)' /\ Covered(u, k)'
  <2>1. Same(u)
    BY <1>a, <1>4, OthersSame DEF TypedLease
  <2>2. Onward(u)
    BY <1>a, <1>4, ServerAlone, OnwardSteps
  <2> QED
    BY <1>0, <1>b, <2>1, <2>2, OthersHeld
<1> QED
  BY <1>1, <1>2, <1>3, <1>4, NextCases

LEMMA InitInvariant == Init => IInv
<1> SUFFICES ASSUME Init PROVE IInv
  OBVIOUS
<1>1. TypedLease
  BY TypedInit
<1>3. \A w \in Workers : phase[w] = "idle"
  BY DEF Init
<1>2. Sessions
  <2> SUFFICES ASSUME NEW w \in Workers PROVE SessionOK(w)
    BY DEF Sessions
  <2>1. /\ used = {} /\ acquire[w] = "none" /\ renewal[w] = "none" /\ result[w] = "none"
        /\ expiry[w] = NoTimer /\ wake[w] = NoTimer /\ start[w] = Zero /\ clock[w] = Zero
    BY DEF Init
  <2>2. ~failed[w]
    BY DEF Init
  <2>3. \A k \in Clocks : start[w][k] = 0 /\ start[w][k] <= clock[w][k]
    BY <2>1 DEF Zero
  <2>4. ~Active(w)
    BY <1>3 DEF Active
  <2> QED
    BY <1>3, <2>1, <2>2, <2>3, <2>4 DEF SessionOK, BegunOK, TimersOK
<1>4. Held
  BY <1>3 DEF Held, KeptUp, Covered
<1> QED
  BY <1>1, <1>2, <1>4 DEF IInv

LEMMA StepInvariant == IInv /\ [Next]_vars => IInv'
BY TypedSteps, SessionSteps, HeldSteps DEF IInv

LEMMA Invariant == Spec => []IInv
BY InitInvariant, StepInvariant, PTL DEF Spec

-----------------------------------------------------------------------------
\* What follows from the invariant.

LEMMA HolderRelies ==
  ASSUME IInv, ~Forceable, NEW w \in Workers, phase[w] = "running", Left(w, deadline[w]) > 0
  PROVE  holder = w
<1>1. PICK k \in Clocks : Runs(w, k)
  OBVIOUS
<1>2. clock[w] \in Readings /\ deadline[w] \in Readings
  BY DEF IInv, TypedLease, DataOK, Readings
<1>3. clock[w][k] < deadline[w][k]
  <2>1. Left(w, deadline[w]) \in 0..Life /\ clock[w][k] + Left(w, deadline[w]) <= deadline[w][k]
    BY <1>2, LeftBounds
  <2>2. clock[w][k] \in 0..Life /\ deadline[w][k] \in 0..Life
    BY <1>2 DEF Readings
  <2> QED
    BY <2>1, <2>2
<1>4. Lasts(w, k, deadline[w][k])
  BY <1>1 DEF IInv, Held, Covered
<1> QED
  BY <1>3, <1>4 DEF Lasts

\* A worker that relies on the lock is its holder: its deadline counts from
\* before the request, on a clock that does not lag, and the server's lease
\* from after it.
THEOREM ReliedOn == Spec => []ReliedOnIsHeld
<1>1. IInv => ReliedOnIsHeld
  BY HolderRelies DEF ReliedOnIsHeld, Relies
<1> QED
  BY <1>1, Invariant, PTL

\* With a monotonic clock that runs, the expiry timer is due before the server
\* ends the lease, cut to a day or not.
THEOREM AbortInTime == Spec => []AbortedInTime
<1>1. IInv => AbortedInTime
  <2> SUFFICES ASSUME IInv, ~Forceable, NEW w \in Workers, Runs(w, "mono"),
                      phase[w] = "running", ~failed[w], holder # w
               PROVE  TimerDue(w)
    BY DEF AbortedInTime
  <2>1. expiry[w] # NoTimer /\ expiry[w] <= deadline[w]["mono"]
    BY DEF IInv, Sessions, SessionOK, TimersOK, Active
  <2>2. Lasts(w, "mono", deadline[w]["mono"])
    BY DEF IInv, Held, Covered, Clocks
  <2>3. /\ clock[w]["mono"] \in 0..Life /\ deadline[w]["mono"] \in 0..Life
        /\ expiry[w] \in 0..Life
    BY ReadingTypes DEF IInv, TypedLease, DataOK, Clocks
  <2> QED
    BY <2>1, <2>2, <2>3 DEF Lasts, TimerDue
<1> QED
  BY <1>1, Invariant, PTL

\* The renewal loop is at one place while the session is active, and no timer
\* is left behind afterwards.
THEOREM LoopAndTimers == Spec => []OneRenewal
<1>1. IInv => OneRenewal
  BY DEF IInv, Sessions, SessionOK, TimersOK, OneRenewal
<1> QED
  BY <1>1, Invariant, PTL

LEMMA SuccessOfHolder ==
  ASSUME IInv, [Next]_vars, NEW w \in Workers, phase[w] = "running", result'[w] = "ok"
  PROVE  Forceable \/ holder = w
<1>0. TypedLease /\ SessionOK(w) /\ DataOK /\ FlagsOK /\ TimesOK
  BY TypeParts DEF IInv, Sessions, TypedLease
<1>1. result[w] = "none"
  BY <1>0 DEF SessionOK, BegunOK
<1>2. ASSUME Same(w) PROVE FALSE
  BY <1>1, <1>2 DEF Same
<1>3. ASSUME UNCHANGED result PROVE FALSE
  BY <1>1, <1>3
<1>4. ASSUME NEW u \in Workers \ {w}, WorkerAction(u) PROVE FALSE
  BY <1>0, <1>2, <1>4, OthersSame
<1>5. ASSUME NEW ok \in BOOLEAN, CallbackEnds(w, ok) PROVE Forceable \/ holder = w
  <2>1. ~failed'[w] /\ failed' = [failed EXCEPT ![w] = failed[w] \/ Lapsed(w)]
    BY <1>0, <1>5 DEF CallbackEnds, DataOK
  <2>2. ~Lapsed(w)
    BY <1>0, <2>1 DEF FlagsOK
  <2>3. Left(w, deadline[w]) \in 0..Life
    BY <1>0, LeftBounds DEF TimesOK
  <2> QED
    BY <2>2, <2>3, HolderRelies DEF Lapsed
<1>6. ASSUME MarkLost(w) PROVE FALSE
  BY <1>1, <1>6 DEF MarkLost
<1>7. CASE \/ WithLock(w) \/ ServerStep(w) \/ AcquireAgain(w) \/ NotAcquired(w) \/ WakeFires(w)
           \/ RenewalIgnored(w) \/ Crash(w) \/ Acquired(w)
  BY <1>0, <1>1, <1>7 DEF WithLock, ServerStep, ServerAcquires, ServerRenews, AcquireAgain, NotAcquired,
                    WakeFires, RenewalIgnored, Crash, Acquired, DataOK
<1>8. CASE RenewalGranted(w) \/ RenewalFails(w) \/ ExpiryFires(w)
  BY <1>3, <1>6, <1>8 DEF RenewalGranted, RenewalFails, ExpiryFires
<1>9. CASE Release(w)
  BY <1>9 DEF Release
<1>10. CASE UNCHANGED vars \/ ForceRelease \/ \E adv \in Steps : Tick(adv)
  BY <1>3, <1>10 DEF vars, ForceRelease, Tick
<1> QED
  BY <1>4, <1>5, <1>7, <1>8, <1>9, <1>10, NextCases DEF WorkerAction, WorkerStep

\* withLock reports success only of a callback that had the lock to its end.
THEOREM SuccessOfHolders == Spec => SuccessWasHeld
<1>1. IInv /\ [Next]_vars => [\A w \in Workers :
        phase[w] = "running" /\ result'[w] = "ok" => Forceable \/ holder = w]_vars
  BY SuccessOfHolder
<1> QED
  BY <1>1, Invariant, PTL DEF Spec, SuccessWasHeld

LEMMA QuietStep ==
  ASSUME IInv, [Next]_vars, NEW w \in Workers, failed[w] \/ phase[w] = "releasing"
  PROVE  \/ phase'[w] = "over"
         \/ /\ deadline'[w] = deadline[w]
            /\ renewal'[w] = "asked" => renewal[w] = "asked"
            /\ failed[w] => failed'[w]
<1> DEFINE Quiet == /\ deadline'[w] = deadline[w]
                    /\ renewal'[w] = "asked" => renewal[w] = "asked"
                    /\ failed[w] => failed'[w]
<1>0. TypedLease /\ SessionOK(w) /\ DataOK /\ FlagsOK /\ TimesOK
  BY TypeParts DEF IInv, Sessions, TypedLease
<1>1. /\ ~Active(w) /\ wake[w] = NoTimer /\ expiry[w] = NoTimer
      /\ phase[w] \notin {"idle", "acquiring"}
  BY <1>0 DEF SessionOK, BegunOK, TimersOK, Active
<1>2. ASSUME deadline' = deadline, renewal' = renewal, failed' = failed PROVE Quiet
  BY <1>2
<1>3. CASE UNCHANGED vars \/ ForceRelease \/ \E adv \in Steps : Tick(adv)
  BY <1>2, <1>3 DEF vars, ForceRelease, Tick
<1>4. ASSUME NEW u \in Workers \ {w}, WorkerAction(u) PROVE Quiet
  <2>1. Same(w)
    BY <1>0, <1>4, OthersSame
  <2> QED
    BY <2>1 DEF Same
<1>5. CASE WithLock(w) \/ AcquireAgain(w) \/ NotAcquired(w) \/ Acquired(w)
  BY <1>1, <1>5 DEF WithLock, AcquireAgain, NotAcquired, Acquired
<1>6. CASE WakeFires(w) \/ ExpiryFires(w) \/ RenewalGranted(w) \/ RenewalFails(w)
  BY <1>1, <1>6 DEF WakeFires, ExpiryFires, TimerDue, RenewalGranted, RenewalFails, Accepts
<1>7. CASE ServerAcquires(w)
  BY <1>2, <1>7 DEF ServerAcquires
<1>8. CASE ServerRenews(w)
  BY <1>8 DEF ServerRenews
<1>9. CASE RenewalIgnored(w)
  BY <1>0, <1>9 DEF RenewalIgnored, DataOK
<1>10. CASE Release(w) \/ Crash(w)
  BY <1>0, <1>10 DEF Release, Crash, Gone, DataOK
<1>11. ASSUME NEW ok \in BOOLEAN, CallbackEnds(w, ok) PROVE Quiet
  <2>1. deadline' = deadline /\ renewal' = renewal
    BY <1>11 DEF CallbackEnds
  <2>2. failed' = [failed EXCEPT ![w] = failed[w] \/ Lapsed(w)]
    BY <1>11 DEF CallbackEnds
  <2>3. failed[w] => failed'[w]
    BY <1>0, <2>2 DEF FlagsOK
  <2> QED
    BY <2>1, <2>3
<1> QED
  BY <1>3, <1>4, <1>5, <1>6, <1>7, <1>8, <1>9, <1>10, <1>11, NextCases
     DEF WorkerAction, ServerStep, WorkerStep

\* After a loss or the cleanup nothing a late answer or a late timer does
\* brings the session back.
THEOREM NeverRevived == Spec => NothingRevived
<1>1. IInv /\ [Next]_vars => [\A w \in Workers : failed[w] \/ phase[w] = "releasing" =>
        \/ phase'[w] = "over"
        \/ /\ deadline'[w] = deadline[w]
           /\ renewal'[w] = "asked" => renewal[w] = "asked"
           /\ failed[w] => failed'[w]]_vars
  BY QuietStep
<1> QED
  BY <1>1, Invariant, PTL DEF Spec, NothingRevived

-----------------------------------------------------------------------------
\* The refinement.

LEMMA HolderRelied == IInv => ReliedOnIsHeld
BY HolderRelies DEF ReliedOnIsHeld, Relies

\* The lock stays with whom it is, is lost, or is granted by a step that is
\* nobody's but the server's.
LEMMA HolderSteps ==
  ASSUME ServerOK, [Next]_vars
  PROVE  \/ holder' \in {holder, NoWorker} /\ used' = used
         \/ \E w \in Workers : /\ holder = NoWorker /\ w \notin used
                               /\ holder' = w /\ used' = used \cup {w}
                               /\ UNCHANGED <<phase, clock, deadline, failed>>
<1>1. CASE UNCHANGED server
  BY <1>1 DEF server
<1>2. CASE UNCHANGED vars \/ ForceRelease \/ \E adv \in Steps : Tick(adv)
  BY <1>2 DEF vars, server, ForceRelease, Tick
<1>3. ASSUME NEW w \in Workers, ServerAcquires(w)
      PROVE  \/ holder' \in {holder, NoWorker} /\ used' = used
             \/ /\ holder = NoWorker /\ w \notin used
                /\ holder' = w /\ used' = used \cup {w}
                /\ UNCHANGED <<phase, clock, deadline, failed>>
  BY <1>3 DEF ServerAcquires, Grants, Keeps, server
<1>4. ASSUME NEW w \in Workers, ServerRenews(w) PROVE holder' = holder /\ used' = used
  BY <1>4 DEF ServerRenews, Keeps, server
<1>5. ASSUME NEW w \in Workers, Release(w)
      PROVE  holder' \in {holder, NoWorker} /\ used' = used
  BY <1>5 DEF Release
<1> QED
  BY <1>1, <1>2, <1>3, <1>4, <1>5, NextCases, ServerAlone

\* Without force, withLock implements an exclusive lease.
THEOREM Implements == ASSUME ~Forceable PROVE Spec => KeepsPromise
<1> DEFINE R == {w \in Workers : Relies(w)}
<1>1. Init => Promise!Init
  <2> SUFFICES ASSUME Init PROVE Promise!Init
    OBVIOUS
  <2>1. \A w \in Workers : phase[w] = "idle"
    BY DEF Init
  <2> QED
    BY <2>1 DEF Init, Promise!Init, Relies
<1>2. ReliedOnIsHeld => R \subseteq {holder}
  BY DEF ReliedOnIsHeld
<1>3. ReliedOnIsHeld' => R' \subseteq {holder'}
  BY DEF ReliedOnIsHeld
<1>4. IInv /\ ReliedOnIsHeld /\ ReliedOnIsHeld' /\ [Next]_vars => [Promise!Next]_(Promise!vars)
  <2> SUFFICES ASSUME IInv, R \subseteq {holder}, R' \subseteq {holder'}, [Next]_vars
               PROVE  Promise!Next
    BY <1>2, <1>3
  <2>0. ServerOK /\ R' \subseteq Workers
    BY TypeParts DEF IInv, TypedLease
  <2>1. CASE holder' = NoWorker /\ used' = used
    <3>1. R' = {}
      BY <2>0, <2>1
    <3> QED
      BY <2>1, <3>1 DEF Promise!Next, Promise!Leave
  <2>2. CASE holder' = holder /\ used' = used
    <3>1. CASE R' = {}
      BY <2>2, <3>1 DEF Promise!Next, Promise!Leave
    <3>2. CASE R' = {holder} /\ holder \in Workers
      BY <2>2, <3>2 DEF Promise!Next, Promise!Rely
    <3> QED
      BY <2>0, <2>2, <3>1, <3>2
  <2>3. ASSUME NEW w \in Workers, holder = NoWorker, w \notin used, holder' = w,
               used' = used \cup {w}, UNCHANGED <<phase, clock, deadline, failed>>
        PROVE  Promise!Next
    <3>1. R' = R
      BY <2>3 DEF Relies, Left
    <3> QED
      BY <2>3, <3>1 DEF Promise!Next, Promise!Grant
  <2> QED
    BY <2>0, <2>1, <2>2, <2>3, HolderSteps
<1> QED
  BY <1>1, <1>4, Invariant, HolderRelied, PTL DEF Spec, KeepsPromise, Promise!Spec
=============================================================================
