----------------------------- MODULE PlatformRequest -----------------------------
(***************************************************************************)
(* One request of a workflow to Volcano's runtime routes, with its         *)
(* retries: postToPlatform.  Time is counted in half seconds.  Timers may  *)
(* be late; an answer may come at any time until the attempt is aborted.   *)
(***************************************************************************)
EXTENDS Integers, Sequences

CONSTANT MaxLate  \* how late a timer fires at most

VARIABLES
  now,     \* since the call
  phase,   \* "sending", "sleeping", or how the call ended
  until,   \* the end of the attempt's timeout, or of the sleep
  attempt  \* attempts sent

vars == <<now, phase, until, attempt>>

Deadline == 60        \* DEADLINE_MS
RequestTimeout == 20  \* REQUEST_TIMEOUT_MS

\* Mutant: the delays stop when they reach the cap.
MutDelays == <<1, 2, 4, 8, 10>>

\* RETRY_DELAYS_MS
Delays == <<1, 2, 4, 8, 10, 10, 10, 10>>

Smaller(a, b) == IF a < b THEN a ELSE b

Init == now = 0 /\ phase = "sending" /\ until = RequestTimeout /\ attempt = 1

\* The answer, or none: what is known of the request now.  Conflicts count by
\* their code: the one of a callback not ready yet as retryable, the one of a
\* closed callback as success.
Results == {"settled", "refused", "retryable"}

\* send, with release and refusal; then retryTimeout up to its sleep.
Answered ==
  /\ phase = "sending"
  /\ \E t \in now..(until + MaxLate), r \in Results :
       /\ now' = t
       /\ IF r # "retryable" THEN phase' = r /\ UNCHANGED until
          ELSE IF attempt <= Len(Delays) /\ Deadline - t > Delays[attempt]
          THEN phase' = "sleeping" /\ until' = t + Delays[attempt]
          ELSE phase' = "gaveUp" /\ UNCHANGED until
  /\ UNCHANGED attempt

\* retryTimeout after its sleep, and the next attempt.
Woken ==
  /\ phase = "sleeping"
  /\ \E t \in until..(until + MaxLate) :
       /\ now' = t
       /\ IF Deadline - t > 0
          THEN /\ phase' = "sending" /\ attempt' = attempt + 1
               /\ until' = t + Smaller(RequestTimeout, Deadline - t)
          ELSE phase' = "gaveUp" /\ UNCHANGED <<until, attempt>>

Ended == phase \in {"settled", "refused", "gaveUp"} /\ UNCHANGED vars

Next == Answered \/ Woken \/ Ended

Spec == Init /\ [][Next]_vars

-----------------------------------------------------------------------------
\* An outage of up to 25 seconds is ridden out, however the time is spread
\* over attempts, timeouts and delays, and no call takes longer than its 30
\* seconds and one late timer: "retried for up to 30 seconds".
Patience ==
  /\ phase = "gaveUp" => now >= Deadline - 10
  /\ now <= Deadline + MaxLate
=============================================================================
