---------------------------- MODULE FetchLifecycle -----------------------------
(***************************************************************************)
(* fetchWithTimeout and the reading of its answer.  The request is aborted *)
(* by its timer or by its caller; the first of them gives the reason of    *)
(* the abort.  The body is read within it by requestOnce, and after it by  *)
(* anonFetch and volcanoFetch: then no timer and no caller ends a body     *)
(* that does not come.  What the microtasks of one settlement do is one    *)
(* step, in which the request is rejected or answered, the error told and  *)
(* the timer and the listener given up.                                    *)
(***************************************************************************)
VARIABLES
  reader,  \* of the body: a "consumer" of fetchWithTimeout, or after it anonFetch,
           \* to whom what cannot be read is {}, or volcanoFetch
  caller,  \* options.signal: "none" given, "quiet" or "aborted"
  reason,  \* of that signal: its own "AbortError", or an error of the "caller"
  timer,   \* timeoutId: "set", "fired" or "cleared"
  follows, \* the listener on the caller's signal
  signal,  \* controller.signal: "quiet", or who aborted it
  request, \* "idle", "fetching", "reading" its body, "ended"
  outcome

fetchVars == <<reader, caller, reason, timer, follows, signal, request, outcome>>

FetchInit ==
  /\ reader \in {"consumer", "anonFetch", "volcanoFetch"}
  /\ caller \in {"none", "quiet", "aborted"} /\ reason \in {"AbortError", "caller"}
  /\ timer = "cleared" /\ follows = FALSE /\ signal = "quiet"
  /\ request = "idle" /\ outcome = "none"

\* followCaller, setTimeout and fetch.
Fetches ==
  /\ request = "idle" /\ request' = "fetching"
  /\ timer' = "set" /\ follows' = (caller = "quiet")
  /\ signal' = IF caller = "aborted" THEN "caller" ELSE "quiet"
  /\ UNCHANGED <<reader, caller, reason, outcome>>

AbortedBy(who) == signal' = IF signal = "quiet" THEN who ELSE signal

TimerFires ==
  /\ timer = "set" /\ timer' = "fired" /\ AbortedBy("timer")
  /\ UNCHANGED <<reader, caller, reason, follows, request, outcome>>

CallerAborts ==
  /\ caller = "quiet" /\ caller' = "aborted"
  /\ IF follows THEN AbortedBy("caller") ELSE UNCHANGED signal
  /\ UNCHANGED <<reader, reason, timer, follows, request, outcome>>

\* The finally of performFetch.
GivenUp == timer' = "cleared" /\ follows' = FALSE

\* The head of the answer comes, before an abort: without a consumer that is all
\* that performFetch waits for.
Responds ==
  /\ request = "fetching" /\ signal = "quiet" /\ request' = "reading"
  /\ IF reader = "consumer" THEN UNCHANGED <<timer, follows>> ELSE GivenUp
  /\ UNCHANGED <<reader, caller, reason, signal, outcome>>

\* What an aborted request or reading is rejected with.
Rejection == IF signal = "timer" THEN "AbortError" ELSE reason

\* Mutant: the caller's signal is not looked at.
MutIsRequestTimeout(error) == error = "AbortError" /\ timer = "fired"

\* isRequestTimeout
IsRequestTimeout(error) == error = "AbortError" /\ timer = "fired" /\ caller # "aborted"

\* The catch and the finally of performFetch.
Ends(out) ==
  /\ request' = "ended"
  /\ outcome' = IF IsRequestTimeout(out) THEN "timeout" ELSE out
  /\ GivenUp /\ UNCHANGED <<reader, caller, reason, signal>>

\* The network fails, or fetch hears of the abort.
FetchFails ==
  /\ request = "fetching"
  /\ Ends("network") \/ (signal # "quiet" /\ Ends(Rejection))

\* safeJsonParse: a body that cannot be read is {}, but not when the reading
\* was aborted, even if another error was first.
BodyEnds ==
  /\ request = "reading" /\ reader = "consumer"
  /\ \/ Ends("value")
     \/ Ends(IF signal = "quiet" THEN "{}" ELSE Rejection)

\* What is told by who reads the body later, if it ever ends.
Told(out) ==
  /\ request = "reading" /\ request' = "ended" /\ outcome' = out
  /\ UNCHANGED <<reader, caller, reason, timer, follows, signal>>

\* anonFetch: safeJsonParse without a signal.
AnonBodyEnds == reader = "anonFetch" /\ (Told("value") \/ Told("{}"))

\* volcanoFetch: the error of the body is its own.
VolcanoBodyEnds == reader = "volcanoFetch" /\ (Told("value") \/ Told("unreadable"))

FetchStep ==
  \/ Fetches \/ TimerFires \/ CallerAborts \/ Responds \/ FetchFails
  \/ BodyEnds \/ AnonBodyEnds \/ VolcanoBodyEnds
  \/ request = "ended" /\ UNCHANGED fetchVars

-----------------------------------------------------------------------------
\* A request tells why it ended: a timeout only if the timer ended it and its
\* caller did not give it up, an abort only to a caller who did, nothing read
\* only if nobody did; and no timer and no listener is left of it.  A body that is
\* read after fetchWithTimeout is beyond them: nothing is told of it but what the
\* body itself comes to, and while it does not come nothing is told at all.
TellsWhy ==
  /\ request = "ended" =>
       /\ outcome = "timeout" => signal = "timer"
       /\ outcome \in {"AbortError", "caller"} => caller = "aborted"
       /\ outcome \in {"{}", "unreadable"} => signal = "quiet"
       /\ timer = "cleared" /\ ~follows
  /\ request = "reading" /\ reader # "consumer" =>
       timer = "cleared" /\ ~follows /\ signal = "quiet"
================================================================================
