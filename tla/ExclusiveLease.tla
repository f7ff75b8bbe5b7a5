--------------------------- MODULE ExclusiveLease ---------------------------
(***************************************************************************)
(* What a project lock promises (docs/locks.md, "keeping one holder at a   *)
(* time"): the lock is granted to one worker at a time, to each at most    *)
(* once, and a worker relies on it only while it is the holder.  When the  *)
(* grant is withdrawn nobody is relying on it any more.  LockSession, with *)
(* its clocks, renewals and timers, implements this.                       *)
(***************************************************************************)
CONSTANTS Workers, NoWorker

VARIABLES holder,   \* who has the lock, or NoWorker
          used,     \* those that have had it
          relying   \* those that take themselves to be the holder

vars == <<holder, used, relying>>

Init == holder = NoWorker /\ used = {} /\ relying = {}

Grant(w) ==
  /\ holder = NoWorker /\ w \notin used
  /\ holder' = w /\ used' = used \cup {w}
  /\ UNCHANGED relying

Rely(w) ==
  /\ holder = w
  /\ relying' = {w}
  /\ UNCHANGED <<holder, used>>

\* The holder stops relying on the lock, which it may lose, or not.
Leave ==
  /\ relying' = {}
  /\ holder' \in {holder, NoWorker}
  /\ UNCHANGED used

Next == (\E w \in Workers : Grant(w) \/ Rely(w)) \/ Leave

Spec == Init /\ [][Next]_vars
=============================================================================
