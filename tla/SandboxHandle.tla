----------------------------- MODULE SandboxHandle -----------------------------
(***************************************************************************)
(* SandboxSessionHandle: the state a client keeps of a sandbox session.    *)
(* Calls are answered in any order, so that the state may be an old one,   *)
(* while the session goes through its states at the server, where it may   *)
(* also expire.                                                            *)
(***************************************************************************)
EXTENDS Naturals

CONSTANTS
  Askers,  \* calls of one handle, in flight together
  MaxAsks  \* bound of the model: calls made

VARIABLES
  remote,  \* the session at the server; "gone" when it was removed
  handle,  \* state of the handle
  ask,     \* the calls
  asked    \* counts calls, up to MaxAsks

sandboxVars == <<remote, handle, ask, asked>>

Ending == {"terminating", "terminated"}
NoAsk == [st |-> "idle", op |-> "refresh", seen |-> "none", told |-> "none"]
Ops == {"refresh", "suspend", "resume", "terminate", "dispose"}

\* What the server goes on to by itself.
Following(s) ==
  CASE s = "starting" -> {"running", "terminating"}
    [] s = "suspending" -> {"suspended", "terminating"}
    [] s = "resuming" -> {"running", "terminating"}
    [] s \in {"running", "suspended"} -> {"terminating"}
    [] s = "terminating" -> {"terminated"}
    [] s = "terminated" -> {"gone"}
    [] OTHER -> {}

\* What a request makes of it, or "refused".
Asked(op, s) ==
  CASE op = "refresh" -> s
    [] op = "suspend" /\ s = "running" -> "suspending"
    [] op = "resume" /\ s = "suspended" -> "resuming"
    [] op \in {"terminate", "dispose"} -> IF s \in Ending THEN s ELSE "terminating"
    [] OTHER -> "refused"

\* The handle is made of what create() or sessions.get() answered.
SandboxInit ==
  /\ remote = "starting" /\ handle = "starting"
  /\ ask = [k \in Askers |-> NoAsk] /\ asked = 0

ServerGoesOn ==
  /\ remote' \in Following(remote)
  /\ UNCHANGED <<handle, ask, asked>>

\* refresh, suspend, resume, terminate and asyncDispose; the last one skips a
\* session that the handle believes to be ending.
Ask(k, op) ==
  /\ ask[k].st \in {"idle", "ended"} /\ asked < MaxAsks /\ asked' = asked + 1
  /\ ask' = [ask EXCEPT ![k] =
       IF op = "dispose" /\ handle \in Ending
       THEN [NoAsk EXCEPT !.st = "ended", !.op = op, !.told = "ok"]
       ELSE [NoAsk EXCEPT !.st = "sent", !.op = op]]
  /\ UNCHANGED <<remote, handle>>

\* The server does what is asked, or not; what it answers may also be a state
\* it is not sure of, something else than the session, or be lost.
Serves(k) ==
  /\ ask[k].st = "sent"
  /\ LET s == Asked(ask[k].op, remote)
         tells(x) == ask' = [ask EXCEPT ![k].st = "answered", ![k].seen = x]
     IN \/ tells("error") /\ UNCHANGED remote
        \/ remote = "gone" /\ tells("404") /\ UNCHANGED remote
        \/ /\ remote # "gone" /\ s # "refused" /\ remote' = s
           /\ \E x \in {s, "unknown", "other", "error"} : tells(x)
  /\ UNCHANGED <<handle, asked>>

\* Mutant: an ended session is expected to answer with an error.
MutAccepted(seen) == seen \in {"404", "error"}

\* isMissingSession
Accepted(seen) == seen = "404"

\* update refuses what is not this session; sandboxResult tells a failure,
\* which asyncDispose throws.
Returns(k) ==
  LET seen == ask[k].seen
      good == seen \notin {"404", "error", "other"}
  IN /\ ask[k].st = "answered"
     /\ handle' = IF good THEN seen ELSE handle
     /\ ask' = [ask EXCEPT ![k].st = "ended", ![k].told =
          IF good \/ (ask[k].op = "dispose" /\ Accepted(seen)) THEN "ok" ELSE "error"]
     /\ UNCHANGED <<remote, asked>>

SandboxStep ==
  \/ ServerGoesOn
  \/ \E k \in Askers : Serves(k) \/ Returns(k) \/ \E op \in Ops : Ask(k, op)
  \/ remote = "gone" /\ asked = MaxAsks /\ UNCHANGED sandboxVars

-----------------------------------------------------------------------------
\* A scope that was left without an error has left nothing running: whatever
\* calls of the handle were answered late, its session ends or has ended.
DisposedIsEnding ==
  \A k \in Askers : ask[k].op = "dispose" /\ ask[k].told = "ok" => remote \in Ending \cup {"gone"}
================================================================================
