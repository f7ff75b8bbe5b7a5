--------------------------------- MODULE Outbox ---------------------------------
(***************************************************************************)
(* What publishing from a durable workflow promises, whatever crashes and  *)
(* however often a request is sent: a message is taken at most once, in    *)
(* one order for all, and a publish is answered with success only when its *)
(* own message was taken.                                                  *)
(***************************************************************************)
EXTENDS Sequences, Naturals

CONSTANT Messages

VARIABLES
  log,  \* the messages taken, in order
  done  \* the publishes answered with success

Taken == {log[i] : i \in 1..Len(log)}

Init == log = <<>> /\ done = {}

\* The message is taken; its publish may be answered with that, or later.
Take(m) ==
  /\ m \notin Taken
  /\ log' = Append(log, m)
  /\ done' \in {done, done \cup {m}}

Answer(m) ==
  /\ m \in Taken
  /\ done' = done \cup {m}
  /\ UNCHANGED log

Next == \E m \in Messages : Take(m) \/ Answer(m)

Spec == Init /\ [][Next]_<<log, done>>
=============================================================================
