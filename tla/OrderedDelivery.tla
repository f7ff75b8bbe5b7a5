-------------------------- MODULE OrderedDelivery --------------------------
(***************************************************************************)
(* What a durable message subscription promises its handler: the messages  *)
(* an execution publishes, in seq order, once each, none skipped, until    *)
(* the subscription is over (docs/durable-functions.md, "in seq order and  *)
(* once each").  How a live channel and a list endpoint are combined to    *)
(* keep the promise is left to DurableStream, which implements this.       *)
(***************************************************************************)
EXTENDS Naturals, Sequences

CONSTANT Seqs     \* the seq numbers the execution's publishes may be given

VARIABLES published,   \* the seqs published so far
          delivered,   \* the seqs handed to the handler, in that order
          over         \* the subscription has ended

vars == <<published, delivered, over>>

Received == {delivered[i] : i \in 1..Len(delivered)}

Init == published = {} /\ delivered = <<>> /\ over = FALSE

\* The execution publishes: seqs only grow.
Publish(s) ==
  /\ \A t \in published : t < s
  /\ published' = published \cup {s}
  /\ UNCHANGED <<delivered, over>>

\* The handler gets s, which it has not had, after everything before s.
Deliver(s) ==
  /\ ~over
  /\ s \in published \ Received
  /\ \A t \in published : t < s => t \in Received
  /\ delivered' = Append(delivered, s)
  /\ UNCHANGED published

\* The subscription ends for good; a delivery may be the step that ends it.
Ended == over' \in {over, TRUE}

Next ==
  \/ \E s \in Seqs : Publish(s)
  \/ \E s \in Seqs : Deliver(s) /\ Ended
  \/ over' = TRUE /\ UNCHANGED <<published, delivered>>

Spec == Init /\ [][Next]_vars
=============================================================================
