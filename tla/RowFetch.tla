------------------------------ MODULE RowFetch ------------------------------
(***************************************************************************)
(* The row fetches of one postgres channel: a lightweight notification of  *)
(* an insert or update waits until its row was fetched with others in a    *)
(* batch, and is delivered with the row, or as it is when that failed.     *)
(* Meanwhile the channel may be unsubscribed and subscribed again.         *)
(***************************************************************************)
EXTENDS Naturals, FiniteSets

CONSTANTS
  Notes, NoNote, \* the notifications the server sends
  Rows,
  RowOf,         \* the row each of them is about
  Deletes,       \* those of a deletion, which need no row
  MaxBatch,      \* _fetchConfig.maxBatchSize
  MaxVersion     \* bound of the model: calls of unsubscribe()

ASSUME NotesAssumption == NoNote \notin Notes /\ Deletes \subseteq Notes
ASSUME RowOfAssumption == RowOf \in [Notes -> Rows]
ASSUME MaxBatchAssumption == MaxBatch \in Nat \ {0}
ASSUME MaxVersionAssumption == MaxVersion \in Nat

VARIABLES
  paused,   \* _paused
  version,  \* _lifecycleVersion
  batch,    \* the ids of the pending batch: whose promise each row settles
  timer,    \* its timer is set
  queries,  \* the batches being fetched, each the notifications it settles
  place,    \* where each notification is
  seen,     \* the version it was received in
  newest    \* history: the last notification to fetch of each row, this version

vars == <<paused, version, batch, timer, queries, place, seen, newest>>

Waiting == {"queued", "asked", "found", "refused"}
Places == Waiting \cup {"sent", "overwritten", "delivered", "dropped"}

\* The notifications whose promises are in a batch.
Pending(b) == {b[r] : r \in Rows} \ {NoNote}

\* maxBatchSize is part of it.
TypeOK ==
  /\ paused \in BOOLEAN /\ timer \in BOOLEAN
  /\ version \in 0..MaxVersion
  /\ batch \in [Rows -> Notes \cup {NoNote}] /\ Cardinality(Pending(batch)) < MaxBatch
  /\ queries \subseteq SUBSET Notes
  /\ place \in [Notes -> Places]
  /\ seen \in [Notes -> 0..MaxVersion]
  /\ newest \in [Rows -> Notes \cup {NoNote}]

Init ==
  /\ paused = FALSE /\ version = 0
  /\ batch = [r \in Rows |-> NoNote] /\ timer = FALSE /\ queries = {}
  /\ place = [n \in Notes |-> "sent"] /\ seen = [n \in Notes |-> 0]
  /\ newest = [r \in Rows |-> NoNote]

-----------------------------------------------------------------------------
Empty == [r \in Rows |-> NoNote]

\* All of S go to place p; what was there before is in place q.
Moved(q, S, p) == [n \in Notes |-> IF n \in S THEN p ELSE q[n]]

\* No promise has settled whose continuation is still to run.
EventLoopFree == \A n \in Notes : place[n] \notin {"found", "refused"}

\* flushFetch: the batch is taken out and its query sent.  That may throw, as
\* there may be no client or database.  q is where the notifications are.
Flush(b, q) ==
  /\ batch' = Empty /\ timer' = FALSE
  /\ \/ queries' = queries \cup {Pending(b)} /\ place' = Moved(q, Pending(b), "asked")
     \/ UNCHANGED queries /\ place' = Moved(q, Pending(b), "refused")

\* The batch window opens with its first notification.
Window(b) == timer' = TRUE /\ batch' = b

\* Mutant: a notification of a row that is in the batch gives way.
MutQueue(n) == IF batch[RowOf[n]] = NoNote THEN [batch EXCEPT ![RowOf[n]] = n] ELSE batch

\* batch.ids.set(String(id), { resolve, reject })
Queue(n) == [batch EXCEPT ![RowOf[n]] = n]

Full(b) == Cardinality(Pending(b)) >= MaxBatch

\* fetchRow: one promise per row, so that the promise of an earlier
\* notification of the row is out of reach.
FetchRow(n) ==
  LET b == Queue(n)
      q == Moved(Moved(place, Pending(batch) \cup {n}, "overwritten"), Pending(b), "queued")
  IN IF Full(b)
     THEN Flush(b, q)
     ELSE Window(b) /\ place' = q /\ UNCHANGED queries

\* A notification arrives; a paused channel discards it.
Ignored(n) ==
  /\ EventLoopFree /\ place[n] = "sent" /\ paused
  /\ place' = [place EXCEPT ![n] = "dropped"]
  /\ UNCHANGED <<paused, version, batch, timer, queries, seen, newest>>

Deleted(n) ==
  /\ EventLoopFree /\ place[n] = "sent" /\ ~paused /\ n \in Deletes
  /\ place' = [place EXCEPT ![n] = "delivered"]
  /\ seen' = [seen EXCEPT ![n] = version]
  /\ UNCHANGED <<paused, version, batch, timer, queries, newest>>

Notified(n) ==
  /\ EventLoopFree /\ place[n] = "sent" /\ ~paused /\ n \notin Deletes
  /\ FetchRow(n)
  /\ seen' = [seen EXCEPT ![n] = version]
  /\ newest' = [newest EXCEPT ![RowOf[n]] = n]
  /\ UNCHANGED <<paused, version>>

TimerFires ==
  /\ EventLoopFree /\ timer
  /\ Flush(batch, place)
  /\ UNCHANGED <<paused, version, seen, newest>>

\* Mutant: a row that was not found settles nothing.
MutSettled(S, found) == Moved(place, found, "found")

\* settleBatch and rejectBatch
Settled(S, found) == Moved(Moved(place, S, "refused"), found, "found")

\* The query returns some of the rows, or fails.
Answered(S) ==
  /\ EventLoopFree
  /\ queries' = queries \ {S}
  /\ \E found \in SUBSET S : place' = Settled(S, found)
  /\ UNCHANGED <<paused, version, batch, timer, seen, newest>>

\* Mutant: what was fetched is delivered while the channel is not paused.
MutIsCurrent(n) == ~paused

\* lifecycleVersion === channel._lifecycleVersion
IsCurrent(n) == seen[n] = version

\* deliverFetchedNotification goes on, with a row or without.
Continues(n) ==
  /\ place[n] \in {"found", "refused"}
  /\ place' = [place EXCEPT ![n] = IF IsCurrent(n) THEN "delivered" ELSE "dropped"]
  /\ UNCHANGED <<paused, version, batch, timer, queries, seen, newest>>

\* cancelPendingFetches
Cancelled == batch' = Empty /\ timer' = FALSE

\* unsubscribe(), by a handler perhaps.
Unsubscribe ==
  /\ version < MaxVersion
  /\ paused' = TRUE /\ version' = version + 1
  /\ Cancelled
  /\ place' = Moved(place, Pending(batch), "refused")
  /\ newest' = Empty
  /\ UNCHANGED <<queries, seen>>

\* subscribe() succeeds.
Subscribed ==
  /\ paused /\ EventLoopFree
  /\ paused' = FALSE
  /\ UNCHANGED <<version, batch, timer, queries, place, seen, newest>>

-----------------------------------------------------------------------------
Next ==
  \/ Unsubscribe \/ Subscribed
  \/ TimerFires
  \/ \E n \in Notes : Ignored(n) \/ Deleted(n) \/ Notified(n) \/ Continues(n)
  \/ \E S \in queries : Answered(S)

Spec == Init /\ [][Next]_vars

\* Timers fire, continuations run, and a query is answered or fails.
Fairness ==
  /\ WF_vars(TimerFires)
  /\ WF_vars(\E n \in Notes : Continues(n))
  /\ WF_vars(\E S \in queries : Answered(S))

FairSpec == Spec /\ Fairness

-----------------------------------------------------------------------------
\* Properties

\* A paused channel sends no query, and handlers get nothing whose fetch was
\* started before unsubscribe(), even if the channel is subscribed again.
OnlyCurrent ==
  [][/\ paused => queries' \subseteq queries
     /\ \A n \in Notes : place[n] # "delivered" /\ place'[n] = "delivered" =>
          ~paused /\ seen'[n] = version]_vars

\* The last notification of a row is on its way to the handlers, or there: a
\* batch that waits has its timer, and what it settles is what waits for it.
NewestIsTold ==
  /\ timer = (batch # Empty)
  /\ \A n \in Notes : place[n] = "queued" <=> n \in Pending(batch)
  /\ \A r \in Rows : newest[r] # NoNote => place[newest[r]] \in Waiting \cup {"delivered"}

\* Every notification of this version is, as the documentation says of
\* inserts and updates.
EveryOneIsTold ==
  \A n \in Notes : place[n] # "sent" /\ seen[n] = version /\ ~paused => place[n] # "overwritten"

Over(n) == place[n] \in {"delivered", "dropped"}

\* Whatever waits for its row is settled and its notification delivered, or
\* dropped by unsubscribe(); unless it gave way to another notification of the
\* row, whose fetch is settled instead: its own promise never is.
EachFetchSettles ==
  \A n \in Notes :
    place[n] \in Waiting ~>
      \/ Over(n)
      \/ /\ place[n] = "overwritten"
         /\ \E m \in Notes \ {n} : RowOf[m] = RowOf[n] /\ Over(m)
=============================================================================
