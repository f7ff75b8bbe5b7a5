--------------------------- MODULE RealtimeProofs ---------------------------
(***************************************************************************)
(* Proofs about the parts of VolcanoRealtime that MCRealtime puts side by  *)
(* side, for any number of notifications, rows, calls, members, channels   *)
(* and transport clients, any size of a batch and any length of what is on *)
(* the way: first of each part by itself (RowFetch, RealtimeChannel,       *)
(* RealtimeConnection), then of the three together.                        *)
(***************************************************************************)
EXTENDS MCRealtime, Sequences, FiniteSetTheorems, TLAPS

USE NotesAssumption, RowOfAssumption, MaxBatchAssumption, MaxVersionAssumption

\* The bounds of the model, whatever they are.
Bounds == MaxVersion \in Nat /\ MaxInbox \in Nat /\ MaxTimers \in Nat /\ MaxClients \in Nat

-----------------------------------------------------------------------------
\* RowFetch: the invariant, by the state it is about.

\* A batch has each row under its own id, and room for one more.
BatchOK ==
  /\ batch \in [Rows -> Notes \cup {NoNote}]
  /\ \A r \in Rows : batch[r] # NoNote => RowOf[batch[r]] = r
  /\ IsFiniteSet(Pending(batch)) /\ Cardinality(Pending(batch)) < MaxBatch

PlacesOK ==
  /\ place \in [Notes -> Places]
  /\ timer \in BOOLEAN /\ timer = (batch # Empty)
  /\ \A n \in Notes : place[n] = "queued" <=> n \in Pending(batch)

\* What a query was sent for has no other way to settle.
QueriesOK ==
  /\ queries \subseteq SUBSET Notes
  /\ \A S \in queries : \A n \in S : place[n] = "asked"
  /\ \A S \in queries : \A T \in queries : S # T => S \cap T = {}

\* Nothing that waits while the channel is paused is of its present version.
VersionOK ==
  /\ paused \in BOOLEAN /\ version \in 0..MaxVersion
  /\ seen \in [Notes -> 0..MaxVersion]
  /\ \A n \in Notes : seen[n] <= version
  /\ paused => batch = Empty /\ \A n \in Notes : place[n] \in Waiting => seen[n] < version

NewestOK ==
  /\ newest \in [Rows -> Notes \cup {NoNote}]
  /\ \A r \in Rows : newest[r] # NoNote =>
       /\ RowOf[newest[r]] = r /\ seen[newest[r]] = version
       /\ place[newest[r]] \in Waiting \cup {"delivered"}

RowIInv == BatchOK /\ PlacesOK /\ QueriesOK /\ VersionOK /\ NewestOK

LEMMA EmptyBatch ==
  /\ Pending(Empty) = {} /\ IsFiniteSet(Pending(Empty)) /\ Cardinality(Pending(Empty)) = 0
  /\ Empty \in [Rows -> Notes \cup {NoNote}]
BY FS_EmptySet DEF Pending, Empty

LEMMA RowInitOK == Init => RowIInv
<1> SUFFICES ASSUME Init PROVE RowIInv
  OBVIOUS
<1>1. batch = Empty /\ Pending(batch) = {}
  BY EmptyBatch DEF Init, Empty
<1>2. BatchOK
  BY <1>1, EmptyBatch DEF BatchOK, Empty
<1>3. PlacesOK
  <2>1. timer \in BOOLEAN /\ timer = (batch # Empty)
    BY <1>1, Zenon DEF Init
  <2> QED
    BY <1>1, <2>1 DEF Init, PlacesOK, Places
<1>4. QueriesOK
  BY DEF Init, QueriesOK
<1>5. VersionOK
  <2>1. paused \in BOOLEAN /\ ~paused
    BY Zenon DEF Init
  <2> QED
    BY <2>1 DEF Init, VersionOK
<1>6. NewestOK
  BY DEF Init, NewestOK
<1> QED
  BY <1>2, <1>3, <1>4, <1>5, <1>6 DEF RowIInv

-----------------------------------------------------------------------------
\* Where notifications are moved to.

LEMMA MovedTo ==
  ASSUME NEW q \in [Notes -> Places], NEW S \in SUBSET Notes, NEW p \in Places
  PROVE  /\ Moved(q, S, p) \in [Notes -> Places]
         /\ \A n \in Notes : Moved(q, S, p)[n] = IF n \in S THEN p ELSE q[n]
BY DEF Moved

LEMMA PendingNotes ==
  ASSUME NEW b \in [Rows -> Notes \cup {NoNote}]
  PROVE  /\ Pending(b) \in SUBSET Notes
         /\ \A n : n \in Pending(b) <=> n # NoNote /\ \E r \in Rows : b[r] = n
BY DEF Pending

\* A notification that is queued takes the place of an earlier one of its row.
LEMMA QueuedNote ==
  ASSUME BatchOK, NEW n \in Notes
  PROVE  LET b == Queue(n)
         IN /\ b \in [Rows -> Notes \cup {NoNote}]
            /\ \A r \in Rows : b[r] # NoNote => RowOf[b[r]] = r
            /\ n \in Pending(b) /\ Pending(b) \subseteq Pending(batch) \cup {n}
            /\ \A m \in Pending(batch) : RowOf[m] # RowOf[n] => m \in Pending(b)
            /\ IsFiniteSet(Pending(b)) /\ b # Empty
<1> DEFINE b == Queue(n)
           r0 == RowOf[n]
<1>1. /\ r0 \in Rows /\ b \in [Rows -> Notes \cup {NoNote}] /\ b[r0] = n
      /\ \A r \in Rows : r # r0 => b[r] = batch[r]
  BY DEF BatchOK, Queue
<1>2. \A r \in Rows : b[r] # NoNote => RowOf[b[r]] = r
  BY <1>1 DEF BatchOK
<1>3. n \in Pending(b) /\ n # NoNote
  BY <1>1, PendingNotes
<1>4. Pending(b) \subseteq Pending(batch) \cup {n}
  BY <1>1 DEF Pending
<1>5. ASSUME NEW m \in Pending(batch), RowOf[m] # r0 PROVE m \in Pending(b)
  <2>1. PICK r \in Rows : batch[r] = m /\ m # NoNote
    BY <1>5 DEF Pending
  <2>2. r # r0
    BY <1>5, <2>1 DEF BatchOK
  <2> QED
    BY <1>1, <2>1, <2>2, PendingNotes
<1>6. IsFiniteSet(Pending(b))
  <2>1. IsFiniteSet(Pending(batch) \cup {n})
    BY FS_AddElement DEF BatchOK
  <2> QED
    BY <1>4, <2>1, FS_Subset
<1>7. b # Empty
  BY <1>1, <1>3 DEF Empty
<1> QED
  BY <1>1, <1>2, <1>3, <1>4, <1>5, <1>6, <1>7

-----------------------------------------------------------------------------
\* The steps.

LEMMA RowNothingMoves ==
  ASSUME RowIInv, UNCHANGED vars
  PROVE  RowIInv'
<1>1. BatchOK'
  BY DEF RowIInv, vars, BatchOK, Pending
<1>2. PlacesOK'
  BY DEF RowIInv, vars, PlacesOK, Pending, Empty
<1>3. QueriesOK' /\ VersionOK' /\ NewestOK'
  BY DEF RowIInv, vars, QueriesOK, VersionOK, NewestOK, Empty
<1> QED
  BY <1>1, <1>2, <1>3 DEF RowIInv

\* A notification that did not wait goes elsewhere, or one that has settled.
LEMMA OneMoves ==
  ASSUME RowIInv, NEW n \in Notes, NEW p \in {"dropped", "delivered"},
         place[n] \in {"sent", "found", "refused"}, place' = [place EXCEPT ![n] = p],
         UNCHANGED <<paused, version, batch, timer, queries, newest>>,
         seen' = [seen EXCEPT ![n] = version] \/ UNCHANGED seen,
         p = "dropped" => place[n] = "sent" \/ seen[n] # version
  PROVE  RowIInv'
<1>1. BatchOK'
  BY DEF RowIInv, BatchOK, Pending
<1>2. PlacesOK'
  BY DEF RowIInv, PlacesOK, Pending, Empty, Places
<1>3. QueriesOK'
  BY DEF RowIInv, QueriesOK, PlacesOK
<1>4. VersionOK'
  BY DEF RowIInv, VersionOK, PlacesOK, Empty, Waiting
<1>5. NewestOK'
  BY DEF RowIInv, NewestOK, VersionOK, PlacesOK, Waiting
<1> QED
  BY <1>1, <1>2, <1>3, <1>4, <1>5 DEF RowIInv

\* The batch is sent, or could not be.
LEMMA Flushed ==
  ASSUME RowIInv, NEW q \in [Notes -> Places], NEW b \in [Rows -> Notes \cup {NoNote}], Flush(b, q),
         UNCHANGED <<paused, version>>, ~paused,
         \A m \in Notes : q[m] = "queued" <=> m \in Pending(b),
         \A S \in queries : \A m \in S : q[m] = "asked",
         newest' \in [Rows -> Notes \cup {NoNote}], seen' \in [Notes -> 0..MaxVersion],
         \A m \in Notes : seen'[m] <= version,
         \A r \in Rows : newest'[r] # NoNote =>
           /\ RowOf[newest'[r]] = r /\ seen'[newest'[r]] = version
           /\ q[newest'[r]] \in Waiting \cup {"delivered"}
  PROVE  RowIInv'
<1>1. PICK p \in {"asked", "refused"} :
        /\ place' = Moved(q, Pending(b), p)
        /\ \/ p = "asked" /\ queries' = queries \cup {Pending(b)}
           \/ p = "refused" /\ queries' = queries
  BY DEF Flush
<1>2. /\ batch' = Empty /\ (timer' = FALSE) /\ Pending(b) \in SUBSET Notes
  BY PendingNotes DEF Flush
<1>3. /\ place' \in [Notes -> Places]
      /\ \A m \in Notes : place'[m] = IF m \in Pending(b) THEN p ELSE q[m]
  BY <1>1, <1>2, MovedTo DEF Places, Waiting
<1>4. BatchOK'
  BY <1>2, EmptyBatch DEF BatchOK, Empty
<1>5. PlacesOK'
  <2>1. timer' \in BOOLEAN /\ timer' = (batch' # Empty)
    BY <1>2, Zenon
  <2>2. \A m \in Notes : place'[m] # "queued" /\ m \notin Pending(batch')
    BY <1>1, <1>2, <1>3, EmptyBatch
  <2> QED
    BY <1>3, <2>1, <2>2 DEF PlacesOK, Empty, Pending
<1>6. QueriesOK'
  <2>1. \A S \in queries : S \subseteq Notes /\ S \cap Pending(b) = {}
    BY <1>2 DEF RowIInv, QueriesOK
  <2>2. \A S \in queries : \A m \in S : place'[m] = "asked"
    BY <1>3, <2>1
  <2>3. p = "asked" => \A m \in Pending(b) : place'[m] = "asked"
    BY <1>2, <1>3
  <2> QED
    BY <1>1, <1>2, <2>1, <2>2, <2>3 DEF RowIInv, QueriesOK
<1>7. VersionOK'
  BY DEF RowIInv, VersionOK
<1>8. NewestOK'
  BY <1>1, <1>3 DEF NewestOK, Waiting
<1> QED
  BY <1>4, <1>5, <1>6, <1>7, <1>8 DEF RowIInv

LEMMA TimerStep ==
  ASSUME RowIInv, TimerFires
  PROVE  RowIInv'
<1>1. batch # Empty /\ ~paused
  BY DEF RowIInv, TimerFires, PlacesOK, VersionOK
<1>2. Flush(batch, place) /\ UNCHANGED <<paused, version, seen, newest>>
  BY DEF TimerFires
<1> QED
  BY <1>1, <1>2, Flushed DEF RowIInv, BatchOK, PlacesOK, QueriesOK, VersionOK, NewestOK

LEMMA NotifiedStep ==
  ASSUME RowIInv, NEW n \in Notes, Notified(n)
  PROVE  RowIInv'
<1> DEFINE b == Queue(n)
           q == Moved(Moved(place, Pending(batch) \cup {n}, "overwritten"), Pending(b), "queued")
<1>1. /\ place[n] = "sent" /\ ~paused /\ UNCHANGED <<paused, version>>
      /\ seen' = [seen EXCEPT ![n] = version] /\ newest' = [newest EXCEPT ![RowOf[n]] = n]
      /\ RowOf[n] \in Rows /\ version \in 0..MaxVersion /\ n # NoNote
  BY DEF Notified, RowIInv, VersionOK
<1>2. /\ b \in [Rows -> Notes \cup {NoNote}]
      /\ \A r \in Rows : b[r] # NoNote => RowOf[b[r]] = r
      /\ n \in Pending(b) /\ Pending(b) \subseteq Pending(batch) \cup {n}
      /\ \A m \in Pending(batch) : RowOf[m] # RowOf[n] => m \in Pending(b)
      /\ IsFiniteSet(Pending(b)) /\ b # Empty
  BY QueuedNote DEF RowIInv
<1>3. Pending(batch) \in SUBSET Notes /\ Pending(b) \in SUBSET Notes /\ place \in [Notes -> Places]
  BY <1>2, PendingNotes DEF RowIInv, BatchOK, PlacesOK
<1>4. /\ q \in [Notes -> Places]
      /\ \A m \in Notes : q[m] = IF m \in Pending(b) THEN "queued"
                                 ELSE IF m \in Pending(batch) \cup {n} THEN "overwritten" ELSE place[m]
  <2>1. Pending(batch) \cup {n} \in SUBSET Notes
    BY <1>3
  <2> QED
    BY <1>3, <2>1, MovedTo DEF Places, Waiting
<1> HIDE DEF q, b
<1>5. \A m \in Notes : q[m] = "queued" <=> m \in Pending(b)
  BY <1>4 DEF RowIInv, PlacesOK
<1>6. \A S \in queries : \A m \in S : q[m] = "asked"
  <2> SUFFICES ASSUME NEW S \in queries, NEW m \in S PROVE q[m] = "asked"
    OBVIOUS
  <2>1. m \in Notes /\ place[m] = "asked"
    BY DEF RowIInv, QueriesOK
  <2>2. m # n /\ m \notin Pending(batch)
    BY <1>1, <2>1 DEF RowIInv, PlacesOK
  <2> QED
    BY <1>2, <1>4, <2>1, <2>2
<1>7. /\ newest' \in [Rows -> Notes \cup {NoNote}] /\ seen' \in [Notes -> 0..MaxVersion]
      /\ \A m \in Notes : seen'[m] <= version
  BY <1>1 DEF RowIInv, NewestOK, VersionOK
<1>8. ASSUME NEW r \in Rows, newest'[r] # NoNote
      PROVE  /\ RowOf[newest'[r]] = r /\ seen'[newest'[r]] = version
             /\ q[newest'[r]] \in Waiting \cup {"delivered"}
  <2>1. CASE r = RowOf[n]
    BY <1>1, <1>2, <1>4, <2>1 DEF RowIInv, NewestOK, VersionOK, Waiting
  <2>2. CASE r # RowOf[n]
    <3> DEFINE m == newest[r]
    <3>1. /\ newest'[r] = m /\ m \in Notes /\ RowOf[m] = r /\ seen[m] = version
          /\ place[m] \in Waiting \cup {"delivered"} /\ m # n
      BY <1>1, <1>8, <2>2 DEF RowIInv, NewestOK, Waiting
    <3>2. seen'[m] = version
      BY <1>1, <3>1 DEF RowIInv, VersionOK
    <3>3. m \in Pending(b) \/ m \notin Pending(batch) \cup {n}
      BY <1>2, <2>2, <3>1
    <3>4. q[m] \in Waiting \cup {"delivered"}
      BY <1>4, <3>1, <3>3 DEF Waiting
    <3> QED
      BY <3>1, <3>2, <3>4
  <2> QED
    BY <2>1, <2>2
<1>9. CASE Flush(b, q)
  BY <1>1, <1>2, <1>4, <1>5, <1>6, <1>7, <1>8, <1>9, Flushed
<1>10. CASE ~Full(b) /\ Window(b) /\ place' = q /\ UNCHANGED queries
  <2>1. batch' = b /\ (timer' = TRUE)
    BY <1>10 DEF Window
  <2>2. Cardinality(Pending(b)) < MaxBatch
    BY <1>2, <1>10, FS_CardinalityType DEF Full
  <2>3. BatchOK'
    BY <1>2, <2>1, <2>2 DEF BatchOK, Pending
  <2>4. PlacesOK'
    <3>1. timer' \in BOOLEAN /\ timer' = (batch' # Empty)
      BY <1>2, <2>1, Zenon
    <3>2. Pending(batch)' = Pending(b)
      BY <2>1 DEF Pending
    <3> QED
      BY <1>4, <1>5, <1>10, <3>1, <3>2 DEF PlacesOK, Empty
  <2>5. QueriesOK'
    BY <1>6, <1>10 DEF RowIInv, QueriesOK
  <2>6. VersionOK'
    BY <1>1, <1>7 DEF RowIInv, VersionOK
  <2>7. NewestOK'
    BY <1>1, <1>7, <1>8, <1>10 DEF NewestOK
  <2> QED
    BY <2>3, <2>4, <2>5, <2>6, <2>7 DEF RowIInv
<1> QED
  BY <1>9, <1>10 DEF Notified, FetchRow, b, q

LEMMA AnsweredStep ==
  ASSUME RowIInv, NEW S \in queries, Answered(S)
  PROVE  RowIInv'
<1>1. PICK found \in SUBSET S : place' = Moved(Moved(place, S, "refused"), found, "found")
  BY DEF Answered, Settled
<1>2. /\ S \in SUBSET Notes /\ found \in SUBSET Notes /\ place \in [Notes -> Places]
      /\ \A n \in S : place[n] = "asked"
      /\ queries' = queries \ {S} /\ UNCHANGED <<paused, version, batch, timer, seen, newest>>
  BY DEF Answered, RowIInv, QueriesOK, PlacesOK
<1>3. /\ place' \in [Notes -> Places]
      /\ \A n \in Notes : place'[n] = IF n \in found THEN "found" ELSE IF n \in S THEN "refused" ELSE place[n]
  BY <1>1, <1>2, MovedTo DEF Places, Waiting
<1>4. \A n \in Notes : place'[n] = place[n] \/ (place[n] = "asked" /\ place'[n] \in {"found", "refused"} /\ n \in S)
  BY <1>1, <1>2, <1>3
<1>5. BatchOK'
  BY <1>2 DEF RowIInv, BatchOK, Pending
<1>6. PlacesOK'
  BY <1>2, <1>3, <1>4 DEF RowIInv, PlacesOK, Pending, Empty
<1>7. QueriesOK'
  <2>1. ASSUME NEW T \in queries, T # S, NEW n \in T PROVE place'[n] = "asked"
    BY <1>1, <1>3, <2>1 DEF RowIInv, QueriesOK
  <2> QED
    BY <1>2, <2>1 DEF RowIInv, QueriesOK
<1>8. VersionOK'
  BY <1>2, <1>4 DEF RowIInv, VersionOK, Empty, Waiting
<1>9. NewestOK'
  BY <1>2, <1>4 DEF RowIInv, NewestOK, Waiting
<1> QED
  BY <1>5, <1>6, <1>7, <1>8, <1>9 DEF RowIInv

LEMMA UnsubscribeStep ==
  ASSUME RowIInv, Unsubscribe
  PROVE  RowIInv'
<1>1. /\ (paused' = TRUE) /\ version' = version + 1 /\ version < MaxVersion
      /\ batch' = Empty /\ (timer' = FALSE) /\ newest' = Empty /\ UNCHANGED <<queries, seen>>
      /\ place' = Moved(place, Pending(batch), "refused")
  BY DEF Unsubscribe, Cancelled
<1>2. Pending(batch) \in SUBSET Notes /\ place \in [Notes -> Places]
  BY PendingNotes DEF RowIInv, BatchOK, PlacesOK
<1>3. /\ place' \in [Notes -> Places]
      /\ \A n \in Notes : place'[n] = IF n \in Pending(batch) THEN "refused" ELSE place[n]
  BY <1>1, <1>2, MovedTo DEF Places, Waiting
<1>4. BatchOK'
  BY <1>1, EmptyBatch DEF BatchOK, Empty
<1>5. PlacesOK'
  <2>1. timer' \in BOOLEAN /\ timer' = (batch' # Empty)
    BY <1>1, Zenon
  <2>2. \A n \in Notes : place'[n] # "queued" /\ n \notin Pending(batch')
    BY <1>1, <1>3, EmptyBatch DEF RowIInv, PlacesOK
  <2> QED
    BY <1>3, <2>1, <2>2 DEF PlacesOK, Empty, Pending
<1>6. QueriesOK'
  <2>1. ASSUME NEW S \in queries, NEW n \in S PROVE place'[n] = "asked"
    BY <1>3 DEF RowIInv, QueriesOK, PlacesOK
  <2> QED
    BY <1>1, <2>1 DEF RowIInv, QueriesOK
<1>7. VersionOK'
  <2>1. version' \in 0..MaxVersion /\ \A n \in Notes : seen[n] < version'
    BY <1>1 DEF RowIInv, VersionOK
  <2>2. paused' \in BOOLEAN
    BY <1>1, Zenon
  <2> QED
    BY <1>1, <2>1, <2>2 DEF RowIInv, VersionOK, Empty
<1>8. NewestOK'
  BY <1>1, EmptyBatch DEF NewestOK, Empty
<1> QED
  BY <1>4, <1>5, <1>6, <1>7, <1>8 DEF RowIInv

LEMMA RowSubscribedStep ==
  ASSUME RowIInv, Subscribed
  PROVE  RowIInv'
<1>1. (paused' = FALSE) /\ UNCHANGED <<version, batch, timer, queries, place, seen, newest>>
  BY DEF Subscribed
<1>2. BatchOK'
  BY <1>1 DEF RowIInv, BatchOK, Pending
<1>3. PlacesOK'
  BY <1>1 DEF RowIInv, PlacesOK, Pending, Empty
<1>4. QueriesOK' /\ NewestOK'
  BY <1>1 DEF RowIInv, QueriesOK, NewestOK
<1>5. VersionOK'
  <2>1. paused' \in BOOLEAN /\ ~paused'
    BY <1>1, Zenon
  <2> QED
    BY <1>1, <2>1 DEF RowIInv, VersionOK
<1> QED
  BY <1>2, <1>3, <1>4, <1>5 DEF RowIInv

LEMMA RowStep == ASSUME RowIInv, [Next]_vars PROVE RowIInv'
<1>1. CASE Next
  <2>1. ASSUME NEW n \in Notes, Ignored(n) PROVE RowIInv'
    BY <1>1, <2>1, OneMoves DEF Ignored
  <2>2. ASSUME NEW n \in Notes, Deleted(n) PROVE RowIInv'
    BY <1>1, <2>2, OneMoves DEF Deleted
  <2>3. ASSUME NEW n \in Notes, Continues(n) PROVE RowIInv'
    BY <1>1, <2>3, OneMoves DEF Continues, IsCurrent
  <2> QED
    BY <1>1, <2>1, <2>2, <2>3, NotifiedStep, TimerStep, AnsweredStep, UnsubscribeStep,
       RowSubscribedStep DEF Next
<1> QED
  BY <1>1, RowNothingMoves

LEMMA RowInvariance == Spec => []RowIInv
BY RowInitOK, RowStep, PTL DEF Spec

-----------------------------------------------------------------------------
\* Every variable keeps its type, and a batch that waits is not full.
THEOREM RowTypeCorrect == Spec => []TypeOK
<1>1. RowIInv => TypeOK
  BY DEF RowIInv, TypeOK, BatchOK, PlacesOK, QueriesOK, VersionOK, NewestOK
<1> QED
  BY <1>1, RowInvariance, PTL

\* The last notification of each row is delivered or will be: nothing waits
\* for a batch that has gone, or for one without a timer.
THEOREM NewestGoesOn == Spec => []NewestIsTold
<1>1. RowIInv => NewestIsTold
  BY DEF RowIInv, NewestIsTold, PlacesOK, NewestOK
<1> QED
  BY <1>1, RowInvariance, PTL

\* What a step may deliver.
Current ==
  /\ paused => queries' \subseteq queries
  /\ \A n \in Notes : place[n] # "delivered" /\ place'[n] = "delivered" =>
       ~paused /\ seen'[n] = version

LEMMA CurrentStep == ASSUME RowIInv, Next PROVE Current
<1> USE DEF Current
<1>0. /\ place \in [Notes -> Places] /\ seen \in [Notes -> 0..MaxVersion] /\ version \in 0..MaxVersion
      /\ batch \in [Rows -> Notes \cup {NoNote}] /\ queries \subseteq SUBSET Notes
  BY DEF RowIInv, BatchOK, PlacesOK, VersionOK, QueriesOK
<1>1. ASSUME NEW n \in Notes, Ignored(n) PROVE Current
  BY <1>0, <1>1 DEF Ignored
<1>2. ASSUME NEW n \in Notes, Deleted(n) PROVE Current
  BY <1>0, <1>2 DEF Deleted
<1>3. ASSUME NEW n \in Notes, Continues(n) PROVE Current
  <2>1. IsCurrent(n) => ~paused
    BY <1>3 DEF Continues, IsCurrent, RowIInv, VersionOK, Waiting
  <2> QED
    BY <1>0, <1>3, <2>1 DEF Continues, IsCurrent
<1>4. ASSUME NEW b \in [Rows -> Notes \cup {NoNote}], NEW q \in [Notes -> Places], Flush(b, q), ~paused,
             \A n \in Notes : q[n] = "delivered" => place[n] = "delivered"
      PROVE  Current
  <2>1. Pending(b) \in SUBSET Notes
    BY PendingNotes
  <2>2. \A n \in Notes : place'[n] = "delivered" => place[n] = "delivered"
    BY <1>4, <2>1, MovedTo DEF Flush, Places, Waiting
  <2> QED
    BY <1>4, <2>2
<1>5. CASE TimerFires
  <2>1. ~paused
    BY <1>5 DEF TimerFires, RowIInv, VersionOK, PlacesOK
  <2> QED
    BY <1>0, <1>4, <1>5, <2>1 DEF TimerFires
<1>6. ASSUME NEW n \in Notes, Notified(n) PROVE Current
  <2> DEFINE b == Queue(n)
             p == Moved(place, Pending(batch) \cup {n}, "overwritten")
             q == Moved(p, Pending(b), "queued")
  <2>1. b \in [Rows -> Notes \cup {NoNote}]
    BY QueuedNote DEF RowIInv
  <2>2. Pending(batch) \cup {n} \in SUBSET Notes /\ Pending(b) \in SUBSET Notes
    BY <1>0, <2>1, PendingNotes
  <2>3. q \in [Notes -> Places] /\ \A m \in Notes : q[m] = "delivered" => place[m] = "delivered"
    <3>1. p \in [Notes -> Places] /\ \A m \in Notes : p[m] = "delivered" => place[m] = "delivered"
      BY <1>0, <2>2, MovedTo DEF Places, Waiting
    <3> HIDE DEF p
    <3> QED
      BY <2>2, <3>1, MovedTo DEF Places, Waiting
  <2> HIDE DEF b, q
  <2>4. ~paused /\ (Flush(b, q) \/ (place' = q /\ UNCHANGED queries))
    BY <1>6 DEF Notified, FetchRow, b, q, p
  <2> QED
    BY <1>4, <2>1, <2>3, <2>4
<1>7. ASSUME NEW S \in queries, Answered(S) PROVE Current
  <2>1. PICK found \in SUBSET S : place' = Moved(Moved(place, S, "refused"), found, "found")
    BY <1>7 DEF Answered, Settled
  <2>2. S \in SUBSET Notes /\ found \in SUBSET Notes
    BY <1>0
  <2>3. \A n \in Notes : place'[n] = "delivered" => place[n] = "delivered"
    BY <1>0, <2>1, <2>2, MovedTo DEF Places, Waiting
  <2> QED
    BY <1>7, <2>3 DEF Answered
<1>8. CASE Unsubscribe
  <2>1. Pending(batch) \in SUBSET Notes
    BY <1>0, PendingNotes
  <2>2. \A n \in Notes : place'[n] = "delivered" => place[n] = "delivered"
    BY <1>0, <1>8, <2>1, MovedTo DEF Unsubscribe, Places, Waiting
  <2> QED
    BY <1>8, <2>2 DEF Unsubscribe
<1>9. CASE Subscribed
  BY <1>9 DEF Subscribed
<1> QED
  BY <1>1, <1>2, <1>3, <1>5, <1>6, <1>7, <1>8, <1>9 DEF Next

\* A paused channel asks for no row, and nothing is delivered that was received
\* before unsubscribe(), also if the channel was subscribed again meanwhile.
THEOREM DeliversCurrent == Spec => OnlyCurrent
BY CurrentStep, RowInvariance, PTL DEF Spec, OnlyCurrent, Current

-----------------------------------------------------------------------------
\* RealtimeChannel: the invariant, by the state it is about.

CallRecords == [st : {"idle", "waiting", "ready", "failed"}, version : Channel!Versions]

Typed ==
  /\ subscription \in {"none", "unsubscribed", "subscribing", "subscribed"}
  /\ version \in Channel!Versions /\ paused \in BOOLEAN
  /\ call \in [Calls -> CallRecords]
  /\ linked \in BOOLEAN /\ members \subseteq Members
  /\ inbox \in Seq(Channel!Events) /\ Len(inbox) <= MaxInbox
  /\ roster \subseteq Members /\ loaded \in BOOLEAN

\* A call has the version there was, one that can still end.
CallsOK ==
  \A c \in Calls : call[c].version <= version /\ (call[c].st # "idle" => call[c].version < MaxVersion)

\* The one timer that can be cleared has not fired, and no version that is to
\* come has a timer or a request.
TimersOK ==
  /\ timers \in [Channel!Versions -> 0..MaxTimers] /\ tracked \in Channel!Versions \cup {Channel!NoTimer}
  /\ tracked # Channel!NoTimer => timers[tracked] > 0
  /\ requests \subseteq Channel!Versions
  /\ \A v \in Channel!Versions : timers[v] > 0 \/ v \in requests => v <= version

\* What names the subscription it was sent to.
Named(e) == e.type \in {"subscribed", "publication"}

\* Events arrive in the order of the subscriptions they were sent to.
InOrder ==
  /\ \A i \in 1..Len(inbox) : inbox[i].type \in {"subscribed", "publication", "members"} =>
       inbox[i].version <= version
  /\ \A i, j \in 1..Len(inbox) :
       i < j /\ Named(inbox[i]) /\ Named(inbox[j]) /\ inbox[i].version = version =>
         inbox[j].version = version

AllCurrent == \A i \in 1..Len(inbox) : Named(inbox[i]) => inbox[i].version = version

\* A channel that delivers, or may at once, has nothing old on its way.
Delivering ==
  ~paused \/ subscription = "subscribed" \/ (\E c \in Calls : call[c].st = "ready" /\ Channel!IsCurrent(c))
    => AllCurrent

\* What a member's state follows from: a join, a leave, members that were asked
\* for by this version.
Tells(e, m) ==
  \/ e.type \in {"join", "leave"} /\ e.member = m
  \/ e.type = "members" /\ e.version = version

Says(e, m) == e.type = "join" \/ (e.type = "members" /\ m \in e.members)

\* The subscription begins.
Renews(e) == e.type = "subscribed" /\ e.version = version

\* The i-th event is the last that matters for m.
NoMore(i, m) ==
  \A j \in 1..Len(inbox) : j > i => ~Tells(inbox[j], m) /\ ~Renews(inbox[j])

Linked ==
  linked =>
    /\ subscription \in {"subscribing", "subscribed"}
    /\ (\A i \in 1..Len(inbox) : ~Renews(inbox[i])) => subscription = "subscribed" /\ ~paused

\* The last event about a member says what the server has, and where there is
\* none, the roster does.
LastSays ==
  linked => \A m \in Members :
    /\ \A i \in 1..Len(inbox) : Tells(inbox[i], m) /\ NoMore(i, m) =>
         (Says(inbox[i], m) <=> m \in members)
    /\ loaded /\ NoMore(0, m) => (m \in roster <=> m \in members)

\* A paused channel has no roster, and nobody asks for one.
PausedOK ==
  paused =>
    /\ roster = {} /\ timers[version] = 0 /\ version \notin requests
    /\ \A i \in 1..Len(inbox) : inbox[i].type = "members" => inbox[i].version # version

ChannelIInv == Typed /\ CallsOK /\ TimersOK /\ InOrder /\ Delivering /\ Linked /\ LastSays /\ PausedOK

LEMMA ChannelInitOK == ASSUME Bounds PROVE Channel!Init => ChannelIInv
<1> SUFFICES ASSUME Channel!Init PROVE ChannelIInv
  OBVIOUS
<1>1. 0 \in Channel!Versions /\ Channel!NoTimer \notin Channel!Versions
  BY DEF Bounds, Channel!Versions, Channel!NoTimer
<1>2. paused \in BOOLEAN /\ linked \in BOOLEAN /\ loaded \in BOOLEAN /\ ~paused /\ ~linked
  BY Zenon DEF Channel!Init
<1>3. inbox = <<>> /\ inbox \in Seq(Channel!Events) /\ Len(inbox) = 0
  BY DEF Channel!Init
<1>4. Typed
  BY <1>1, <1>2, <1>3 DEF Typed, Channel!Init, Channel!NoCall, CallRecords, Bounds
<1>5. CallsOK /\ TimersOK
  BY <1>1 DEF CallsOK, TimersOK, Channel!Init, Channel!NoCall, Bounds
<1>6. InOrder /\ Delivering /\ Linked /\ LastSays /\ PausedOK
  BY <1>2, <1>3 DEF InOrder, Delivering, AllCurrent, Linked, LastSays, PausedOK
<1> QED
  BY <1>4, <1>5, <1>6 DEF ChannelIInv

-----------------------------------------------------------------------------
\* Events

LEMMA EventsTyped ==
  ASSUME NEW e \in Channel!Events
  PROVE  /\ e.type \in {"subscribed", "publication", "join", "leave", "members"}
         /\ e.type \in {"subscribed", "publication", "members"} => e.version \in Channel!Versions
         /\ e.type \in {"join", "leave"} => e.member \in Members
         /\ e.type = "members" => e.members \subseteq Members
BY DEF Channel!Events

LEMMA Appended ==
  ASSUME NEW e \in Channel!Events, inbox \in Seq(Channel!Events), Channel!Sends(e)
  PROVE  /\ inbox' \in Seq(Channel!Events) /\ Len(inbox') = Len(inbox) + 1 /\ Len(inbox) < MaxInbox
         /\ Len(inbox) \in Nat /\ inbox'[Len(inbox) + 1] = e
         /\ \A i \in 1..Len(inbox) : inbox'[i] = inbox[i]
BY DEF Channel!Sends

LEMMA HeadTaken ==
  ASSUME inbox \in Seq(Channel!Events), inbox # <<>>, inbox' = Tail(inbox)
  PROVE  /\ inbox' \in Seq(Channel!Events) /\ Len(inbox) \in Nat \ {0} /\ Len(inbox') = Len(inbox) - 1
         /\ Head(inbox) = inbox[1] /\ Head(inbox) \in Channel!Events
         /\ \A i \in 1..Len(inbox') : inbox'[i] = inbox[i + 1] /\ i + 1 \in 1..Len(inbox)
OBVIOUS

LEMMA NoTimerYet == ASSUME Bounds PROVE Channel!NoTimer \notin Channel!Versions
BY DEF Bounds, Channel!NoTimer, Channel!Versions

-----------------------------------------------------------------------------
\* A version ends: the channel is paused, and nothing is of the next one.

LEMMA Paused ==
  ASSUME Bounds, ChannelIInv, Channel!Pause, version < MaxVersion,
         subscription' \in {"none", "unsubscribed"}, call' \in [Calls -> CallRecords],
         \A c \in Calls : \/ call'[c] = Channel!NoCall
                          \/ /\ call'[c].version = call[c].version
                             /\ call'[c].st # "idle" => call[c].st # "idle"
  PROVE  ChannelIInv'
<1>1. /\ version \in Nat /\ MaxVersion \in Nat /\ version' = version + 1 /\ version' \in Channel!Versions
      /\ (paused' = TRUE) /\ (linked' = FALSE) /\ (loaded' = FALSE) /\ roster' = {}
      /\ timers' = Channel!Cleared /\ tracked' = Channel!NoTimer /\ UNCHANGED <<members, inbox, requests>>
  BY DEF Channel!Pause, Bounds, ChannelIInv, Typed, Channel!Versions
<1>2. Typed'
  <2>1. paused' \in BOOLEAN /\ linked' \in BOOLEAN /\ loaded' \in BOOLEAN
    BY <1>1, Zenon
  <2> QED
    BY <1>1, <2>1 DEF ChannelIInv, Typed
<1>3. /\ timers' \in [Channel!Versions -> 0..MaxTimers]
      /\ \A v \in Channel!Versions : timers'[v] > 0 => timers[v] > 0
  <2>1. CASE tracked = Channel!NoTimer
    BY <1>1, <2>1 DEF Channel!Cleared, ChannelIInv, TimersOK
  <2>2. CASE tracked # Channel!NoTimer
    <3>1. tracked \in Channel!Versions /\ timers[tracked] \in 1..MaxTimers /\ timers' = [timers EXCEPT ![tracked] = @ - 1]
      BY <1>1, <2>2 DEF Channel!Cleared, ChannelIInv, TimersOK
    <3>2. timers[tracked] - 1 \in 0..MaxTimers
      BY <3>1 DEF Bounds
    <3> QED
      BY <3>1, <3>2 DEF ChannelIInv, TimersOK
  <2> QED
    BY <2>1, <2>2
<1>4. \A v \in Channel!Versions : timers'[v] > 0 \/ v \in requests' => v < version'
  BY <1>1, <1>3 DEF ChannelIInv, TimersOK, Channel!Versions
<1>5. TimersOK'
  BY <1>1, <1>3, <1>4, NoTimerYet DEF ChannelIInv, TimersOK, Channel!Versions
<1>6. \A i \in 1..Len(inbox) : inbox[i].type \in {"subscribed", "publication", "members"} =>
        inbox[i].version \in Nat /\ inbox[i].version < version'
  <2> SUFFICES ASSUME NEW i \in 1..Len(inbox),
                      inbox[i].type \in {"subscribed", "publication", "members"}
               PROVE  inbox[i].version \in Nat /\ inbox[i].version < version'
    OBVIOUS
  <2>1. inbox[i] \in Channel!Events
    BY DEF ChannelIInv, Typed
  <2>2. inbox[i].version \in Nat /\ inbox[i].version <= version
    BY <2>1, EventsTyped DEF ChannelIInv, InOrder, Channel!Versions
  <2> QED
    BY <1>1, <2>2
<1>7. InOrder'
  <2>1. \A i \in 1..Len(inbox) : inbox[i].type \in {"subscribed", "publication", "members"} =>
          inbox[i].version <= version' /\ inbox[i].version # version'
    BY <1>1, <1>6
  <2> QED
    BY <1>1, <2>1 DEF InOrder, Named
<1>8. \A c \in Calls : /\ call'[c].version \in Nat /\ call'[c].version <= version
                       /\ call'[c].st # "idle" => call'[c].version < MaxVersion
  <2> SUFFICES ASSUME NEW c \in Calls
               PROVE  /\ call'[c].version \in Nat /\ call'[c].version <= version
                      /\ call'[c].st # "idle" => call'[c].version < MaxVersion
    OBVIOUS
  <2>1. call[c].version \in Nat /\ call[c].version <= version
    BY DEF ChannelIInv, Typed, CallsOK, CallRecords, Channel!Versions
  <2>2. Channel!NoCall.version = 0 /\ Channel!NoCall.st = "idle"
    BY DEF Channel!NoCall
  <2>3. 0 <= version
    BY <1>1
  <2> QED
    BY <2>1, <2>2, <2>3 DEF ChannelIInv, CallsOK
<1>9. CallsOK' /\ Delivering'
  <2>1. \A c \in Calls : call'[c].version <= version' /\ call'[c].version # version'
    BY <1>1, <1>8
  <2> QED
    BY <1>1, <1>8, <2>1 DEF CallsOK, Delivering, Channel!IsCurrent
<1>10. Linked' /\ LastSays'
  BY <1>1 DEF Linked, LastSays
<1>11. PausedOK'
  <2>1. ~ version' < version' /\ \A i \in 1..Len(inbox) : inbox[i].type = "members" => inbox[i].version # version'
    BY <1>1, <1>6
  <2>2. timers'[version'] = 0 /\ version' \notin requests'
    BY <1>1, <1>3, <1>4, <2>1 DEF Bounds
  <2> QED
    BY <1>1, <2>1, <2>2 DEF PausedOK
<1> QED
  BY <1>2, <1>5, <1>7, <1>9, <1>10, <1>11 DEF ChannelIInv

\* A call settles.
LEMMA SettledCalls ==
  ASSUME Bounds, ChannelIInv, NEW st \in {"ready", "failed"}, Channel!Settle(st)
  PROVE  /\ call' \in [Calls -> CallRecords]
         /\ \A c \in Calls : /\ call'[c].version = call[c].version
                             /\ call'[c].st # "idle" => call[c].st # "idle"
                             /\ st = "failed" => (call'[c].st = "ready" => call[c].st = "ready")
<1>1. \A c \in Calls : call[c] \in CallRecords
  BY DEF ChannelIInv, Typed
<1>2. \A r \in CallRecords : [r EXCEPT !.st = st] \in CallRecords
  BY DEF CallRecords
<1>3. \A r \in CallRecords : [r EXCEPT !.st = st].version = r.version /\ [r EXCEPT !.st = st].st = st
  BY DEF CallRecords
<1>4. call' \in [Calls -> CallRecords]
  BY <1>1, <1>2 DEF Channel!Settle
<1>5. \A c \in Calls : call'[c] = IF call[c].st = "waiting" THEN [call[c] EXCEPT !.st = st] ELSE call[c]
  BY DEF Channel!Settle
<1> QED
  BY <1>1, <1>3, <1>4, <1>5

LEMMA ResetStep == ASSUME Bounds, ChannelIInv, Channel!Reset \/ Channel!Unsubscribe PROVE ChannelIInv'
<1>1. Channel!Settle("failed") /\ Channel!Pause /\ version < MaxVersion /\ subscription' \in {"none", "unsubscribed"}
  BY DEF Channel!Reset, Channel!Unsubscribe
<1>2. /\ call' \in [Calls -> CallRecords]
      /\ \A c \in Calls : /\ call'[c].version = call[c].version
                          /\ call'[c].st # "idle" => call[c].st # "idle"
  BY <1>1, SettledCalls
<1> QED
  BY <1>1, <1>2, Paused

LEMMA NoCallTyped == ASSUME Bounds PROVE Channel!NoCall \in CallRecords
BY DEF Channel!NoCall, CallRecords, Bounds, Channel!Versions

-----------------------------------------------------------------------------
\* Steps that leave what is on the way, and whom the members are asked for.

LEMMA InboxStays ==
  ASSUME Bounds, ChannelIInv, UNCHANGED <<version, inbox, members, roster, timers, tracked>>,
         Typed', CallsOK', requests' \subseteq requests,
         paused' => paused,
         linked' => linked /\ (subscription' = subscription \/ (subscription # "subscribed" /\ subscription' = "subscribing")),
         linked' => loaded' = loaded,
         ~paused' \/ subscription' = "subscribed" \/ (\E c \in Calls : call'[c].st = "ready" /\ call'[c].version = version')
           => AllCurrent
  PROVE  ChannelIInv'
<1>1. TimersOK'
  BY DEF ChannelIInv, TimersOK
<1>2. InOrder'
  BY DEF ChannelIInv, InOrder, Named
<1>3. Delivering'
  BY DEF Delivering, AllCurrent, Channel!IsCurrent, Named
<1>4. Linked'
  BY DEF ChannelIInv, Linked, Renews
<1>5. LastSays'
  BY DEF ChannelIInv, LastSays, Tells, Says, NoMore, Renews
<1>6. PausedOK'
  BY DEF ChannelIInv, PausedOK
<1> QED
  BY <1>1, <1>2, <1>3, <1>4, <1>5, <1>6 DEF ChannelIInv

LEMMA SubscribeStep ==
  ASSUME Bounds, ChannelIInv, NEW c \in Calls, Channel!Subscribe(c)
  PROVE  ChannelIInv'
<1> DEFINE r == [st |-> Channel!ReadyAt, version |-> version]
<1>1. /\ version < MaxVersion /\ version \in Nat /\ version' = version
      /\ call' = [call EXCEPT ![c] = r] /\ paused' = paused
      /\ UNCHANGED <<linked, members, inbox, roster, timers, tracked, requests, loaded>>
      /\ subscription' = IF subscription = "subscribed" THEN subscription ELSE "subscribing"
  BY DEF Channel!Subscribe, Channel!Resumed, Channel!transport, Channel!presence, ChannelIInv, Typed,
     Channel!Versions, Bounds
<1>2. r \in CallRecords /\ r.version = version /\ (r.st = "ready" => subscription = "subscribed")
  BY <1>1 DEF CallRecords, Channel!ReadyAt, ChannelIInv, Typed
<1>3. call \in [Calls -> CallRecords]
  BY DEF ChannelIInv, Typed
<1>4. call' \in [Calls -> CallRecords] /\ call'[c] = r /\ \A d \in Calls \ {c} : call'[d] = call[d]
  BY <1>1, <1>2, <1>3
<1>5. Typed'
  <2>1. paused' \in BOOLEAN /\ linked' \in BOOLEAN /\ loaded' \in BOOLEAN
    BY <1>1, Zenon DEF ChannelIInv, Typed
  <2> QED
    BY <1>1, <1>4, <2>1 DEF ChannelIInv, Typed
<1>6. CallsOK'
  BY <1>1, <1>2, <1>4 DEF ChannelIInv, CallsOK
<1>7. ~paused' \/ subscription' = "subscribed" \/ (\E d \in Calls : call'[d].st = "ready" /\ call'[d].version = version')
           => AllCurrent
  BY <1>1, <1>2, <1>4 DEF ChannelIInv, Delivering, Channel!IsCurrent
<1>8. subscription' = subscription \/ (subscription # "subscribed" /\ subscription' = "subscribing")
  BY <1>1
<1> QED
  BY <1>1, <1>5, <1>6, <1>7, <1>8, InboxStays

LEMMA ResolvesStep ==
  ASSUME Bounds, ChannelIInv, NEW c \in Calls, Channel!Resolves(c)
  PROVE  ChannelIInv'
<1>1. /\ call' = [call EXCEPT ![c] = Channel!NoCall] /\ call[c].st = "ready"
      /\ UNCHANGED <<subscription, version, linked, members, inbox, roster, timers, tracked, requests, loaded>>
  BY DEF Channel!Resolves, Channel!transport, Channel!presence
<1>2. paused' \in BOOLEAN /\ (paused' => paused) /\ (~paused' => ~paused \/ Channel!IsCurrent(c))
  BY Zenon DEF Channel!Resolves, ChannelIInv, Typed
<1>3. call \in [Calls -> CallRecords]
  BY DEF ChannelIInv, Typed
<1>4. call' \in [Calls -> CallRecords] /\ call'[c] = Channel!NoCall /\ \A d \in Calls \ {c} : call'[d] = call[d]
  BY <1>1, <1>3, NoCallTyped
<1>5. Typed'
  <2>1. linked' \in BOOLEAN /\ loaded' \in BOOLEAN
    BY <1>1, Zenon DEF ChannelIInv, Typed
  <2> QED
    BY <1>1, <1>2, <1>4, <2>1 DEF ChannelIInv, Typed
<1>6. Channel!NoCall.st = "idle" /\ Channel!NoCall.version <= version
  BY DEF Channel!NoCall, ChannelIInv, Typed, Channel!Versions
<1>7. CallsOK'
  BY <1>1, <1>4, <1>6 DEF ChannelIInv, CallsOK
<1>8. ~paused' \/ subscription' = "subscribed" \/ (\E d \in Calls : call'[d].st = "ready" /\ call'[d].version = version')
           => AllCurrent
  BY <1>1, <1>2, <1>4, <1>6 DEF ChannelIInv, Delivering, Channel!IsCurrent
<1> QED
  BY <1>1, <1>2, <1>5, <1>7, <1>8, InboxStays

LEMMA RejectsStep ==
  ASSUME Bounds, ChannelIInv, NEW c \in Calls, Channel!Rejects(c)
  PROVE  ChannelIInv'
<1>1. call[c].st = "failed" /\ call \in [Calls -> CallRecords]
  BY DEF Channel!Rejects, ChannelIInv, Typed
<1>2. CASE Channel!IsCurrent(c)
  <2>1. /\ Channel!Pause /\ subscription' = "unsubscribed" /\ version < MaxVersion
        /\ call' = [d \in Calls |-> IF d = c THEN Channel!NoCall
                                    ELSE IF call[d].st = "waiting" THEN [call[d] EXCEPT !.st = "failed"]
                                    ELSE call[d]]
    BY <1>1, <1>2 DEF Channel!Rejects, Channel!IsCurrent, ChannelIInv, CallsOK
  <2>2. \A r \in CallRecords : /\ [r EXCEPT !.st = "failed"] \in CallRecords
                               /\ [r EXCEPT !.st = "failed"].version = r.version
    BY DEF CallRecords
  <2>3. call' \in [Calls -> CallRecords]
    BY <1>1, <2>1, <2>2, NoCallTyped
  <2>4. \A d \in Calls : \/ call'[d] = Channel!NoCall
                         \/ /\ call'[d].version = call[d].version
                            /\ call'[d].st # "idle" => call[d].st # "idle"
    BY <1>1, <2>1, <2>2
  <2> QED
    BY <2>1, <2>3, <2>4, Paused
<1>3. CASE ~Channel!IsCurrent(c)
  <2>1. /\ call' = [call EXCEPT ![c] = Channel!NoCall]
        /\ UNCHANGED <<subscription, version, paused, linked, members, inbox, roster, timers, tracked,
                       requests, loaded>>
    BY <1>3 DEF Channel!Rejects, Channel!transport, Channel!presence
  <2>2. call' \in [Calls -> CallRecords] /\ call'[c] = Channel!NoCall /\ \A d \in Calls \ {c} : call'[d] = call[d]
    BY <1>1, <2>1, NoCallTyped
  <2>3. Typed'
    <3>1. paused' \in BOOLEAN /\ linked' \in BOOLEAN /\ loaded' \in BOOLEAN
      BY <2>1, Zenon DEF ChannelIInv, Typed
    <3> QED
      BY <2>1, <2>2, <3>1 DEF ChannelIInv, Typed
  <2>4. Channel!NoCall.st = "idle" /\ Channel!NoCall.version <= version
    BY DEF Channel!NoCall, ChannelIInv, Typed, Channel!Versions
  <2>5. CallsOK'
    BY <2>1, <2>2, <2>4 DEF ChannelIInv, CallsOK
  <2>6. ~paused' \/ subscription' = "subscribed" \/ (\E d \in Calls : call'[d].st = "ready" /\ call'[d].version = version')
             => AllCurrent
    BY <2>1, <2>2, <2>4 DEF ChannelIInv, Delivering, Channel!IsCurrent
  <2> QED
    BY <2>1, <2>3, <2>5, <2>6, InboxStays
<1> QED
  BY <1>2, <1>3

LEMMA TimesOutStep ==
  ASSUME Bounds, ChannelIInv, NEW c \in Calls, Channel!TimesOut(c)
  PROVE  ChannelIInv'
<1>1. /\ call[c].st = "waiting" /\ call' = [call EXCEPT ![c].st = "failed"]
      /\ UNCHANGED <<subscription, version, paused, linked, members, inbox, roster, timers, tracked,
                     requests, loaded>>
  BY DEF Channel!TimesOut, Channel!GivesUp, Channel!transport, Channel!presence
<1>2. call \in [Calls -> CallRecords]
  BY DEF ChannelIInv, Typed
<1>3. /\ call' \in [Calls -> CallRecords] /\ call'[c].st = "failed" /\ call'[c].version = call[c].version
      /\ \A d \in Calls \ {c} : call'[d] = call[d]
  BY <1>1, <1>2 DEF CallRecords
<1>4. Typed'
  <2>1. paused' \in BOOLEAN /\ linked' \in BOOLEAN /\ loaded' \in BOOLEAN
    BY <1>1, Zenon DEF ChannelIInv, Typed
  <2> QED
    BY <1>1, <1>3, <2>1 DEF ChannelIInv, Typed
<1>5. CallsOK'
  BY <1>1, <1>3 DEF ChannelIInv, CallsOK
<1>6. ~paused' \/ subscription' = "subscribed" \/ (\E d \in Calls : call'[d].st = "ready" /\ call'[d].version = version')
           => AllCurrent
  BY <1>1, <1>3 DEF ChannelIInv, Delivering, Channel!IsCurrent
<1> QED
  BY <1>1, <1>4, <1>5, <1>6, InboxStays

LEMMA RequestFailsStep ==
  ASSUME Bounds, ChannelIInv, NEW v \in Channel!Versions, Channel!RequestFails(v)
  PROVE  ChannelIInv'
<1>1. /\ requests' = requests \ {v}
      /\ UNCHANGED <<subscription, version, paused, call, linked, members, inbox, roster, timers, tracked,
                     loaded>>
  BY DEF Channel!RequestFails, Channel!transport
<1>2. Typed'
  <2>1. paused' \in BOOLEAN /\ linked' \in BOOLEAN /\ loaded' \in BOOLEAN
    BY <1>1, Zenon DEF ChannelIInv, Typed
  <2> QED
    BY <1>1, <2>1 DEF ChannelIInv, Typed
<1>3. CallsOK'
  BY <1>1 DEF ChannelIInv, CallsOK
<1>4. ~paused' \/ subscription' = "subscribed" \/ (\E d \in Calls : call'[d].st = "ready" /\ call'[d].version = version')
           => AllCurrent
  BY <1>1 DEF ChannelIInv, Delivering, Channel!IsCurrent
<1>5. requests' \subseteq requests
  BY <1>1
<1> QED
  BY <1>1, <1>2, <1>3, <1>4, <1>5, InboxStays

\* Only a version that is there has timers: what it asks for is of this one.
LEMMA TimerFiresStep ==
  ASSUME Bounds, ChannelIInv, NEW v \in Channel!Versions, Channel!TimerFires(v)
  PROVE  ChannelIInv'
<1>1. /\ timers[v] > 0 /\ timers' = [timers EXCEPT ![v] = @ - 1] /\ tracked' = Channel!NoTimer
      /\ requests' \in {requests, requests \cup {v}}
      /\ UNCHANGED <<subscription, version, paused, call, linked, members, inbox, roster, loaded>>
  BY DEF Channel!TimerFires, Channel!transport
<1>2. timers \in [Channel!Versions -> 0..MaxTimers] /\ v <= version
  BY <1>1 DEF ChannelIInv, TimersOK
<1>3. timers[v] - 1 \in 0..MaxTimers /\ timers[v] \in 0..MaxTimers
  BY <1>1, <1>2 DEF Bounds
<1>4. /\ timers' \in [Channel!Versions -> 0..MaxTimers]
      /\ \A w \in Channel!Versions : timers'[w] > 0 => timers[w] > 0
      /\ \A w \in Channel!Versions : timers[w] = 0 => timers'[w] = 0
  <2>1. timers' \in [Channel!Versions -> 0..MaxTimers] /\ timers'[v] = timers[v] - 1
        /\ \A w \in Channel!Versions \ {v} : timers'[w] = timers[w]
    BY <1>1, <1>2, <1>3
  <2> QED
    BY <1>1, <2>1
<1>5. Typed' /\ CallsOK'
  <2>1. paused' \in BOOLEAN /\ linked' \in BOOLEAN /\ loaded' \in BOOLEAN
    BY <1>1, Zenon DEF ChannelIInv, Typed
  <2>2. Typed'
    BY <1>1, <2>1 DEF ChannelIInv, Typed
  <2>3. CallsOK'
    BY <1>1 DEF ChannelIInv, CallsOK
  <2> QED
    BY <2>2, <2>3
<1>6. TimersOK'
  <2>1. requests' \subseteq Channel!Versions
    BY <1>1 DEF ChannelIInv, TimersOK
  <2>2. \A w \in Channel!Versions : timers'[w] > 0 \/ w \in requests' => w <= version'
    BY <1>1, <1>2, <1>4 DEF ChannelIInv, TimersOK
  <2> QED
    BY <1>1, <1>4, <2>1, <2>2, NoTimerYet DEF TimersOK
<1>7. InOrder' /\ Delivering'
  BY <1>1 DEF ChannelIInv, InOrder, Delivering, AllCurrent, Channel!IsCurrent, Named
<1>8. Linked'
  BY <1>1 DEF ChannelIInv, Linked, Renews
<1>9. LastSays'
  BY <1>1 DEF ChannelIInv, LastSays, Tells, Says, NoMore, Renews
<1>10. PausedOK'
  <2>1. version \in Channel!Versions
    BY DEF ChannelIInv, Typed
  <2>2. paused => v # version
    BY <1>1 DEF ChannelIInv, PausedOK
  <2> QED
    BY <1>1, <1>4, <2>1, <2>2 DEF ChannelIInv, PausedOK
<1> QED
  BY <1>5, <1>6, <1>7, <1>8, <1>9, <1>10 DEF ChannelIInv

\* Nothing is on the way any more.
LEMMA NothingOnTheWay ==
  ASSUME Bounds, ChannelIInv, inbox' = <<>>, linked' = FALSE, loaded' \in BOOLEAN,
         UNCHANGED <<version, paused, members, roster, timers, tracked>>,
         subscription' \in {"none", "unsubscribed", "subscribing", "subscribed"},
         call' \in [Calls -> CallRecords], CallsOK', requests' \subseteq requests
  PROVE  ChannelIInv'
<1>1. Typed'
  <2>1. paused' \in BOOLEAN /\ linked' \in BOOLEAN
    BY Zenon DEF ChannelIInv, Typed
  <2>2. inbox' \in Seq(Channel!Events) /\ Len(inbox') <= MaxInbox
    BY DEF Bounds
  <2> QED
    BY <2>1, <2>2 DEF ChannelIInv, Typed
<1>2. TimersOK'
  BY DEF ChannelIInv, TimersOK
<1>3. InOrder' /\ Delivering' /\ Linked' /\ LastSays'
  BY DEF InOrder, Delivering, AllCurrent, Linked, LastSays
<1>4. PausedOK'
  BY DEF ChannelIInv, PausedOK
<1> QED
  BY <1>1, <1>2, <1>3, <1>4 DEF ChannelIInv

LEMMA RefusesStep == ASSUME Bounds, ChannelIInv, Channel!Refuses PROVE ChannelIInv'
<1>1. /\ inbox' = <<>> /\ linked' = FALSE /\ subscription' = "unsubscribed" /\ Channel!Settle("failed")
      /\ UNCHANGED <<version, paused, members, roster, timers, tracked, requests, loaded>>
  BY DEF Channel!Refuses, Channel!presence
<1>2. loaded' \in BOOLEAN
  BY <1>1, Zenon DEF ChannelIInv, Typed
<1>3. /\ call' \in [Calls -> CallRecords]
      /\ \A c \in Calls : /\ call'[c].version = call[c].version
                          /\ call'[c].st # "idle" => call[c].st # "idle"
  BY <1>1, SettledCalls
<1>4. CallsOK'
  BY <1>1, <1>3 DEF ChannelIInv, CallsOK
<1> QED
  BY <1>1, <1>2, <1>3, <1>4, NothingOnTheWay

LEMMA DropsStep == ASSUME Bounds, ChannelIInv, Channel!Drops PROVE ChannelIInv'
<1>1. /\ inbox' = <<>> /\ linked' = FALSE /\ loaded' = FALSE /\ requests' = {}
      /\ subscription' = IF subscription = "subscribed" THEN "subscribing" ELSE subscription
      /\ UNCHANGED <<version, paused, call, members, roster, timers, tracked>>
  BY DEF Channel!Drops
<1>2. loaded' \in BOOLEAN
  BY <1>1, Zenon
<1>3. call' \in [Calls -> CallRecords] /\ CallsOK'
  BY <1>1 DEF ChannelIInv, Typed, CallsOK
<1>4. subscription' \in {"none", "unsubscribed", "subscribing", "subscribed"}
  BY <1>1 DEF ChannelIInv, Typed
<1> QED
  BY <1>1, <1>2, <1>3, <1>4, NothingOnTheWay

-----------------------------------------------------------------------------
\* The server sends: what it sends about a member is so, and nobody else's
\* presence changes.

LEMMA Sent ==
  ASSUME Bounds, ChannelIInv, NEW e \in Channel!Events, Channel!Sends(e), linked' = TRUE,
         linked \/ (Renews(e) /\ subscription = "subscribing"),
         UNCHANGED <<subscription, version, paused, call, roster, timers, tracked, loaded>>,
         requests' \subseteq requests, members' \subseteq Members,
         Named(e) => e.version = version,
         e.type = "members" => e.version \in requests,
         \A m \in Members : IF Tells(e, m) THEN Says(e, m) <=> m \in members'
                            ELSE m \in members' <=> m \in members
  PROVE  ChannelIInv'
<1>1. /\ inbox' \in Seq(Channel!Events) /\ Len(inbox') = Len(inbox) + 1 /\ Len(inbox) < MaxInbox
      /\ Len(inbox) \in Nat /\ inbox'[Len(inbox) + 1] = e
      /\ \A i \in 1..Len(inbox) : inbox'[i] = inbox[i]
  BY Appended DEF ChannelIInv, Typed
<1>2. \A i \in 1..Len(inbox') : i \in 1..Len(inbox) \/ (i = Len(inbox) + 1 /\ inbox'[i] = e)
  BY <1>1
<1>3. Typed'
  <2>1. paused' \in BOOLEAN /\ linked' \in BOOLEAN /\ loaded' \in BOOLEAN
    BY Zenon DEF ChannelIInv, Typed
  <2>2. Len(inbox') <= MaxInbox
    BY <1>1 DEF Bounds
  <2> QED
    BY <1>1, <2>1, <2>2 DEF ChannelIInv, Typed
<1>4. CallsOK' /\ TimersOK'
  BY DEF ChannelIInv, CallsOK, TimersOK
<1>5. e.type \in {"subscribed", "publication", "members"} => e.version <= version
  <2>1. version \in Nat /\ version <= version
    BY DEF ChannelIInv, Typed, Channel!Versions
  <2>2. Named(e) => e.version <= version
    BY <2>1
  <2>3. e.type = "members" => e.version <= version
    BY DEF ChannelIInv, TimersOK
  <2> QED
    BY <2>2, <2>3 DEF Named
<1>6. InOrder'
  <2>1. \A i \in 1..Len(inbox') : inbox'[i].type \in {"subscribed", "publication", "members"} =>
          inbox'[i].version <= version'
    BY <1>1, <1>2, <1>5 DEF ChannelIInv, InOrder
  <2>2. ASSUME NEW i \in 1..Len(inbox'), NEW j \in 1..Len(inbox'), i < j,
               Named(inbox'[i]), Named(inbox'[j]), inbox'[i].version = version'
        PROVE  inbox'[j].version = version'
    <3>1. CASE j \in 1..Len(inbox)
      <4>1. i \in 1..Len(inbox) /\ inbox'[i] = inbox[i] /\ inbox'[j] = inbox[j]
        BY <1>1, <2>2, <3>1
      <4> QED
        BY <2>2, <3>1, <4>1 DEF ChannelIInv, InOrder
    <3>2. CASE j = Len(inbox) + 1
      BY <1>1, <2>2, <3>2
    <3> QED
      BY <1>2, <3>1, <3>2
  <2>3. \A i, j \in 1..Len(inbox') :
          i < j /\ Named(inbox'[i]) /\ Named(inbox'[j]) /\ inbox'[i].version = version' =>
            inbox'[j].version = version'
    BY <2>2
  <2> QED
    BY <2>1, <2>3 DEF InOrder, Named
<1>7. Delivering'
  <2>1. AllCurrent => \A i \in 1..Len(inbox') : Named(inbox'[i]) => inbox'[i].version = version'
    BY <1>1, <1>2 DEF AllCurrent
  <2>2. AllCurrent => AllCurrent'
    BY <2>1 DEF AllCurrent, Named
  <2> QED
    BY <2>2 DEF ChannelIInv, Delivering, Channel!IsCurrent
<1>8. Len(inbox) + 1 \in 1..Len(inbox')
  BY <1>1
<1>9. Linked'
  <2>1. CASE Renews(e)
    BY <1>1, <1>8, <2>1 DEF ChannelIInv, Linked, Renews
  <2>2. CASE ~Renews(e)
    <3>1. linked
      BY <2>2
    <3>2. \A i \in 1..Len(inbox) : i \in 1..Len(inbox') /\ inbox'[i] = inbox[i]
      BY <1>1
    <3> QED
      BY <3>1, <3>2 DEF ChannelIInv, Linked, Renews
  <2> QED
    BY <2>1, <2>2
<1>10. LastSays'
  <2> SUFFICES ASSUME NEW m \in Members
               PROVE  /\ \A i \in 1..Len(inbox') : Tells(inbox[i], m)' /\ NoMore(i, m)' =>
                           (Says(inbox[i], m)' <=> m \in members')
                      /\ loaded' /\ NoMore(0, m)' => (m \in roster' <=> m \in members')
    BY DEF LastSays
  <2>1. ASSUME NEW i \in 0..Len(inbox), NoMore(i, m)'
        PROVE  linked /\ NoMore(i, m) /\ (m \in members' <=> m \in members)
    <3>1. ~Tells(e, m) /\ ~Renews(e)
      BY <1>1, <1>8, <2>1 DEF NoMore, Tells, Renews
    <3>2. \A j \in 1..Len(inbox) : j \in 1..Len(inbox') /\ inbox'[j] = inbox[j]
      BY <1>1
    <3>3. NoMore(i, m)
      BY <2>1, <3>2 DEF NoMore, Tells, Renews
    <3> QED
      BY <3>1, <3>3
  <2>2. ASSUME NEW i \in 1..Len(inbox'), Tells(inbox[i], m)', NoMore(i, m)'
        PROVE  Says(inbox[i], m)' <=> m \in members'
    <3>1. CASE i \in 1..Len(inbox)
      <4>1. i \in 0..Len(inbox) /\ inbox'[i] = inbox[i]
        BY <1>1, <3>1
      <4>2. Tells(inbox[i], m)
        BY <2>2, <4>1 DEF Tells
      <4>3. linked /\ NoMore(i, m) /\ (m \in members' <=> m \in members)
        BY <2>1, <2>2, <4>1
      <4> QED
        BY <3>1, <4>1, <4>2, <4>3 DEF ChannelIInv, LastSays, Says
    <3>2. CASE i = Len(inbox) + 1
      <4>1. Tells(e, m)
        BY <1>1, <2>2, <3>2 DEF Tells
      <4> QED
        BY <1>1, <3>2, <4>1 DEF Says
    <3> QED
      BY <1>2, <3>1, <3>2
  <2>3. ASSUME loaded', NoMore(0, m)' PROVE m \in roster' <=> m \in members'
    <3>1. linked /\ NoMore(0, m) /\ (m \in members' <=> m \in members)
      BY <1>1, <2>1, <2>3
    <3> QED
      BY <2>3, <3>1 DEF ChannelIInv, LastSays
  <2> QED
    BY <2>2, <2>3
<1>11. PausedOK'
  BY <1>1, <1>2 DEF ChannelIInv, PausedOK
<1> QED
  BY <1>3, <1>4, <1>6, <1>7, <1>9, <1>10, <1>11 DEF ChannelIInv

LEMMA AcceptsStep == ASSUME Bounds, ChannelIInv, Channel!Accepts PROVE ChannelIInv'
<1> DEFINE e == [type |-> "subscribed", version |-> version]
<1>1. e \in Channel!Events /\ e.type = "subscribed" /\ e.version = version
  BY DEF ChannelIInv, Typed, Channel!Events
<1>2. PICK x : x = e
  OBVIOUS
<1>3. /\ Channel!Sends(x) /\ linked' = TRUE /\ subscription = "subscribing"
      /\ UNCHANGED <<subscription, version, paused, call, members, roster, timers, tracked, requests, loaded>>
  BY <1>2 DEF Channel!Accepts, Channel!presence
<1>4. x \in Channel!Events /\ Renews(x) /\ Named(x) /\ x.version = version /\ x.type = "subscribed" /\ \A m \in Members : ~Tells(x, m)
  BY <1>1, <1>2 DEF Renews, Named, Tells
<1>5. members \subseteq Members
  BY DEF ChannelIInv, Typed
<1> QED
  BY <1>3, <1>4, <1>5, Sent

LEMMA PublishesStep == ASSUME Bounds, ChannelIInv, Channel!Publishes PROVE ChannelIInv'
<1> DEFINE e == [type |-> "publication", version |-> version]
<1>1. e \in Channel!Events /\ e.type = "publication" /\ e.version = version
  BY DEF ChannelIInv, Typed, Channel!Events
<1>2. PICK x : x = e
  OBVIOUS
<1>3. /\ Channel!Sends(x) /\ linked
      /\ UNCHANGED <<subscription, version, paused, call, linked, members, roster, timers, tracked, requests, loaded>>
  BY <1>2 DEF Channel!Publishes, Channel!presence
<1>4. x \in Channel!Events /\ Named(x) /\ x.version = version /\ x.type = "publication" /\ \A m \in Members : ~Tells(x, m)
  BY <1>1, <1>2 DEF Named, Tells
<1>5. members \subseteq Members /\ linked' = TRUE
  BY <1>3, Zenon DEF ChannelIInv, Typed
<1> QED
  BY <1>3, <1>4, <1>5, Sent

\* Members are asked for by a version and sent as they are.
LEMMA SendsMembersStep ==
  ASSUME Bounds, ChannelIInv, NEW v \in Channel!Versions, Channel!SendsMembers(v)
  PROVE  ChannelIInv'
<1> DEFINE e == [type |-> "members", members |-> members, version |-> v]
<1>1. e \in Channel!Events /\ e.type = "members" /\ e.version = v /\ e.members = members
  BY DEF ChannelIInv, Typed, Channel!Events
<1>2. PICK x : x = e
  OBVIOUS
<1>3. /\ Channel!Sends(x) /\ linked /\ v \in requests /\ requests' = requests \ {v}
      /\ UNCHANGED <<subscription, version, paused, call, linked, members, roster, timers, tracked, loaded>>
  BY <1>2 DEF Channel!SendsMembers
<1>4. /\ x \in Channel!Events /\ ~Named(x) /\ x.version = v /\ x.type = "members"
      /\ \A m \in Members : Says(x, m) <=> m \in members
  BY <1>1, <1>2 DEF Named, Says
<1>5. members \subseteq Members /\ linked' = TRUE /\ requests' \subseteq requests
  BY <1>3, Zenon DEF ChannelIInv, Typed
<1> QED
  BY <1>3, <1>4, <1>5, Sent

\* Who is there changes, and the server tells a subscription it is linked with.
LEMMA Told ==
  ASSUME Bounds, ChannelIInv, NEW m \in Members, NEW type \in {"join", "leave"},
         members' = IF type = "join" THEN members \cup {m} ELSE members \ {m},
         IF linked THEN Channel!Sends([type |-> type, member |-> m]) ELSE UNCHANGED inbox,
         UNCHANGED <<subscription, version, paused, call, linked, roster, timers, tracked, requests, loaded>>
  PROVE  ChannelIInv'
<1>1. members' \subseteq Members
  BY DEF ChannelIInv, Typed
<1>2. CASE linked
  <2> DEFINE e == [type |-> type, member |-> m]
  <2>1. PICK x : x = e
    OBVIOUS
  <2>2. x \in Channel!Events /\ x.type = type /\ x.member = m /\ Channel!Sends(x)
    BY <1>2, <2>1 DEF Channel!Events
  <2>3. ~Named(x) /\ x.type # "members" /\ \A n \in Members : Tells(x, n) <=> n = m
    BY <2>2 DEF Named, Tells
  <2>4. Says(x, m) <=> type = "join"
    BY <2>2 DEF Says
  <2>5. linked' = TRUE
    BY <1>2, Zenon DEF ChannelIInv, Typed
  <2>6. \A n \in Members : IF Tells(x, n) THEN Says(x, n) <=> n \in members'
                           ELSE n \in members' <=> n \in members
    BY <2>3, <2>4
  <2> QED
    BY <1>1, <1>2, <2>2, <2>3, <2>5, <2>6, Sent
<1>3. CASE ~linked
  <2>1. Typed'
    <3>1. paused' \in BOOLEAN /\ linked' \in BOOLEAN /\ loaded' \in BOOLEAN
      BY Zenon DEF ChannelIInv, Typed
    <3> QED
      BY <1>1, <1>3, <3>1 DEF ChannelIInv, Typed
  <2>2. CallsOK' /\ TimersOK' /\ InOrder' /\ Delivering' /\ PausedOK'
    BY <1>3
      DEF ChannelIInv, CallsOK, TimersOK, InOrder, Delivering, AllCurrent, Channel!IsCurrent, Named,
         PausedOK
  <2>3. Linked' /\ LastSays'
    BY <1>3 DEF Linked, LastSays
  <2> QED
    BY <2>1, <2>2, <2>3 DEF ChannelIInv
<1> QED
  BY <1>2, <1>3

LEMMA JoinsStep == ASSUME Bounds, ChannelIInv, NEW m \in Members, Channel!Joins(m) PROVE ChannelIInv'
BY Told DEF Channel!Joins, Channel!presence

LEMMA LeavesStep ==
  ASSUME Bounds, ChannelIInv, NEW m \in Members, Channel!Leaves(m)
  PROVE  ChannelIInv'
BY Told DEF Channel!Leaves, Channel!presence

\* What is the last word about a member stays so when something arrives.
LEMMA StillNoMore ==
  ASSUME ChannelIInv, inbox # <<>>, inbox' = Tail(inbox), UNCHANGED version,
         NEW m \in Members, NEW i \in 0..Len(inbox'), NoMore(i, m)'
  PROVE  NoMore(i + 1, m)
<1>1. /\ inbox' \in Seq(Channel!Events) /\ Len(inbox) \in Nat \ {0} /\ Len(inbox') = Len(inbox) - 1
      /\ \A j \in 1..Len(inbox') : inbox'[j] = inbox[j + 1]
  BY HeadTaken DEF ChannelIInv, Typed
<1> SUFFICES ASSUME NEW j \in 1..Len(inbox), j > i + 1
             PROVE  ~Tells(inbox[j], m) /\ ~Renews(inbox[j])
  BY DEF NoMore
<1>2. j - 1 \in 1..Len(inbox') /\ j - 1 > i /\ (j - 1) + 1 = j
  BY <1>1
<1>3. inbox'[j - 1] = inbox[j]
  BY <1>1, <1>2
<1> QED
  BY <1>2, <1>3 DEF NoMore, Tells, Renews

LEMMA StillSays ==
  ASSUME ChannelIInv, linked, inbox # <<>>, inbox' = Tail(inbox), UNCHANGED <<version, members>>,
         NEW m \in Members, NEW i \in 1..Len(inbox'), Tells(inbox[i], m)', NoMore(i, m)'
  PROVE  Says(inbox[i], m)' <=> m \in members'
<1>1. /\ inbox' \in Seq(Channel!Events) /\ Len(inbox') \in Nat
      /\ \A j \in 1..Len(inbox') : inbox'[j] = inbox[j + 1] /\ j + 1 \in 1..Len(inbox)
  BY HeadTaken DEF ChannelIInv, Typed
<1>2. i + 1 \in 1..Len(inbox) /\ inbox'[i] = inbox[i + 1] /\ i \in 0..Len(inbox')
  BY <1>1
<1>3. Tells(inbox[i + 1], m)
  BY <1>2 DEF Tells
<1>4. NoMore(i + 1, m)
  BY <1>2, StillNoMore
<1>5. Says(inbox[i + 1], m) <=> m \in members
  BY <1>2, <1>3, <1>4 DEF ChannelIInv, LastSays
<1> QED
  BY <1>2, <1>5 DEF Says

-----------------------------------------------------------------------------
\* Something arrives that is not the start of the subscription there is.  When
\* it is about a member, the roster follows it.

LEMMA Taken ==
  ASSUME Bounds, ChannelIInv, inbox # <<>>, inbox' = Tail(inbox), ~Renews(Head(inbox)),
         UNCHANGED <<subscription, version, paused, call, linked, members, timers, tracked, requests>>,
         roster' \subseteq Members, loaded' \in BOOLEAN,
         paused => roster' = roster,
         ~paused /\ linked => \A m \in Members :
           IF Tells(Head(inbox), m) THEN loaded' => (m \in roster' <=> Says(Head(inbox), m))
           ELSE loaded' => loaded /\ (m \in roster' <=> m \in roster)
  PROVE  ChannelIInv'
<1>1. /\ inbox' \in Seq(Channel!Events) /\ Len(inbox) \in Nat \ {0} /\ Len(inbox') = Len(inbox) - 1
      /\ Head(inbox) = inbox[1] /\ 1 \in 1..Len(inbox)
      /\ \A i \in 1..Len(inbox') : inbox'[i] = inbox[i + 1] /\ i + 1 \in 1..Len(inbox)
  BY HeadTaken DEF ChannelIInv, Typed
<1>2. \A j \in 1..Len(inbox) : j = 1 \/ (j - 1 \in 1..Len(inbox') /\ inbox'[j - 1] = inbox[j])
  <2> SUFFICES ASSUME NEW j \in 1..Len(inbox), j # 1
               PROVE  j - 1 \in 1..Len(inbox') /\ inbox'[j - 1] = inbox[j]
    OBVIOUS
  <2>1. j - 1 \in 1..Len(inbox') /\ (j - 1) + 1 = j
    BY <1>1
  <2> QED
    BY <1>1, <2>1
<1>3. Typed'
  <2>1. paused' \in BOOLEAN /\ linked' \in BOOLEAN
    BY Zenon DEF ChannelIInv, Typed
  <2>2. Len(inbox) <= MaxInbox
    BY DEF ChannelIInv, Typed
  <2>3. Len(inbox') <= MaxInbox
    BY <1>1, <2>2 DEF Bounds
  <2> QED
    BY <1>1, <2>1, <2>3 DEF ChannelIInv, Typed
<1>4. CallsOK' /\ TimersOK'
  BY DEF ChannelIInv, CallsOK, TimersOK
<1>5. InOrder'
  <2>1. \A i \in 1..Len(inbox') : inbox'[i].type \in {"subscribed", "publication", "members"} =>
          inbox'[i].version <= version'
    BY <1>1 DEF ChannelIInv, InOrder
  <2>2. ASSUME NEW i \in 1..Len(inbox'), NEW j \in 1..Len(inbox'), i < j,
               Named(inbox'[i]), Named(inbox'[j]), inbox'[i].version = version'
        PROVE  inbox'[j].version = version'
    <3>1. i + 1 < j + 1 /\ i + 1 \in 1..Len(inbox) /\ j + 1 \in 1..Len(inbox)
      BY <1>1, <2>2
    <3> QED
      BY <1>1, <2>2, <3>1 DEF ChannelIInv, InOrder
  <2>3. \A i, j \in 1..Len(inbox') :
          i < j /\ Named(inbox'[i]) /\ Named(inbox'[j]) /\ inbox'[i].version = version' =>
            inbox'[j].version = version'
    BY <2>2
  <2> QED
    BY <2>1, <2>3 DEF InOrder, Named
<1>6. Delivering'
  <2>1. AllCurrent => AllCurrent'
    BY <1>1 DEF AllCurrent, Named
  <2> QED
    BY <2>1 DEF ChannelIInv, Delivering, Channel!IsCurrent
<1>7. ASSUME \A i \in 1..Len(inbox') : ~Renews(inbox[i])'
      PROVE  \A i \in 1..Len(inbox) : ~Renews(inbox[i])
  <2> SUFFICES ASSUME NEW i \in 1..Len(inbox), Renews(inbox[i]) PROVE FALSE
    OBVIOUS
  <2>1. i # 1
    BY <1>1
  <2>2. i - 1 \in 1..Len(inbox') /\ inbox'[i - 1] = inbox[i]
    BY <1>2, <2>1
  <2> QED
    BY <1>7, <2>2 DEF Renews
<1>8. Linked'
  BY <1>7 DEF ChannelIInv, Linked
<1>9. LastSays'
  <2> SUFFICES ASSUME linked, NEW m \in Members
               PROVE  /\ \A i \in 1..Len(inbox') : Tells(inbox[i], m)' /\ NoMore(i, m)' =>
                           (Says(inbox[i], m)' <=> m \in members')
                      /\ loaded' /\ NoMore(0, m)' => (m \in roster' <=> m \in members')
    BY DEF LastSays
  <2>2. ASSUME NEW i \in 1..Len(inbox'), Tells(inbox[i], m)', NoMore(i, m)'
        PROVE  Says(inbox[i], m)' <=> m \in members'
    BY <2>2, StillSays
  <2>3. ASSUME loaded', NoMore(0, m)' PROVE m \in roster' <=> m \in members'
    <3>1. NoMore(1, m)
      <4>1. PICK i \in 0..Len(inbox') : i = 0
        BY <1>1
      <4>2. NoMore(i, m)'
        BY <2>3, <4>1 DEF NoMore, Tells, Renews
      <4>3. NoMore(i + 1, m)
        BY <4>2, StillNoMore
      <4> QED
        BY <4>1, <4>3
    <3>2. ~paused
      <4>1. \A i \in 1..Len(inbox') : ~Renews(inbox[i])'
        BY <1>1, <2>3 DEF NoMore
      <4> QED
        BY <1>7, <4>1 DEF ChannelIInv, Linked
    <3>3. CASE Tells(Head(inbox), m)
      BY <1>1, <2>3, <3>1, <3>2, <3>3 DEF ChannelIInv, LastSays
    <3>4. CASE ~Tells(Head(inbox), m)
      <4>1. NoMore(0, m)
        <5> SUFFICES ASSUME NEW j \in 1..Len(inbox)
                     PROVE  ~Tells(inbox[j], m) /\ ~Renews(inbox[j])
          BY DEF NoMore
        <5>1. j = 1 \/ j > 1
          BY <1>1
        <5> QED
          BY <1>1, <3>1, <3>4, <5>1 DEF NoMore
      <4> QED
        BY <2>3, <3>2, <3>4, <4>1 DEF ChannelIInv, LastSays
    <3> QED
      BY <3>3, <3>4
  <2> QED
    BY <2>2, <2>3
<1>10. PausedOK'
  BY <1>1 DEF ChannelIInv, PausedOK
<1> QED
  BY <1>3, <1>4, <1>5, <1>6, <1>8, <1>9, <1>10 DEF ChannelIInv

LEMMA PublicationStep == ASSUME Bounds, ChannelIInv, Channel!PublicationArrives PROVE ChannelIInv'
<1>1. /\ inbox # <<>> /\ inbox' = Tail(inbox) /\ Head(inbox).type = "publication"
      /\ UNCHANGED <<subscription, version, paused, call, linked, members, roster, timers, tracked, requests, loaded>>
  BY DEF Channel!PublicationArrives, Channel!Arrives
<1>2. ~Renews(Head(inbox)) /\ \A m \in Members : ~Tells(Head(inbox), m)
  BY <1>1 DEF Renews, Tells
<1>3. roster' \subseteq Members /\ loaded' \in BOOLEAN
  BY <1>1, Zenon DEF ChannelIInv, Typed
<1>4. loaded' => loaded
  BY <1>1
<1> QED
  BY <1>1, <1>2, <1>3, <1>4, Taken

LEMMA JoinStep == ASSUME Bounds, ChannelIInv, Channel!JoinArrives PROVE ChannelIInv'
<1>1. /\ inbox # <<>> /\ inbox' = Tail(inbox) /\ Head(inbox).type = "join"
      /\ roster' = IF paused \/ subscription = "none" THEN roster ELSE roster \cup {Head(inbox).member}
      /\ UNCHANGED <<subscription, version, paused, call, linked, members, timers, tracked, requests, loaded>>
  BY DEF Channel!JoinArrives, Channel!Arrives
<1>2. /\ ~Renews(Head(inbox)) /\ \A m \in Members : Tells(Head(inbox), m) <=> Head(inbox).member = m
      /\ \A m \in Members : Says(Head(inbox), m)
  BY <1>1 DEF Renews, Tells, Says
<1>3. Head(inbox) \in Channel!Events
  BY <1>1 DEF ChannelIInv, Typed
<1>4. roster' \subseteq Members
  BY <1>1, <1>3, EventsTyped DEF ChannelIInv, Typed
<1>5. loaded' \in BOOLEAN /\ (loaded' => loaded)
  BY <1>1, Zenon DEF ChannelIInv, Typed
<1>6. ~paused /\ linked => roster' = roster \cup {Head(inbox).member}
  BY <1>1 DEF ChannelIInv, Linked
<1> QED
  BY <1>1, <1>2, <1>4, <1>5, <1>6, Taken

LEMMA LeaveStep == ASSUME Bounds, ChannelIInv, Channel!LeaveArrives PROVE ChannelIInv'
<1>1. /\ inbox # <<>> /\ inbox' = Tail(inbox) /\ Head(inbox).type = "leave"
      /\ roster' = IF paused \/ subscription = "none" THEN roster ELSE roster \ {Head(inbox).member}
      /\ UNCHANGED <<subscription, version, paused, call, linked, members, timers, tracked, requests, loaded>>
  BY DEF Channel!LeaveArrives, Channel!Arrives
<1>2. /\ ~Renews(Head(inbox)) /\ \A m \in Members : Tells(Head(inbox), m) <=> Head(inbox).member = m
      /\ \A m \in Members : ~Says(Head(inbox), m)
  BY <1>1 DEF Renews, Tells, Says
<1>3. roster' \subseteq Members
  BY <1>1 DEF ChannelIInv, Typed
<1>4. loaded' \in BOOLEAN /\ (loaded' => loaded)
  BY <1>1, Zenon DEF ChannelIInv, Typed
<1>5. ~paused /\ linked => roster' = roster \ {Head(inbox).member}
  BY <1>1 DEF ChannelIInv, Linked
<1> QED
  BY <1>1, <1>2, <1>3, <1>4, <1>5, Taken

LEMMA MembersStep == ASSUME Bounds, ChannelIInv, Channel!MembersArrive PROVE ChannelIInv'
<1>1. /\ inbox # <<>> /\ inbox' = Tail(inbox) /\ Head(inbox).type = "members"
      /\ IF Head(inbox).version = version
         THEN roster' = Head(inbox).members /\ (loaded' = TRUE)
         ELSE UNCHANGED <<roster, loaded>>
      /\ UNCHANGED <<subscription, version, paused, call, linked, members, timers, tracked, requests>>
  BY DEF Channel!MembersArrive, Channel!Arrives, Channel!Fresh, Channel!Snapshot
<1>2. /\ ~Renews(Head(inbox)) /\ \A m \in Members : Tells(Head(inbox), m) <=> Head(inbox).version = version
      /\ \A m \in Members : Says(Head(inbox), m) <=> m \in Head(inbox).members
  BY <1>1 DEF Renews, Tells, Says
<1>3. Head(inbox) \in Channel!Events /\ Head(inbox) = inbox[1] /\ 1 \in 1..Len(inbox)
  BY <1>1 DEF ChannelIInv, Typed
<1>4. roster' \subseteq Members
  BY <1>1, <1>3, EventsTyped DEF ChannelIInv, Typed
<1>5. loaded' \in BOOLEAN /\ (Head(inbox).version # version => (loaded' => loaded))
  BY <1>1, Zenon DEF ChannelIInv, Typed
<1>6. paused => Head(inbox).version # version
  BY <1>1, <1>3 DEF ChannelIInv, PausedOK
<1> QED
  BY <1>1, <1>2, <1>4, <1>5, <1>6, Taken

\* The subscription begins: what is on the way is of it, and whoever is in the
\* roster is to be told anew.
LEMMA ChannelSubscribedStep ==
  ASSUME Bounds, ChannelIInv, Channel!SubscribedArrives
  PROVE  ChannelIInv'
<1>1. /\ inbox # <<>> /\ inbox' = Tail(inbox) /\ Head(inbox).type = "subscribed"
      /\ UNCHANGED <<version, linked, members, requests, roster>>
  BY DEF Channel!SubscribedArrives, Channel!Arrives
<1>2. CASE Head(inbox).version # version
  <2>1. UNCHANGED <<subscription, paused, timers, tracked, loaded, call>>
    BY <1>2 DEF Channel!SubscribedArrives
  <2>2. ~Renews(Head(inbox)) /\ \A m \in Members : ~Tells(Head(inbox), m)
    BY <1>1, <1>2 DEF Renews, Tells
  <2>3. roster' \subseteq Members /\ loaded' \in BOOLEAN /\ (loaded' => loaded)
    BY <1>1, <2>1, Zenon DEF ChannelIInv, Typed
  <2> QED
    BY <1>1, <2>1, <2>2, <2>3, Taken
<1>3. CASE Head(inbox).version = version
  <2>1. /\ subscription' = "subscribed" /\ (paused' = FALSE) /\ (loaded' = FALSE) /\ Channel!Settle("ready")
        /\ timers[version] < MaxTimers /\ timers' = [timers EXCEPT ![version] = @ + 1] /\ tracked' = version
    BY <1>3 DEF Channel!SubscribedArrives
  <2>2. paused' \in BOOLEAN /\ loaded' \in BOOLEAN /\ linked' \in BOOLEAN /\ ~paused' /\ ~loaded'
    BY <1>1, <2>1, Zenon DEF ChannelIInv, Typed
  <2>3. /\ inbox' \in Seq(Channel!Events) /\ Len(inbox) \in Nat \ {0} /\ Len(inbox') = Len(inbox) - 1
        /\ Head(inbox) = inbox[1] /\ 1 \in 1..Len(inbox)
        /\ \A i \in 1..Len(inbox') : inbox'[i] = inbox[i + 1] /\ i + 1 \in 1..Len(inbox) /\ 1 < i + 1
    BY <1>1, HeadTaken DEF ChannelIInv, Typed
  <2>4. /\ call' \in [Calls -> CallRecords]
        /\ \A c \in Calls : /\ call'[c].version = call[c].version
                            /\ call'[c].st # "idle" => call[c].st # "idle"
    BY <2>1, SettledCalls
  <2>5. Typed'
    <3>1. Len(inbox) <= MaxInbox
      BY DEF ChannelIInv, Typed
    <3>2. Len(inbox') <= MaxInbox
      BY <2>3, <3>1 DEF Bounds
    <3> QED
      BY <1>1, <2>1, <2>2, <2>3, <2>4, <3>2 DEF ChannelIInv, Typed
  <2>6. CallsOK'
    BY <1>1, <2>4 DEF ChannelIInv, CallsOK
  <2>7. TimersOK'
    <3>1. version \in Channel!Versions /\ timers \in [Channel!Versions -> 0..MaxTimers] /\ version <= version
      BY DEF ChannelIInv, Typed, TimersOK, Channel!Versions
    <3>2. timers[version] + 1 \in 1..MaxTimers /\ timers[version] + 1 > 0
      BY <2>1, <3>1 DEF Bounds
    <3>3. /\ timers' \in [Channel!Versions -> 0..MaxTimers] /\ timers'[version] > 0
          /\ \A v \in Channel!Versions : v = version \/ timers'[v] = timers[v]
      BY <2>1, <3>1, <3>2
    <3>4. \A v \in Channel!Versions : timers'[v] > 0 \/ v \in requests' => v <= version'
      BY <1>1, <3>1, <3>3 DEF ChannelIInv, TimersOK
    <3> QED
      BY <1>1, <2>1, <3>1, <3>3, <3>4 DEF ChannelIInv, TimersOK
  <2>8. AllCurrent'
    <3>1. Named(inbox[1])
      BY <1>1, <2>3 DEF Named
    <3>2. \A j \in 1..Len(inbox) : 1 < j /\ Named(inbox[j]) => inbox[j].version = version
      BY <1>3, <2>3, <3>1 DEF ChannelIInv, InOrder
    <3>3. \A i \in 1..Len(inbox') : Named(inbox'[i]) => inbox'[i].version = version'
      BY <1>1, <2>3, <3>2
    <3> QED
      BY <3>3 DEF AllCurrent, Named
  <2>9. InOrder'
    <3>1. \A i \in 1..Len(inbox') : inbox'[i].type \in {"subscribed", "publication", "members"} =>
            inbox'[i].version <= version'
      BY <1>1, <2>3 DEF ChannelIInv, InOrder
    <3> QED
      BY <2>8, <3>1 DEF InOrder, AllCurrent, Named
  <2>10. Delivering' /\ Linked' /\ PausedOK'
    BY <1>1, <2>1, <2>2, <2>8 DEF Delivering, Linked, PausedOK
  <2>11. LastSays'
    <3>1. ASSUME linked, NEW m \in Members, NEW i \in 1..Len(inbox'), Tells(inbox[i], m)', NoMore(i, m)'
          PROVE  Says(inbox[i], m)' <=> m \in members'
      BY <1>1, <3>1, StillSays
    <3> QED
      BY <1>1, <2>2, <3>1 DEF LastSays
  <2> QED
    BY <2>5, <2>6, <2>7, <2>9, <2>10, <2>11 DEF ChannelIInv
<1> QED
  BY <1>2, <1>3

-----------------------------------------------------------------------------
LEMMA ChannelNothingMoves == ASSUME Bounds, ChannelIInv, UNCHANGED Channel!vars PROVE ChannelIInv'
<1>1. /\ UNCHANGED <<subscription, version, paused, call, linked, members, inbox>>
      /\ UNCHANGED <<roster, timers, tracked, requests, loaded>>
  BY DEF Channel!vars, Channel!transport, Channel!presence
<1>2. Typed' /\ CallsOK' /\ TimersOK' /\ PausedOK'
  <2>1. paused' \in BOOLEAN /\ linked' \in BOOLEAN /\ loaded' \in BOOLEAN
    BY <1>1, Zenon DEF ChannelIInv, Typed
  <2>2. Typed'
    BY <1>1, <2>1 DEF ChannelIInv, Typed
  <2> QED
    BY <1>1, <2>2 DEF ChannelIInv, CallsOK, TimersOK, PausedOK
<1>3. InOrder' /\ Delivering' /\ Linked'
  BY <1>1 DEF ChannelIInv, InOrder, Delivering, AllCurrent, Channel!IsCurrent, Named, Linked, Renews
<1>4. LastSays'
  BY <1>1 DEF ChannelIInv, LastSays, Tells, Says, NoMore, Renews
<1> QED
  BY <1>2, <1>3, <1>4 DEF ChannelIInv

LEMMA ChannelStep ==
  ASSUME Bounds, ChannelIInv, [Channel!Next]_Channel!vars
  PROVE  ChannelIInv'
<1>1. CASE Channel!Next
  <2>1. ASSUME NEW c \in Calls, Channel!Subscribe(c) PROVE ChannelIInv'
    BY <1>1, <2>1, SubscribeStep
  <2>2. ASSUME NEW c \in Calls, Channel!CallStep(c) PROVE ChannelIInv'
    BY <1>1, <2>2, ResolvesStep, RejectsStep, TimesOutStep DEF Channel!CallStep
  <2>3. ASSUME NEW m \in Members, Channel!Joins(m) \/ Channel!Leaves(m) PROVE ChannelIInv'
    BY <1>1, <2>3, JoinsStep, LeavesStep
  <2>4. ASSUME NEW v \in Channel!Versions, Channel!SendsMembers(v) \/ Channel!RequestFails(v) \/ Channel!TimerFires(v) PROVE ChannelIInv'
    BY <1>1, <2>4, SendsMembersStep, RequestFailsStep, TimerFiresStep
  <2>5. ASSUME Channel!Arrival PROVE ChannelIInv'
    BY <1>1, <2>5, ChannelSubscribedStep, PublicationStep, JoinStep, LeaveStep, MembersStep
      DEF Channel!Arrival
  <2> QED
    BY <1>1, <2>1, <2>2, <2>3, <2>4, <2>5, ResetStep, AcceptsStep, RefusesStep, DropsStep,
       PublishesStep DEF Channel!Next
<1> QED
  BY <1>1, ChannelNothingMoves

LEMMA ChannelInvariance == ASSUME Bounds PROVE Channel!Spec => []ChannelIInv
BY ChannelInitOK, ChannelStep, PTL DEF Channel!Spec

-----------------------------------------------------------------------------
\* Every variable keeps its type, whatever the bounds are.
THEOREM ChannelTypeCorrect == ASSUME Bounds PROVE Channel!Spec => []Channel!TypeOK
<1>1. ChannelIInv => Channel!TypeOK
  BY DEF ChannelIInv, Channel!TypeOK, Typed, TimersOK, CallRecords
<1> QED
  BY <1>1, ChannelInvariance, PTL

LEMMA HeadIsCurrent == ASSUME Bounds PROVE ChannelIInv => Channel!NothingOld
<1> SUFFICES ASSUME ChannelIInv, Channel!Delivers PROVE Head(inbox).version = version
  BY DEF Channel!NothingOld
<1>1. inbox # <<>> /\ Head(inbox).type = "publication" /\ inbox \in Seq(Channel!Events)
  BY DEF Channel!Delivers, ChannelIInv, Typed
<1>2. Head(inbox) = inbox[1] /\ 1 \in 1..Len(inbox)
  BY <1>1
<1> QED
  BY <1>1, <1>2 DEF Channel!Delivers, ChannelIInv, Delivering, AllCurrent, Named

\* What reaches the handlers was sent to the subscription there is: nothing
\* that arrives late, or while the channel is paused, is delivered afterwards.
THEOREM DeliversNothingOld == ASSUME Bounds PROVE Channel!Spec => []Channel!NothingOld
BY HeadIsCurrent, ChannelInvariance, PTL

LEMMA RosterIsRight == ASSUME Bounds PROVE ChannelIInv => Channel!RosterFollows
<1>1. ASSUME ChannelIInv, paused PROVE roster = {}
  BY <1>1 DEF ChannelIInv, PausedOK
<1>2. ASSUME ChannelIInv, ~paused, Channel!UpToDate PROVE roster = members
  <2>1. \A m \in Members : NoMore(0, m)
    BY <1>2 DEF Channel!UpToDate, NoMore, Tells, Renews
  <2>2. \A m \in Members : m \in roster <=> m \in members
    BY <1>2, <2>1 DEF Channel!UpToDate, ChannelIInv, LastSays
  <2> QED
    BY <1>2, <2>2 DEF ChannelIInv, Typed
<1> QED
  BY <1>1, <1>2 DEF Channel!RosterFollows

\* Once the members arrived and no join or leave is on the way, the roster is
\* the server's; and a paused channel has none.
THEOREM RosterIsTheServers == ASSUME Bounds PROVE Channel!Spec => []Channel!RosterFollows
BY RosterIsRight, ChannelInvariance, PTL

-----------------------------------------------------------------------------
\* RealtimeConnection.

\* An orderly application has one open transport client: the one it has, which an
\* attempt begins without or finds closed, and which it wants.
Orderly ==
  orderly =>
    /\ \A c \in Connection!Clients : Connection!Open(c) => c = current
    /\ attempt = "loading" => wanted /\ (current = 0 \/ ~Connection!Open(current))
    /\ connected => current # 0
    /\ ~wanted => current = 0

ConnectionIInv == Connection!TypeOK /\ Orderly

LEMMA ConnectionInitOK == ASSUME Bounds PROVE Connection!Init => ConnectionIInv
<1> SUFFICES ASSUME Connection!Init PROVE ConnectionIInv
  OBVIOUS
<1>1. connected \in BOOLEAN /\ wanted \in BOOLEAN /\ orderly \in BOOLEAN /\ ~connected
  BY Zenon DEF Connection!Init
<1>2. Connection!TypeOK
  BY <1>1 DEF Connection!Init, Connection!TypeOK
<1>3. Orderly
  BY <1>1 DEF Connection!Init, Orderly, Connection!Open
<1> QED
  BY <1>2, <1>3 DEF ConnectionIInv

\* A client is no number of none.
LEMMA ClientsArePositive == ASSUME Bounds PROVE 0 \notin Connection!Clients
BY DEF Bounds, Connection!Clients

LEMMA ConnectStep == ASSUME Bounds, ConnectionIInv, Connection!Connect PROVE ConnectionIInv'
<1>1. (wanted' = TRUE) /\ UNCHANGED <<transport, wired, current, connected, bound>>
      /\ attempt' = IF Connection!Idle THEN "loading" ELSE attempt
  BY DEF Connection!Connect
<1>2. connected' \in BOOLEAN /\ wanted' \in BOOLEAN /\ orderly' \in BOOLEAN /\ wanted'
      /\ (orderly' => \/ ~Connection!Idle /\ orderly
                      \/ orderly /\ (current = 0 \/ ~Connection!Open(current)))
  BY <1>1, Zenon DEF Connection!Connect, Connection!Idle, ConnectionIInv, Connection!TypeOK
<1>3. Connection!TypeOK'
  BY <1>1, <1>2 DEF ConnectionIInv, Connection!TypeOK
<1>4. orderly' /\ attempt' = "loading" => current' = 0 \/ ~Connection!Open(current)'
  BY <1>1, <1>2 DEF ConnectionIInv, Orderly, Connection!Open
<1>5. Orderly'
  BY <1>1, <1>2, <1>4 DEF ConnectionIInv, Orderly, Connection!Open
<1> QED
  BY <1>3, <1>5 DEF ConnectionIInv

LEMMA LoadedStep ==
  ASSUME Bounds, ConnectionIInv, NEW c \in Connection!Clients, Connection!Loaded(c)
  PROVE  ConnectionIInv'
<1>1. /\ attempt = "loading" /\ attempt' = "waiting" /\ current' = c /\ wired' = wired \cup {c}
      /\ transport' = [transport EXCEPT ![c] = "connecting"]
      /\ UNCHANGED <<connected, bound, wanted, orderly>>
  BY DEF Connection!Loaded
<1>2. connected' \in BOOLEAN /\ wanted' \in BOOLEAN /\ orderly' \in BOOLEAN
  BY <1>1, Zenon DEF ConnectionIInv, Connection!TypeOK
<1>3. Connection!TypeOK'
  BY <1>1, <1>2 DEF ConnectionIInv, Connection!TypeOK
<1>4. ASSUME orderly', NEW d \in Connection!Clients, Connection!Open(d)' PROVE d = current'
  <2>1. d # c => transport'[d] = transport[d]
    BY <1>1 DEF ConnectionIInv, Connection!TypeOK
  <2>2. d # c => d = current /\ (current = 0 \/ ~Connection!Open(current)) /\ Connection!Open(d)
    BY <1>1, <1>4, <2>1 DEF ConnectionIInv, Orderly, Connection!Open
  <2> QED
    BY <1>1, <2>2, ClientsArePositive
<1>5. Orderly'
  BY <1>1, <1>4, ClientsArePositive DEF ConnectionIInv, Orderly
<1> QED
  BY <1>3, <1>5 DEF ConnectionIInv

LEMMA EndsAttempt ==
  ASSUME Bounds, ConnectionIInv, attempt' = "none",
         UNCHANGED <<transport, wired, current, connected, bound, wanted, orderly>>
  PROVE  ConnectionIInv'
<1>1. connected' \in BOOLEAN /\ wanted' \in BOOLEAN /\ orderly' \in BOOLEAN
  BY Zenon DEF ConnectionIInv, Connection!TypeOK
<1>2. Connection!TypeOK'
  BY <1>1 DEF ConnectionIInv, Connection!TypeOK
<1>3. Orderly'
  BY DEF ConnectionIInv, Orderly, Connection!Open
<1> QED
  BY <1>2, <1>3 DEF ConnectionIInv

\* What is open is the client there is, so that it is the one that reports.
LEMMA Reports ==
  ASSUME Bounds, ConnectionIInv, NEW c \in Connection!Clients, Connection!Open(c),
         NEW s \in {"connecting", "connected", "closed"},
         transport' = [transport EXCEPT ![c] = s],
         connected' \in BOOLEAN, connected' => connected \/ c \in wired,
         attempt' \in {attempt, "none"},
         UNCHANGED <<wired, current, bound, wanted, orderly>>
  PROVE  ConnectionIInv'
<1>1. connected' \in BOOLEAN /\ wanted' \in BOOLEAN /\ orderly' \in BOOLEAN
  BY Zenon DEF ConnectionIInv, Connection!TypeOK
<1>2. Connection!TypeOK'
  BY <1>1 DEF ConnectionIInv, Connection!TypeOK
<1>3. \A d \in Connection!Clients : Connection!Open(d)' => Connection!Open(d)
  BY DEF ConnectionIInv, Connection!TypeOK, Connection!Open
<1>4. orderly => current = c /\ current # 0
  BY ClientsArePositive DEF ConnectionIInv, Orderly
<1>5. Orderly'
  BY <1>3, <1>4 DEF ConnectionIInv, Orderly
<1> QED
  BY <1>2, <1>5 DEF ConnectionIInv

LEMMA ConnectedStep ==
  ASSUME Bounds, ConnectionIInv, NEW c \in Connection!Clients, Connection!Connected(c)
  PROVE  ConnectionIInv'
<1>1. /\ Connection!Open(c) /\ transport' = [transport EXCEPT ![c] = "connected"]
      /\ attempt' \in {attempt, "none"} /\ UNCHANGED <<wired, current, bound, wanted, orderly>>
  BY DEF Connection!Connected, Connection!Open
<1>2. connected' \in BOOLEAN /\ (connected' => connected \/ c \in wired)
  BY Zenon DEF Connection!Connected, ConnectionIInv, Connection!TypeOK
<1> QED
  BY <1>1, <1>2, Reports

LEMMA ReconnectsStep ==
  ASSUME Bounds, ConnectionIInv, NEW c \in Connection!Clients, Connection!Reconnects(c)
  PROVE  ConnectionIInv'
<1>1. /\ Connection!Open(c) /\ transport' = [transport EXCEPT ![c] = "connecting"]
      /\ attempt' \in {attempt, "none"} /\ UNCHANGED <<wired, current, bound, wanted, orderly>>
  BY DEF Connection!Reconnects, Connection!Open
<1>2. connected' \in BOOLEAN /\ (connected' => connected \/ c \in wired)
  BY Zenon DEF Connection!Reconnects, ConnectionIInv, Connection!TypeOK
<1> QED
  BY <1>1, <1>2, Reports

LEMMA EndedStep ==
  ASSUME Bounds, ConnectionIInv, NEW c \in Connection!Clients, Connection!EndedByServer(c)
  PROVE  ConnectionIInv'
<1>1. /\ Connection!Open(c) /\ transport' = [transport EXCEPT ![c] = "closed"]
      /\ attempt' \in {attempt, "none"} /\ UNCHANGED <<wired, current, bound, wanted, orderly>>
  BY DEF Connection!EndedByServer
<1>2. connected' \in BOOLEAN /\ (connected' => connected \/ c \in wired)
  BY Zenon DEF Connection!EndedByServer, ConnectionIInv, Connection!TypeOK
<1> QED
  BY <1>1, <1>2, Reports

\* disconnect() closes the client there is, and an orderly application has no
\* other.
LEMMA DisconnectStep == ASSUME Bounds, ConnectionIInv, Connection!Disconnect PROVE ConnectionIInv'
<1>1. (wanted' = FALSE) /\ bound' = [ch \in Channels |-> 0] /\ attempt' = attempt
  BY DEF Connection!Disconnect
<1>2. wanted' \in BOOLEAN /\ orderly' \in BOOLEAN /\ ~wanted' /\ (orderly' => orderly /\ attempt # "loading")
  BY Zenon DEF Connection!Disconnect, ConnectionIInv, Connection!TypeOK
<1>3. CASE current = 0
  <2>1. UNCHANGED <<transport, wired, current, connected>>
    BY <1>3 DEF Connection!Disconnect
  <2>2. connected' \in BOOLEAN
    BY <2>1, Zenon DEF ConnectionIInv, Connection!TypeOK
  <2>3. Connection!TypeOK'
    BY <1>1, <1>2, <2>1, <2>2 DEF ConnectionIInv, Connection!TypeOK
  <2>4. Orderly'
    BY <1>1, <1>2, <1>3, <2>1 DEF ConnectionIInv, Orderly, Connection!Open
  <2> QED
    BY <2>3, <2>4 DEF ConnectionIInv
<1>4. CASE current # 0
  <2>1. /\ wired' = wired \ {current} /\ current' = 0 /\ (connected' = FALSE)
        /\ transport' = [transport EXCEPT ![current] = "closed"]
    BY <1>4 DEF Connection!Disconnect, Connection!Closes
  <2>2. connected' \in BOOLEAN /\ ~connected'
    BY <2>1, Zenon
  <2>3. Connection!TypeOK'
    BY <1>1, <1>2, <2>1, <2>2 DEF ConnectionIInv, Connection!TypeOK
  <2>4. ASSUME orderly', NEW d \in Connection!Clients, Connection!Open(d)' PROVE FALSE
    <3>1. d # current
      BY <2>1, <2>4 DEF ConnectionIInv, Connection!TypeOK, Connection!Open
    <3>2. Connection!Open(d)
      BY <2>1, <2>4, <3>1 DEF ConnectionIInv, Connection!TypeOK, Connection!Open
    <3> QED
      BY <1>2, <2>4, <3>1, <3>2 DEF ConnectionIInv, Orderly
  <2>5. Orderly'
    BY <1>1, <1>2, <2>1, <2>2, <2>4 DEF Orderly
  <2> QED
    BY <2>3, <2>5 DEF ConnectionIInv
<1> QED
  BY <1>3, <1>4

LEMMA OnlyBound ==
  ASSUME Bounds, ConnectionIInv, bound' \in [Channels -> Connection!Clients \cup {0}],
         UNCHANGED <<transport, wired, current, connected, attempt, wanted, orderly>>
  PROVE  ConnectionIInv'
<1>1. connected' \in BOOLEAN /\ wanted' \in BOOLEAN /\ orderly' \in BOOLEAN
  BY Zenon DEF ConnectionIInv, Connection!TypeOK
<1>2. Connection!TypeOK'
  BY <1>1 DEF ConnectionIInv, Connection!TypeOK
<1>3. Orderly'
  BY DEF ConnectionIInv, Orderly, Connection!Open
<1> QED
  BY <1>2, <1>3 DEF ConnectionIInv

LEMMA OfChannelStep ==
  ASSUME Bounds, ConnectionIInv, NEW ch \in Channels, Connection!Subscribe(ch) \/ Connection!RemoveChannel(ch)
  PROVE  ConnectionIInv'
<1>1. bound \in [Channels -> Connection!Clients \cup {0}] /\ Connection!AskedBy(ch) \in Connection!Clients \cup {0}
  BY DEF ConnectionIInv, Connection!TypeOK, Connection!AskedBy
<1>2. bound' \in [Channels -> Connection!Clients \cup {0}]
  BY <1>1 DEF Connection!Subscribe, Connection!RemoveChannel
<1> QED
  BY <1>2, OnlyBound DEF Connection!Subscribe, Connection!RemoveChannel

LEMMA IdentityStep ==
  ASSUME Bounds, ConnectionIInv, NEW c \in Connection!Clients, Connection!IdentityChanges(c)
  PROVE  ConnectionIInv'
BY OnlyBound DEF Connection!IdentityChanges

LEMMA ConnectionStep ==
  ASSUME Bounds, ConnectionIInv, [Connection!Next]_Connection!vars
  PROVE  ConnectionIInv'
<1>1. CASE Connection!Next
  <2>1. ASSUME Connection!Attempt PROVE ConnectionIInv'
    BY <1>1, <2>1, LoadedStep, EndsAttempt
      DEF Connection!Attempt, Connection!LoadFails, Connection!WaitFails
  <2>2. ASSUME NEW c \in Connection!Clients,
               Connection!Connected(c) \/ Connection!Reconnects(c) \/ Connection!EndedByServer(c) \/ Connection!IdentityChanges(c)
        PROVE  ConnectionIInv'
    BY <1>1, <2>2, ConnectedStep, ReconnectsStep, EndedStep, IdentityStep
  <2>3. ASSUME NEW ch \in Channels, Connection!Subscribe(ch) \/ Connection!RemoveChannel(ch) PROVE ConnectionIInv'
    BY <1>1, <2>3, OfChannelStep
  <2> QED
    BY <1>1, <2>1, <2>2, <2>3, ConnectStep, DisconnectStep DEF Connection!Next
<1>2. CASE UNCHANGED Connection!vars
  <2>1. connected' \in BOOLEAN /\ wanted' \in BOOLEAN /\ orderly' \in BOOLEAN
    BY <1>2, Zenon DEF Connection!vars, ConnectionIInv, Connection!TypeOK
  <2> QED
    BY <1>2, <2>1 DEF Connection!vars, ConnectionIInv, Connection!TypeOK, Orderly, Connection!Open
<1> QED
  BY <1>1, <1>2

LEMMA ConnectionInvariance == ASSUME Bounds PROVE Connection!Spec => []ConnectionIInv
BY ConnectionInitOK, ConnectionStep, PTL DEF Connection!Spec

-----------------------------------------------------------------------------
\* Every variable keeps its type, and the client there is has its handlers.
THEOREM ConnectionTypeCorrect == ASSUME Bounds PROVE Connection!Spec => []Connection!TypeOK
<1>1. ConnectionIInv => Connection!TypeOK
  BY DEF ConnectionIInv
<1> QED
  BY <1>1, ConnectionInvariance, PTL

LEMMA OneIsOpen == ASSUME Bounds PROVE ConnectionIInv => Connection!OneTransport
BY ClientsArePositive DEF ConnectionIInv, Orderly, Connection!OneTransport, Connection!Disconnected

\* An orderly application has one open transport client at most, and none
\* after disconnect().
THEOREM HasOneTransport == ASSUME Bounds PROVE Connection!Spec => []Connection!OneTransport
BY OneIsOpen, ConnectionInvariance, PTL

-----------------------------------------------------------------------------
\* The outcome of subscribe().

\* A call that is to go on, of the present version, is of a channel that is
\* subscribed: what ends a subscription waits for the call, or makes a new
\* version.
ReadyOK == \A c \in Calls : call[c].st = "ready" /\ Channel!IsCurrent(c) => subscription = "subscribed"

LEMMA ReadyInit == Channel!Init => ReadyOK
BY DEF Channel!Init, Channel!NoCall, ReadyOK

\* Whatever settles the calls that wait, for the worse, or ends the version.
LEMMA ReadyStays ==
  ASSUME ReadyOK, 
         \A c \in Calls : call'[c].st = "ready" => call[c].st = "ready" /\ call'[c].version = call[c].version,
         \/ UNCHANGED <<version, subscription>>
         \/ \A c \in Calls : call'[c].st = "ready" => call'[c].version # version'
  PROVE  ReadyOK'
BY DEF ReadyOK, Channel!IsCurrent

LEMMA ReadyStep ==
  ASSUME Bounds, ChannelIInv, ReadyOK, [Channel!Next]_Channel!vars
  PROVE  ReadyOK'
<1>0. /\ call \in [Calls -> CallRecords] /\ version \in Nat
      /\ \A c \in Calls : call[c].version \in Nat /\ call[c].version <= version
  BY DEF ChannelIInv, Typed, CallsOK, CallRecords, Channel!Versions
<1>1. ASSUME call' = call, version' = version, subscription' = subscription PROVE ReadyOK'
  BY <1>1, ReadyStays
<1>2. ASSUME NEW c \in Calls, Channel!Subscribe(c) PROVE ReadyOK'
  <2> DEFINE r == [st |-> Channel!ReadyAt, version |-> version]
  <2>1. /\ call' = [call EXCEPT ![c] = r] /\ version' = version
        /\ subscription' = IF subscription = "subscribed" THEN subscription ELSE "subscribing"
    BY <1>2 DEF Channel!Subscribe
  <2>2. r.st = "ready" => subscription = "subscribed"
    BY DEF Channel!ReadyAt
  <2>3. call'[c] = r /\ \A d \in Calls \ {c} : call'[d] = call[d]
    BY <1>0, <2>1
  <2> QED
    BY <2>1, <2>2, <2>3 DEF ReadyOK, Channel!IsCurrent
<1>3. ASSUME NEW c \in Calls, NEW r, call' = [call EXCEPT ![c] = r], r.st # "ready",
             UNCHANGED <<subscription, version>>
      PROVE  ReadyOK'
  <2>1. \A d \in Calls : call'[d].st = "ready" => d # c /\ call'[d] = call[d]
    BY <1>0, <1>3
  <2> QED
    BY <1>3, <2>1, ReadyStays
<1>4. Channel!NoCall.st = "idle"
  BY DEF Channel!NoCall
<1>5. ASSUME NEW c \in Calls, Channel!Resolves(c) PROVE ReadyOK'
  BY <1>3, <1>4, <1>5 DEF Channel!Resolves
<1>6. ASSUME Channel!Pause,
             \A c \in Calls : call'[c].st = "ready" => call'[c].version = call[c].version
      PROVE  ReadyOK'
  <2>1. version' = version + 1
    BY <1>6 DEF Channel!Pause
  <2>2. \A c \in Calls : call[c].version # version'
    BY <1>0, <2>1
  <2> QED
    BY <1>6, <2>2 DEF ReadyOK, Channel!IsCurrent
<1>7. ASSUME NEW c \in Calls, Channel!Rejects(c) PROVE ReadyOK'
  <2>1. CASE Channel!IsCurrent(c)
    <3>1. \A d \in Calls : call'[d].st = "ready" => call'[d] = call[d]
      <4> SUFFICES ASSUME NEW d \in Calls, call'[d].st = "ready" PROVE call'[d] = call[d]
        OBVIOUS
      <4>1. call'[d] = IF d = c THEN Channel!NoCall
                       ELSE IF call[d].st = "waiting" THEN [call[d] EXCEPT !.st = "failed"] ELSE call[d]
        BY <1>7, <2>1 DEF Channel!Rejects
      <4>2. [call[d] EXCEPT !.st = "failed"].st = "failed"
        BY <1>0 DEF CallRecords
      <4> QED
        BY <1>4, <4>1, <4>2
    <3> QED
      BY <1>6, <1>7, <2>1, <3>1 DEF Channel!Rejects
  <2>2. CASE ~Channel!IsCurrent(c)
    BY <1>3, <1>4, <1>7, <2>2 DEF Channel!Rejects
  <2> QED
    BY <2>1, <2>2
<1>8. ASSUME NEW c \in Calls, Channel!TimesOut(c) PROVE ReadyOK'
  <2>1. call' = [call EXCEPT ![c] = [call[c] EXCEPT !.st = "failed"]]
    BY <1>8 DEF Channel!TimesOut
  <2>2. [call[c] EXCEPT !.st = "failed"].st = "failed"
    BY <1>0 DEF CallRecords
  <2> QED
    BY <1>3, <1>8, <2>1, <2>2 DEF Channel!TimesOut
<1>9. ASSUME Channel!Reset \/ Channel!Unsubscribe PROVE ReadyOK'
  <2>1. Channel!Pause /\ Channel!Settle("failed")
    BY <1>9 DEF Channel!Reset, Channel!Unsubscribe
  <2> QED
    BY <1>6, <2>1, SettledCalls
<1>10. ASSUME Channel!Refuses PROVE ReadyOK'
  <2>1. Channel!Settle("failed") /\ \A c \in Calls : call[c].st # "ready"
    BY <1>10 DEF Channel!Refuses, Channel!EventLoopFree
  <2>2. \A c \in Calls : call'[c].st # "ready"
    BY <2>1, SettledCalls
  <2> QED
    BY <2>2 DEF ReadyOK
<1>11. ASSUME Channel!Drops PROVE ReadyOK'
  BY <1>11 DEF Channel!Drops, Channel!EventLoopFree, ReadyOK
<1>12. ASSUME Channel!SubscribedArrives PROVE ReadyOK'
  <2>1. version' = version
    BY <1>12 DEF Channel!SubscribedArrives, Channel!Arrives
  <2>2. CASE Head(inbox).version = version
    BY <1>12, <2>2 DEF Channel!SubscribedArrives, ReadyOK
  <2>3. CASE Head(inbox).version # version
    BY <1>1, <1>12, <2>1, <2>3 DEF Channel!SubscribedArrives
  <2> QED
    BY <2>2, <2>3
<1>13. ASSUME \/ Channel!Accepts \/ Channel!Publishes
              \/ \E m \in Members : Channel!Joins(m) \/ Channel!Leaves(m)
              \/ \E v \in Channel!Versions :
                   Channel!SendsMembers(v) \/ Channel!RequestFails(v) \/ Channel!TimerFires(v)
              \/ Channel!PublicationArrives \/ Channel!JoinArrives \/ Channel!LeaveArrives
              \/ Channel!MembersArrive
       PROVE  ReadyOK'
  BY <1>1, <1>13 DEF Channel!Accepts, Channel!Publishes, Channel!Joins, Channel!Leaves,
     Channel!SendsMembers, Channel!RequestFails, Channel!TimerFires, Channel!PublicationArrives,
     Channel!JoinArrives, Channel!LeaveArrives, Channel!MembersArrive, Channel!Arrives
<1>14. CASE UNCHANGED Channel!vars
  BY <1>1, <1>14 DEF Channel!vars
<1>15. CASE Channel!Next
  BY <1>2, <1>5, <1>7, <1>8, <1>9, <1>10, <1>11, <1>12, <1>13, <1>15
  DEF Channel!Next, Channel!CallStep, Channel!Arrival
<1> QED
  BY <1>14, <1>15

\* What a call does when it ends.
Outcome ==
  \A c \in Calls : call[c].st \in {"ready", "failed"} /\ call'[c].st = "idle" =>
    IF call[c].version = version
    THEN call[c].st = "ready" => subscription = "subscribed" /\ ~paused'
    ELSE UNCHANGED <<subscription, version, paused, roster>>

LEMMA OutcomeStep ==
  ASSUME Bounds, ChannelIInv, ReadyOK, Channel!Next
  PROVE  Outcome
<1>0. call \in [Calls -> CallRecords]
  BY DEF ChannelIInv, Typed
<1>1. ASSUME NEW c \in Calls, call' = [call EXCEPT ![c] = Channel!NoCall],
             IF Channel!IsCurrent(c)
             THEN call[c].st = "ready" => subscription = "subscribed" /\ ~paused'
             ELSE UNCHANGED <<subscription, version, paused, roster>>
      PROVE  Outcome
  <2>1. \A d \in Calls : d # c => call'[d] = call[d]
    BY <1>0, <1>1
  <2> QED
    BY <1>1, <2>1 DEF Outcome, Channel!IsCurrent
\* No call ends.
<1>2. ASSUME \A c \in Calls : call'[c].st = "idle" => call[c].st \notin {"ready", "failed"}
      PROVE  Outcome
  BY <1>2 DEF Outcome
<1>3. ASSUME NEW c \in Calls, Channel!Resolves(c) PROVE Outcome
  <2>1. /\ call' = [call EXCEPT ![c] = Channel!NoCall] /\ call[c].st = "ready"
        /\ UNCHANGED <<subscription, version, roster>>
    BY <1>3 DEF Channel!Resolves, Channel!presence
  <2>2. CASE Channel!IsCurrent(c)
    <3>1. ~paused'
      BY <1>3, <2>2, Zenon DEF Channel!Resolves
    <3> QED
      BY <1>1, <2>1, <2>2, <3>1 DEF ReadyOK
  <2>3. CASE ~Channel!IsCurrent(c)
    <3>1. paused' = paused
      <4>1. paused' = (paused /\ TRUE) /\ paused \in BOOLEAN
        BY <1>3, <2>3, Zenon DEF Channel!Resolves, ChannelIInv, Typed
      <4> QED
        BY <4>1, Zenon
    <3> QED
      BY <1>1, <2>1, <2>3, <3>1
  <2> QED
    BY <2>2, <2>3
<1>4. ASSUME NEW c \in Calls, Channel!Rejects(c) PROVE Outcome
  <2>1. CASE Channel!IsCurrent(c)
    <3>1. call[c].st = "failed" /\ \A d \in Calls : d # c /\ call[d].st \in {"ready", "failed"} => call'[d] = call[d]
      BY <1>4, <2>1 DEF Channel!Rejects
    <3>2. call[c].version = version
      BY <2>1 DEF Channel!IsCurrent
    <3> QED
      BY <3>1, <3>2 DEF Outcome
  <2>2. CASE ~Channel!IsCurrent(c)
    BY <1>1, <1>4, <2>2 DEF Channel!Rejects, Channel!presence
  <2> QED
    BY <2>1, <2>2
<1>5. ASSUME NEW c \in Calls, NEW r, call' = [call EXCEPT ![c] = r],
             r.st # "idle" \/ call[c].st \notin {"ready", "failed"}
      PROVE  Outcome
  <2>1. \A d \in Calls : call'[d] = IF d = c THEN r ELSE call[d]
    BY <1>0, <1>5
  <2> QED
    BY <1>2, <1>5, <2>1
<1>6. ASSUME NEW c \in Calls, Channel!Subscribe(c) \/ Channel!TimesOut(c) PROVE Outcome
  BY <1>5, <1>6 DEF Channel!Subscribe, Channel!TimesOut, Channel!GivesUp
<1>7. ASSUME NEW st \in {"ready", "failed"}, Channel!Settle(st) PROVE Outcome
  <2>1. \A c \in Calls : call[c].st \in {"ready", "failed"} => call'[c] = call[c]
    BY <1>7 DEF Channel!Settle
  <2> QED
    BY <1>2, <2>1
<1>8. ASSUME Channel!Reset \/ Channel!Unsubscribe \/ Channel!Refuses PROVE Outcome
  BY <1>7, <1>8 DEF Channel!Reset, Channel!Unsubscribe, Channel!Refuses
<1>9. ASSUME call' = call PROVE Outcome
  BY <1>2, <1>9
<1>10. ASSUME \/ Channel!Accepts \/ Channel!Publishes \/ Channel!Drops
              \/ \E m \in Members : Channel!Joins(m) \/ Channel!Leaves(m)
              \/ \E v \in Channel!Versions :
                   Channel!SendsMembers(v) \/ Channel!RequestFails(v) \/ Channel!TimerFires(v)
              \/ Channel!PublicationArrives \/ Channel!JoinArrives \/ Channel!LeaveArrives
              \/ Channel!MembersArrive
       PROVE  Outcome
  BY <1>9, <1>10 DEF Channel!Accepts, Channel!Publishes, Channel!Drops, Channel!Joins,
     Channel!Leaves, Channel!SendsMembers, Channel!RequestFails, Channel!TimerFires,
     Channel!PublicationArrives, Channel!JoinArrives, Channel!LeaveArrives, Channel!MembersArrive
<1>11. ASSUME Channel!SubscribedArrives PROVE Outcome
  BY <1>7, <1>9, <1>11 DEF Channel!SubscribedArrives
<1> QED
  BY <1>3, <1>4, <1>6, <1>8, <1>10, <1>11 DEF Channel!Next, Channel!CallStep, Channel!Arrival

\* A subscribe() that succeeds is of a channel that is subscribed and delivers,
\* and one that ends late leaves alone what came after it.
THEOREM SubscribeEndsWell == ASSUME Bounds PROVE Channel!Spec => Channel!SubscribeOutcome
<1> DEFINE I == ChannelIInv /\ ReadyOK
<1>1. Channel!Init => I
  BY ChannelInitOK, ReadyInit
<1>2. I /\ [Channel!Next]_Channel!vars => I'
  BY ChannelStep, ReadyStep
<1>3. I /\ [Channel!Next]_Channel!vars => [Outcome]_Channel!vars
  BY OutcomeStep
<1>4. Channel!Spec => [][Outcome]_Channel!vars
  BY <1>1, <1>2, <1>3, PTL DEF Channel!Spec
<1> QED
  BY <1>4 DEF Channel!SubscribeOutcome, Outcome

-----------------------------------------------------------------------------
\* The three parts together.  A behaviour is of one of them, and the variables
\* of the others stay as they were to begin with, save for the life cycle that
\* row fetches share with the channel.

\* The connection shares nothing: what MCRealtime checks implements it.
THEOREM ConnectionIsOne == PartsSpec => Connection!Spec
<1>1. PartsInit => Connection!Init
  BY DEF PartsInit
<1>2. [PartsNext]_all => [Connection!Next]_Connection!vars
  <2>1. UNCHANGED connection => UNCHANGED Connection!vars
    BY DEF connection, Connection!vars
  <2>2. ASSUME PartsNext PROVE [Connection!Next]_Connection!vars
    BY <2>1, <2>2 DEF PartsNext, OfRows, OfChannel, OfConnection
  <2>3. UNCHANGED all => UNCHANGED connection
    BY DEF all
  <2> QED
    BY <2>1, <2>2, <2>3
<1> QED
  BY <1>1, <1>2, PTL DEF PartsSpec, Connection!Spec

\* After disconnect() there is no transport client, and there are never two,
\* for an application that is orderly.
THEOREM OneTransportInParts == ASSUME Bounds PROVE PartsSpec => []OneTransport
<1>1. Connection!OneTransport => OneTransport
  BY DEF OneTransport
<1> QED
  BY <1>1, ConnectionIsOne, HasOneTransport, PTL

\* A channel at rest.
ChannelRests ==
  /\ inbox = <<>> /\ roster = {} /\ ~loaded
  /\ \A c \in Calls : call[c].st = "idle"

\* Each part's invariant, in the behaviours of that part.
PartsInv ==
  /\ IF part = "rows" THEN RowIInv ELSE NewestIsTold
  /\ IF part = "channel" THEN ChannelIInv /\ ReadyOK ELSE ChannelRests

LEMMA NewestFollows == RowIInv => NewestIsTold
BY DEF RowIInv, NewestIsTold, PlacesOK, NewestOK

LEMMA PartsInitOK == ASSUME Bounds PROVE PartsInit => PartsInv
<1>1. PartsInit => RowIInv /\ NewestIsTold
  BY RowInitOK, NewestFollows DEF PartsInit
<1>2. PartsInit => ChannelIInv /\ ReadyOK
  BY ChannelInitOK, ReadyInit DEF PartsInit
<1>3. PartsInit => ChannelRests
  <2>1. PartsInit => ~loaded
    BY Zenon DEF PartsInit, Channel!Init
  <2> QED
    BY <2>1 DEF PartsInit, Channel!Init, Channel!NoCall, ChannelRests
<1> QED
  BY <1>1, <1>2, <1>3 DEF PartsInv

\* A step is one of one part, and leaves the others as they are.
LEMMA PartsSteps ==
  ASSUME [PartsNext]_all
  PROVE  /\ part' = part
         /\ part = "rows" => [Next]_vars
         /\ part # "rows" => UNCHANGED rows
         /\ part = "channel" => [Channel!Next]_Channel!vars
         /\ part # "channel" => UNCHANGED channel
<1>1. UNCHANGED <<lifecycle, rows>> => UNCHANGED vars
  BY DEF lifecycle, rows, vars
<1>2. UNCHANGED <<lifecycle, channel>> => UNCHANGED Channel!vars
  BY DEF lifecycle, channel, Channel!vars, Channel!transport, Channel!presence
<1>3. CASE OfRows(Next)
  BY <1>3 DEF OfRows
<1>4. CASE OfChannel(Channel!Next)
  BY <1>4 DEF OfChannel
<1>5. CASE OfConnection(Connection!Next)
  BY <1>1, <1>2, <1>5 DEF OfConnection
<1>6. CASE UNCHANGED all
  BY <1>1, <1>2, <1>6 DEF all
<1> QED
  BY <1>3, <1>4, <1>5, <1>6 DEF PartsNext

LEMMA PartsStep ==
  ASSUME Bounds, PartsInv, [PartsNext]_all
  PROVE  PartsInv'
<1>1. UNCHANGED rows => (NewestIsTold => NewestIsTold')
  BY DEF rows, NewestIsTold, Pending, Empty
<1>2. UNCHANGED channel => (ChannelRests => ChannelRests')
  BY DEF channel, ChannelRests
<1>3. IF part = "rows" THEN RowIInv' ELSE NewestIsTold'
  BY <1>1, PartsSteps, RowStep DEF PartsInv
<1>4. IF part = "channel" THEN ChannelIInv' /\ ReadyOK' ELSE ChannelRests'
  BY <1>2, PartsSteps, ChannelStep, ReadyStep DEF PartsInv
<1>5. part' = part
  BY PartsSteps
<1> QED
  BY <1>3, <1>4, <1>5 DEF PartsInv

LEMMA PartsInvariance == ASSUME Bounds PROVE PartsSpec => []PartsInv
BY PartsInitOK, PartsStep, PTL DEF PartsSpec

\* The last notification of each row is on its way, or there.
THEOREM NewestInParts == ASSUME Bounds PROVE PartsSpec => []NewestIsTold
<1>1. PartsInv => NewestIsTold
  BY NewestFollows DEF PartsInv
<1> QED
  BY <1>1, PartsInvariance, PTL

\* Nothing of an earlier subscription is delivered.
THEOREM NothingOldInParts == ASSUME Bounds PROVE PartsSpec => []NothingOld
<1>1. ChannelRests => Channel!NothingOld
  BY DEF ChannelRests, Channel!NothingOld, Channel!Delivers
<1>2. PartsInv => NothingOld
  BY <1>1, HeadIsCurrent DEF PartsInv, NothingOld
<1> QED
  BY <1>2, PartsInvariance, PTL

\* The roster of a presence channel is the server's once it was loaded, and
\* empty while the channel is paused.
THEOREM RosterInParts == ASSUME Bounds PROVE PartsSpec => []RosterFollows
<1>1. ChannelRests => Channel!RosterFollows
  BY DEF ChannelRests, Channel!RosterFollows, Channel!UpToDate
<1>2. PartsInv => RosterFollows
  BY <1>1, RosterIsRight DEF PartsInv, RosterFollows
<1> QED
  BY <1>2, PartsInvariance, PTL

\* What ends late leaves alone what came after it: a row fetch that belongs to
\* an earlier version delivers nothing, and a subscribe() changes nothing.
THEOREM NothingLateInParts == ASSUME Bounds PROVE PartsSpec => NothingLate
<1>1. ASSUME PartsInv, [PartsNext]_all PROVE [Current]_vars
  <2>1. CASE part = "rows"
    BY <1>1, <2>1, PartsSteps, CurrentStep DEF PartsInv
  <2>2. CASE part # "rows"
    BY <1>1, <2>2, PartsSteps DEF rows, Current
  <2> QED
    BY <2>1, <2>2
<1>2. ASSUME PartsInv, [PartsNext]_all PROVE [Outcome]_Channel!vars
  <2>1. CASE part = "channel"
    BY <1>1, <1>2, <2>1, PartsSteps, OutcomeStep DEF PartsInv
  <2>2. CASE part # "channel"
    <3>1. \A c \in Calls : call[c].st = "idle" /\ call' = call
      BY <1>2, <2>2, PartsSteps DEF PartsInv, ChannelRests, channel
    <3> QED
      BY <3>1 DEF Outcome
  <2> QED
    BY <2>1, <2>2
<1>3. PartsSpec => [][Current]_vars
  BY <1>1, PartsInvariance, PTL DEF PartsSpec
<1>4. PartsSpec => [][Outcome]_Channel!vars
  BY <1>2, PartsInvariance, PTL DEF PartsSpec
<1>5. NothingLate <=> [][Current]_vars /\ [][Outcome]_Channel!vars
  BY DEF NothingLate, OnlyCurrent, Channel!SubscribeOutcome, Current, Outcome
<1> QED
  BY <1>3, <1>4, <1>5, PTL
=============================================================================
