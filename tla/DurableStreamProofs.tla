------------------------ MODULE DurableStreamProofs ------------------------
(***************************************************************************)
(* Proofs about DurableStream, for every set of seqs, every HELD_LIMIT and *)
(* every bound of the model.                                               *)
(***************************************************************************)
EXTENDS DurableStream, FiniteSetTheorems, TLAPS

USE SeqsAssumption, HeldLimitAssumption, FailureCapAssumption, NamesPrevAssumption

\* keep() holds at most HELD_LIMIT messages, all of which it was given.
LEMMA KeepBounded ==
  ASSUME NEW s, IsFiniteSet(held), Cardinality(held) <= HeldLimit, Keep(s)
  PROVE  /\ held' \subseteq held \cup {s}
         /\ IsFiniteSet(held') /\ Cardinality(held') <= HeldLimit
<1> DEFINE kept == held \cup {s}
<1>1. /\ IsFiniteSet(kept) /\ Cardinality(held) \in Nat /\ Cardinality(kept) \in Nat
      /\ Cardinality(kept) <= Cardinality(held) + 1
  <2>1. /\ IsFiniteSet(kept)
        /\ Cardinality(kept) = IF s \in held THEN Cardinality(held) ELSE Cardinality(held) + 1
    BY FS_AddElement
  <2>2. Cardinality(held) \in Nat /\ Cardinality(kept) \in Nat
    BY <2>1, FS_CardinalityType
  <2> QED
    BY <2>1, <2>2
<1>2. CASE Cardinality(kept) > HeldLimit
  <2>1. PICK d \in kept : held' = kept \ {d}
    BY <1>2 DEF Keep
  <2>2. IsFiniteSet(held') /\ Cardinality(held') = Cardinality(kept) - 1
    BY <1>1, <2>1, FS_RemoveElement
  <2> QED
    BY <1>1, <2>1, <2>2
<1>3. CASE ~(Cardinality(kept) > HeldLimit)
  BY <1>1, <1>3 DEF Keep
<1> QED
  BY <1>2, <1>3

\* Taking a message out of held keeps it within its bound.
LEMMA RemoveBounded ==
  ASSUME NEW s, IsFiniteSet(held), Cardinality(held) <= HeldLimit
  PROVE  IsFiniteSet(held \ {s}) /\ Cardinality(held \ {s}) <= HeldLimit
<1>1. Cardinality(held) \in Nat
  BY FS_CardinalityType
<1>2. /\ IsFiniteSet(held \ {s})
      /\ Cardinality(held \ {s}) = IF s \in held THEN Cardinality(held) - 1 ELSE Cardinality(held)
  BY FS_RemoveElement
<1> QED
  BY <1>1, <1>2

\* The empty set is within the bound.
LEMMA EmptyBounded == IsFiniteSet({}) /\ Cardinality({}) <= HeldLimit
BY FS_EmptySet

\* What is held stays held messages of the log, within the bound, when the
\* stream closes or leaves it alone.
HeldOK == held \subseteq arrived /\ IsFiniteSet(held) /\ Cardinality(held) <= HeldLimit

LEMMA CloseHeld ==
  ASSUME HeldOK, arrived \subseteq arrived', Close \/ UNCHANGED held PROVE HeldOK'
BY EmptyBounded DEF HeldOK, Close

\* Delivering a message extends the history by it.
LEMMA HandleTyped ==
  ASSUME NEW s \in Seqs, delivered \in Seq(Seqs), Handle(s)
  PROVE  delivered' \in Seq(Seqs) /\ lastSeq' \in Seqs \cup {0}
BY DEF Handle

\* A read is counted for as long as it is under way.
ReadCounted == pc \in {"asked", "answered", "page"} => catchUps \in Nat /\ catchUps > 0

LEMMA ReadCountedStep == DataOK /\ ReadCounted /\ [Next]_vars => ReadCounted'
<1> SUFFICES ASSUME DataOK, ReadCounted, [Next]_vars PROVE ReadCounted'
  OBVIOUS
<1>0. catchUps \in Nat
  BY DEF DataOK
<1> USE <1>0 DEF ReadCounted, server, fields, locals
<1>1. CASE UNCHANGED vars
  BY <1>1 DEF vars
<1>2. ASSUME NEW s \in Seqs, Publish(s) PROVE ReadCounted'
  BY <1>2 DEF Publish
<1>3. CASE Answer \/ ListFails \/ StartRead \/ Receive
  BY <1>3 DEF Answer, ListFails, FinishRead, StartRead, Ask, Receive
<1>4. CASE PageDone \/ ReleaseDone
  BY <1>4 DEF PageDone, Ask, FinishRead, ReleaseDone
<1>5. ASSUME NEW s \in page, SkipPaged(s) \/ DeliverPaged(s) \/ ThrowPaged(s) PROVE ReadCounted'
  BY <1>5 DEF SkipPaged, DeliverPaged, ThrowPaged, FinishRead
<1>6. ASSUME NEW s \in held, SkipHeld(s) \/ DeliverHeld(s) \/ ThrowHeld(s) PROVE ReadCounted'
  BY <1>6 DEF SkipHeld, DeliverHeld, ThrowHeld
<1>7. ASSUME NEW s \in log,
             \/ LiveKept(s) \/ LiveGap(s) \/ LiveDelivered(s) \/ LiveIgnored(s) \/ Unreadable(s)
      PROVE ReadCounted'
  BY <1>7 DEF Arrives, LiveKept, LiveGap, LiveDelivered, LiveIgnored, Unreadable, Read
<1>8. CASE ChannelReady \/ ChannelDrops \/ ChannelEnds \/ RetryFires
  BY <1>8 DEF ChannelReady, ChannelDrops, ChannelEnds, RetryFires, Read
<1>9. CASE OpenFails \/ SubscribeStep
  BY <1>9 DEF OpenFails, SubscribeStep, Start, Opens, Fails, Read
<1> QED
  BY <1>1, <1>2, <1>3, <1>4, <1>5, <1>6, <1>7, <1>8, <1>9 DEF Next, ReadStep, Broadcast

\* Every field but the flags keeps its type, and held its bound.
LEMMA DataStep == DataOK /\ ReadCounted /\ [Next]_vars => DataOK'
<1> SUFFICES ASSUME DataOK, ReadCounted, [Next]_vars PROVE DataOK'
  OBVIOUS
<1> USE DEF DataOK, Stages, Places, server, fields, locals
<1>1. CASE UNCHANGED vars
  BY <1>1 DEF vars
<1>2. ASSUME NEW s \in Seqs, Publish(s) PROVE DataOK'
  BY <1>2 DEF Publish
<1>3. CASE Answer
  BY <1>3 DEF Answer
<1>4. CASE ListFails
  <2>1. HeldOK'
    BY <1>4, CloseHeld DEF HeldOK, ListFails, FinishRead
  <2> QED
    BY <1>4, <2>1 DEF HeldOK, ReadCounted, ListFails, FinishRead, ReadEnds, Settled
<1>5. CASE StartRead
  BY <1>5 DEF StartRead, Ask
<1>6. CASE Receive
  BY <1>6 DEF Receive
<1>7. CASE PageDone
  <2>1. HeldOK'
    BY <1>7, CloseHeld DEF HeldOK, PageDone, FinishRead
  <2>2. CASE MorePages
    BY <1>7, <2>1, <2>2 DEF HeldOK, PageDone, Ask
  <2>3. CASE ~MorePages
    BY <1>7, <2>1, <2>3 DEF HeldOK, ReadCounted, PageDone, FinishRead, ReadEnds, Settled
  <2> QED
    BY <2>2, <2>3
<1>8. CASE ReleaseDone
  BY <1>8 DEF ReleaseDone, Backoff, Settled
<1>9. ASSUME NEW s \in page, SkipPaged(s) \/ DeliverPaged(s) \/ ThrowPaged(s) PROVE DataOK'
  <2>1. CASE SkipPaged(s)
    BY <2>1 DEF SkipPaged
  <2>2. CASE DeliverPaged(s)
    <3>1. HeldOK'
      BY <2>2, CloseHeld DEF HeldOK, DeliverPaged, GivesUp
    <3>2. delivered' \in Seq(Seqs) /\ lastSeq' \in Seqs \cup {0}
      BY <2>2, HandleTyped DEF DeliverPaged
    <3> QED
      BY <2>2, <3>1, <3>2 DEF HeldOK, DeliverPaged, GivesUp
  <2>3. CASE ThrowPaged(s)
    <3>1. HeldOK'
      BY <2>3, CloseHeld DEF HeldOK, ThrowPaged, FinishRead
    <3>2. delivered' \in Seq(Seqs) /\ lastSeq' \in Seqs \cup {0}
      BY <2>3, HandleTyped DEF ThrowPaged
    <3> QED
      BY <2>3, <3>1, <3>2 DEF HeldOK, ReadCounted, ThrowPaged, FinishRead, ReadEnds, Settled
  <2> QED
    BY <1>9, <2>1, <2>2, <2>3
<1>10. ASSUME NEW s \in held, SkipHeld(s) \/ DeliverHeld(s) \/ ThrowHeld(s) PROVE DataOK'
  <2>1. CASE SkipHeld(s)
    BY <2>1, RemoveBounded DEF SkipHeld
  <2>2. CASE DeliverHeld(s)
    <3>1. HeldOK'
      BY <2>2, RemoveBounded, EmptyBounded DEF HeldOK, DeliverHeld, GivesUp, Close
    <3>2. delivered' \in Seq(Seqs) /\ lastSeq' \in Seqs \cup {0}
      BY <2>2, HandleTyped DEF DeliverHeld
    <3> QED
      BY <2>2, <3>1, <3>2 DEF HeldOK, DeliverHeld, GivesUp
  <2>3. CASE ThrowHeld(s)
    <3>1. HeldOK'
      BY <2>3, RemoveBounded DEF HeldOK, ThrowHeld
    <3>2. delivered' \in Seq(Seqs) /\ lastSeq' \in Seqs \cup {0}
      BY <2>3, HandleTyped DEF ThrowHeld
    <3> QED
      BY <2>3, <3>1, <3>2 DEF HeldOK, ThrowHeld, Backoff, Settled
  <2> QED
    BY <1>10, <2>1, <2>2, <2>3
<1>11. ASSUME NEW s \in log,
              \/ LiveKept(s) \/ LiveGap(s) \/ LiveDelivered(s) \/ LiveIgnored(s) \/ Unreadable(s)
       PROVE DataOK'
  <2> USE DEF Arrives
  <2>1. CASE LiveKept(s)
    BY <2>1, KeepBounded DEF LiveKept
  <2>2. CASE LiveGap(s)
    <3>1. HeldOK'
      BY <2>2, KeepBounded DEF HeldOK, LiveGap
    <3> QED
      BY <2>2, <3>1 DEF HeldOK, LiveGap, Read
  <2>3. CASE LiveDelivered(s)
    <3>1. HeldOK'
      BY <2>3, CloseHeld DEF HeldOK, LiveDelivered, GivesUp
    <3>2. delivered' \in Seq(Seqs) /\ lastSeq' \in Seqs \cup {0}
      BY <2>3, HandleTyped DEF LiveDelivered
    <3> QED
      BY <2>3, <3>1, <3>2 DEF HeldOK, LiveDelivered, GivesUp
  <2>4. CASE LiveIgnored(s)
    BY <2>4 DEF LiveIgnored
  <2>5. CASE Unreadable(s)
    BY <2>5 DEF Unreadable, Read
  <2> QED
    BY <1>11, <2>1, <2>2, <2>3, <2>4, <2>5
<1>12. CASE ChannelReady
  BY <1>12 DEF ChannelReady, Read
<1>13. CASE ChannelDrops
  BY <1>13 DEF ChannelDrops
<1>14. CASE ChannelEnds
  BY <1>14, EmptyBounded DEF ChannelEnds, GivesUp, Close
<1>15. CASE RetryFires
  BY <1>15 DEF RetryFires, Read
<1>16. CASE OpenFails
  BY <1>16, EmptyBounded DEF OpenFails, GivesUp, Close
<1>17. CASE SubscribeStep
  <2>1. CASE Start
    <3>1. HeldOK'
      BY <2>1, CloseHeld DEF HeldOK, Start, GivesUp
    <3>2. CASE closed
      BY <2>1, <3>1, <3>2 DEF HeldOK, Start, GivesUp
    <3>3. CASE ~closed
      BY <2>1, <3>1, <3>3 DEF HeldOK, Start, Read
    <3> QED
      BY <3>2, <3>3
  <2>2. CASE Opens
    BY <2>2 DEF Opens
  <2>3. CASE Fails
    BY <2>3, EmptyBounded DEF Fails, GivesUp, Close
  <2> QED
    BY <1>17, <2>1, <2>2, <2>3 DEF SubscribeStep
<1> QED
  BY <1>1, <1>2, <1>3, <1>4, <1>5, <1>6, <1>7, <1>8, <1>9, <1>10, <1>11, <1>12, <1>13,
     <1>14, <1>15, <1>16, <1>17
  DEF Next, ReadStep, Broadcast

\* The flags stay Boolean.
LEMMA FlagsStep == FlagsOK /\ [Next]_vars => FlagsOK'
<1> SUFFICES ASSUME FlagsOK, [Next]_vars PROVE FlagsOK'
  OBVIOUS
<1> USE DEF FlagsOK, server, fields, locals
<1>1. CASE UNCHANGED vars
  BY <1>1 DEF vars
<1>2. ASSUME NEW s \in Seqs, Publish(s) PROVE FlagsOK'
  BY <1>2 DEF Publish
<1>3. CASE Answer
  BY <1>3 DEF Answer
<1>4. CASE ListFails
  BY <1>4 DEF ListFails, FinishRead, Close, ReadEnds, EndsStream
<1>5. CASE StartRead
  BY <1>5 DEF StartRead, Ask
<1>6. CASE Receive
  BY <1>6 DEF Receive
<1>7. CASE PageDone
  BY <1>7 DEF PageDone, Ask, MorePages, FinishRead, Close, ReadEnds, EndsStream
<1>8. CASE ReleaseDone
  BY <1>8 DEF ReleaseDone, Backoff
<1>9. ASSUME NEW s \in page, SkipPaged(s) \/ DeliverPaged(s) \/ ThrowPaged(s) PROVE FlagsOK'
  BY <1>9 DEF SkipPaged, DeliverPaged, ThrowPaged, GivesUp, Close, FinishRead, ReadEnds, EndsStream
<1>10. ASSUME NEW s \in held, SkipHeld(s) \/ DeliverHeld(s) \/ ThrowHeld(s) PROVE FlagsOK'
  BY <1>10 DEF SkipHeld, DeliverHeld, ThrowHeld, GivesUp, Close, Backoff
<1>11. ASSUME NEW s \in log,
              \/ LiveKept(s) \/ LiveGap(s) \/ LiveDelivered(s) \/ LiveIgnored(s) \/ Unreadable(s)
       PROVE FlagsOK'
  BY <1>11 DEF Arrives, LiveKept, LiveGap, LiveDelivered, LiveIgnored, Unreadable, Read, GivesUp, Close
<1>12. CASE ChannelReady \/ ChannelDrops \/ ChannelEnds \/ RetryFires
  BY <1>12 DEF ChannelReady, ChannelDrops, ChannelEnds, RetryFires, Read, GivesUp, Close
<1>13. CASE OpenFails \/ SubscribeStep
  BY <1>13 DEF OpenFails, SubscribeStep, Start, Opens, Fails, GivesUp, Close, Read
<1> QED
  BY <1>1, <1>2, <1>3, <1>4, <1>5, <1>6, <1>7, <1>8, <1>9, <1>10, <1>11, <1>12, <1>13
  DEF Next, ReadStep, Broadcast

-----------------------------------------------------------------------------
\* Order: what the handler gets is the log's initial part.

\* Everything before a message of the page has been delivered or is in the
\* page, so going through the page in seq order skips nothing.
PageInitial == ~closed => \A s \in page : \A t \in log : t < s => t <= lastSeq \/ t \in page

\* The stream's position is a published seq, and the running read asked for
\* what follows it or an earlier position.
PositionInLog == lastSeq \in log \cup {0} /\ Received \subseteq log /\ after <= lastSeq

\* A step hands the handler nothing, or the next message: one past lastSeq
\* with everything before it (as far as the server names it) at or before.
HandsOver == \E s \in log : ~Stale(s) /\ Follows(s) /\ Handle(s) /\ UNCHANGED log

LEMMA LowestFollows ==
  ASSUME DataOK, PageInitial, ~closed, NEW s \in page, IsLowest(s, page)
  PROVE  Follows(s)
<1> SUFFICES ASSUME NEW t \in log, t < s PROVE t <= lastSeq
  BY DEF Follows
<1>1. t \in Nat /\ s \in Nat
  BY DEF DataOK
<1>2. CASE t \in page
  BY <1>1, <1>2 DEF IsLowest
<1>3. CASE t \notin page
  BY <1>3 DEF PageInitial
<1> QED
  BY <1>2, <1>3

LEMMA DeliveryStep ==
  ASSUME DataOK, PageInitial, [Next]_vars
  PROVE  UNCHANGED <<delivered, lastSeq>> \/ HandsOver
<1> USE DEF server, fields, locals
<1>1. CASE UNCHANGED vars
  BY <1>1 DEF vars
<1>2. ASSUME NEW s \in Seqs, Publish(s) PROVE UNCHANGED <<delivered, lastSeq>>
  BY <1>2 DEF Publish
<1>3. CASE Answer \/ ListFails \/ StartRead \/ Receive \/ PageDone \/ ReleaseDone
  BY <1>3 DEF Answer, ListFails, StartRead, Receive, PageDone, ReleaseDone
<1>4. ASSUME NEW s \in page, SkipPaged(s) PROVE UNCHANGED <<delivered, lastSeq>>
  BY <1>4 DEF SkipPaged
<1>5. ASSUME NEW s \in page, DeliverPaged(s) \/ ThrowPaged(s) PROVE HandsOver
  <2>1. /\ IsLowest(s, page) /\ ~Stale(s) /\ Handle(s) /\ UNCHANGED log
        /\ s \in log
    BY <1>5 DEF DeliverPaged, ThrowPaged, DataOK
  <2>2. Follows(s)
    BY <2>1, LowestFollows DEF Stale
  <2> QED
    BY <2>1, <2>2 DEF HandsOver
<1>6. ASSUME NEW s \in held, SkipHeld(s) PROVE UNCHANGED <<delivered, lastSeq>>
  BY <1>6 DEF SkipHeld
<1>7. ASSUME NEW s \in held, DeliverHeld(s) \/ ThrowHeld(s) PROVE HandsOver
  BY <1>7 DEF DeliverHeld, ThrowHeld, HandsOver, DataOK
<1>8. ASSUME NEW s \in log, LiveKept(s) \/ LiveGap(s) \/ LiveIgnored(s) \/ Unreadable(s)
      PROVE UNCHANGED <<delivered, lastSeq>>
  BY <1>8 DEF LiveKept, LiveGap, LiveIgnored, Unreadable
<1>9. ASSUME NEW s \in log, LiveDelivered(s) PROVE HandsOver
  BY <1>9 DEF LiveDelivered, Arrives, HandsOver
<1>10. CASE ChannelReady \/ ChannelDrops \/ ChannelEnds \/ RetryFires
  BY <1>10 DEF ChannelReady, ChannelDrops, ChannelEnds, RetryFires
<1>11. CASE OpenFails \/ SubscribeStep
  BY <1>11 DEF OpenFails, SubscribeStep, Start, Opens, Fails
<1> QED
  BY <1>1, <1>2, <1>3, <1>4, <1>5, <1>6, <1>7, <1>8, <1>9, <1>10, <1>11
  DEF Next, ReadStep, Broadcast

\* The log only grows, past everything it has.
LEMMA LogStep ==
  ASSUME [Next]_vars
  PROVE  UNCHANGED log \/ \E s \in Seqs : Publish(s)
  BY DEF vars, server, Next, Publish, Answer, ListFails, ReadStep, StartRead, Receive, PageDone,
         ReleaseDone, SkipPaged, DeliverPaged, ThrowPaged, SkipHeld, DeliverHeld, ThrowHeld,
         Broadcast, LiveKept, LiveGap, LiveDelivered, LiveIgnored, Unreadable, Arrives,
         ChannelReady, ChannelDrops, ChannelEnds, RetryFires, OpenFails, SubscribeStep, Start,
         Opens, Fails

\* Handing a message over appends it to what was received.
LEMMA ReceivedStep ==
  ASSUME NEW s \in Seqs, delivered \in Seq(Seqs), Handle(s)
  PROVE  Received' = Received \cup {s}
<1>1. /\ Len(delivered') = Len(delivered) + 1 /\ Len(delivered) \in Nat
      /\ \A i \in 1..Len(delivered) : delivered'[i] = delivered[i]
      /\ delivered'[Len(delivered) + 1] = s
  BY DEF Handle
<1> QED
  BY <1>1 DEF Received

\* The running read's position is where the stream was when it asked.
LEMMA AfterStep ==
  ASSUME [Next]_vars
  PROVE  after' \in {after, 0, lastSeq}
  BY DEF vars, locals, fields, Next, Publish, Answer, ListFails, ReadStep, StartRead, Receive, PageDone,
         ReleaseDone, SkipPaged, DeliverPaged, ThrowPaged, SkipHeld, DeliverHeld, ThrowHeld,
         Broadcast, LiveKept, LiveGap, LiveDelivered, LiveIgnored, Unreadable, Arrives,
         ChannelReady, ChannelDrops, ChannelEnds, RetryFires, OpenFails, SubscribeStep, Start,
         Opens, Fails, Ask, FinishRead, ReadEnds

LEMMA PositionStep ==
  ASSUME DataOK, PageInitial, PositionInLog, [Next]_vars
  PROVE  PositionInLog'
<1>1. lastSeq \in Nat /\ after \in Nat /\ log \subseteq log'
  BY LogStep DEF DataOK, Publish
<1>2. CASE UNCHANGED <<delivered, lastSeq>>
  <2>1. Received' = Received
    BY <1>2 DEF Received
  <2>2. after' <= lastSeq'
    BY <1>1, <1>2, AfterStep DEF PositionInLog
  <2> QED
    BY <1>1, <1>2, <2>1, <2>2 DEF PositionInLog
<1>3. CASE HandsOver
  <2>1. PICK s \in log : ~Stale(s) /\ Handle(s) /\ UNCHANGED log
    BY <1>3 DEF HandsOver
  <2>2. s \in Nat /\ lastSeq' = s /\ lastSeq < s /\ Received' = Received \cup {s}
    BY <1>1, <2>1, ReceivedStep DEF DataOK, Stale, Handle
  <2>3. after' <= lastSeq'
    BY <1>1, <2>2, AfterStep DEF PositionInLog
  <2> QED
    BY <2>1, <2>2, <2>3 DEF PositionInLog
<1> QED
  BY <1>2, <1>3, DeliveryStep

\* A page keeps being initial: the server answers with an initial part of
\* what follows `after`, and messages leave it lowest first.
LEMMA PageStep ==
  ASSUME DataOK, PageInitial, PositionInLog, [Next]_vars
  PROVE  PageInitial'
<1> SUFFICES ASSUME ~closed', NEW s \in page', NEW t \in log', t < s, t \notin page'
             PROVE  t <= lastSeq'
  BY DEF PageInitial
<1> USE DEF server, fields, locals
<1>0. lastSeq \in Nat /\ after \in Nat /\ log \subseteq Nat /\ page \subseteq log /\ after <= lastSeq
  BY DEF DataOK, PositionInLog
<1>1. ASSUME page' = page, ~closed, UNCHANGED <<log, lastSeq>> PROVE t <= lastSeq'
  BY <1>0, <1>1 DEF PageInitial
<1>2. CASE UNCHANGED vars
  BY <1>1, <1>2 DEF vars
<1>3. ASSUME NEW u \in Seqs, Publish(u) PROVE t <= lastSeq'
  <2>1. u \in Nat /\ s \in log /\ s < u /\ ~closed
    BY <1>0, <1>3 DEF Publish
  <2>2. t \in log
    BY <1>0, <1>3, <2>1 DEF Publish
  <2> QED
    BY <1>0, <1>3, <2>2 DEF Publish, PageInitial
<1>4. CASE Answer
  <2>1. /\ page' \subseteq {u \in log : u > after}
        /\ \A u \in page', v \in {w \in log : w > after} : v < u => v \in page'
    BY <1>4 DEF Answer
  <2>2. t \in log /\ ~(t > after)
    BY <1>4, <2>1 DEF Answer
  <2> QED
    BY <1>0, <1>4, <2>2 DEF Answer
<1>5. CASE ListFails \/ PageDone
  BY <1>0, <1>1, <1>5 DEF ListFails, PageDone, FinishRead, ReadEnds
<1>6. CASE StartRead \/ Receive \/ ReleaseDone
  BY <1>1, <1>6 DEF StartRead, Receive, ReleaseDone
<1>7. ASSUME NEW u \in page, SkipPaged(u) PROVE t <= lastSeq'
  BY <1>0, <1>7 DEF SkipPaged, Stale, PageInitial
<1>8. ASSUME NEW u \in page, DeliverPaged(u) PROVE t <= lastSeq'
  BY <1>0, <1>8 DEF DeliverPaged, Handle, Stale, PageInitial
<1>9. ASSUME NEW u \in page, ThrowPaged(u) PROVE t <= lastSeq'
  BY <1>9 DEF ThrowPaged, FinishRead, ReadEnds
<1>10. ASSUME NEW u \in held, SkipHeld(u) PROVE t <= lastSeq'
  BY <1>1, <1>10 DEF SkipHeld
<1>11. ASSUME NEW u \in held, DeliverHeld(u) \/ ThrowHeld(u) PROVE t <= lastSeq'
  <2>1. page' = page /\ ~closed /\ lastSeq' = u /\ ~(u <= lastSeq) /\ log' = log
    BY <1>11 DEF DeliverHeld, ThrowHeld, Handle, Stale
  <2>2. u \in Nat /\ u > lastSeq
    BY <1>0, <2>1 DEF DataOK
  <2> QED
    BY <1>0, <2>1, <2>2 DEF PageInitial
<1>12. ASSUME NEW u \in log, LiveKept(u) \/ LiveGap(u) \/ LiveIgnored(u) \/ Unreadable(u)
       PROVE t <= lastSeq'
  BY <1>1, <1>12 DEF LiveKept, LiveGap, LiveIgnored, Unreadable, Arrives
<1>13. ASSUME NEW u \in log, LiveDelivered(u) PROVE t <= lastSeq'
  <2>1. page' = page /\ ~closed /\ lastSeq' = u /\ u \in Nat /\ u > lastSeq /\ log' = log
    BY <1>0, <1>13 DEF LiveDelivered, Arrives, Handle, Stale
  <2> QED
    BY <1>0, <2>1 DEF PageInitial
<1>14. CASE ChannelReady \/ ChannelDrops \/ ChannelEnds \/ RetryFires
  BY <1>1, <1>14 DEF ChannelReady, ChannelDrops, ChannelEnds, RetryFires, GivesUp, Close
<1>15. CASE OpenFails \/ SubscribeStep
  BY <1>1, <1>15 DEF OpenFails, SubscribeStep, Start, Opens, Fails, GivesUp, Close
<1> QED
  BY <1>2, <1>3, <1>4, <1>5, <1>6, <1>7, <1>8, <1>9, <1>10, <1>11, <1>12, <1>13, <1>14, <1>15
  DEF Next, ReadStep, Broadcast

LEMMA OrderStep ==
  ASSUME DataOK, PageInitial, DeliveredInOrder, [Next]_vars
  PROVE  DeliveredInOrder'
<1>0. /\ delivered \in Seq(Seqs) /\ lastSeq \in Nat /\ Len(delivered) \in Nat
      /\ \A i \in 1..Len(delivered) : delivered[i] \in Nat
  <2>1. delivered \in Seq(Seqs) /\ lastSeq \in Nat
    BY DEF DataOK
  <2>2. Len(delivered) \in Nat /\ \A i \in 1..Len(delivered) : delivered[i] \in Seqs
    BY <2>1
  <2> QED
    BY <2>1, <2>2
<1>1. CASE UNCHANGED <<delivered, lastSeq>>
  BY <1>1 DEF DeliveredInOrder
<1>2. CASE HandsOver
  <2>1. PICK s \in log : ~Stale(s) /\ Handle(s)
    BY <1>2 DEF HandsOver
  <2>2. s \in Nat /\ lastSeq < s /\ lastSeq' = s
    BY <1>0, <2>1 DEF Stale, Handle, DataOK
  <2>3. /\ Len(delivered') = Len(delivered) + 1
        /\ \A i \in 1..Len(delivered) : delivered'[i] = delivered[i]
        /\ delivered'[Len(delivered) + 1] = s /\ delivered' # <<>>
    BY <1>0, <2>1 DEF Handle, DataOK
  <2>4. \A i \in 1..Len(delivered) : delivered[i] < s
    BY <1>0, <2>2 DEF DeliveredInOrder
  <2>5. \A i, j \in 1..Len(delivered') : i < j => delivered'[i] < delivered'[j]
    BY <1>0, <2>3, <2>4 DEF DeliveredInOrder
  <2> QED
    BY <2>2, <2>3, <2>5 DEF DeliveredInOrder
<1> QED
  BY <1>1, <1>2, DeliveryStep

LEMMA SkipNothingStep ==
  ASSUME DataOK, PageInitial, PositionInLog, NothingSkipped, NamesPrev, [Next]_vars
  PROVE  NothingSkipped'
<1>0. log \subseteq Nat /\ lastSeq \in Nat
  BY DEF DataOK
<1>1. CASE UNCHANGED <<delivered, lastSeq>>
  <2>1. Received' = Received
    BY <1>1 DEF Received
  <2>2. CASE UNCHANGED log
    BY <1>1, <2>1, <2>2 DEF NothingSkipped
  <2>3. ASSUME NEW s \in Seqs, Publish(s) PROVE NothingSkipped'
    <3>1. lastSeq < s
      BY <1>0, <2>3 DEF Publish, PositionInLog
    <3> QED
      BY <1>0, <1>1, <2>1, <2>3, <3>1 DEF Publish, NothingSkipped
  <2> QED
    BY <2>2, <2>3, LogStep
<1>2. CASE HandsOver
  <2>1. PICK s \in log : ~Stale(s) /\ Follows(s) /\ Handle(s) /\ UNCHANGED log
    BY <1>2 DEF HandsOver
  <2>2. Received' = Received \cup {s} /\ lastSeq' = s
    BY <2>1, ReceivedStep DEF DataOK, Handle
  <2>3. ASSUME NEW t \in log, t <= s, t # s PROVE t \in Received
    BY <1>0, <2>1, <2>3 DEF Follows, NothingSkipped
  <2> QED
    BY <2>1, <2>2, <2>3 DEF NothingSkipped
<1> QED
  BY <1>1, <1>2, DeliveryStep

-----------------------------------------------------------------------------
\* The theorems.

\* The inductive invariant.
IInv == TypeOK /\ ReadCounted /\ PageInitial /\ PositionInLog /\ DeliveredInOrder

LEMMA IInvInit == Init => IInv
<1> SUFFICES ASSUME Init PROVE IInv
  OBVIOUS
<1>1. DataOK
  BY EmptyBounded DEF Init, DataOK, Stages, Places
<1>2. FlagsOK
  BY Zenon DEF Init, FlagsOK
<1>3. ReadCounted /\ PageInitial
  BY DEF Init, ReadCounted, PageInitial
<1>4. PositionInLog /\ DeliveredInOrder
  BY DEF Init, PositionInLog, DeliveredInOrder, Received
<1> QED
  BY <1>1, <1>2, <1>3, <1>4 DEF IInv, TypeOK

LEMMA IInvStep == IInv /\ [Next]_vars => IInv'
BY DataStep, FlagsStep, ReadCountedStep, PageStep, PositionStep, OrderStep DEF IInv, TypeOK

LEMMA Invariance == Spec => []IInv
BY IInvInit, IInvStep, PTL DEF Spec

\* The fields keep their types, and held messages stay within HELD_LIMIT,
\* whatever order broadcasts, pages, drops and retries come in.
THEOREM TypeCorrect == Spec => []TypeOK
BY Invariance, PTL DEF IInv

\* The handler gets messages in seq order, none twice, whichever of the
\* channel and the list brings them first, also from an older server.
THEOREM InOrderOnce == Spec => []DeliveredInOrder
BY Invariance, PTL DEF IInv

\* The stream never moves its position past a published message the handler
\* did not get, when broadcasts name their predecessors.
THEOREM SkipsNothing == Spec => []NothingSkipped
<1>1. CASE NamesPrev
  <2>1. Init => NothingSkipped
    BY DEF Init, NothingSkipped
  <2>2. IInv /\ NothingSkipped /\ [Next]_vars => NothingSkipped'
    BY <1>1, SkipNothingStep DEF IInv, TypeOK
  <2> QED
    BY <2>1, <2>2, Invariance, PTL DEF Spec
<1>2. CASE ~NamesPrev
  <2>1. NothingSkipped
    BY <1>2 DEF NothingSkipped
  <2> QED
    BY <2>1, PTL
<1> QED
  BY <1>1, <1>2

\* A stream that is closed stays closed.
LEMMA ClosedStep ==
  ASSUME FlagsOK, [Next]_vars
  PROVE  closed' \in {closed, TRUE}
  BY DEF vars, fields, Next, Publish, Answer, ListFails, ReadStep, StartRead, Receive, PageDone,
         ReleaseDone, SkipPaged, DeliverPaged, ThrowPaged, SkipHeld, DeliverHeld, ThrowHeld,
         Broadcast, LiveKept, LiveGap, LiveDelivered, LiveIgnored, Unreadable, Arrives,
         ChannelReady, ChannelDrops, ChannelEnds, RetryFires, OpenFails, SubscribeStep, Start,
         Opens, Fails, GivesUp, Close, FinishRead

\* Nothing past lastSeq was received.
LEMMA ReceivedBehind ==
  ASSUME DataOK, DeliveredInOrder, NEW s \in Received
  PROVE  s <= lastSeq
<1>1. delivered \in Seq(Seqs)
  BY DEF DataOK
<1>2. Len(delivered) \in Nat /\ \A i \in 1..Len(delivered) : delivered[i] \in Seqs
  BY <1>1
<1>3. PICK i \in 1..Len(delivered) : s = delivered[i]
  BY DEF Received
<1>4. lastSeq = delivered[Len(delivered)]
  BY <1>2, <1>3 DEF DeliveredInOrder
<1>5. Len(delivered) \in 1..Len(delivered) /\ s \in Nat /\ lastSeq \in Nat
  <2>1. Len(delivered) \in 1..Len(delivered)
    BY <1>2, <1>3
  <2>2. s \in Seqs /\ lastSeq \in Seqs
    BY <1>2, <1>3, <1>4, <2>1
  <2> QED
    BY <2>1, <2>2
<1>6. i < Len(delivered) => s < lastSeq
  BY <1>3, <1>4, <1>5 DEF DeliveredInOrder
<1> QED
  BY <1>2, <1>3, <1>4, <1>5, <1>6

\* With broadcasts that name their predecessors, the stream implements
\* OrderedDelivery: every step hands over the next message, publishes, ends
\* the subscription, or changes nothing the handler sees.
THEOREM Implements == ASSUME NamesPrev PROVE Spec => KeepsPromise
<1>1. Init => Promise!Init
  BY DEF Init, Promise!Init
<1>2. ASSUME IInv, NothingSkipped, [Next]_vars
      PROVE  [Promise!Next]_(Promise!vars)
  <2>0. DataOK /\ FlagsOK /\ PageInitial /\ DeliveredInOrder
    BY <1>2 DEF IInv, TypeOK
  <2>1. CASE HandsOver
    <3>1. PICK s \in log : ~Stale(s) /\ Follows(s) /\ Handle(s) /\ UNCHANGED log
      BY <2>1 DEF HandsOver
    <3>2. s \in Seqs /\ s \in Nat /\ lastSeq \in Nat /\ log \subseteq Nat
      BY <2>0 DEF DataOK
    <3>3. s \notin Promise!Received
      BY <2>0, <3>1, <3>2, ReceivedBehind DEF Received, Promise!Received, Stale
    <3>4. \A t \in log : t < s => t \in Promise!Received
      BY <1>2, <3>1 DEF Follows, NothingSkipped, Received, Promise!Received
    <3>5. Promise!Deliver(s)
      BY <3>1, <3>3, <3>4 DEF Promise!Deliver, Handle, Stale
    <3>6. Promise!Ended
      BY <2>0, <1>2, ClosedStep DEF Promise!Ended
    <3> QED
      BY <3>2, <3>5, <3>6 DEF Promise!Next
  <2>2. CASE UNCHANGED <<delivered, lastSeq>> /\ \E s \in Seqs : Publish(s)
    BY <2>2 DEF Promise!Next, Promise!Publish, Publish, fields
  <2>3. CASE UNCHANGED <<delivered, lastSeq>> /\ UNCHANGED log
    <3>1. closed' = closed \/ closed' = TRUE
      BY <2>0, <1>2, ClosedStep
    <3> QED
      BY <2>3, <3>1 DEF Promise!Next, Promise!vars
  <2> QED
    BY <1>2, <2>0, <2>1, <2>2, <2>3, DeliveryStep, LogStep
<1> QED
  BY <1>1, <1>2, Invariance, SkipsNothing, PTL DEF Spec, KeepsPromise, Promise!Spec

-----------------------------------------------------------------------------
\* The end: a subscription that failed is closed, and one that is failing is
\* closed or delivers nothing until its continuation closes it.

Quiet ==
  /\ stage = "failed" => closed
  /\ stage = "failing" => closed \/ pc \notin {"page", "release"}

LEMMA QuietStep ==
  ASSUME FlagsOK, Quiet, [Next]_vars
  PROVE  Quiet'
<1> USE DEF Quiet, server, fields, locals, EventLoopFree, GivesUp, Close
<1>1. CASE UNCHANGED vars
  BY <1>1 DEF vars
<1>2. ASSUME NEW s \in Seqs, Publish(s) PROVE Quiet'
  BY <1>2 DEF Publish
<1>3. CASE Answer \/ StartRead \/ Receive
  BY <1>3 DEF Answer, StartRead, Ask, Receive
<1>4. CASE ListFails
  BY <1>4 DEF ListFails, FinishRead, EndsStream, Settled
<1>5. CASE PageDone
  BY <1>5 DEF PageDone, Ask, FinishRead, EndsStream, Settled
<1>6. CASE ReleaseDone
  BY <1>6 DEF ReleaseDone, Settled
<1>7. ASSUME NEW s \in page, SkipPaged(s) \/ DeliverPaged(s) PROVE Quiet'
  BY <1>7 DEF SkipPaged, DeliverPaged
<1>8. ASSUME NEW s \in page, ThrowPaged(s) PROVE Quiet'
  BY <1>8 DEF ThrowPaged, FinishRead, EndsStream, Settled, Report
<1>9. ASSUME NEW s \in held, SkipHeld(s) \/ DeliverHeld(s) PROVE Quiet'
  BY <1>9 DEF SkipHeld, DeliverHeld
<1>10. ASSUME NEW s \in held, ThrowHeld(s) PROVE Quiet'
  BY <1>10 DEF ThrowHeld, Settled, Report
<1>11. ASSUME NEW s \in log,
              \/ LiveKept(s) \/ LiveGap(s) \/ LiveDelivered(s) \/ LiveIgnored(s) \/ Unreadable(s)
       PROVE Quiet'
  BY <1>11 DEF Arrives, LiveKept, LiveGap, LiveDelivered, LiveIgnored, Unreadable
<1>12. CASE ChannelReady \/ ChannelDrops \/ ChannelEnds \/ RetryFires
  BY <1>12 DEF ChannelReady, ChannelDrops, ChannelEnds, RetryFires
<1>13. CASE OpenFails \/ SubscribeStep
  BY <1>13 DEF OpenFails, SubscribeStep, Start, Opens, Fails
<1> QED
  BY <1>1, <1>2, <1>3, <1>4, <1>5, <1>6, <1>7, <1>8, <1>9, <1>10, <1>11, <1>12, <1>13
  DEF Next, ReadStep, Broadcast

\* What is handed over, is to a stream that is not closed and has not failed.
LEMMA EndedStep ==
  ASSUME Quiet, [Next]_vars, closed \/ stage \in {"failing", "failed"}
  PROVE  UNCHANGED delivered
<1> USE DEF Quiet, server, fields, locals, EventLoopFree, Stale
<1>1. CASE UNCHANGED vars
  BY <1>1 DEF vars
<1>2. ASSUME NEW s \in Seqs, Publish(s) PROVE UNCHANGED delivered
  BY <1>2 DEF Publish
<1>3. CASE Answer \/ ListFails \/ ReadStep
  BY <1>3 DEF Answer, ListFails, ReadStep, StartRead, Receive, PageDone, ReleaseDone,
     SkipPaged, DeliverPaged, ThrowPaged, SkipHeld, DeliverHeld, ThrowHeld
<1>4. CASE Broadcast
  BY <1>4 DEF Broadcast, Arrives, LiveKept, LiveGap, LiveDelivered, LiveIgnored, Unreadable
<1>5. CASE ChannelReady \/ ChannelDrops \/ ChannelEnds \/ RetryFires
  BY <1>5 DEF ChannelReady, ChannelDrops, ChannelEnds, RetryFires
<1>6. CASE OpenFails \/ SubscribeStep
  BY <1>6 DEF OpenFails, SubscribeStep, Start, Opens, Fails
<1> QED
  BY <1>1, <1>2, <1>3, <1>4, <1>5, <1>6 DEF Next

\* A subscription that is over, or whose subscribe() fails, calls its handler
\* no more, whatever page or release was under way.
THEOREM EndedIsSilent == Spec => EndedDeliversNothing
<1>1. Init => Quiet
  BY DEF Init, Quiet
<1>2. IInv /\ Quiet /\ [Next]_vars => Quiet'
  BY QuietStep DEF IInv, TypeOK
<1>3. Quiet /\ [Next]_vars =>
        [closed \/ stage \in {"failing", "failed"} => UNCHANGED delivered]_vars
  BY EndedStep
<1> QED
  BY <1>1, <1>2, <1>3, Invariance, PTL DEF Spec, EndedDeliversNothing

-----------------------------------------------------------------------------
\* The first read: what it lists, and that subscribe() waits for it.

\* Until subscribe() starts the stream, nothing reads.
NotStarted ==
  stage \in {"opening", "ready"} => holding /\ ~retry /\ catchUps = 0 /\ pc = "idle"

\* A page follows the read's `after`; one that says there is more is not
\* empty, and the stream moves past `after` with it; one that says there is
\* none has all of the backlog the handler did not get.
PageListed ==
  pc \in {"answered", "page"} =>
    /\ \A s \in page : s > after
    /\ ~closed /\ more /\ lastSeq = after => page # {}
    /\ ~closed /\ ~more => \A s \in backlog : s <= lastSeq \/ s \in page

CaughtUp == \A s \in backlog : s <= lastSeq

\* The first read settles when the backlog has been delivered.
FirstRead ==
  /\ stage = "settling" \/ (stage = "reading" /\ pc = "release" /\ readOk) => closed \/ CaughtUp
  /\ stage = "open" => CaughtUp

\* The stream's position never goes back.
LEMMA PositionGrows ==
  ASSUME DataOK, DataOK', PageInitial, [Next]_vars
  PROVE  lastSeq \in Nat /\ lastSeq' \in Nat /\ lastSeq <= lastSeq'
<1>1. lastSeq \in Nat /\ lastSeq' \in Nat
  BY DEF DataOK
<1>2. CASE HandsOver
  BY <1>1, <1>2 DEF HandsOver, Stale, Handle, DataOK
<1> QED
  BY <1>1, <1>2, DeliveryStep

LEMMA NotStartedStep ==
  ASSUME FlagsOK, NotStarted, [Next]_vars
  PROVE  NotStarted'
<1> USE DEF NotStarted, server, fields, locals, GivesUp, Close
<1>1. CASE UNCHANGED vars
  BY <1>1 DEF vars
<1>2. ASSUME NEW s \in Seqs, Publish(s) PROVE NotStarted'
  BY <1>2 DEF Publish
<1>3. CASE Answer \/ StartRead \/ Receive
  BY <1>3 DEF Answer, StartRead, Ask, Receive
<1>4. CASE ListFails \/ PageDone \/ ReleaseDone
  BY <1>4 DEF ListFails, PageDone, ReleaseDone, FinishRead, Settled
<1>5. ASSUME NEW s \in page, SkipPaged(s) \/ DeliverPaged(s) \/ ThrowPaged(s) PROVE NotStarted'
  BY <1>5 DEF SkipPaged, DeliverPaged, ThrowPaged, FinishRead, Settled
<1>6. ASSUME NEW s \in held, SkipHeld(s) \/ DeliverHeld(s) \/ ThrowHeld(s) PROVE NotStarted'
  BY <1>6 DEF SkipHeld, DeliverHeld, ThrowHeld, Settled
<1>7. ASSUME NEW s \in log,
             \/ LiveKept(s) \/ LiveGap(s) \/ LiveDelivered(s) \/ LiveIgnored(s) \/ Unreadable(s)
      PROVE NotStarted'
  BY <1>7 DEF Arrives, LiveKept, LiveGap, LiveDelivered, LiveIgnored, Unreadable, Unlisted, Behind
<1>8. CASE ChannelReady \/ ChannelDrops \/ ChannelEnds \/ RetryFires
  BY <1>8 DEF ChannelReady, ChannelDrops, ChannelEnds, RetryFires, Started
<1>9. CASE OpenFails \/ SubscribeStep
  BY <1>9 DEF OpenFails, SubscribeStep, Start, Opens, Fails
<1> QED
  BY <1>1, <1>2, <1>3, <1>4, <1>5, <1>6, <1>7, <1>8, <1>9 DEF Next, ReadStep, Broadcast

LEMMA PageListedStep ==
  ASSUME DataOK, DataOK', ReadCounted, PageInitial, PositionInLog, NotStarted, PageListed, [Next]_vars
  PROVE  PageListed'
<1> USE DEF server, fields, locals
<1>0. /\ lastSeq \in Nat /\ lastSeq' \in Nat /\ lastSeq <= lastSeq'
      /\ after \in Nat /\ after <= lastSeq /\ log \subseteq Nat
      /\ page \subseteq log /\ backlog \subseteq log
  <2>1. lastSeq \in Nat /\ lastSeq' \in Nat /\ lastSeq <= lastSeq'
    BY PositionGrows
  <2> QED
    BY <2>1 DEF DataOK, PositionInLog
<1>1. ASSUME UNCHANGED <<page, more, after, lastSeq, backlog, pc>>, closed => closed'
      PROVE  PageListed'
  BY <1>1 DEF PageListed
<1>2. CASE UNCHANGED vars
  BY <1>1, <1>2 DEF vars
<1>3. ASSUME NEW s \in Seqs, Publish(s) PROVE PageListed'
  BY <1>1, <1>3 DEF Publish
<1>4. CASE Answer
  <2> DEFINE rest == {s \in log : s > after}
  <2>1. /\ page' \subseteq rest /\ (page' = {} => rest = {}) /\ more' = (page' # rest)
        /\ UNCHANGED <<lastSeq, after, backlog, closed>>
    BY <1>4 DEF Answer
  <2>2. \A s \in page' : s > after'
    BY <2>1
  <2>3. ~closed' /\ more' /\ lastSeq' = after' => page' # {}
    BY <2>1
  <2>4. ASSUME ~more', NEW s \in backlog, s \notin page' PROVE s <= lastSeq
    <3>1. s \notin rest /\ s \in log
      BY <1>0, <2>1, <2>4
    <3>2. s \in Nat /\ ~(s > after)
      BY <1>0, <3>1
    <3> QED
      BY <1>0, <3>2
  <2> QED
    BY <2>1, <2>2, <2>3, <2>4 DEF PageListed
<1>5. CASE ListFails \/ StartRead \/ ReleaseDone
  BY <1>5 DEF PageListed, ListFails, FinishRead, StartRead, Ask, ReleaseDone
<1>6. CASE Receive
  BY <1>6 DEF PageListed, Receive
<1>7. CASE PageDone
  BY <1>7 DEF PageListed, PageDone, Ask, FinishRead
<1>8. ASSUME NEW s \in page, SkipPaged(s) PROVE PageListed'
  <2>1. /\ pc = "page" /\ page' = page \ {s} /\ (closed \/ s <= lastSeq)
        /\ UNCHANGED <<lastSeq, after, more, backlog, closed>>
    BY <1>8 DEF SkipPaged, Stale
  <2>2. s \in Nat
    BY <1>0
  <2>3. s > after
    BY <2>1 DEF PageListed
  <2> QED
    BY <1>0, <2>1, <2>2, <2>3 DEF PageListed
<1>9. ASSUME NEW s \in page, DeliverPaged(s) PROVE PageListed'
  <2>1. /\ pc = "page" /\ page' = page \ {s} /\ ~closed /\ ~(s <= lastSeq) /\ lastSeq' = s
        /\ UNCHANGED <<after, more, backlog>>
    BY <1>9 DEF DeliverPaged, Stale, Handle
  <2>2. s \in Nat /\ lastSeq' # after'
    BY <1>0, <2>1
  <2>3. \A t \in backlog : t \in Nat /\ (t <= lastSeq => t <= lastSeq')
    BY <1>0
  <2> QED
    BY <2>1, <2>2, <2>3 DEF PageListed
<1>10. ASSUME NEW s \in page, ThrowPaged(s) PROVE PageListed'
  BY <1>10 DEF ThrowPaged, FinishRead, PageListed
<1>11. ASSUME NEW s \in held, SkipHeld(s) \/ DeliverHeld(s) \/ ThrowHeld(s) PROVE PageListed'
  BY <1>11 DEF SkipHeld, DeliverHeld, ThrowHeld, PageListed
<1>12. ASSUME NEW s \in log, LiveKept(s) \/ LiveGap(s) \/ LiveIgnored(s) \/ Unreadable(s)
       PROVE PageListed'
  BY <1>1, <1>12 DEF LiveKept, LiveGap, LiveIgnored, Unreadable, Arrives
<1>13. ASSUME NEW s \in log, LiveDelivered(s) PROVE PageListed'
  <2>1. pc \notin {"answered", "page"} /\ pc' = pc
    BY <1>13 DEF LiveDelivered, Arrives, Behind, ReadCounted
  <2> QED
    BY <2>1 DEF PageListed
<1>14. CASE ChannelReady \/ ChannelDrops \/ ChannelEnds \/ RetryFires
  BY <1>1, <1>14 DEF ChannelReady, ChannelDrops, ChannelEnds, RetryFires, GivesUp, Close
<1>15. CASE OpenFails \/ Opens \/ Fails
  BY <1>1, <1>15 DEF OpenFails, Opens, Fails, GivesUp, Close
<1>16. CASE Start
  BY <1>16 DEF Start, NotStarted, PageListed
<1> QED
  BY <1>2, <1>3, <1>4, <1>5, <1>6, <1>7, <1>8, <1>9, <1>10, <1>11, <1>12, <1>13, <1>14, <1>15,
     <1>16 DEF Next, ReadStep, Broadcast, SubscribeStep

LEMMA FirstReadStep ==
  ASSUME DataOK, DataOK', FlagsOK, PageInitial, NotStarted, PageListed, FirstRead, [Next]_vars
  PROVE  FirstRead'
<1> USE DEF server, fields, locals
<1>0. CaughtUp /\ backlog' = backlog => CaughtUp'
  <2>1. /\ lastSeq \in Nat /\ lastSeq' \in Nat /\ lastSeq <= lastSeq'
        /\ backlog \subseteq Nat
    BY PositionGrows DEF DataOK
  <2> QED
    BY <2>1 DEF CaughtUp
<1>1. ASSUME UNCHANGED <<backlog, stage, pc, readOk>>, closed => closed' PROVE FirstRead'
  BY <1>0, <1>1 DEF FirstRead
<1>2. CASE UNCHANGED vars
  BY <1>1, <1>2 DEF vars
<1>3. ASSUME NEW s \in Seqs, Publish(s) PROVE FirstRead'
  BY <1>1, <1>3 DEF Publish
<1>4. CASE Answer \/ StartRead \/ Receive
  BY <1>0, <1>4 DEF FirstRead, Answer, StartRead, Ask, Receive
<1>5. CASE ListFails
  BY <1>0, <1>5 DEF FirstRead, ListFails, FinishRead, Settled, EndsStream, Close
<1>6. CASE PageDone
  <2>1. CASE MorePages
    BY <1>0, <1>6, <2>1 DEF FirstRead, PageDone, Ask
  <2>2. CASE ~MorePages
    <3>1. closed \/ CaughtUp
      BY <1>6, <2>2 DEF PageDone, MorePages, PageListed, CaughtUp
    <3>2. UNCHANGED <<closed, backlog>>
      BY <1>6, <2>2 DEF PageDone, FinishRead, EndsStream
    <3> QED
      BY <1>0, <1>6, <2>2, <3>1, <3>2 DEF FirstRead, PageDone, FinishRead, Settled
  <2> QED
    BY <2>1, <2>2
<1>7. CASE ReleaseDone
  BY <1>0, <1>7 DEF FirstRead, ReleaseDone, Settled
<1>8. ASSUME NEW s \in page, SkipPaged(s) \/ DeliverPaged(s) PROVE FirstRead'
  BY <1>1, <1>8 DEF SkipPaged, DeliverPaged, GivesUp, Close
<1>9. ASSUME NEW s \in page, ThrowPaged(s) PROVE FirstRead'
  BY <1>0, <1>9 DEF FirstRead, ThrowPaged, FinishRead, Settled, EndsStream, Close, Report
<1>10. ASSUME NEW s \in held, SkipHeld(s) \/ DeliverHeld(s) PROVE FirstRead'
  BY <1>1, <1>10 DEF SkipHeld, DeliverHeld, GivesUp, Close
<1>11. ASSUME NEW s \in held, ThrowHeld(s) PROVE FirstRead'
  BY <1>0, <1>11 DEF FirstRead, ThrowHeld, Settled, Report
<1>12. ASSUME NEW s \in log,
              \/ LiveKept(s) \/ LiveGap(s) \/ LiveDelivered(s) \/ LiveIgnored(s) \/ Unreadable(s)
       PROVE FirstRead'
  BY <1>1, <1>12 DEF Arrives, LiveKept, LiveGap, LiveDelivered, LiveIgnored, Unreadable, Read,
     GivesUp, Close
<1>13. CASE ChannelReady
  BY <1>0, <1>13 DEF FirstRead, ChannelReady, Read, Started
<1>14. CASE ChannelDrops \/ ChannelEnds \/ RetryFires
  BY <1>1, <1>14 DEF ChannelDrops, ChannelEnds, RetryFires, Read, GivesUp, Close
<1>15. CASE Start
  BY <1>15 DEF Start, NotStarted, FirstRead
<1>16. CASE OpenFails \/ Opens \/ Fails
  BY <1>0, <1>16 DEF FirstRead, OpenFails, Opens, Fails, GivesUp, Close
<1> QED
  BY <1>2, <1>3, <1>4, <1>5, <1>6, <1>7, <1>8, <1>9, <1>10, <1>11, <1>12, <1>13, <1>14, <1>15,
     <1>16 DEF Next, ReadStep, Broadcast, SubscribeStep

\* What a read relies on, added to the inductive invariant.
Reading == NotStarted /\ PageListed /\ FirstRead

LEMMA ReadingHolds == Spec => []Reading
<1>1. Init => Reading
  BY DEF Init, Reading, NotStarted, PageListed, FirstRead
<1>2. IInv /\ IInv' /\ Reading /\ [Next]_vars => Reading'
  BY NotStartedStep, PageListedStep, FirstReadStep DEF IInv, TypeOK, Reading
<1> QED
  BY <1>1, <1>2, Invariance, PTL DEF Spec

\* subscribe() answers with a subscription only when everything published
\* before its first read has been delivered, whatever was held meanwhile.
THEOREM OpensCaughtUp == Spec => []OpenedCaughtUp
<1>1. Reading => OpenedCaughtUp
  BY DEF Reading, FirstRead, CaughtUp, OpenedCaughtUp
<1> QED
  BY <1>1, ReadingHolds, PTL

-----------------------------------------------------------------------------
\* Nothing that arrived is forgotten.

\* What is held, of a stream that follows its channel, is to be released: by
\* a read, a retry, or the release that runs.
HeldDue == held # {} /\ ~closed /\ ~holding => retry \/ catchUps > 0 \/ pc = "release"

\* NothingForgotten of one message, whatever the broadcasts name.
Remembered(s) ==
  \/ s <= lastSeq \/ closed \/ holding \/ retry
  \/ WillList(s)
  \/ pc = "release" /\ ~readOk
  \/ (catchUps > 0 \/ pc = "release") /\ \E t \in held : s <= t

AllRemembered == \A s \in arrived : Remembered(s)

\* keep() drops a message only for one that is held and comes after it.
LEMMA KeepCovers ==
  ASSUME DataOK, NEW s \in Seqs, Keep(s), NEW u \in held \cup {s}
  PROVE  \E t \in held' : u <= t
<1> DEFINE kept == held \cup {s}
<1>0. kept \subseteq Nat /\ HeldLimit \in Nat \ {0}
  BY DEF DataOK
<1>1. CASE ~(Cardinality(kept) > HeldLimit)
  <2>1. u \in held' /\ u \in Nat
    BY <1>0, <1>1 DEF Keep
  <2>2. u <= u
    BY <2>1
  <2> QED
    BY <2>1, <2>2
<1>2. CASE Cardinality(kept) > HeldLimit
  <2>1. PICK d \in kept : IsLowest(d, kept) /\ held' = kept \ {d}
    BY <1>2 DEF Keep
  <2>2. CASE u # d
    <3>1. u \in held' /\ u \in Nat
      BY <1>0, <2>1, <2>2
    <3>2. u <= u
      BY <3>1
    <3> QED
      BY <3>1, <3>2
  <2>3. CASE u = d
    <3>1. kept # {d}
      <4>1. Cardinality({d}) = 1
        BY FS_Singleton
      <4>2. kept = {d} => 1 > HeldLimit
        BY <1>2, <4>1
      <4> QED
        BY <1>0, <4>2
    <3>2. PICK t \in kept : t # d
      BY <2>1, <3>1
    <3>3. t \in held' /\ d <= t
      BY <2>1, <3>2 DEF IsLowest
    <3> QED
      BY <2>3, <3>3
  <2> QED
    BY <2>2, <2>3
<1> QED
  BY <1>1, <1>2

LEMMA HeldDueStep ==
  ASSUME DataOK, FlagsOK, ReadCounted, HeldDue, [Next]_vars
  PROVE  HeldDue'
<1> USE DEF server, fields, locals
<1>0. catchUps \in Nat
  BY DEF DataOK
<1>1. CASE UNCHANGED vars
  BY <1>1 DEF HeldDue, vars
<1>2. ASSUME NEW s \in Seqs, Publish(s) PROVE HeldDue'
  BY <1>2 DEF HeldDue, Publish
<1>3. CASE Answer \/ StartRead \/ Receive
  BY <1>3 DEF HeldDue, Answer, StartRead, Ask, Receive
<1>4. CASE ListFails \/ PageDone
  <2>1. pc # "release" /\ catchUps > 0
    BY <1>4 DEF ReadCounted, ListFails, PageDone
  <2>2. CASE FinishRead(TRUE) \/ FinishRead(FALSE)
    <3>1. /\ catchUps' = catchUps - 1
          /\ IF catchUps = 1 /\ ~holding THEN pc' = "release" ELSE pc' = "idle"
          /\ holding' = holding
      BY <2>2 DEF FinishRead
    <3>2. catchUps' > 0 \/ pc' = "release" \/ holding'
      BY <1>0, <2>1, <3>1
    <3> QED
      BY <3>2 DEF HeldDue
  <2>3. CASE Ask
    BY <1>4, <2>1, <2>3 DEF HeldDue, ListFails, PageDone, Ask, FinishRead
  <2> QED
    BY <1>4, <2>2, <2>3 DEF ListFails, PageDone
<1>5. CASE ReleaseDone
  BY <1>5 DEF HeldDue, ReleaseDone, Backoff
<1>6. ASSUME NEW s \in page, SkipPaged(s) \/ DeliverPaged(s) PROVE HeldDue'
  BY <1>6 DEF HeldDue, SkipPaged, DeliverPaged, GivesUp, Close
<1>7. ASSUME NEW s \in page, ThrowPaged(s) PROVE HeldDue'
  BY <1>0, <1>7 DEF HeldDue, ReadCounted, ThrowPaged, FinishRead, EndsStream, Close
<1>8. ASSUME NEW s \in held, SkipHeld(s) \/ DeliverHeld(s) PROVE HeldDue'
  BY <1>8 DEF HeldDue, SkipHeld, DeliverHeld, GivesUp, Close
<1>9. ASSUME NEW s \in held, ThrowHeld(s) PROVE HeldDue'
  BY <1>9 DEF HeldDue, ThrowHeld, Backoff, Stale
<1>10. ASSUME NEW s \in log,
              \/ LiveKept(s) \/ LiveGap(s) \/ LiveDelivered(s) \/ LiveIgnored(s) \/ Unreadable(s)
       PROVE HeldDue'
  BY <1>0, <1>10 DEF HeldDue, Arrives, LiveKept, LiveGap, LiveDelivered, LiveIgnored, Unreadable,
     Behind, Read, GivesUp, Close
<1>11. CASE ChannelReady \/ ChannelDrops \/ ChannelEnds \/ RetryFires
  BY <1>0, <1>11 DEF HeldDue, ChannelReady, ChannelDrops, ChannelEnds, RetryFires, Read, GivesUp, Close
<1>12. CASE OpenFails \/ SubscribeStep
  BY <1>0, <1>12 DEF HeldDue, OpenFails, SubscribeStep, Start, Opens, Fails, Read, GivesUp, Close
<1> QED
  BY <1>1, <1>2, <1>3, <1>4, <1>5, <1>6, <1>7, <1>8, <1>9, <1>10, <1>11, <1>12
  DEF Next, ReadStep, Broadcast

\* A read that is called will list everything published.
LEMMA ReadLists ==
  ASSUME DataOK, ReadCounted, Read, pc # "release", UNCHANGED pc, NEW s
  PROVE  WillList(s)'
<1>1. catchUps \in Nat /\ catchUps' = catchUps + 1
  BY DEF DataOK, Read
<1>2. catchUps = 0 => pc = "idle"
  BY <1>1 DEF DataOK, Places, ReadCounted
<1> QED
  BY <1>1, <1>2 DEF WillList

\* The end of a read leaves a message remembered that the read did not list.
LEMMA FinishRemembers ==
  ASSUME DataOK, FlagsOK, NEW ok \in BOOLEAN, NEW s \in arrived, Remembered(s), FinishRead(ok),
         catchUps > 0, pc # "release", lastSeq \in Nat, lastSeq' \in Nat, lastSeq <= lastSeq',
         ok => page = {} /\ ~MorePages /\ pc = "page"
  PROVE  Remembered(s)'
<1>0. catchUps \in Nat /\ catchUps' = catchUps - 1 /\ s \in Nat /\ holding' = holding
  BY DEF DataOK, FinishRead
<1>1. CASE s <= lastSeq
  BY <1>0, <1>1 DEF Remembered
<1>2. CASE closed \/ EndsStream(ok)
  BY <1>2 DEF Remembered, FinishRead, Close
<1>3. CASE holding
  BY <1>0, <1>3 DEF Remembered
<1> SUFFICES ASSUME ~(s <= lastSeq), ~closed, ~EndsStream(ok), ~holding PROVE Remembered(s)'
  BY <1>1, <1>2, <1>3
<1>4. UNCHANGED <<closed, held, retry>>
  BY DEF FinishRead
<1>5. CASE retry
  BY <1>4, <1>5 DEF Remembered
<1>6. CASE catchUps > 1
  <2>1. catchUps' > 0 /\ pc' = "idle"
    BY <1>0, <1>6 DEF FinishRead
  <2> QED
    BY <2>1 DEF Remembered, WillList
<1>7. CASE ~(catchUps > 1) /\ ~retry
  <2>1. catchUps = 1 /\ pc' = "release" /\ readOk' = ok
    BY <1>0, <1>7 DEF FinishRead
  <2>2. CASE ~ok
    BY <2>1, <2>2 DEF Remembered
  <2>3. CASE ok
    <3>1. ~WillList(s)
      BY <2>1, <2>3 DEF WillList, MorePages
    <3>2. \E t \in held : s <= t
      BY <1>7, <3>1 DEF Remembered
    <3> QED
      BY <1>4, <2>1, <3>2 DEF Remembered
  <2> QED
    BY <2>2, <2>3
<1> QED
  BY <1>5, <1>6, <1>7

LEMMA RememberedStep ==
  ASSUME IInv, IInv', Reading, HeldDue, AllRemembered, [Next]_vars
  PROVE  AllRemembered'
<1> SUFFICES ASSUME NEW s \in arrived' PROVE Remembered(s)'
  BY DEF AllRemembered
<1> USE DEF server, fields, locals
<1>0. /\ lastSeq \in Nat /\ lastSeq' \in Nat /\ lastSeq <= lastSeq'
      /\ after \in Nat /\ after <= lastSeq /\ log' \subseteq Nat /\ s \in Nat
      /\ catchUps \in Nat
  <2>1. lastSeq \in Nat /\ lastSeq' \in Nat /\ lastSeq <= lastSeq'
    BY PositionGrows DEF IInv, TypeOK
  <2> QED
    BY <2>1 DEF IInv, TypeOK, DataOK, PositionInLog
<1>1. s \in arrived => Remembered(s)
  BY DEF AllRemembered
<1>2. ASSUME closed' \/ (holding' = TRUE) \/ (retry' = TRUE) PROVE Remembered(s)'
  BY <1>2 DEF Remembered
<1>3. ASSUME s \in arrived, UNCHANGED <<closed, holding, retry, catchUps, held, pc, page, more, after, readOk>>
      PROVE  Remembered(s)'
  <2>1. CASE s <= lastSeq
    BY <1>0, <2>1 DEF Remembered
  <2>2. CASE WillList(s)
    BY <1>0, <1>3, <2>2 DEF Remembered, WillList
  <2> QED
    BY <1>1, <1>3, <2>1, <2>2 DEF Remembered
<1>4. ASSUME Read, pc # "release", UNCHANGED pc PROVE Remembered(s)'
  BY <1>4, ReadLists DEF Remembered, IInv, TypeOK
<1>5. CASE UNCHANGED vars
  BY <1>3, <1>5 DEF vars
<1>6. ASSUME NEW u \in Seqs, Publish(u) PROVE Remembered(s)'
  BY <1>3, <1>6 DEF Publish
<1>7. CASE Answer
  <2> DEFINE rest == {t \in log : t > after}
  <2>1. /\ page' \subseteq rest /\ (page' = {} => rest = {}) /\ more' = (page' # rest)
        /\ s \in arrived /\ s \in log /\ catchUps' = catchUps
    BY <1>7 DEF Answer, IInv, TypeOK, DataOK
  <2>2. CASE s > after
    <3>1. s \in rest /\ catchUps > 0
      BY <1>7, <2>1, <2>2 DEF Answer, IInv, ReadCounted
    <3>2. s \in page' \/ (more' /\ page' # {})
      BY <2>1, <3>1
    <3> QED
      BY <2>1, <3>1, <3>2 DEF Remembered, WillList
  <2>3. CASE ~(s > after)
    BY <1>0, <2>3 DEF Remembered
  <2> QED
    BY <2>2, <2>3
<1>8. CASE ListFails
  <2>1. FinishRead(FALSE) /\ s \in arrived /\ catchUps > 0 /\ pc # "release"
    BY <1>8 DEF ListFails, IInv, ReadCounted
  <2> QED
    BY <1>0, <1>1, <2>1, FinishRemembers DEF IInv, TypeOK
<1>9. CASE StartRead
  BY <1>9 DEF StartRead, Ask, Remembered, WillList
<1>10. CASE Receive
  BY <1>1, <1>10 DEF Receive, Remembered, WillList
<1>11. CASE PageDone
  <2>1. s \in arrived /\ catchUps > 0 /\ pc = "page" /\ page = {}
    BY <1>11 DEF PageDone, IInv, ReadCounted
  <2>2. CASE MorePages
    BY <1>11, <2>1, <2>2 DEF PageDone, Ask, Remembered, WillList
  <2>3. CASE ~MorePages
    <3>1. FinishRead(TRUE)
      BY <1>11, <2>3 DEF PageDone
    <3> QED
      BY <1>0, <1>1, <2>1, <2>3, <3>1, FinishRemembers DEF IInv, TypeOK
  <2> QED
    BY <2>2, <2>3
<1>12. CASE ReleaseDone
  <2>1. CASE readOk /\ held = {}
    <3>1. UNCHANGED <<retry, lastSeq, holding, catchUps, closed, page, more, after>> /\ pc' = "idle"
          /\ s \in arrived /\ pc = "release"
      BY <1>12, <2>1 DEF ReleaseDone, Backoff
    <3>2. WillList(s) => WillList(s)'
      BY <3>1 DEF WillList
    <3>3. s <= lastSeq \/ closed \/ holding \/ retry \/ WillList(s)
      BY <1>1, <2>1, <3>1 DEF Remembered
    <3> QED
      BY <3>1, <3>2, <3>3 DEF Remembered
  <2>2. CASE ~(readOk /\ held = {})
    <3>1. closed' \/ retry' = TRUE
      BY <1>12, <2>2 DEF ReleaseDone, Backoff
    <3> QED
      BY <1>2, <3>1
  <2> QED
    BY <2>1, <2>2
<1>13. ASSUME NEW u \in page, SkipPaged(u) PROVE Remembered(s)'
  <2>1. /\ pc = "page" /\ page' = page \ {u} /\ (closed \/ u <= lastSeq) /\ s \in arrived
        /\ UNCHANGED <<closed, holding, retry, catchUps, held, pc, more, after, readOk, lastSeq>>
    BY <1>13 DEF SkipPaged, Stale
  <2>2. u > after /\ u \in Nat
    <3>1. u > after
      BY <2>1 DEF Reading, PageListed
    <3>2. u \in Nat
      BY DEF IInv, TypeOK, DataOK
    <3> QED
      BY <3>1, <3>2
  <2>3. CASE ~closed /\ WillList(s)
    BY <1>0, <2>1, <2>2, <2>3 DEF WillList, Remembered
  <2> QED
    BY <1>1, <2>1, <2>3 DEF Remembered
<1>14. ASSUME NEW u \in page, DeliverPaged(u) PROVE Remembered(s)'
  <2>1. /\ pc = "page" /\ page' = page \ {u} /\ ~(u <= lastSeq) /\ lastSeq' = u /\ s \in arrived
        /\ UNCHANGED <<holding, catchUps, pc, more, after, readOk>>
        /\ closed' \/ UNCHANGED <<closed, held, retry>>
    BY <1>14 DEF DeliverPaged, Stale, Handle, GivesUp, Close
  <2>2. u \in Nat /\ lastSeq' # after'
    BY <1>0, <2>1
  <2>3. CASE s <= lastSeq
    BY <1>0, <2>3 DEF Remembered
  <2>4. CASE WillList(s)
    <3>1. s \in page => s \in page' \/ s <= lastSeq'
      BY <1>0, <2>1
    <3> QED
      BY <2>1, <2>2, <2>4, <3>1 DEF WillList, Remembered
  <2>5. CASE closed'
    BY <1>2, <2>5
  <2> QED
    BY <1>1, <2>1, <2>3, <2>4, <2>5 DEF Remembered
<1>15. ASSUME NEW u \in page, ThrowPaged(u) PROVE Remembered(s)'
  <2>1. FinishRead(FALSE) /\ s \in arrived /\ catchUps > 0 /\ pc # "release"
    BY <1>15 DEF ThrowPaged, IInv, ReadCounted
  <2> QED
    BY <1>0, <1>1, <2>1, FinishRemembers DEF IInv, TypeOK
<1>16. ASSUME NEW u \in held, SkipHeld(u) \/ DeliverHeld(u) \/ ThrowHeld(u) PROVE Remembered(s)'
  <2>1. /\ pc = "release" /\ s \in arrived /\ u \in Nat
        /\ UNCHANGED <<holding, catchUps, page, more, after>>
    BY <1>16 DEF SkipHeld, DeliverHeld, ThrowHeld, IInv, TypeOK, DataOK
  <2>2. s <= u => s <= lastSeq' \/ closed'
    <3>1. lastSeq' = u \/ (lastSeq' = lastSeq /\ closed' = closed /\ (closed \/ u <= lastSeq))
      BY <1>16 DEF SkipHeld, DeliverHeld, ThrowHeld, Stale, Handle
    <3> QED
      BY <1>0, <2>1, <3>1
  <2>3. CASE s <= lastSeq
    BY <1>0, <2>3 DEF Remembered
  <2>4. CASE WillList(s)
    <3>1. lastSeq # after => lastSeq' # after'
      BY <1>0, <2>1
    <3> QED
      BY <2>1, <2>4, <3>1 DEF WillList, Remembered
  <2>5. CASE closed \/ holding
    <3>1. closed => closed'
      BY <1>16 DEF SkipHeld, DeliverHeld, ThrowHeld, Stale
    <3> QED
      BY <2>1, <2>5, <3>1 DEF Remembered
  <2>6. CASE retry
    BY <1>16, <2>6 DEF SkipHeld, DeliverHeld, ThrowHeld, Backoff, GivesUp, Close, Remembered
  <2>7. CASE ~readOk
    BY <1>16, <2>1, <2>7 DEF SkipHeld, DeliverHeld, ThrowHeld, Backoff, Stale, GivesUp, Close, Remembered
  <2>8. ASSUME NEW t \in held, s <= t PROVE Remembered(s)'
    <3>1. CASE t = u
      BY <1>0, <2>2, <2>8, <3>1 DEF Remembered
    <3>2. CASE t # u
      BY <1>16, <2>1, <2>8, <3>2 DEF SkipHeld, DeliverHeld, ThrowHeld, Backoff, Stale, GivesUp, Close,
         Remembered
    <3> QED
      BY <3>1, <3>2
  <2> QED
    BY <1>1, <2>1, <2>3, <2>4, <2>5, <2>6, <2>7, <2>8 DEF Remembered
<1>17. ASSUME NEW u \in log, LiveKept(u) \/ LiveGap(u) PROVE Remembered(s)'
  <2>1. /\ Keep(u) /\ u \in Seqs /\ s \in arrived \cup {u} /\ pc \notin {"page", "release"}
        /\ UNCHANGED pc
    BY <1>17 DEF LiveKept, LiveGap, Arrives, EventLoopFree, IInv, TypeOK, DataOK
  <2>2. CASE LiveGap(u)
    BY <1>4, <2>1, <2>2 DEF LiveGap
  <2>3. CASE LiveKept(u)
    <3>0. /\ UNCHANGED <<lastSeq, closed, holding, retry, catchUps, page, more, after, readOk>>
          /\ ~closed /\ Behind
      BY <2>3 DEF LiveKept, Arrives
    <3>1. CASE holding \/ retry
      BY <3>0, <3>1 DEF Remembered
    <3>2. CASE ~holding /\ ~retry
      <4>1. catchUps > 0
        BY <1>0, <2>1, <3>0, <3>2 DEF Behind, HeldDue
      <4>2. ASSUME NEW v \in held \cup {u}, s <= v PROVE Remembered(s)'
        <5>1. PICK t \in held' : v <= t
          BY <2>1, KeepCovers DEF IInv, TypeOK
        <5>2. t \in Nat /\ v \in Nat
          BY <2>1 DEF IInv, TypeOK, DataOK
        <5>3. s <= t
          BY <1>0, <4>2, <5>1, <5>2
        <5> QED
          BY <3>0, <4>1, <5>1, <5>3 DEF Remembered
      <4>3. CASE s = u
        BY <1>0, <4>2, <4>3
      <4>4. CASE s \in arrived
        BY <1>1, <2>1, <3>0, <3>2, <4>2, <4>4 DEF Remembered, WillList
      <4> QED
        BY <2>1, <4>3, <4>4
    <3> QED
      BY <3>1, <3>2
  <2> QED
    BY <1>17, <2>2, <2>3
<1>18. ASSUME NEW u \in log, LiveDelivered(u) PROVE Remembered(s)'
  <2>1. /\ lastSeq' = u /\ s \in arrived \cup {u}
        /\ UNCHANGED <<holding, catchUps, pc, page, more, after, readOk>>
        /\ closed' \/ UNCHANGED <<closed, held, retry>>
    BY <1>18 DEF LiveDelivered, Arrives, Handle, GivesUp, Close
  <2>2. CASE s = u
    BY <1>0, <2>1, <2>2 DEF Remembered
  <2>3. CASE s # u
    BY <1>2, <1>3, <2>1, <2>3
  <2> QED
    BY <2>2, <2>3
<1>19. ASSUME NEW u \in log, LiveIgnored(u) PROVE Remembered(s)'
  <2>1. /\ s \in arrived \cup {u} /\ closed' = closed /\ lastSeq' = lastSeq /\ (closed \/ u <= lastSeq)
        /\ UNCHANGED <<closed, holding, retry, catchUps, held, pc, page, more, after, readOk>>
    BY <1>19 DEF LiveIgnored, Arrives, Stale
  <2>2. CASE s = u
    BY <2>1, <2>2 DEF Remembered
  <2>3. CASE s # u
    BY <1>3, <2>1, <2>3
  <2> QED
    BY <2>2, <2>3
<1>20. ASSUME NEW u \in log, Unreadable(u) PROVE Remembered(s)'
  <2>1. /\ s \in arrived \cup {u} /\ pc \notin {"page", "release"}
        /\ UNCHANGED <<closed, held, pc, page, more, after, readOk>>
    BY <1>20 DEF Unreadable, Arrives, EventLoopFree
  <2>2. CASE Unlisted
    BY <1>4, <1>20, <2>1, <2>2 DEF Unreadable
  <2>3. CASE ~Unlisted
    <3>1. /\ UNCHANGED <<holding, catchUps, retry>> /\ (holding \/ catchUps > 1)
      BY <1>0, <1>20, <2>3 DEF Unreadable, Unlisted
    <3> QED
      BY <1>0, <3>1 DEF Remembered, WillList
  <2> QED
    BY <2>2, <2>3
<1>21. CASE ChannelReady
  <2>1. CASE Started
    BY <1>4, <1>21, <2>1 DEF ChannelReady, EventLoopFree
  <2>2. CASE ~Started
    BY <1>3, <1>21, <2>2 DEF ChannelReady
  <2> QED
    BY <2>1, <2>2
<1>22. CASE ChannelDrops
  BY <1>2, <1>3, <1>22 DEF ChannelDrops
<1>23. CASE ChannelEnds \/ OpenFails \/ Fails
  BY <1>2, <1>23 DEF ChannelEnds, OpenFails, Fails, GivesUp, Close
<1>24. CASE RetryFires
  BY <1>4, <1>24 DEF RetryFires, EventLoopFree
<1>25. CASE Start
  BY <1>2, <1>4, <1>25 DEF Start, GivesUp, Close, Reading, NotStarted
<1>26. CASE Opens
  BY <1>3, <1>26 DEF Opens
<1> QED
  BY <1>5, <1>6, <1>7, <1>8, <1>9, <1>10, <1>11, <1>12, <1>13, <1>14, <1>15, <1>16, <1>17, <1>18,
     <1>19, <1>20, <1>21, <1>22, <1>23, <1>24, <1>25, <1>26
  DEF Next, ReadStep, Broadcast, SubscribeStep

\* Whatever reached a stream that follows is delivered, or something is under
\* way or due that lists or releases it: what is held, what was dropped past
\* HELD_LIMIT, and what could not be read.
THEOREM ForgetsNothing == Spec => []NothingForgotten
<1>1. Init => HeldDue /\ AllRemembered
  BY DEF Init, HeldDue, AllRemembered
<1>2. IInv /\ IInv' /\ Reading /\ HeldDue /\ AllRemembered /\ [Next]_vars
      => HeldDue' /\ AllRemembered'
  BY HeldDueStep, RememberedStep DEF IInv, TypeOK
<1>3. AllRemembered => NothingForgotten
  BY DEF AllRemembered, Remembered, NothingForgotten
<1> QED
  BY <1>1, <1>2, <1>3, Invariance, ReadingHolds, PTL DEF Spec
=============================================================================
