--------------------------- MODULE DurableStream ---------------------------
(***************************************************************************)
(* One subscription to the messages a durable execution publishes:         *)
(* DurableMessageStream, the listener that turns channel states into calls *)
(* on it, and the subscribe() that opens both.  The server's log, its list *)
(* endpoint and the realtime transport are the environment: broadcasts     *)
(* arrive late, in any order, unreadable or never; lists fail; the channel *)
(* drops, comes back or is ended.                                          *)
(*                                                                         *)
(* JavaScript runs one callback to its end before the next, so nothing     *)
(* interleaves with a page or a release being delivered (pc "page" and     *)
(* "release") or with the continuation of the first read (stage "settling" *)
(* and "failing"), except what the handler itself does.                    *)
(***************************************************************************)
EXTENDS Naturals, Sequences, FiniteSets

CONSTANTS
  Seqs,         \* seqs the server may give the execution's 'out' messages
  HeldLimit,    \* HELD_LIMIT: live messages held at most (128 in the code)
  FailureCap,   \* failures past which the retry delay no longer grows
  MaxCatchUps,  \* bound of the model: reads queued before a resubscription
  NamesPrev     \* broadcasts carry prev_seq; FALSE is an older server

ASSUME SeqsAssumption == Seqs \subseteq Nat \ {0}
ASSUME HeldLimitAssumption == HeldLimit \in Nat \ {0}
ASSUME FailureCapAssumption == FailureCap \in Nat
ASSUME MaxCatchUpsAssumption == MaxCatchUps \in Nat \ {0}
ASSUME NamesPrevAssumption == NamesPrev \in BOOLEAN

VARIABLES
  log,        \* server: the seqs published so far
  arrived,    \* the published seqs whose broadcast has reached the client
  channel,    \* the transport's state of the subscription
  stage,      \* where subscribe() (follow) is
  backlog,    \* history: what was published when the first read began
  delivered,  \* history: the seqs given to the handler, in order
  lastSeq, holding, catchUps, held, failures, retry, closed,  \* the fields
  pc,         \* where the running read is; "idle" when none runs
  after,      \* the running read's `after`
  page,       \* what is left to deliver of the page it received
  more,       \* that page's has_more
  readOk      \* readMissed's `read`, while it releases

fields == <<lastSeq, holding, catchUps, held, failures, retry, closed>>
locals == <<pc, after, page, more, readOk>>
server == <<log, arrived>>
vars == <<server, channel, stage, backlog, delivered, fields, locals>>

Stages == {"opening", "ready", "reading", "settling", "failing", "open", "failed"}
Places == {"idle", "asked", "answered", "page", "release"}

DataOK ==
  /\ log \subseteq Seqs /\ arrived \subseteq log
  /\ channel \in {"subscribing", "subscribed", "unsubscribed"}
  /\ stage \in Stages
  /\ backlog \subseteq log
  /\ delivered \in Seq(Seqs)
  /\ lastSeq \in Seqs \cup {0}
  /\ catchUps \in Nat
  /\ held \subseteq arrived
  /\ IsFiniteSet(held) /\ Cardinality(held) <= HeldLimit
  /\ failures \in 0..FailureCap
  /\ pc \in Places
  /\ after \in Seqs \cup {0}
  /\ page \subseteq log

FlagsOK ==
  /\ holding \in BOOLEAN /\ retry \in BOOLEAN /\ closed \in BOOLEAN
  /\ more \in BOOLEAN /\ readOk \in BOOLEAN

\* HELD_LIMIT is part of it.
TypeOK == DataOK /\ FlagsOK

Init ==
  /\ log = {} /\ arrived = {}
  /\ channel = "subscribing" /\ stage = "opening"
  /\ backlog = {} /\ delivered = <<>>
  /\ lastSeq = 0 /\ holding = TRUE /\ catchUps = 0 /\ held = {}
  /\ failures = 0 /\ retry = FALSE /\ closed = FALSE
  /\ pc = "idle" /\ after = 0 /\ page = {} /\ more = FALSE /\ readOk = FALSE

-----------------------------------------------------------------------------
\* Helpers.  A definition named Mut... is a wrong variant of the one after it:
\* the bug it stands for is one a property of this module must notice.

IsLowest(s, S) == s \in S /\ \A t \in S : s <= t

\* No callback is running and none of follow's continuations is due.
EventLoopFree ==
  /\ pc \notin {"page", "release"}
  /\ stage \notin {"settling", "failing"}

\* started() of the state listener.
Started == stage \notin {"opening", "ready"}

\* What a handler throws is reported, except in the first read.
Report == stage # "reading"

\* Mutant: every broadcast is taken for the next one.
MutFollows(s) == TRUE

\* prevSeq <= lastSeq: the publish s names as its predecessor is behind us.
\* An older server names 0.
Follows(s) == NamesPrev => \A t \in log : t < s => t <= lastSeq

Behind == holding \/ catchUps > 0 \/ held # {}

\* read(): counted at the call, whenever its turn comes.
Read ==
  /\ holding' = FALSE
  /\ retry' = FALSE
  /\ catchUps' = catchUps + 1

Close ==
  /\ closed' = TRUE
  /\ held' = {}
  /\ retry' = FALSE

\* Mutant: past the limit the highest seq is dropped.
MutKeepOldest(s) ==
  LET kept == held \cup {s}
  IN IF Cardinality(kept) > HeldLimit
     THEN \E d \in kept : (\A t \in kept : t <= d) /\ held' = kept \ {d}
     ELSE held' = kept

\* keep(): past the limit the lowest seq held is dropped.
Keep(s) ==
  LET kept == held \cup {s}
  IN IF Cardinality(kept) > HeldLimit
     THEN \E d \in kept : IsLowest(d, kept) /\ held' = kept \ {d}
     ELSE held' = kept

\* The guard of deliver().
Stale(s) == closed \/ s <= lastSeq

\* Past it, the handler is called: it returns, throws, or gives the channel
\* up (disconnect(), removeAllChannels()), which closes the stream.
Handle(s) ==
  /\ lastSeq' = s
  /\ delivered' = Append(delivered, s)

GivesUp == channel' = "unsubscribed" /\ Close

ReadEnds == after' = 0 /\ page' = {} /\ more' = FALSE

\* Mutant: a read that leaves messages held counts as caught up.
MutBackoff(ok, left) ==
  IF ok \/ closed
  THEN failures' = 0 /\ UNCHANGED retry
  ELSE /\ failures' = IF failures < FailureCap THEN failures + 1 ELSE failures
       /\ retry' = TRUE

\* The end of release, which leaves `left` held: retryLater() or not.
Backoff(ok, left) ==
  IF ok /\ left = {}
  THEN failures' = 0 /\ UNCHANGED retry
  ELSE IF closed
  THEN UNCHANGED <<failures, retry>>
  ELSE /\ failures' = IF failures < FailureCap THEN failures + 1 ELSE failures
       /\ retry' = TRUE

-----------------------------------------------------------------------------
\* The environment: the execution publishes, the server lists.

Publish(s) ==
  /\ \A t \in log : t < s
  /\ log' = log \cup {s}
  /\ UNCHANGED <<arrived, channel, stage, backlog, delivered, fields, locals>>

\* The server reads a page: an initial part of what follows `after`.
Answer ==
  /\ pc = "asked"
  /\ LET rest == {s \in log : s > after}
     IN \E p \in SUBSET rest :
          /\ \A s \in p, t \in rest : t < s => t \in p
          /\ p = {} => rest = {}
          /\ page' = p
          /\ more' = (p # rest)
  /\ pc' = "answered"
  /\ UNCHANGED <<server, channel, stage, backlog, delivered, fields, after, readOk>>

-----------------------------------------------------------------------------
\* The running read: readMissed, readPages and release.

\* listAfter(lastSeq) is called.
Ask == pc' = "asked" /\ after' = lastSeq

StartRead ==
  /\ pc = "idle" /\ catchUps > 0
  /\ Ask
  /\ UNCHANGED <<server, channel, stage, backlog, delivered, fields, page, more, readOk>>

\* The first read is over: its promise settles.
Settled(ok) == IF stage # "reading" THEN stage ELSE IF ok THEN "settling" ELSE "failing"

\* Mutant: a first read that fails leaves the stream following.
MutEndsStream(ok) == FALSE

EndsStream(ok) == stage = "reading" /\ ~ok

\* The finally of readMissed, up to the release it starts when nothing else
\* is queued and the channel did not drop meanwhile.  A first read that
\* succeeded settles after its release.
FinishRead(ok) ==
  /\ catchUps' = catchUps - 1
  /\ IF EndsStream(ok) THEN Close ELSE UNCHANGED <<closed, held, retry>>
  /\ IF catchUps = 1 /\ ~holding
     THEN pc' = "release" /\ readOk' = ok
     ELSE pc' = "idle" /\ UNCHANGED readOk
  /\ stage' = IF ok /\ catchUps = 1 /\ ~holding THEN stage ELSE Settled(ok)
  /\ ReadEnds
  /\ UNCHANGED <<holding, failures>>

ListFails ==
  /\ pc = "asked" /\ EventLoopFree
  /\ FinishRead(FALSE)
  /\ UNCHANGED <<server, channel, backlog, delivered, lastSeq>>

Receive ==
  /\ pc = "answered" /\ EventLoopFree
  /\ pc' = "page"
  /\ UNCHANGED <<server, channel, stage, backlog, delivered, fields, after, page, more, readOk>>

SkipPaged(s) ==
  /\ pc = "page" /\ IsLowest(s, page) /\ Stale(s)
  /\ page' = page \ {s}
  /\ UNCHANGED <<server, channel, stage, backlog, delivered, fields, pc, after, more, readOk>>

DeliverPaged(s) ==
  /\ pc = "page" /\ IsLowest(s, page) /\ ~Stale(s)
  /\ Handle(s)
  /\ page' = page \ {s}
  /\ \/ UNCHANGED <<channel, closed, held, retry>>
     \/ GivesUp
  /\ UNCHANGED <<server, stage, backlog, holding, catchUps, failures, pc, after, more, readOk>>

\* The handler's error leaves readPages, which ends the first read.
ThrowPaged(s) ==
  /\ pc = "page" /\ IsLowest(s, page) /\ ~Stale(s) /\ ~Report
  /\ Handle(s)
  /\ FinishRead(FALSE)
  /\ UNCHANGED <<server, channel, backlog>>

\* Mutant: only one page is read.
MutMorePages == FALSE

MorePages == more /\ lastSeq # after

\* The loop of readPages asks again after a page that delivered something.
PageDone ==
  /\ pc = "page" /\ page = {}
  /\ IF MorePages
     THEN /\ Ask /\ more' = FALSE
          /\ UNCHANGED <<stage, holding, catchUps, held, failures, retry, closed, page, readOk>>
     ELSE FinishRead(TRUE)
  /\ UNCHANGED <<server, channel, backlog, delivered, lastSeq>>

SkipHeld(s) ==
  /\ pc = "release" /\ IsLowest(s, held) /\ Follows(s) /\ Stale(s)
  /\ held' = held \ {s}
  /\ UNCHANGED <<server, channel, stage, backlog, delivered, lastSeq, holding, catchUps,
                 failures, retry, closed, locals>>

DeliverHeld(s) ==
  /\ pc = "release" /\ IsLowest(s, held) /\ Follows(s) /\ ~Stale(s)
  /\ Handle(s)
  /\ \/ held' = held \ {s} /\ UNCHANGED <<channel, closed, retry>>
     \/ GivesUp
  /\ UNCHANGED <<server, stage, backlog, holding, catchUps, failures, locals>>

\* The finally of release, and readMissed's promise settling after it.
ReleaseDone ==
  /\ pc = "release"
  /\ \A s \in held : IsLowest(s, held) => ~Follows(s)
  /\ Backoff(readOk, held)
  /\ pc' = "idle" /\ readOk' = FALSE
  /\ stage' = Settled(readOk)
  /\ UNCHANGED <<server, channel, backlog, delivered, lastSeq, holding, catchUps, held,
                 closed, after, page, more>>

\* In the first read a throw leaves the release too.
ThrowHeld(s) ==
  /\ pc = "release" /\ IsLowest(s, held) /\ Follows(s) /\ ~Stale(s) /\ ~Report
  /\ Handle(s)
  /\ held' = held \ {s}
  /\ Backoff(readOk, held \ {s})
  /\ pc' = "idle" /\ readOk' = FALSE
  /\ stage' = Settled(FALSE)
  /\ UNCHANGED <<server, channel, backlog, holding, catchUps, closed, after, page, more>>

-----------------------------------------------------------------------------
\* The transport: broadcasts.  Each arrives once, whenever; one that never
\* does is lost.  None arrives once the channel is given up (_paused, and the
\* callbacks are cleared).

Arrives(s) ==
  /\ EventLoopFree /\ channel # "unsubscribed"
  /\ s \in log \ arrived
  /\ arrived' = arrived \cup {s}
  /\ UNCHANGED <<log, stage, backlog, failures, locals>>

\* live(), for a broadcast that has to wait.
LiveKept(s) ==
  /\ Arrives(s)
  /\ ~closed /\ Behind
  /\ Keep(s)
  /\ UNCHANGED <<channel, delivered, lastSeq, holding, catchUps, retry, closed>>

\* live(), for a broadcast that shows an earlier one was missed.
LiveGap(s) ==
  /\ Arrives(s)
  /\ ~closed /\ ~Behind /\ ~Follows(s)
  /\ Keep(s)
  /\ Read
  /\ UNCHANGED <<channel, delivered, lastSeq, closed>>

\* live(), for the next message.
LiveDelivered(s) ==
  /\ Arrives(s)
  /\ ~closed /\ ~Behind /\ Follows(s) /\ ~Stale(s)
  /\ Handle(s)
  /\ \/ UNCHANGED <<channel, closed, held, retry>>
     \/ GivesUp
  /\ UNCHANGED <<holding, catchUps>>

\* live(), for a message the list has delivered already, or a closed stream.
LiveIgnored(s) ==
  /\ Arrives(s)
  /\ closed \/ (~Behind /\ Follows(s) /\ Stale(s))
  /\ UNCHANGED <<channel, delivered, lastSeq, holding, catchUps, held, retry, closed>>

\* Mutant: a read under way is trusted to list it.
MutUnlisted == ~holding /\ catchUps < 1

\* No read that is still to start, or that resubscribing starts, lists it.
Unlisted == ~holding /\ catchUps < 2

\* unreadable(): the broadcast does not read as a message, the list does.
Unreadable(s) ==
  /\ Arrives(s)
  /\ IF Unlisted
     THEN Read
     ELSE UNCHANGED <<holding, catchUps, retry>>
  /\ UNCHANGED <<channel, delivered, lastSeq, held, closed>>

-----------------------------------------------------------------------------
\* The transport: states of the subscription, and the retry timer.

\* 'subscribed': the first one lets subscribe() go on, a later one reads.
ChannelReady ==
  /\ EventLoopFree /\ channel = "subscribing"
  /\ channel' = "subscribed"
  /\ IF Started
     THEN catchUps < MaxCatchUps /\ Read /\ UNCHANGED stage
     ELSE stage' = "ready" /\ UNCHANGED <<holding, retry, catchUps>>
  /\ UNCHANGED <<server, backlog, delivered, lastSeq, held, failures, closed, locals>>

\* Any other state: the connection is lost.  hold() cancels the retry.
ChannelDrops ==
  /\ EventLoopFree /\ channel = "subscribed"
  /\ channel' = "subscribing"
  /\ IF Started
     THEN holding' = TRUE /\ retry' = FALSE
     ELSE UNCHANGED <<holding, retry>>
  /\ UNCHANGED <<server, stage, backlog, delivered, lastSeq, catchUps, held, failures,
                 closed, locals>>

\* 'unsubscribed': unsubscribe(), disconnect(), a change of user, or the
\* server ended it and the listener leaves the channel.
ChannelEnds ==
  /\ EventLoopFree /\ channel # "unsubscribed"
  /\ GivesUp
  /\ UNCHANGED <<server, stage, backlog, delivered, lastSeq, holding, catchUps, failures, locals>>

RetryFires ==
  /\ EventLoopFree /\ retry
  /\ Read
  /\ UNCHANGED <<server, channel, stage, backlog, delivered, lastSeq, held, failures,
                 closed, locals>>

-----------------------------------------------------------------------------
\* subscribe(): follow()'s continuations.

\* channel.subscribe() rejects: refused, timed out, or given up meanwhile.
OpenFails ==
  /\ stage = "opening"
  /\ stage' = "failed"
  /\ GivesUp
  /\ UNCHANGED <<server, backlog, delivered, lastSeq, holding, catchUps, failures, locals>>

\* channel.subscribe() resolved: started, and the first catch-up is called.
Start ==
  /\ stage = "ready"
  /\ IF closed
     THEN stage' = "failed" /\ GivesUp /\ UNCHANGED <<backlog, holding, catchUps>>
     ELSE /\ stage' = "reading" /\ Read
          /\ backlog' = log
          /\ UNCHANGED <<channel, closed, held>>
  /\ UNCHANGED <<server, delivered, lastSeq, failures, locals>>

\* catchUp() resolved: a stream closed meanwhile has ended.
Opens ==
  /\ stage = "settling" /\ ~closed
  /\ stage' = "open"
  /\ UNCHANGED <<server, channel, backlog, delivered, fields, locals>>

\* catchUp() failed: the channel is given up and subscribe() answers so.
Fails ==
  /\ stage = "failing" \/ (stage = "settling" /\ closed)
  /\ pc \notin {"page", "release"}
  /\ stage' = "failed"
  /\ GivesUp
  /\ UNCHANGED <<server, backlog, delivered, lastSeq, holding, catchUps, failures, locals>>

-----------------------------------------------------------------------------
ReadStep ==
  \/ StartRead \/ Receive \/ PageDone \/ ReleaseDone
  \/ \E s \in page : SkipPaged(s) \/ DeliverPaged(s) \/ ThrowPaged(s)
  \/ \E s \in held : SkipHeld(s) \/ DeliverHeld(s) \/ ThrowHeld(s)

Broadcast ==
  \E s \in log : \/ LiveKept(s) \/ LiveGap(s) \/ LiveDelivered(s)
                 \/ LiveIgnored(s) \/ Unreadable(s)

SubscribeStep == Start \/ Opens \/ Fails

Next ==
  \/ \E s \in Seqs : Publish(s)
  \/ Answer \/ ListFails
  \/ ReadStep
  \/ Broadcast
  \/ ChannelReady \/ ChannelDrops \/ ChannelEnds
  \/ RetryFires
  \/ OpenFails
  \/ SubscribeStep

Spec == Init /\ [][Next]_vars

\* The event loop runs what is due; a list call is answered or fails, and one
\* asked again and again is answered; a dropped channel comes back.
Fairness ==
  /\ WF_vars(ReadStep) /\ WF_vars(SubscribeStep)
  /\ WF_vars(Answer \/ ListFails) /\ SF_vars(Answer)
  /\ WF_vars(RetryFires)
  /\ WF_vars(ChannelReady)

FairSpec == Spec /\ Fairness

-----------------------------------------------------------------------------
\* Properties

Received == {delivered[i] : i \in 1..Len(delivered)}

\* Every message at or before lastSeq has been delivered: the stream never
\* moves its position past a message the handler did not get.
NothingSkipped == NamesPrev => \A s \in log : s <= lastSeq => s \in Received

\* The messages the handler gets have growing seqs, whatever the order the
\* broadcasts and the pages came in, and the last is lastSeq.
DeliveredInOrder ==
  /\ \A i, j \in 1..Len(delivered) : i < j => delivered[i] < delivered[j]
  /\ lastSeq = IF delivered = <<>> THEN 0 ELSE delivered[Len(delivered)]

\* A read that will list s: still to be asked or answered, or with s in or
\* beyond the page it received.
WillList(s) ==
  /\ catchUps > 0
  /\ \/ catchUps > 1
     \/ pc \in {"idle", "asked"}
     \/ s \in page
     \/ more /\ (lastSeq # after \/ page # {})

\* Whatever broadcast reached a stream still following is delivered, or
\* something is there that will read the list for it or release it: a read
\* that has still to list it or to release what is held, a retry, or the
\* resubscription of a dropped channel.  That goes for one held, one dropped past HELD_LIMIT and one unreadable.
NothingForgotten ==
  NamesPrev => \A s \in arrived :
    \/ s <= lastSeq \/ closed \/ holding \/ retry
    \/ WillList(s)
    \/ pc = "release" /\ ~readOk
    \/ (catchUps > 0 \/ pc = "release") /\ \E t \in held : s <= t

\* subscribe() resolves with a subscription only when the handler has had
\* everything published before its first catch-up began.
OpenedCaughtUp == stage = "open" => \A s \in backlog : s <= lastSeq

\* A subscription that ended, failed or is failing delivers nothing more.
EndedDeliversNothing ==
  [][closed \/ stage \in {"failing", "failed"} => UNCHANGED delivered]_vars

\* The stream implements the promise of OrderedDelivery.
Promise == INSTANCE OrderedDelivery WITH published <- log, over <- closed
KeepsPromise == Promise!Spec

\* Everything whose broadcast arrived is delivered in the end, unless the
\* subscription ends first.
ArrivedIsDelivered ==
  \A s \in Seqs : s \in arrived ~> (s <= lastSeq \/ closed)
=============================================================================
