-------------------------- MODULE RealtimeChannel --------------------------
(***************************************************************************)
(* One realtime channel: subscribe(), unsubscribe() and the changes of     *)
(* identity that make it start anew, what its subscription brings, and,    *)
(* for a presence channel, the roster.  The transport brings what the      *)
(* server sends in order (inbox), loses it when the connection drops, and  *)
(* subscribes again by itself.                                             *)
(*                                                                         *)
(* A version of the channel has one subscription, as whatever discards a   *)
(* subscription makes a new version: the version stands for both.          *)
(***************************************************************************)
EXTENDS Naturals, Sequences

CONSTANTS
  Calls,       \* calls of subscribe() in flight
  Members,     \* those that may join the channel
  MaxVersion,  \* bound of the model: versions
  MaxInbox,    \* bound of the model: what the server sent and has not arrived
  MaxTimers    \* bound of the model: presence timers of one version

VARIABLES
  subscription, \* the state of _subscription, "none" without one
  version,      \* _lifecycleVersion
  paused,       \* _paused
  call,         \* the calls of subscribe(), each with its version
  linked,       \* server: it sends this subscription what happens
  members,      \* server: who is there
  inbox,        \* what it sent
  roster,       \* _presenceState
  timers,       \* how many timers of each version will ask for the members
  tracked,      \* the version of the one _presenceTimeoutId names, or none
  requests,     \* the versions whose request for the members is not answered
  loaded        \* history: the members arrived since the last 'subscribed'

transport == <<linked, members, inbox>>
presence == <<roster, timers, tracked, requests, loaded>>
vars == <<subscription, version, paused, call, transport, presence>>

Versions == 0..MaxVersion
NoTimer == MaxVersion + 1

Events ==
  [type : {"subscribed", "publication"}, version : Versions]
  \cup [type : {"join", "leave"}, member : Members]
  \cup [type : {"members"}, members : SUBSET Members, version : Versions]

TypeOK ==
  /\ subscription \in {"none", "unsubscribed", "subscribing", "subscribed"}
  /\ version \in Versions /\ paused \in BOOLEAN
  /\ call \in [Calls -> [st : {"idle", "waiting", "ready", "failed"}, version : Versions]]
  /\ linked \in BOOLEAN /\ members \subseteq Members
  /\ inbox \in Seq(Events) /\ Len(inbox) <= MaxInbox
  /\ roster \subseteq Members
  /\ timers \in [Versions -> 0..MaxTimers] /\ tracked \in Versions \cup {NoTimer}
  /\ tracked # NoTimer => timers[tracked] > 0
  /\ requests \subseteq Versions
  /\ loaded \in BOOLEAN

NoCall == [st |-> "idle", version |-> 0]

Init ==
  /\ subscription = "none" /\ version = 0 /\ paused = FALSE
  /\ call = [c \in Calls |-> NoCall]
  /\ linked = FALSE /\ members = {} /\ inbox = <<>>
  /\ roster = {} /\ timers = [v \in Versions |-> 0] /\ tracked = NoTimer
  /\ requests = {} /\ loaded = FALSE

-----------------------------------------------------------------------------
\* ready() settled for every call that waits.
Settle(st) ==
  call' = [c \in Calls |-> IF call[c].st = "waiting" THEN [call[c] EXCEPT !.st = st] ELSE call[c]]

\* No continuation is due: the transport and the timers have their turn.
EventLoopFree == \A c \in Calls : call[c].st \in {"idle", "waiting"}

Sends(e) == Len(inbox) < MaxInbox /\ inbox' = Append(inbox, e)

\* One timer less, when _presenceTimeoutId names one.
Cleared == IF tracked = NoTimer THEN timers ELSE [timers EXCEPT ![tracked] = @ - 1]

\* unsubscribeChannel, up to the subscription's new state.
Pause ==
  /\ paused' = TRUE /\ version' = version + 1
  /\ timers' = Cleared /\ tracked' = NoTimer
  /\ roster' = {}
  /\ linked' = FALSE
  /\ loaded' = FALSE
  /\ UNCHANGED <<members, inbox, requests>>

-----------------------------------------------------------------------------
\* The application.

\* Mutant: the channel is resumed at once.
MutResumed == FALSE

\* Whether subscribe() leaves the channel paused until it is ready.
Resumed == paused

\* ready() resolves at once, or waits.
ReadyAt == IF subscription = "subscribed" THEN "ready" ELSE "waiting"

\* subscribeChannel and activateChannelSubscription, up to ready().
Subscribe(c) ==
  /\ call[c].st = "idle" /\ version < MaxVersion
  /\ call' = [call EXCEPT ![c] = [st |-> ReadyAt, version |-> version]]
  /\ subscription' = IF subscription = "subscribed" THEN subscription ELSE "subscribing"
  /\ paused' = Resumed
  /\ UNCHANGED <<version, transport, presence>>

Unsubscribe ==
  /\ version < MaxVersion
  /\ Pause
  /\ subscription' = IF subscription = "none" THEN "none" ELSE "unsubscribed"
  /\ Settle("failed")

\* resetChannelForIdentityChange and disposeChannel
Reset ==
  /\ version < MaxVersion
  /\ Pause
  /\ subscription' = "none"
  /\ Settle("failed")

\* isCurrentSubscription
IsCurrent(c) == call[c].version = version

\* subscribe() goes on: the channel is ready.
Resolves(c) ==
  /\ call[c].st = "ready"
  /\ call' = [call EXCEPT ![c] = NoCall]
  /\ paused' = (paused /\ ~IsCurrent(c))
  /\ UNCHANGED <<subscription, version, transport, presence>>

\* It rejects, and pauses the channel if that is still what it was.
Rejects(c) ==
  /\ call[c].st = "failed"
  /\ IF IsCurrent(c)
     THEN /\ Pause
          /\ subscription' = "unsubscribed"
          /\ call' = [d \in Calls |-> IF d = c THEN NoCall
                                      ELSE IF call[d].st = "waiting" THEN [call[d] EXCEPT !.st = "failed"]
                                      ELSE call[d]]
     ELSE /\ call' = [call EXCEPT ![c] = NoCall]
          /\ UNCHANGED <<subscription, version, paused, transport, presence>>

-----------------------------------------------------------------------------
\* The server and the transport.

\* It accepts the subscription: what follows is of this one.
Accepts ==
  /\ subscription = "subscribing" /\ ~linked
  /\ linked' = TRUE
  /\ Sends([type |-> "subscribed", version |-> version])
  /\ UNCHANGED <<subscription, version, paused, call, members, presence>>

\* It refuses it, or ends it for good, which comes after all that it sent.
Refuses ==
  /\ EventLoopFree /\ inbox = <<>> /\ subscription \in {"subscribing", "subscribed"}
  /\ subscription' = "unsubscribed" /\ linked' = FALSE
  /\ Settle("failed")
  /\ UNCHANGED <<version, paused, members, inbox, presence>>

\* ready(10_000)
GivesUp(c) == call[c].st = "waiting"

\* Its time is over.
TimesOut(c) ==
  /\ EventLoopFree /\ GivesUp(c)
  /\ call' = [call EXCEPT ![c].st = "failed"]
  /\ UNCHANGED <<subscription, version, paused, transport, presence>>

\* The connection drops; the subscription is made again, requests fail.
Drops ==
  /\ EventLoopFree
  /\ subscription' = IF subscription = "subscribed" THEN "subscribing" ELSE subscription
  /\ linked' = FALSE /\ inbox' = <<>> /\ requests' = {} /\ loaded' = FALSE
  /\ UNCHANGED <<version, paused, call, members, roster, timers, tracked>>

Joins(m) ==
  /\ m \notin members /\ members' = members \cup {m}
  /\ IF linked THEN Sends([type |-> "join", member |-> m]) ELSE UNCHANGED inbox
  /\ UNCHANGED <<subscription, version, paused, call, linked, presence>>

Leaves(m) ==
  /\ m \in members /\ members' = members \ {m}
  /\ IF linked THEN Sends([type |-> "leave", member |-> m]) ELSE UNCHANGED inbox
  /\ UNCHANGED <<subscription, version, paused, call, linked, presence>>

Publishes ==
  /\ linked
  /\ Sends([type |-> "publication", version |-> version])
  /\ UNCHANGED <<subscription, version, paused, call, linked, members, presence>>

\* The members are sent to whoever asked.
SendsMembers(v) ==
  /\ v \in requests /\ linked
  /\ requests' = requests \ {v}
  /\ Sends([type |-> "members", members |-> members, version |-> v])
  /\ UNCHANGED <<subscription, version, paused, call, linked, members, roster, timers, tracked,
                 loaded>>

RequestFails(v) ==
  /\ v \in requests
  /\ requests' = requests \ {v}
  /\ UNCHANGED <<subscription, version, paused, call, transport, roster, timers, tracked,
                 loaded>>

-----------------------------------------------------------------------------
\* What arrives.

Arrives(type) ==
  /\ EventLoopFree /\ inbox # <<>> /\ Head(inbox).type = type
  /\ inbox' = Tail(inbox)
  /\ UNCHANGED <<version, linked, members, requests>>

\* 'state' and 'subscribed': the channel is resumed, a timer will ask for the
\* members, and ready() resolves.  One of an earlier subscription is void.
SubscribedArrives ==
  /\ Arrives("subscribed")
  /\ IF Head(inbox).version = version
     THEN /\ subscription' = "subscribed" /\ paused' = FALSE
          /\ timers[version] < MaxTimers
          /\ timers' = [timers EXCEPT ![version] = @ + 1] /\ tracked' = version
          /\ loaded' = FALSE
          /\ Settle("ready")
     ELSE UNCHANGED <<subscription, paused, timers, tracked, loaded, call>>
  /\ UNCHANGED roster

\* deliverPublication, with or without the handlers.
PublicationArrives ==
  /\ Arrives("publication")
  /\ UNCHANGED <<subscription, paused, call, roster, timers, tracked, loaded>>

Delivers == inbox # <<>> /\ Head(inbox).type = "publication" /\ ~paused /\ subscription # "none"

\* bindJoin and bindLeave
JoinArrives ==
  /\ Arrives("join")
  /\ roster' = IF paused \/ subscription = "none" THEN roster ELSE roster \cup {Head(inbox).member}
  /\ UNCHANGED <<subscription, paused, call, timers, tracked, loaded>>

LeaveArrives ==
  /\ Arrives("leave")
  /\ roster' = IF paused \/ subscription = "none" THEN roster ELSE roster \ {Head(inbox).member}
  /\ UNCHANGED <<subscription, paused, call, timers, tracked, loaded>>

\* refreshPresence: any timer puts out of reach the one that is tracked.
TimerFires(v) ==
  /\ EventLoopFree /\ timers[v] > 0
  /\ timers' = [timers EXCEPT ![v] = @ - 1] /\ tracked' = NoTimer
  /\ requests' = IF subscription = "none" THEN requests ELSE requests \cup {v}
  /\ UNCHANGED <<subscription, version, paused, call, transport, roster, loaded>>

\* Mutant: members that arrive are added.
MutSnapshot(S) == roster \cup S

Snapshot(S) == S

Fresh(v) == v = version

\* applyPresenceSnapshot
MembersArrive ==
  /\ Arrives("members")
  /\ IF Fresh(Head(inbox).version)
     THEN roster' = Snapshot(Head(inbox).members) /\ loaded' = TRUE
     ELSE UNCHANGED <<roster, loaded>>
  /\ UNCHANGED <<subscription, paused, call, timers, tracked>>

-----------------------------------------------------------------------------
Arrival ==
  \/ SubscribedArrives \/ PublicationArrives \/ JoinArrives \/ LeaveArrives \/ MembersArrive

CallStep(c) == Resolves(c) \/ Rejects(c) \/ TimesOut(c)

Next ==
  \/ \E c \in Calls : Subscribe(c) \/ CallStep(c)
  \/ Unsubscribe \/ Reset
  \/ Accepts \/ Refuses \/ Drops \/ Publishes
  \/ \E m \in Members : Joins(m) \/ Leaves(m)
  \/ \E v \in Versions : SendsMembers(v) \/ RequestFails(v) \/ TimerFires(v)
  \/ Arrival

Spec == Init /\ [][Next]_vars

\* A call that waits times out, and continuations run.
FairSpec == Spec /\ \A c \in Calls : WF_vars(CallStep(c))

-----------------------------------------------------------------------------
\* Properties

\* What reaches the handlers was sent to the subscription there is: nothing
\* that came while the channel was paused is delivered afterwards.
NothingOld == Delivers => Head(inbox).version = version

\* The members arrived, and no join or leave is on the way.
UpToDate == loaded /\ linked /\ \A i \in 1..Len(inbox) : inbox[i].type = "publication"

\* The roster is then the server's, whatever joined or left since it was asked
\* or while the connection was down; and a paused channel has none, whichever
\* request for the members is answered late.
RosterFollows == IF paused THEN roster = {} ELSE UpToDate => roster = members

\* A subscribe() succeeds only when the channel is subscribed and delivers;
\* and one that ends late, well or not, leaves alone what came after it.
SubscribeOutcome ==
  [][\A c \in Calls : call[c].st \in {"ready", "failed"} /\ call'[c].st = "idle" =>
       IF call[c].version = version
       THEN call[c].st = "ready" => subscription = "subscribed" /\ ~paused'
       ELSE UNCHANGED <<subscription, version, paused, roster>>]_vars

\* Every subscribe() is answered.
SubscribeAnswers == \A c \in Calls : call[c].st # "idle" ~> call[c].st = "idle"
=============================================================================
