------------------------------ MODULE MCRealtime ------------------------------
(* Three parts of VolcanoRealtime, one of them in each behaviour: the         *)
(* connection, one channel with its subscription, and the row fetches of one. *)
EXTENDS RowFetch, TLC

CONSTANTS Channels, MaxClients, Calls, Members, MaxInbox, MaxTimers, n1, n2, n3, n4, r1, r2, r3

VARIABLES
  part,
  transport, wired, current, connected, attempt, bound, wanted, orderly,
  subscription, call, linked, members, inbox, roster, timers, tracked, requests, loaded

Connection == INSTANCE RealtimeConnection
Channel == INSTANCE RealtimeChannel

\* Three rows; the first is inserted and updated, the last deleted.
MCRowOf == n1 :> r1 @@ n2 :> r1 @@ n3 :> r2 @@ n4 :> r3

\* The life cycle of the channel, which row fetches follow.
lifecycle == <<paused, version>>
rows == <<batch, timer, queries, place, seen, newest>>
channel == <<subscription, call, linked, members, inbox, roster, timers, tracked, requests, loaded>>
connection == <<transport, wired, current, connected, attempt, bound, wanted, orderly>>
all == <<part, lifecycle, rows, channel, connection>>

OfRows(A) == part = "rows" /\ A /\ UNCHANGED <<part, channel, connection>>
OfChannel(A) == part = "channel" /\ A /\ UNCHANGED <<part, rows, connection>>
OfConnection(A) == part = "connection" /\ A /\ UNCHANGED <<part, lifecycle, rows, channel>>

PartsInit ==
  /\ part \in {"rows", "channel", "connection"}
  /\ Init /\ Channel!Init /\ Connection!Init

PartsNext == OfRows(Next) \/ OfChannel(Channel!Next) \/ OfConnection(Connection!Next)

\* The fairness each part states.
PartsSpec ==
  /\ PartsInit /\ [][PartsNext]_all
  /\ WF_all(OfRows(TimerFires))
  /\ WF_all(OfRows(\E n \in Notes : Continues(n)))
  /\ WF_all(OfRows(\E S \in queries : Answered(S)))
  /\ \A c \in Calls : WF_all(OfChannel(Channel!CallStep(c)))
  /\ WF_all(OfConnection(Connection!Attempt))

-----------------------------------------------------------------------------
\* The properties of the parts, as they are stated there: of the connection,

\* While the application is orderly, after disconnect() no transport client is
\* open, and there are never two.  It is orderly until it calls disconnect()
\* while the transport is loading, or connect() after a connect() that timed out
\* left a client that goes on connecting: then the code has two, or one too many.
OneTransport == Connection!OneTransport

\* of a channel,

\* Nothing of an earlier subscription is delivered.
NothingOld == Channel!NothingOld

\* The roster is empty while paused, and else the server's when up to date.
RosterFollows == Channel!RosterFollows

\* What ends late leaves alone what came after it: a subscribe(), a row fetch.
NothingLate == OnlyCurrent /\ Channel!SubscribeOutcome

\* and of all three: connect(), subscribe() and every row fetch are answered, but
\* for a fetch that gave way to another of its row, which is answered instead.
EverythingSettles ==
  Connection!ConnectSettles /\ Channel!SubscribeAnswers /\ EachFetchSettles
=============================================================================
