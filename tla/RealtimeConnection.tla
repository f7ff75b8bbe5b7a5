------------------------- MODULE RealtimeConnection -------------------------
(***************************************************************************)
(* The connection of one VolcanoRealtime: connect(), disconnect(), what    *)
(* the transport reports, and the transport client each channel's          *)
(* subscription belongs to.  Every attempt makes a transport client of its *)
(* own, which goes on connecting and reconnecting by itself until it is    *)
(* closed, by disconnect() or by the server.                               *)
(***************************************************************************)
EXTENDS Naturals

CONSTANTS
  Channels,    \* the channels the application has open
  MaxClients   \* bound of the model: transport clients made

VARIABLES
  transport,   \* the state of each transport client
  wired,       \* those with the handlers of clientHandlers
  current,     \* _client; 0 is null
  connected,   \* _connected
  attempt,     \* where the promise of _connectionPromise is
  bound,       \* the client of each channel's _subscription; 0 is null
  wanted,      \* history: connect() was called, disconnect() not since
  orderly      \* history: the application made no new connection beside one
               \* that is still open, and called no disconnect() while the
               \* transport was loading

vars == <<transport, wired, current, connected, attempt, bound, wanted, orderly>>

Clients == 1..MaxClients
Open(c) == transport[c] \in {"connecting", "connected"}

\* The next client to be made, and the last one, the one a pending connect()
\* waits for.
IsNext(c) == \A d \in Clients : d >= c <=> transport[d] = "none"
IsLast(c) == \A d \in Clients : d > c <=> transport[d] = "none"
Awaited(c) == attempt = "waiting" /\ IsLast(c)

TypeOK ==
  /\ transport \in [Clients -> {"none", "connecting", "connected", "closed"}]
  /\ wired \subseteq Clients
  /\ current \in Clients \cup {0}
  /\ connected \in BOOLEAN /\ wanted \in BOOLEAN /\ orderly \in BOOLEAN
  /\ attempt \in {"none", "loading", "waiting"}
  /\ bound \in [Channels -> Clients \cup {0}]
  /\ current # 0 => current \in wired

Init ==
  /\ transport = [c \in Clients |-> "none"] /\ wired = {}
  /\ current = 0 /\ connected = FALSE /\ attempt = "none"
  /\ bound = [ch \in Channels |-> 0]
  /\ wanted = FALSE /\ orderly = TRUE

-----------------------------------------------------------------------------
\* connect()

\* Mutant: a pending connect() is not joined.
MutIdle == ~connected

\* connectOnce returns at once, or the pending promise, otherwise.
Idle == ~connected /\ attempt = "none"

Connect ==
  /\ wanted' = TRUE
  /\ orderly' = (orderly /\ (connected \/ attempt # "none" \/ current = 0 \/ ~Open(current)))
  /\ attempt' = IF Idle THEN "loading" ELSE attempt
  /\ UNCHANGED <<transport, wired, current, connected, bound>>

\* connectRealtime, once the transport is loaded: a client takes the place of
\* the one there was, and waitForConnection(c) begins.
Loaded(c) ==
  /\ attempt = "loading"
  /\ IsNext(c)
  /\ transport' = [transport EXCEPT ![c] = "connecting"]
  /\ wired' = wired \cup {c}
  /\ current' = c
  /\ attempt' = "waiting"
  /\ UNCHANGED <<connected, bound, wanted, orderly>>

\* The transport cannot be loaded, or is none.
LoadFails ==
  /\ attempt = "loading"
  /\ attempt' = "none"
  /\ UNCHANGED <<transport, wired, current, connected, bound, wanted, orderly>>

TimesOut(c) == TRUE

\* waitForConnection's 10 seconds are over, or its first 'error' arrives.
WaitFails(c) ==
  /\ Awaited(c)
  /\ TimesOut(c)
  /\ attempt' = "none"
  /\ UNCHANGED <<transport, wired, current, connected, bound, wanted, orderly>>

-----------------------------------------------------------------------------
\* What a transport client does and reports.

Connected(c) ==
  /\ transport[c] = "connecting"
  /\ transport' = [transport EXCEPT ![c] = "connected"]
  /\ connected' = (connected \/ c \in wired)
  /\ attempt' = IF Awaited(c) THEN "none" ELSE attempt
  /\ UNCHANGED <<wired, current, bound, wanted, orderly>>

\* The connection is lost, and the client connects again.
Reconnects(c) ==
  /\ transport[c] = "connected"
  /\ transport' = [transport EXCEPT ![c] = "connecting"]
  /\ UNCHANGED <<wired, current, connected, attempt, bound, wanted, orderly>>

\* The server ends it for good: 'disconnected'.
EndedByServer(c) ==
  /\ Open(c)
  /\ transport' = [transport EXCEPT ![c] = "closed"]
  /\ connected' = (connected /\ c \notin wired)
  /\ UNCHANGED <<wired, current, attempt, bound, wanted, orderly>>

\* A token of another user or project (_synchronizeRecoveryIdentity): the
\* channels drop their subscriptions.
IdentityChanges(c) ==
  /\ Open(c)
  /\ bound' = [ch \in Channels |-> 0]
  /\ UNCHANGED <<transport, wired, current, connected, attempt, wanted, orderly>>

-----------------------------------------------------------------------------
Closes(c) == TRUE

\* disconnect(): without client, there is nothing to disconnect; every channel
\* is disposed of.
Disconnect ==
  /\ wanted' = FALSE
  /\ orderly' = (orderly /\ attempt # "loading")
  /\ bound' = [ch \in Channels |-> 0]
  /\ IF current = 0
     THEN UNCHANGED <<transport, wired, current, connected>>
     ELSE /\ wired' = wired \ {current}
          /\ transport' = IF Closes(current) THEN [transport EXCEPT ![current] = "closed"]
                          ELSE transport
          /\ current' = 0
          /\ connected' = FALSE
  /\ UNCHANGED attempt

\* The client a channel's subscribe() asks: that of the subscription it has.
AskedBy(ch) == IF bound[ch] # 0 THEN bound[ch] ELSE current

\* subscribe(); unsubscribe() keeps the subscription.
Subscribe(ch) ==
  /\ current # 0
  /\ bound' = [bound EXCEPT ![ch] = AskedBy(ch)]
  /\ UNCHANGED <<transport, wired, current, connected, attempt, wanted, orderly>>

\* removeChannel()
RemoveChannel(ch) ==
  /\ bound' = [bound EXCEPT ![ch] = 0]
  /\ UNCHANGED <<transport, wired, current, connected, attempt, wanted, orderly>>

-----------------------------------------------------------------------------
Attempt == LoadFails \/ \E c \in Clients : Loaded(c) \/ WaitFails(c)

Next ==
  \/ Connect \/ Disconnect
  \/ Attempt
  \/ \E c \in Clients : Connected(c) \/ Reconnects(c) \/ EndedByServer(c) \/ IdentityChanges(c)
  \/ \E ch \in Channels : Subscribe(ch) \/ RemoveChannel(ch)

Spec == Init /\ [][Next]_vars

\* The transport loads or fails to, and the timer of a wait fires.
FairSpec == Spec /\ WF_vars(Attempt)

-----------------------------------------------------------------------------
\* Properties

Disconnected == ~connected /\ \A c \in Clients : ~Open(c)

\* After disconnect(), and until connect() is called again, no transport
\* client is connected or connecting.  This is what disconnect() is for...
DisconnectIsFinal == ~wanted => Disconnected

\* ... and what it does for an application that has been orderly.  For that
\* there are no two open transport clients at a time either: each would bring
\* the server's publications to the channels, and only one of them is
\* disconnected.  Of another nothing is said, for the code then breaks both: a
\* disconnect() while the transport is loading finds no client, and a connect()
\* after one that timed out replaces a client that goes on connecting.
OneTransport ==
  orderly =>
    /\ ~wanted => Disconnected
    /\ \A c, d \in Clients : Open(c) /\ Open(d) => c = d

\* When a transport client is open, subscribe() does not ask one that an
\* earlier connection left behind, closed: it would not be answered.
AsksTheOpenOne == current # 0 /\ Open(current) => \A ch \in Channels : Open(AskedBy(ch))

\* connect() is answered, even if disconnect() or the server comes between.
ConnectSettles == attempt # "none" ~> attempt = "none"
=============================================================================
