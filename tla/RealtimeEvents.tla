----------------------------- MODULE RealtimeEvents -----------------------------
(***************************************************************************)
(* The channels a VolcanoRealtime has open and their handlers: by which    *)
(* name an event of the server finds its channel, and whom it is told.     *)
(*                                                                         *)
(* An event is told to the end before anything else arrives, one handler   *)
(* after the other; each of them may throw, add and remove handlers, open  *)
(* channels and close them, the one whose event it hears included.         *)
(***************************************************************************)
EXTENDS Naturals, SequencesExt

CONSTANTS
  Handlers,    \* callbacks of the application
  MaxOpened    \* bound of the model: channels opened

VARIABLES
  open,        \* _channels: the channel with each name, 0 without one
  opened,      \* the names of the channels ever opened, in that order
  closed,      \* history: the channels that were closed, by name or by owner
  registered,  \* _callbacks of each channel: those of each event, in their order
  telling,     \* the delivery under way
  sure,        \* history: who was registered for it and still is
  heard        \* history: how often it told each handler

eventVars == <<open, opened, closed, registered, telling, sure, heard>>

Opened == 1..Len(opened)
Nothing == "none"

-----------------------------------------------------------------------------
\* What the server sends.

Names == {"postgres:s:t", "postgres:s:t:u", "presence:room", "durable:run"}

TypeOf(name) ==
  CASE name = "presence:room" -> "presence" [] name = "durable:run" -> "durable"
    [] OTHER -> "postgres"

\* postgresBaseChannelFromParts: an address of five parts is one user's copy.
PostgresBase(address) == IF address = "postgres:s:t:u" THEN "postgres:s:t" ELSE Nothing

\* serverEventRoute, without the addresses that are none.
ServerEventRoute(address) == [sdkChannel |-> address, postgresBase |-> PostgresBase(address)]

\* handleServerPublication: the channel of that name before that of its base.
RouteOf(address) ==
  LET route == ServerEventRoute(address)
  IN IF open[route.sdkChannel] # 0 \/ route.postgresBase = Nothing
     THEN open[route.sdkChannel] ELSE open[route.postgresBase]

Messages ==
  {[event |-> "*", type |-> Nothing, table |-> Nothing],
   [event |-> Nothing, type |-> "INSERT", table |-> "t"],
   [event |-> Nothing, type |-> Nothing, table |-> Nothing]}

\* payloadEvent
PayloadEvent(m) ==
  IF m.event # Nothing THEN m.event ELSE IF m.type # Nothing THEN m.type ELSE "message"

\* deliverPublication knows of no type.
EventOf(m) == IF m.event # Nothing THEN m.event ELSE "message"

\* The names of all of them.
Events == {"*", "INSERT", "message", "join", "presence_sync"}

\* What on(), onPostgresChanges and onPresenceSync register.
OnEvent(event) == [event |-> event, change |-> Nothing]
OnPostgresChanges(change) == [event |-> "*", change |-> change]
OnPresenceSync == [event |-> "presence_sync", change |-> Nothing]

\* The bound is what is worth waiting for on a channel of that type.
WishesOf(type) ==
  {OnEvent("*")} \cup
  CASE type = "presence" -> {OnEvent("join"), OnPresenceSync}
    [] type = "postgres" -> {OnEvent("INSERT"), OnPostgresChanges("INSERT")}
    [] type = "durable" -> {OnEvent("message")}

\* matchesPostgresChange, on the channel of that table.
Matches(wish, m) == wish.change = Nothing \/ (m.table # Nothing /\ wish.change = m.type)

-----------------------------------------------------------------------------
Idle == [channel |-> 0, message |-> [event |-> Nothing, type |-> Nothing, table |-> Nothing],
         events |-> <<>>, then |-> <<>>, list |-> <<>>, again |-> FALSE, inside |-> Nothing,
         threw |-> FALSE]

EventsInit ==
  /\ open = [n \in Names |-> 0] /\ opened = <<>> /\ closed = {} /\ registered = <<>>
  /\ telling = Idle /\ sure = {} /\ heard = [h \in Handlers |-> 0]

\* The callbacks of one event, in the order they were added.
CallbacksOf(o, event) == registered[o][event]

RegisteredFor(o, event) == {registered[o][event][i].handler : i \in DOMAIN registered[o][event]}
RegisteredOn(o) == UNION {RegisteredFor(o, event) : event \in Events}
NoCallbacks == [event \in Events |-> <<>>]

\* An event begins to be told: a list of names of events, one after the other.
Begins(o, m, events, again) ==
  /\ telling' = [channel |-> o, message |-> m, events |-> events, then |-> Tail(events),
                 list |-> CallbacksOf(o, Head(events)), again |-> again, inside |-> Nothing,
                 threw |-> FALSE]
  /\ sure' = RegisteredOn(o)
  /\ heard' = [h \in Handlers |-> 0]
  /\ UNCHANGED <<open, opened, closed, registered>>

\* Of a channel the client subscribed to on the server's side, told at once or
\* when its row was fetched, in which case whoever throws has it told again.
ServerPublication(address, m, fetched) ==
  /\ telling = Idle /\ RouteOf(address) # 0
  /\ fetched => m.type = "INSERT"
  /\ Begins(RouteOf(address), m, <<PayloadEvent(m), "*">>, fetched)

\* Of the subscription of the channel itself.
Publication(o, m) ==
  /\ telling = Idle /\ open[opened[o]] = o
  /\ Begins(o, m, <<EventOf(m), "*">>, FALSE)

\* activePresenceChannel, and handleServerJoin and handleServerLeave.
ServerJoin(address) ==
  /\ telling = Idle /\ open[address] # 0 /\ TypeOf(address) = "presence"
  /\ Begins(open[address], Idle.message, <<"presence_sync", "join">>, FALSE)

\* handleServerSubscribed
ServerSubscribed(address) ==
  /\ telling = Idle /\ open[address] # 0 /\ TypeOf(address) = "presence"
  /\ Begins(open[address], Idle.message, <<"presence_sync">>, FALSE)

-----------------------------------------------------------------------------
\* deliverPayload, notifyCallbacks and _triggerEvent: the next of the list is
\* told, or not, when onPostgresChanges registered it for another change.
TellsOne ==
  /\ telling.list # <<>>
  /\ LET e == Head(telling.list) IN
     /\ telling' = [telling EXCEPT
          !.list = Tail(@), !.inside = IF Matches(e.wish, telling.message) THEN e.handler ELSE Nothing]
     /\ heard' = IF Matches(e.wish, telling.message) THEN [heard EXCEPT ![e.handler] = @ + 1] ELSE heard
  /\ UNCHANGED <<open, opened, closed, registered, sure>>

\* The callbacks of the next event, as they are by now.
TellsNextEvent ==
  /\ telling.channel # 0 /\ telling.list = <<>> /\ telling.then # <<>>
  /\ telling' = [telling EXCEPT !.list = CallbacksOf(telling.channel, Head(telling.then)),
                                !.then = Tail(@), !.inside = Nothing]
  /\ UNCHANGED <<open, opened, closed, registered, sure, heard>>

IsOver == telling.channel # 0 /\ telling.list = <<>> /\ telling.then = <<>>

Ends ==
  /\ IsOver
  /\ telling' = Idle /\ sure' = {} /\ heard' = [h \in Handlers |-> 0]
  /\ UNCHANGED <<open, opened, closed, registered>>

\* A handler throws: the rest is not told, or all of them once more, without
\* the row (deliverFetchedNotification).
Throws ==
  /\ telling.inside # Nothing
  /\ IF telling.again
     THEN /\ telling' = [telling EXCEPT
               !.list = CallbacksOf(telling.channel, Head(telling.events)),
               !.then = Tail(telling.events), !.again = FALSE, !.inside = Nothing, !.threw = TRUE]
          /\ UNCHANGED <<sure, heard>>
     ELSE telling' = Idle /\ sure' = {} /\ heard' = [h \in Handlers |-> 0]
  /\ UNCHANGED <<open, opened, closed, registered>>

-----------------------------------------------------------------------------
\* The application, from a handler or while nothing is told.
HasTurn == telling = Idle \/ telling.inside # Nothing

Unused == Handlers \ UNION {RegisteredOn(o) : o \in Opened}

\* Of a closed channel there is nothing more to hear.
On(o, wish) ==
  /\ HasTurn /\ Unused # {} /\ o \notin closed
  /\ registered' = [registered EXCEPT ![o][wish.event] =
       Append(@, [handler |-> CHOOSE h \in Unused : TRUE, wish |-> wish])]
  /\ UNCHANGED <<open, opened, closed, telling, sure, heard>>

\* Mutant: the callback is cut out of the list that is being told.
MutSnapshot(list, o, h) ==
  IF o = telling.channel /\ list # <<>> THEN Tail(list) ELSE list

\* The list that is told is not the one that is changed.
Snapshot(list, o, h) == list

\* The function that on() returned is called; h is registered in one place.
Off(o, h) ==
  /\ HasTurn
  /\ \E event \in Events : \E i \in DOMAIN registered[o][event] :
       /\ registered[o][event][i].handler = h
       /\ registered' = [registered EXCEPT ![o][event] = RemoveAt(@, i)]
  /\ telling' = [telling EXCEPT !.list = Snapshot(@, o, h)]
  /\ sure' = sure \ {h}
  /\ UNCHANGED <<open, opened, closed, heard>>

\* openChannel and openDurableChannel, of one type in a behaviour of the model.
Open(name) ==
  /\ HasTurn /\ open[name] = 0 /\ Len(opened) < MaxOpened
  /\ \A o \in Opened : TypeOf(opened[o]) = TypeOf(name)
  /\ opened' = Append(opened, name) /\ registered' = Append(registered, NoCallbacks)
  /\ open' = [open EXCEPT ![name] = Len(opened) + 1]
  /\ UNCHANGED <<closed, telling, sure, heard>>

\* disposeChannel of every one of them, and no name left for it.
Dispose(S) ==
  /\ registered' = [o \in Opened |-> IF o \in S THEN NoCallbacks ELSE registered[o]]
  /\ closed' = closed \cup S
  /\ sure' = IF telling.channel \in S THEN {} ELSE sure
  /\ UNCHANGED <<opened, telling, heard>>

\* closeChannel, of the types an application may name
CloseChannel(name) ==
  /\ HasTurn /\ TypeOf(name) # "durable" /\ open[name] # 0
  /\ Dispose({open[name]}) /\ open' = [open EXCEPT ![name] = 0]

\* closeDurableChannel looks whether the channel is still the one with its name.
IsItsOwn(o) == open[opened[o]] = o

\* The subscription to an execution's messages ends.
CloseDurableChannel(o) ==
  /\ HasTurn /\ TypeOf(opened[o]) = "durable" /\ open[opened[o]] # 0
  /\ IF IsItsOwn(o)
     THEN Dispose({o}) /\ open' = [open EXCEPT ![opened[o]] = 0]
     ELSE UNCHANGED eventVars

CloseAllChannels ==
  /\ HasTurn /\ \E n \in Names : open[n] # 0
  /\ Dispose({open[n] : n \in Names} \ {0}) /\ open' = [n \in Names |-> 0]

\* The end of the model: no channel is left and none may be opened.
IsSpent ==
  /\ telling = Idle /\ Len(opened) = MaxOpened /\ \A n \in Names : open[n] = 0
  /\ UNCHANGED eventVars

-----------------------------------------------------------------------------
EventsStep ==
  \/ \E a \in Names, m \in Messages, f \in BOOLEAN : ServerPublication(a, m, f)
  \/ \E a \in Names : ServerJoin(a) \/ ServerSubscribed(a)
  \/ \E o \in Opened, m \in Messages : Publication(o, m)
  \/ TellsOne \/ TellsNextEvent \/ Ends \/ Throws
  \/ \E o \in Opened : \E w \in WishesOf(TypeOf(opened[o])) : On(o, w)
  \/ \E o \in Opened, h \in Handlers : Off(o, h)
  \/ \E n \in Names : Open(n) \/ CloseChannel(n)
  \/ \E o \in Opened : CloseDurableChannel(o)
  \/ CloseAllChannels \/ IsSpent

-----------------------------------------------------------------------------
\* Properties

\* How often an event should be told to what was registered: once, and once
\* more as a wildcard when the event itself is named so.
Due(wish) ==
  IF Matches(wish, telling.message)
  THEN Cardinality({i \in DOMAIN telling.events : telling.events[i] = wish.event}) ELSE 0

\* A handler that was registered when the event came and still is has heard it
\* as often as it is due, whoever came and went meanwhile, unless one threw:
\* then it may have heard it once more, without its row.
ToldOnce ==
  IsOver =>
    \A event \in Events : \A i \in DOMAIN registered[telling.channel][event] :
      LET e == registered[telling.channel][event][i]
      IN e.handler \in sure => heard[e.handler] \in
           {Due(e.wish)} \cup (IF telling.threw THEN Due(e.wish)..2 * Due(e.wish) ELSE {})

\* A channel that nobody closed is the one its name finds: the end of an
\* earlier subscription with that name does not take it away.
StaysOpen == \A o \in Opened \ closed : open[opened[o]] = o
=============================================================================
