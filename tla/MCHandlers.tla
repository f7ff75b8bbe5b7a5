------------------------------- MODULE MCHandlers -------------------------------
(* What the application's own code is called with, a part of it in each       *)
(* behaviour: the handler of a workflow with its contexts, and the callbacks  *)
(* that are told of who is signed in; and what a workflow's calls come to     *)
(* with time, one platform request and the reading of a duration.             *)
EXTENDS DurableContext, Durations, TLC

CONSTANTS
  MaxLate, Characters, MaxLength,
  Users, Listeners, MaxListening, MaxSessions, MaxActs

ASSUME PartsAssumption == MaxLate \in Nat /\ MaxLength \in Nat

VARIABLES
  part, now, phase, until, attempt, text,
  born, holder, current, generation, unannounced, hash, callbacks, notice, told, quiet, found,
  announced, calls, acts

Request == INSTANCE PlatformRequest
Listening == INSTANCE AuthListeners

UserSymmetry == Permutations(Users)

C(kind, awaited) == [kind |-> kind, valid |-> TRUE, awaited |-> awaited]
Bad(kind) == [kind |-> kind, valid |-> FALSE, awaited |-> TRUE]
Two == <<C("publish", FALSE), C("step", FALSE), C("publish", TRUE)>>
Spread == <<Bad("publish"), C("publish", TRUE), C("publish", FALSE), C("callback", FALSE)>>
Waiting ==
  <<Bad("approval"), C("callback", FALSE), Bad("callback"), C("message", TRUE), Bad("message"),
    C("approval", TRUE)>>
SmallPrograms ==
  {[root |-> Two, child |-> <<C("publish", TRUE)>>],
   [root |-> Spread, child |-> <<>>], [root |-> Waiting, child |-> <<>>]}

ofRequest == <<now, phase, until, attempt>>
ofListeners ==
  <<born, holder, current, generation, unannounced, hash, callbacks, notice, told, quiet, found,
    announced, calls, acts>>
all == <<part, text, vars, ofRequest, ofListeners>>

OfContexts(A) ==
  part = "context" /\ A /\ UNCHANGED <<part, text, ofRequest, ofListeners>>
OfRequest(A) ==
  part = "request" /\ A /\ UNCHANGED <<part, text, vars, ofListeners>>
OfListeners(A) ==
  part = "listeners" /\ A /\ UNCHANGED <<part, text, vars, ofRequest>>
OfDurations == part = "duration" /\ UNCHANGED all

\* What other parts have to begin with is of no account: one of them is enough.
PartsInit ==
  /\ part \in {"context", "request", "duration", "listeners"}
  /\ Init /\ Request!Init /\ Listening!ListenersInit
  /\ part # "context" => program = [root |-> Waiting, child |-> <<>>]
  /\ part # "listeners" => born = "empty" /\ hash = "nobody"
  /\ \E n \in IF part = "duration" THEN 0..MaxLength ELSE {0} : text \in [1..n -> Characters]

PartsNext ==
  \/ OfContexts(Next) \/ OfRequest(Request!Next) \/ OfDurations
  \/ OfListeners(Listening!ListenersStep)

PartsSpec == PartsInit /\ [][PartsNext]_all

\* A text is read as the sum of its numbers, each with its unit, and anything
\* else is refused; the fields the engine is given are as many seconds.
ReadsDurations ==
  LET read == ParseDurationText(Trimmed(text))
  IN IF WellFormed(text) /\ Waitable(Reference(text))
     THEN read = Reference(text) /\ DurationSeconds(SecondsToDuration(read)) = read
     ELSE ~Waitable(read)

\* postToPlatform keeps trying through an outage and ends in its time, and a
\* workflow that waits is told to wait as long as it asked for.
TakesItsTime == Request!Patience /\ ReadsDurations

\* The callbacks of onAuthStateChange are told who is signed in, and of an adopted
\* session once.
ToldWhoIsIn == Listening!ToldWhoIsIn /\ Listening!AnnouncedOnce /\ Listening!IsOfOne
================================================================================
