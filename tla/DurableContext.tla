----------------------------- MODULE DurableContext -----------------------------
(***************************************************************************)
(* The contexts of one durable execution: publishes, waits for a message,  *)
(* an approval or a callback, and other operations, under the runtime's    *)
(* checkpoints and replays.                                                *)
(*                                                                         *)
(* The runtime numbers the operations of a context as they are called, and *)
(* keeps a checkpoint of each under its number.  The process may crash, or *)
(* be suspended, between any two steps; the handler is then run again from *)
(* its beginning, and an operation whose outcome is in its checkpoint is   *)
(* not done again.  The handler itself is the same in every run: a program *)
(* for each context, which awaits a call or goes on beside it.             *)
(*                                                                         *)
(* PlatformRequest has the retries of one request in time; here a request  *)
(* is attempted until it is answered, refused or given up.                 *)
(***************************************************************************)
EXTENDS Naturals, Sequences

CONSTANTS
  Contexts,   \* the root and child contexts
  Programs,   \* the handlers: for each context a sequence of calls
  MaxOps,     \* bound of the model: operations of a context
  MaxCrashes  \* bound of the model

\* "step" stands for the operations the runtime does by itself: step, wait,
\* child, waitUntil, map and parallel.
Waits == {"message", "approval", "callback"}
Kinds == Waits \cup {"publish", "step"}

\* A call is invalid when the SDK refuses its arguments.
Calls == [kind : Kinds, valid : BOOLEAN, awaited : BOOLEAN]

\* A call takes one operation; the first publish, which opens the session, two.
ASSUME ProgramsAssumption ==
  /\ Programs \subseteq [Contexts -> Seq(Calls)]
  /\ MaxOps \in Nat /\ \A p \in Programs, c \in Contexts : Len(p[c]) < MaxOps
  /\ MaxCrashes \in Nat

VARIABLES
  program,
  run,     \* of each context, in this run of the handler: what it called so far
  placed,  \* the operations called in this run
  check,   \* the checkpoints
  held,    \* Volcano: the callbacks, and how each was completed
  log,     \* Volcano: the messages, each with its idempotency key
  faults,  \* history: operations whose request was refused or given up
  crashes

vars == <<program, run, placed, check, held, log, faults, crashes>>

\* Operation n of context c.
Ops == Contexts \X (1..MaxOps)
Nothing == [for |-> 0, kind |-> "none"]
NoOp == [op |-> Nothing, position |-> 0]

NoRun == [called |-> 0, ops |-> 0, published |-> 0, session |-> 0, opened |-> "pending",
          at |-> <<>>]
NoCheck == [op |-> Nothing, st |-> "none", out |-> "none"]

Init ==
  /\ program \in Programs
  /\ run = [c \in Contexts |-> NoRun]
  /\ placed = [o \in Ops |-> NoOp]
  /\ check = [o \in Ops |-> NoCheck]
  /\ held = [o \in Ops |-> "none"] /\ log = <<>>
  /\ faults = {} /\ crashes = 0

-----------------------------------------------------------------------------
\* The handler calls.  A definition named Mut... is a wrong variant of the one
\* after it.

\* Operations are put under their numbers; one that has none yet in the
\* checkpoints gets it.
Place(new) ==
  /\ placed' = [o \in Ops |-> IF o \in DOMAIN new THEN new[o] ELSE placed[o]]
  /\ check' = [o \in Ops |-> IF o \in DOMAIN new /\ check[o].st = "none"
                             THEN [op |-> new[o].op, st |-> "started", out |-> "none"]
                             ELSE check[o]]

Op(i, kind, position) ==
  [op |-> [for |-> i, kind |-> kind], position |-> position]

\* Mutant: the session is opened anew after it failed.
MutOpensSession(r) == r.session = 0 \/ r.opened = "failed"

\* The first publish of the context opens the session, once for good.
OpensSession(r) == r.session = 0

Finished(c, i) ==
  LET n == run[c].at[i] IN IF n = 0 THEN TRUE ELSE check[<<c, n>>].st = "done"

\* The handler goes on with its next call, once it has what it awaits.
Calling(c, kinds, valid) ==
  LET i == run[c].called
  IN /\ i < Len(program[c])
     /\ program[c][i + 1].kind \in kinds /\ program[c][i + 1].valid = valid
     /\ i > 0 => (program[c][i].awaited => Finished(c, i))
     /\ UNCHANGED <<program, held, log, faults, crashes>>

\* The call has taken k operations, the last of which is its own.
Called(c, k) ==
  [run[c] EXCEPT !.called = @ + 1, !.ops = @ + k,
                 !.at = Append(@, IF k = 0 THEN 0 ELSE run[c].ops + k)]

\* One operation for the call.
CallOne(c, kind, r, position) ==
  /\ run' = [run EXCEPT ![c] = r]
  /\ Place([o \in {<<c, r.ops>>} |-> Op(r.called, kind, position)])

\* What is refused throws, and takes neither a number nor a position.
Throws(c, kind) ==
  /\ Calling(c, {kind}, FALSE)
  /\ run' = [run EXCEPT ![c] = Called(c, 0)]
  /\ UNCHANGED <<placed, check>>

InvalidPublish(c) == Throws(c, "publish")
InvalidMessageWait(c) == Throws(c, "message")
InvalidApproval(c) == Throws(c, "approval")
InvalidCallback(c) == Throws(c, "callback")

StepCall(c) == Calling(c, {"step"}, TRUE) /\ CallOne(c, "step", Called(c, 1), 0)
MessageWait(c) == Calling(c, {"message"}, TRUE) /\ CallOne(c, "message", Called(c, 1), 0)
ApprovalWait(c) == Calling(c, {"approval"}, TRUE) /\ CallOne(c, "approval", Called(c, 1), 0)
CallbackWait(c) == Calling(c, {"callback"}, TRUE) /\ CallOne(c, "callback", Called(c, 1), 0)

\* The position is counted, the session opened and the operation of the
\* publish begun all at once.
PublishCall(c) ==
  LET position == run[c].published + 1
      n == run[c].ops + 1
  IN /\ Calling(c, {"publish"}, TRUE)
     /\ IF OpensSession(run[c])
        THEN LET r == [Called(c, 2) EXCEPT !.published = position, !.session = n, !.opened = "pending"]
             IN /\ run' = [run EXCEPT ![c] = r]
                /\ Place([o \in {<<c, n>>, <<c, n + 1>>} |->
                            IF o[2] = n THEN Op(r.called, "session", 0)
                            ELSE Op(r.called, "publish", position)])
        ELSE CallOne(c, "publish", [Called(c, 1) EXCEPT !.published = position], position)

-----------------------------------------------------------------------------
\* Callbacks: sessions and waits.  The submitter registers a callback under
\* its id, which is its operation's; Volcano knows it by that.

Under(o, kinds) == placed[o].op.kind \in kinds
Callbacks == Waits \cup {"session"}

Ends(o, out) == check' = [check EXCEPT ![o].st = "done", ![o].out = out]
Fails(o) == Ends(o, "failed") /\ faults' = faults \cup {o}

Closed(o) == held[o] \notin {"none", "open"}

\* Mutant: a conflict with a closed callback is a refusal like another.
MutRegistered(o) ==
  IF Closed(o) THEN Ends(o, "failed") ELSE check' = [check EXCEPT ![o].st = "submitted"]

\* The registration is answered.  A closed callback needs none: the wait will
\* resolve as it did.
Registered(o) == check' = [check EXCEPT ![o].st = "submitted"]

\* An attempt reaches Volcano; its answer may be lost.
Attempt(o, kind) ==
  /\ Under(o, {kind}) /\ check[o].st = "started"
  /\ held' = [held EXCEPT ![o] = IF @ = "none" THEN "open" ELSE @]
  /\ UNCHANGED <<program, run, placed, log, crashes>>

Submits(o, kind) ==
  /\ Attempt(o, kind)
  /\ Registered(o) \/ UNCHANGED check
  /\ UNCHANGED faults

RegistersMessage(o) == Submits(o, "message")
RegistersApproval(o) == Submits(o, "approval")
RegistersSession(o) == Submits(o, "session")

\* The token of the answer is handed to the caller's submitter; it may not be
\* readable, or the submitter may throw.  A closed callback has none.
RegistersCallback(o) ==
  \/ Submits(o, "callback")
  \/ Attempt(o, "callback") /\ ~Closed(o) /\ Fails(o)

\* Every attempt was lost, or Volcano refused one for good.
Refused(o) ==
  /\ Under(o, Callbacks) /\ check[o].st = "started" /\ Fails(o)
  /\ UNCHANGED <<program, run, placed, held, log, crashes>>

\* Volcano completes a callback it has: a session with its token, a message,
\* a decision, what the holder of a token says.
Completions ==
  [session |-> {"token"}, message |-> {"message"}, approval |-> {"approved", "denied"},
   callback |-> {"result", "failure"}]

Completed(o) ==
  /\ held[o] = "open"
  /\ \E out \in Completions[check[o].op.kind] \cup {"unreadable"} : held' = [held EXCEPT ![o] = out]
  /\ UNCHANGED <<program, run, placed, check, log, faults, crashes>>

\* The runtime ends a wait whose time is over, registered or not.
TimedOut(o) ==
  /\ check[o].op.kind \in Waits /\ ~Closed(o) /\ check[o].st \in {"started", "submitted"}
  /\ held' = [held EXCEPT ![o] = "timeout"]
  /\ UNCHANGED <<program, run, placed, check, log, faults, crashes>>

\* What the handler is told; "failed" is an error.
SessionOutcome(out) == IF out = "token" THEN "ok" ELSE "failed"
MessageOutcome(out) ==
  CASE out = "message" -> out [] out = "timeout" -> "null" [] OTHER -> "failed"
ApprovalOutcome(out) ==
  CASE out \in {"approved", "denied"} -> out [] out = "timeout" -> "expired" [] OTHER -> "failed"

\* What the holder of the token failed it with is told as that, if it can be read.
FailedCallback(out) == IF out = "failure" THEN out ELSE "failed"

CallbackOutcome(out) ==
  CASE out = "result" -> out [] out = "timeout" -> "null" [] OTHER -> FailedCallback(out)

OutcomeOf(kind, out) ==
  CASE kind = "session" -> SessionOutcome(out) [] kind = "message" -> MessageOutcome(out)
    [] kind = "approval" -> ApprovalOutcome(out) [] kind = "callback" -> CallbackOutcome(out)

Resumed(o) ==
  /\ Under(o, Callbacks) /\ check[o].st = "submitted" /\ Closed(o)
  /\ Ends(o, OutcomeOf(placed[o].op.kind, held[o]))
  /\ UNCHANGED <<program, run, placed, held, log, faults, crashes>>

-----------------------------------------------------------------------------
\* Publishing.

\* A publish of the context learns how the session ended.
Opened(c) ==
  LET r == run[c]
  IN /\ r.session > 0 /\ r.opened = "pending" /\ check[<<c, r.session>>].st = "done"
     /\ run' = [run EXCEPT ![c].opened = check[<<c, r.session>>].out]
     /\ UNCHANGED <<program, placed, check, held, log, faults, crashes>>

\* Mutant: the key leaves out the session.
MutPublishKey(c, position) == <<"any", 0, position>>

\* publishKey: a token stands for the callback it completed.
PublishKey(c, position) == <<c, run[c].session, position>>

\* An attempt reaches Volcano, which takes a message once for its key; the
\* answer may be lost, or not to be read.
Publishes(o) ==
  LET c == o[1]
      key == PublishKey(c, placed[o].position)
      taken == \E i \in 1..Len(log) : log[i].key = key
  IN /\ Under(o, {"publish"}) /\ check[o].st = "started" /\ run[c].opened = "ok"
     /\ log' = IF taken THEN log ELSE Append(log, [key |-> key, of |-> <<c, placed[o].op.for>>])
     /\ \/ Ends(o, "ok") /\ UNCHANGED faults
        \/ Fails(o)
        \/ UNCHANGED <<check, faults>>
     /\ UNCHANGED <<program, run, placed, held, crashes>>

\* The session failed, or every attempt, or Volcano refused one for good.
PublishFails(o) ==
  /\ Under(o, {"publish"}) /\ check[o].st = "started" /\ run[o[1]].opened \in {"ok", "failed"}
  /\ IF run[o[1]].opened = "ok" THEN Fails(o) ELSE Ends(o, "failed") /\ UNCHANGED faults
  /\ UNCHANGED <<program, run, placed, held, log, crashes>>

StepEnds(o) ==
  /\ Under(o, {"step"}) /\ check[o].st = "started" /\ Ends(o, "ok")
  /\ UNCHANGED <<program, run, placed, held, log, faults, crashes>>

\* The process is gone; what it knew is what the checkpoints say.
Crash ==
  /\ crashes < MaxCrashes /\ crashes' = crashes + 1
  /\ run' = [c \in Contexts |-> NoRun] /\ placed' = [o \in Ops |-> NoOp]
  /\ UNCHANGED <<program, check, held, log, faults>>

\* The handler has made all its calls and each is answered.
AllDone ==
  /\ \A c \in Contexts :
       run[c].called = Len(program[c]) /\ \A i \in 1..Len(program[c]) : Finished(c, i)
  /\ UNCHANGED vars

Next ==
  \/ \E c \in Contexts :
       \/ StepCall(c) \/ MessageWait(c) \/ ApprovalWait(c) \/ CallbackWait(c) \/ PublishCall(c)
       \/ InvalidPublish(c) \/ InvalidMessageWait(c) \/ InvalidApproval(c) \/ InvalidCallback(c)
       \/ Opened(c)
  \/ \E o \in Ops :
       \/ RegistersMessage(o) \/ RegistersApproval(o) \/ RegistersSession(o) \/ RegistersCallback(o)
       \/ Refused(o) \/ Completed(o) \/ TimedOut(o) \/ Resumed(o)
       \/ Publishes(o) \/ PublishFails(o) \/ StepEnds(o)
  \/ Crash \/ AllDone

Spec == Init /\ [][Next]_vars

-----------------------------------------------------------------------------
\* Properties.

\* In every run of the handler each operation takes the number it had before,
\* so that a checkpoint is never read by another operation: neither what a
\* session or an earlier call answered, nor when, moves a later one.
SamePlace ==
  \A o \in Ops : placed[o].op # Nothing => check[o].op = placed[o].op

\* Unless its request failed, a wait answers what its callback was completed
\* with, null or "expired" after a timeout: also when it was completed before
\* it was registered, or before the answer to a repeated registration.
WaitOutcome ==
  \A o \in Ops \ faults :
    LET kind == check[o].op.kind
    IN kind \in Waits /\ check[o].st = "done" => check[o].out = OutcomeOf(kind, held[o])

Published ==
  {<<o[1], check[o].op.for>> : o \in {p \in Ops : check[p].op.kind = "publish" /\ check[p].out = "ok"}}

Promise == INSTANCE Outbox WITH
  Messages <- Contexts \X (1..MaxOps),
  log <- [i \in 1..Len(log) |-> log[i].of],
  done <- Published

\* A message is taken once, and a publish that is answered has had its own
\* message taken, in spite of lost answers, retries, crashes and replays, and
\* of other contexts that count their publishes beside it.
KeepsPromise == Promise!Spec
=============================================================================
