----------------------------- MODULE HandlersProofs -----------------------------
(***************************************************************************)
(* Proofs about MCHandlers, a part of it in each section: the contexts of  *)
(* a handler, for any number of them and of crashes, and any handler; the  *)
(* callbacks that are told who is signed in, for any users, callbacks,     *)
(* sessions and calls in flight; one platform request, however late its    *)
(* timers are; and the reading of a duration, for any text.                *)
(***************************************************************************)
EXTENDS MCHandlers, NumberLemmas, FiniteSetTheorems, SequenceTheorems, TLAPS

-----------------------------------------------------------------------------
\* What a handler's calls take, as a function of the handler alone.  Of the
\* first i calls of s, those that are valid, and of these the publishes.

ValidBy(s, i) == {j \in 1..i : s[j].valid}
PublishesBy(s, i) == {j \in 1..i : s[j].valid /\ s[j].kind = "publish"}

\* How many operations they take; the first publish opens the session.
OpsBy(s, i) == Cardinality(ValidBy(s, i)) + IF PublishesBy(s, i) = {} THEN 0 ELSE 1

\* Operation n is the one the handler has there: of a call, or the session's.
Own(s, n, op) ==
  /\ op.for \in 1..Len(s) /\ s[op.for].valid
  /\ \/ op.kind = s[op.for].kind /\ n = OpsBy(s, op.for)
     \/ /\ op.kind = "session" /\ s[op.for].kind = "publish"
        /\ PublishesBy(s, op.for - 1) = {} /\ n = OpsBy(s, op.for) - 1

\* The session's operation is n.
Session(s, n) ==
  \E j \in 1..Len(s) : /\ s[j].valid /\ s[j].kind = "publish"
                       /\ PublishesBy(s, j - 1) = {} /\ n = OpsBy(s, j - 1) + 1

-----------------------------------------------------------------------------
\* The invariant, by the state it is about.

OpRecords == [for : Nat, kind : Kinds \cup {"session", "none"}]
Outs ==
  {"none", "pending", "ok", "failed", "message", "null", "approved", "denied", "expired", "result",
   "failure"}
Ways ==
  {"none", "open", "token", "message", "approved", "denied", "result", "failure", "unreadable",
   "timeout"}
Runs == [called : Nat, ops : Nat, published : Nat, session : Nat, opened : Outs, at : Seq(Nat)]
Checks == [op : OpRecords, st : {"none", "started", "submitted", "done"}, out : Outs]
Entries == [key : Contexts \X Nat \X Nat, of : Contexts \X (1..MaxOps)]

Typed ==
  /\ program \in Programs
  /\ run \in [Contexts -> Runs]
  /\ placed \in [Ops -> [op : OpRecords, position : Nat]]
  /\ check \in [Ops -> Checks]
  /\ held \in [Ops -> Ways]
  /\ log \in Seq(Entries)
  /\ faults \subseteq Ops

\* What a run has counted follows from how far it is.
RunIs(s, r) ==
  /\ r.called <= Len(s) /\ r.ops = OpsBy(s, r.called)
  /\ r.published = Cardinality(PublishesBy(s, r.called))
  /\ IF PublishesBy(s, r.called) = {} THEN r.session = 0 ELSE Session(s, r.session)

RunsOK == \A c \in Contexts : RunIs(program[c], run[c])

\* An operation has a checkpoint, and what is under its number is its own.
PlacedIs(s, n, p, r) ==
  p.op = Nothing \/
  /\ Own(s, n, p.op) /\ p.op.for <= r.called
  /\ p.op.kind = "publish" => p.position = Cardinality(PublishesBy(s, p.op.for))

PlacedOK ==
  \A o \in Ops : /\ PlacedIs(program[o[1]], o[2], placed[o], run[o[1]])
                 /\ placed[o].op # Nothing => check[o].st # "none"

ChecksOK ==
  \A o \in Ops :
    /\ IF check[o].st = "none" THEN check[o] = NoCheck ELSE Own(program[o[1]], o[2], check[o].op)
    /\ check[o].st # "done" => check[o].out = "none"

\* Callbacks are those of waits and sessions.
HeldOK == \A o \in Ops : held[o] # "none" => check[o].op.kind \in Callbacks

WaitsOK ==
  \A o \in Ops \ faults :
    LET kind == check[o].op.kind
    IN kind \in Waits /\ check[o].st = "done" => Closed(o) /\ check[o].out = OutcomeOf(kind, held[o])

\* A message is under the key that its publish has in every run.
KeyIs(s, key, f) ==
  /\ f \in 1..Len(s) /\ s[f].valid /\ s[f].kind = "publish"
  /\ Session(s, key[2]) /\ key[3] = Cardinality(PublishesBy(s, f))

LogOK ==
  \A i \in 1..Len(log) :
    /\ log[i].key[1] = log[i].of[1]
    /\ KeyIs(program[log[i].of[1]], log[i].key, log[i].of[2])

\* A publish that is answered has its message in the log.
DoneOK ==
  \A o \in Ops :
    check[o].op.kind = "publish" /\ check[o].out = "ok" =>
      \E i \in 1..Len(log) : log[i].of = <<o[1], check[o].op.for>>

IInv ==
  Typed /\ RunsOK /\ PlacedOK /\ ChecksOK /\ HeldOK /\ WaitsOK /\ LogOK /\ DoneOK

-----------------------------------------------------------------------------
\* The handler's calls and their operations

LEMMA Counted ==
  ASSUME NEW s, NEW i \in Nat
  PROVE  /\ IsFiniteSet(ValidBy(s, i)) /\ Cardinality(ValidBy(s, i)) \in 0..i
         /\ IsFiniteSet(PublishesBy(s, i)) /\ Cardinality(PublishesBy(s, i)) \in 0..i
         /\ OpsBy(s, i) \in 0..i + 1
<1>1. IsFiniteSet(1..i) /\ Cardinality(1..i) = i
  BY FS_Interval
<1>2. ValidBy(s, i) \subseteq 1..i /\ PublishesBy(s, i) \subseteq 1..i
  BY DEF ValidBy, PublishesBy
<1>3. IsFiniteSet(ValidBy(s, i)) /\ Cardinality(ValidBy(s, i)) <= i
  BY <1>1, <1>2, FS_Subset
<1>4. IsFiniteSet(PublishesBy(s, i)) /\ Cardinality(PublishesBy(s, i)) <= i
  BY <1>1, <1>2, FS_Subset
<1>5. Cardinality(ValidBy(s, i)) \in Nat /\ Cardinality(PublishesBy(s, i)) \in Nat
  BY <1>3, <1>4, FS_CardinalityType
<1> QED
  BY <1>3, <1>4, <1>5 DEF OpsBy

LEMMA NothingCalled ==
  ASSUME NEW s
  PROVE  PublishesBy(s, 0) = {} /\ Cardinality(PublishesBy(s, 0)) = 0 /\ OpsBy(s, 0) = 0
<1>1. ValidBy(s, 0) = {} /\ PublishesBy(s, 0) = {}
  BY DEF ValidBy, PublishesBy
<1> QED
  BY <1>1, FS_EmptySet DEF OpsBy

\* One call more.
LEMMA OneCall ==
  ASSUME NEW s, NEW i \in Nat
  PROVE  LET call == s[i + 1]
             published == call.valid /\ call.kind = "publish"
         IN /\ OpsBy(s, i + 1) = OpsBy(s, i) + IF ~call.valid THEN 0
                                               ELSE IF published /\ PublishesBy(s, i) = {} THEN 2 ELSE 1
            /\ PublishesBy(s, i + 1) = PublishesBy(s, i) \cup (IF published THEN {i + 1} ELSE {})
            /\ Cardinality(PublishesBy(s, i + 1)) =
                 Cardinality(PublishesBy(s, i)) + IF published THEN 1 ELSE 0
<1> DEFINE published == s[i + 1].valid /\ s[i + 1].kind = "publish"
<1>1. 1..(i + 1) = (1..i) \cup {i + 1} /\ i + 1 \notin 1..i
  OBVIOUS
<1>2. /\ ValidBy(s, i + 1) = ValidBy(s, i) \cup (IF s[i + 1].valid THEN {i + 1} ELSE {})
      /\ i + 1 \notin ValidBy(s, i)
  BY <1>1 DEF ValidBy
<1>3. /\ PublishesBy(s, i + 1) = PublishesBy(s, i) \cup (IF published THEN {i + 1} ELSE {})
      /\ i + 1 \notin PublishesBy(s, i)
  BY <1>1 DEF PublishesBy
<1>4. /\ IsFiniteSet(ValidBy(s, i)) /\ IsFiniteSet(PublishesBy(s, i))
      /\ Cardinality(ValidBy(s, i)) \in Nat /\ Cardinality(PublishesBy(s, i)) \in Nat
  BY Counted
<1>5. Cardinality(ValidBy(s, i) \cup {i + 1}) = Cardinality(ValidBy(s, i)) + 1
  BY <1>2, <1>4, FS_AddElement
<1>6. Cardinality(PublishesBy(s, i) \cup {i + 1}) = Cardinality(PublishesBy(s, i)) + 1
  BY <1>3, <1>4, FS_AddElement
<1>7. Cardinality(ValidBy(s, i + 1)) = Cardinality(ValidBy(s, i)) + IF s[i + 1].valid THEN 1 ELSE 0
  <2>1. CASE s[i + 1].valid
    BY <1>2, <1>5, <2>1
  <2>2. CASE ~s[i + 1].valid
    <3>1. ValidBy(s, i + 1) = ValidBy(s, i)
      BY <1>2, <2>2
    <3> QED
      BY <1>4, <2>2, <3>1
  <2> QED
    BY <2>1, <2>2
<1>8. Cardinality(PublishesBy(s, i + 1)) =
        Cardinality(PublishesBy(s, i)) + IF published THEN 1 ELSE 0
  <2>1. CASE published
    BY <1>3, <1>6, <2>1
  <2>2. CASE ~published
    <3>1. PublishesBy(s, i + 1) = PublishesBy(s, i)
      BY <1>3, <2>2
    <3> QED
      BY <1>4, <2>2, <3>1
  <2> QED
    BY <2>1, <2>2
<1>9. OpsBy(s, i + 1) = OpsBy(s, i) + IF ~s[i + 1].valid THEN 0
                                      ELSE IF published /\ PublishesBy(s, i) = {} THEN 2 ELSE 1
  <2>1. CASE ~s[i + 1].valid
    BY <1>3, <1>4, <1>7, <2>1 DEF OpsBy
  <2>2. CASE s[i + 1].valid /\ published /\ PublishesBy(s, i) = {}
    <3>1. PublishesBy(s, i + 1) # {}
      BY <1>3, <2>2
    <3> QED
      BY <1>4, <1>7, <2>2, <3>1 DEF OpsBy
  <2>3. CASE s[i + 1].valid /\ ~(published /\ PublishesBy(s, i) = {})
    <3>1. PublishesBy(s, i + 1) = {} <=> PublishesBy(s, i) = {}
      BY <1>3, <2>3
    <3> QED
      BY <1>4, <1>7, <2>3, <3>1 DEF OpsBy
  <2> QED
    BY <2>1, <2>2, <2>3
<1> QED
  BY <1>3, <1>8, <1>9

LEMMA MoreCalls ==
  ASSUME NEW s, NEW i \in Nat, NEW j \in Nat, i <= j
  PROVE  /\ OpsBy(s, i) <= OpsBy(s, j) /\ PublishesBy(s, i) \subseteq PublishesBy(s, j)
         /\ Cardinality(PublishesBy(s, i)) <= Cardinality(PublishesBy(s, j))
<1>1. ValidBy(s, i) \subseteq ValidBy(s, j) /\ PublishesBy(s, i) \subseteq PublishesBy(s, j)
  BY DEF ValidBy, PublishesBy
<1>2. /\ IsFiniteSet(ValidBy(s, j)) /\ IsFiniteSet(PublishesBy(s, j))
      /\ Cardinality(ValidBy(s, i)) \in Nat /\ Cardinality(PublishesBy(s, i)) \in Nat
      /\ Cardinality(ValidBy(s, j)) \in Nat /\ Cardinality(PublishesBy(s, j)) \in Nat
  BY Counted
<1>3. Cardinality(ValidBy(s, i)) <= Cardinality(ValidBy(s, j))
  BY <1>1, <1>2, FS_Subset
<1>4. Cardinality(PublishesBy(s, i)) <= Cardinality(PublishesBy(s, j))
  BY <1>1, <1>2, FS_Subset
<1>5. PublishesBy(s, j) = {} => PublishesBy(s, i) = {}
  BY <1>1
<1>6. OpsBy(s, i) <= OpsBy(s, j)
  BY <1>2, <1>3, <1>5 DEF OpsBy
<1> QED
  BY <1>1, <1>4, <1>6

\* Of two calls the later one's operations come later.
LEMMA OwnBetween ==
  ASSUME NEW s, NEW n, NEW op, Own(s, n, op), op.for \in Nat
  PROVE  /\ op.for > 0 /\ OpsBy(s, op.for - 1) + 1 <= n /\ n <= OpsBy(s, op.for) /\ n \in Nat
<1>1. op.for - 1 \in Nat /\ (op.for - 1) + 1 = op.for /\ op.for > 0
  BY DEF Own
<1>2. OpsBy(s, op.for - 1) \in Nat /\ OpsBy(s, op.for) \in Nat
  BY <1>1, Counted
<1>3. PICK i \in Nat : i = op.for - 1
  BY <1>1
<1>4. OpsBy(s, i + 1) = OpsBy(s, i) + IF ~s[i + 1].valid THEN 0
         ELSE IF (s[i + 1].valid /\ s[i + 1].kind = "publish") /\ PublishesBy(s, i) = {} THEN 2 ELSE 1
  BY OneCall
<1>5. i + 1 = op.for
  BY <1>1, <1>3
<1>6. s[op.for].valid
  BY DEF Own
<1>7. CASE op.kind = s[op.for].kind /\ n = OpsBy(s, op.for)
  BY <1>1, <1>2, <1>3, <1>4, <1>5, <1>6, <1>7
<1>8. CASE /\ op.kind = "session" /\ s[op.for].kind = "publish"
           /\ PublishesBy(s, op.for - 1) = {} /\ n = OpsBy(s, op.for) - 1
  <2>1. OpsBy(s, op.for) = OpsBy(s, i) + 2
    BY <1>3, <1>4, <1>5, <1>6, <1>8
  <2> QED
    BY <1>1, <1>2, <1>3, <1>8, <2>1
<1> QED
  BY <1>7, <1>8 DEF Own

\* A number has one operation of the handler.
LEMMA OwnIsOne ==
  ASSUME NEW s, NEW n, NEW op1 \in OpRecords, NEW op2 \in OpRecords,
         Own(s, n, op1), Own(s, n, op2)
  PROVE  op1 = op2
<1>1. op1.for \in Nat /\ op2.for \in Nat
  BY DEF OpRecords
<1>2. /\ op1.for > 0 /\ OpsBy(s, op1.for - 1) + 1 <= n /\ n <= OpsBy(s, op1.for) /\ n \in Nat
      /\ op2.for > 0 /\ OpsBy(s, op2.for - 1) + 1 <= n /\ n <= OpsBy(s, op2.for)
  BY <1>1, OwnBetween
<1>3. /\ OpsBy(s, op1.for) \in Nat /\ OpsBy(s, op2.for) \in Nat
      /\ OpsBy(s, op1.for - 1) \in Nat /\ OpsBy(s, op2.for - 1) \in Nat
  <2>1. op1.for - 1 \in Nat /\ op2.for - 1 \in Nat
    BY <1>1, <1>2
  <2> QED
    BY <1>1, <2>1, Counted
<1>4. ~ op1.for < op2.for
  <2> SUFFICES ASSUME op1.for < op2.for PROVE FALSE
    OBVIOUS
  <2>1. op1.for <= op2.for - 1 /\ op2.for - 1 \in Nat
    BY <1>1, <1>2
  <2>2. OpsBy(s, op1.for) <= OpsBy(s, op2.for - 1)
    BY <1>1, <2>1, MoreCalls
  <2> QED
    BY <1>2, <1>3, <2>2
<1>5. ~ op2.for < op1.for
  <2> SUFFICES ASSUME op2.for < op1.for PROVE FALSE
    OBVIOUS
  <2>1. op2.for <= op1.for - 1 /\ op1.for - 1 \in Nat
    BY <1>1, <1>2
  <2>2. OpsBy(s, op2.for) <= OpsBy(s, op1.for - 1)
    BY <1>1, <2>1, MoreCalls
  <2> QED
    BY <1>2, <1>3, <2>2
<1>6. op1.for = op2.for
  BY <1>1, <1>4, <1>5
<1>7. op1.kind = op2.kind
  BY <1>3, <1>6 DEF Own
<1> QED
  BY <1>6, <1>7 DEF OpRecords

\* A position is of one publish, and a handler has one session.
LEMMA PositionIsOne ==
  ASSUME NEW s, NEW f1 \in Nat, NEW f2 \in Nat, f1 > 0, f2 > 0,
         s[f1].valid, s[f1].kind = "publish", s[f2].valid, s[f2].kind = "publish",
         Cardinality(PublishesBy(s, f1)) = Cardinality(PublishesBy(s, f2))
  PROVE  f1 = f2
<1>1. ASSUME NEW i \in Nat, NEW j \in Nat, j > 0, i < j, s[j].valid, s[j].kind = "publish"
      PROVE  Cardinality(PublishesBy(s, i)) # Cardinality(PublishesBy(s, j))
  <2>1. PICK k \in Nat : k + 1 = j /\ i <= k
    <3>1. j - 1 \in Nat /\ (j - 1) + 1 = j /\ i <= j - 1
      BY <1>1
    <3> QED
      BY <3>1
  <2>2. Cardinality(PublishesBy(s, k + 1)) = Cardinality(PublishesBy(s, k)) + 1
    BY <1>1, <2>1, OneCall
  <2>3. Cardinality(PublishesBy(s, i)) <= Cardinality(PublishesBy(s, k))
    BY <2>1, MoreCalls
  <2>4. Cardinality(PublishesBy(s, i)) \in Nat /\ Cardinality(PublishesBy(s, k)) \in Nat
    BY Counted
  <2> QED
    BY <2>1, <2>2, <2>3, <2>4
<1>2. ~ f1 < f2 /\ ~ f2 < f1
  BY <1>1
<1> QED
  BY <1>2

LEMMA SessionIsOne ==
  ASSUME NEW s, NEW n1, NEW n2, Session(s, n1), Session(s, n2)
  PROVE  n1 = n2
<1>1. PICK j1 \in 1..Len(s) : /\ s[j1].valid /\ s[j1].kind = "publish"
                              /\ PublishesBy(s, j1 - 1) = {} /\ n1 = OpsBy(s, j1 - 1) + 1
  BY DEF Session
<1>2. PICK j2 \in 1..Len(s) : /\ s[j2].valid /\ s[j2].kind = "publish"
                              /\ PublishesBy(s, j2 - 1) = {} /\ n2 = OpsBy(s, j2 - 1) + 1
  BY DEF Session
<1>3. ~ j1 < j2
  BY <1>1, <1>2 DEF PublishesBy
<1>4. ~ j2 < j1
  BY <1>1, <1>2 DEF PublishesBy
<1>5. j1 = j2
  BY <1>3, <1>4
<1> QED
  BY <1>1, <1>2, <1>5

-----------------------------------------------------------------------------
\* The invariant holds at first.

LEMMA Handlers ==
  ASSUME IInv, NEW c \in Contexts
  PROVE  /\ program[c] \in Seq(Calls) /\ Len(program[c]) \in Nat /\ Len(program[c]) < MaxOps
         /\ MaxOps \in Nat
<1>1. program \in [Contexts -> Seq(Calls)] /\ MaxOps \in Nat /\ Len(program[c]) < MaxOps
  BY ProgramsAssumption DEF IInv, Typed
<1> QED
  BY <1>1

LEMMA NoRunIs ==
  ASSUME NEW s, Len(s) \in Nat
  PROVE  RunIs(s, NoRun) /\ NoRun \in Runs
<1>1. NoRun.called = 0 /\ NoRun.ops = 0 /\ NoRun.published = 0 /\ NoRun.session = 0 /\ NoRun \in Runs
  BY DEF NoRun, Runs, Outs
<1> QED
  BY <1>1, NothingCalled DEF RunIs

LEMMA InitOK == Init => IInv
<1> SUFFICES ASSUME Init PROVE IInv
  OBVIOUS
<1>1. program \in Programs /\ \A c \in Contexts : Len(program[c]) \in Nat
  <2>1. program \in [Contexts -> Seq(Calls)]
    BY ProgramsAssumption DEF Init
  <2> QED
    BY <2>1 DEF Init
<1>2. NoOp \in [op : OpRecords, position : Nat] /\ NoCheck \in Checks /\ NoOp.op = Nothing
  BY DEF NoOp, NoCheck, Nothing, OpRecords, Checks, Outs
<1>3. Typed
  BY <1>1, <1>2, NoRunIs DEF Init, Typed, Ways
<1>4. RunsOK
  BY <1>1, NoRunIs DEF Init, RunsOK
<1>5. PlacedOK /\ ChecksOK /\ HeldOK
  BY <1>2 DEF Init, PlacedOK, PlacedIs, ChecksOK, HeldOK, NoCheck
<1>6. WaitsOK /\ LogOK /\ DoneOK
  BY DEF Init, WaitsOK, LogOK, DoneOK, NoCheck, Nothing, Waits
<1> QED
  BY <1>3, <1>4, <1>5, <1>6 DEF IInv

-----------------------------------------------------------------------------
\* No message is taken, and no publish is answered with success.
Silent ==
  /\ UNCHANGED log
  /\ \A o \in Ops :
       (check[o].op.kind = "publish" \/ check'[o].op.kind = "publish")
         /\ (check[o].out = "ok" \/ check'[o].out = "ok") => check'[o] = check[o]

-----------------------------------------------------------------------------
\* The handler calls.

\* A run that goes on has what it had.
LEMMA StaysPlaced ==
  ASSUME NEW s, NEW n, NEW p \in [op : OpRecords, position : Nat], NEW r \in Runs, NEW q \in Runs,
         PlacedIs(s, n, p, r), r.called <= q.called
  PROVE  PlacedIs(s, n, p, q)
<1>1. p.op.for \in Nat /\ r.called \in Nat /\ q.called \in Nat
  BY DEF OpRecords, Runs
<1>2. p.op # Nothing => p.op.for <= q.called
  BY <1>1 DEF PlacedIs
<1> QED
  BY <1>2 DEF PlacedIs

\* Operations are put under their numbers.
LEMMA PlaceStep ==
  ASSUME IInv, NEW c \in Contexts, NEW r \in Runs, NEW new, Place(new),
         run' = [run EXCEPT ![c] = r], UNCHANGED <<program, held, log, faults>>,
         RunIs(program[c], r), run[c].called <= r.called,
         \A o \in DOMAIN new : /\ o[1] = c /\ new[o] \in [op : OpRecords, position : Nat]
                               /\ new[o].op # Nothing /\ PlacedIs(program[c], o[2], new[o], r)
  PROVE  IInv' /\ Silent
<1>1. \A o \in Ops : /\ o \in DOMAIN new => placed'[o] = new[o]
                     /\ o \notin DOMAIN new => placed'[o] = placed[o]
                     /\ o \in DOMAIN new /\ check[o].st = "none" =>
                          check'[o] = [op |-> new[o].op, st |-> "started", out |-> "none"]
                     /\ ~(o \in DOMAIN new /\ check[o].st = "none") => check'[o] = check[o]
  BY DEF Place
<1>2. /\ run' \in [Contexts -> Runs] /\ run'[c] = r
      /\ \A d \in Contexts : d # c => run'[d] = run[d]
  BY DEF IInv, Typed
<1>3. placed' \in [Ops -> [op : OpRecords, position : Nat]]
  BY <1>1 DEF IInv, Typed, Place
<1>4. \A o \in Ops : check'[o] \in Checks
  <2> SUFFICES ASSUME NEW o \in Ops PROVE check'[o] \in Checks
    OBVIOUS
  <2>1. CASE o \in DOMAIN new /\ check[o].st = "none"
    <3>1. new[o].op \in OpRecords
      BY <2>1
    <3>2. check'[o] = [op |-> new[o].op, st |-> "started", out |-> "none"]
      BY <1>1, <2>1
    <3> QED
      BY <3>1, <3>2 DEF Checks, Outs
  <2>2. CASE ~(o \in DOMAIN new /\ check[o].st = "none")
    BY <1>1, <2>2 DEF IInv, Typed
  <2> QED
    BY <2>1, <2>2
<1>5. check' \in [Ops -> Checks]
  BY <1>4 DEF Place
<1>6. Typed'
  BY <1>2, <1>3, <1>5 DEF IInv, Typed
<1>7. RunsOK'
  BY <1>2 DEF IInv, RunsOK
<1>8. PlacedOK'
  <2> SUFFICES ASSUME NEW o \in Ops
               PROVE  /\ PlacedIs(program[o[1]], o[2], placed'[o], run'[o[1]])
                      /\ placed'[o].op # Nothing => check'[o].st # "none"
    BY DEF PlacedOK
  <2>1. CASE o \in DOMAIN new
    <3>1. placed'[o] = new[o] /\ o[1] = c /\ run'[o[1]] = r
      BY <1>1, <1>2, <2>1
    <3>2. check'[o].st # "none"
      <4>1. CASE check[o].st = "none"
        <5>1. check'[o] = [op |-> new[o].op, st |-> "started", out |-> "none"]
          BY <1>1, <2>1, <4>1
        <5> QED
          BY <5>1
      <4>2. CASE check[o].st # "none"
        BY <1>1, <2>1, <4>2
      <4> QED
        BY <4>1, <4>2
    <3> QED
      BY <2>1, <3>1, <3>2
  <2>2. CASE o \notin DOMAIN new
    <3>1. o[1] \in Contexts /\ run[o[1]].called <= run'[o[1]].called
      <4>1. o[1] \in Contexts /\ run[o[1]].called \in Nat
        BY DEF Ops, IInv, Typed, Runs
      <4> QED
        BY <1>2, <4>1
    <3>2. PlacedIs(program[o[1]], o[2], placed[o], run[o[1]])
      BY DEF IInv, PlacedOK
    <3>3. placed[o] \in [op : OpRecords, position : Nat] /\ run[o[1]] \in Runs /\ run'[o[1]] \in Runs
      BY <1>2, <3>1 DEF IInv, Typed
    <3>4. PlacedIs(program[o[1]], o[2], placed[o], run'[o[1]])
      BY <3>1, <3>2, <3>3, StaysPlaced
    <3> QED
      BY <1>1, <2>2, <3>4 DEF IInv, PlacedOK
  <2> QED
    BY <2>1, <2>2
<1>9. ChecksOK'
  <2> SUFFICES ASSUME NEW o \in Ops
               PROVE  /\ IF check'[o].st = "none" THEN check'[o] = NoCheck
                         ELSE Own(program[o[1]], o[2], check'[o].op)
                      /\ check'[o].st # "done" => check'[o].out = "none"
    BY DEF ChecksOK
  <2>1. CASE o \in DOMAIN new /\ check[o].st = "none"
    <3>1. check'[o].op = new[o].op /\ check'[o].st = "started" /\ check'[o].out = "none"
      <4>1. check'[o] = [op |-> new[o].op, st |-> "started", out |-> "none"]
        BY <1>1, <2>1
      <4> QED
        BY <4>1
    <3>2. Own(program[o[1]], o[2], new[o].op)
      BY <2>1 DEF PlacedIs
    <3> QED
      BY <3>1, <3>2
  <2>2. CASE ~(o \in DOMAIN new /\ check[o].st = "none")
    BY <1>1, <2>2 DEF IInv, ChecksOK
  <2> QED
    BY <2>1, <2>2
<1>10. \A o \in Ops : check[o].st # "none" => check'[o] = check[o]
  BY <1>1
<1>11. \A o \in Ops : check'[o] = check[o] \/ (check[o] = NoCheck /\ check'[o].st = "started" /\ check'[o].out = "none")
  <2> SUFFICES ASSUME NEW o \in Ops, check'[o] # check[o]
               PROVE  check[o] = NoCheck /\ check'[o].st = "started" /\ check'[o].out = "none"
    OBVIOUS
  <2>1. o \in DOMAIN new /\ check[o].st = "none"
    BY <1>1
  <2>2. check'[o] = [op |-> new[o].op, st |-> "started", out |-> "none"]
    BY <1>1, <2>1
  <2> QED
    BY <2>1, <2>2 DEF IInv, ChecksOK
<1>12. HeldOK'
  BY <1>11 DEF IInv, HeldOK, NoCheck, Nothing, Callbacks, Waits
<1>13. WaitsOK'
  BY <1>11 DEF IInv, WaitsOK, Closed
<1>14. LogOK'
  BY DEF IInv, LogOK
<1>15. DoneOK'
  BY <1>11 DEF IInv, DoneOK
<1>16. \A o \in Ops : check'[o].out = "ok" \/ check[o].out = "ok" => check'[o] = check[o]
  BY <1>11 DEF NoCheck
<1>17. Silent
  BY <1>16 DEF Silent
<1> QED
  BY <1>6, <1>7, <1>8, <1>9, <1>12, <1>13, <1>14, <1>15, <1>17 DEF IInv

\* What a call has when it is made.
LEMMA CallMade ==
  ASSUME IInv, NEW c \in Contexts, NEW kinds, NEW valid, Calling(c, kinds, valid)
  PROVE  LET i == run[c].called
             s == program[c]
         IN /\ i \in Nat /\ i < Len(s) /\ Len(s) \in Nat /\ i + 1 \in 1..Len(s)
            /\ s[i + 1].kind \in kinds /\ s[i + 1].valid = valid /\ s[i + 1] \in Calls
            /\ run[c] \in Runs /\ run[c].ops = OpsBy(s, i) /\ run[c].ops \in Nat
            /\ UNCHANGED <<program, held, log, faults>>
<1>1. run[c] \in Runs /\ program[c] \in Seq(Calls) /\ Len(program[c]) \in Nat
  BY Handlers DEF IInv, Typed
<1>2. run[c].called \in Nat /\ run[c].ops \in Nat /\ run[c].called < Len(program[c])
  BY <1>1 DEF Runs, Calling
<1>3. run[c].called + 1 \in 1..Len(program[c])
  BY <1>1, <1>2
<1>4. program[c][run[c].called + 1] \in Calls
  BY <1>1, <1>3
<1> QED
  BY <1>1, <1>2, <1>3, <1>4 DEF Calling, IInv, RunsOK, RunIs

LEMMA CalledIs ==
  ASSUME NEW c \in Contexts, run[c] \in Runs, NEW k \in Nat
  PROVE  /\ Called(c, k) \in Runs
         /\ Called(c, k).called = run[c].called + 1 /\ Called(c, k).ops = run[c].ops + k
         /\ Called(c, k).published = run[c].published /\ Called(c, k).session = run[c].session
<1>1. /\ run[c].called \in Nat /\ run[c].ops \in Nat /\ run[c].at \in Seq(Nat)
      /\ run[c].published \in Nat /\ run[c].session \in Nat /\ run[c].opened \in Outs
  BY DEF Runs
<1>2. run[c].called + 1 \in Nat /\ run[c].ops + k \in Nat
  BY <1>1
<1>3. PICK x \in Nat : x = IF k = 0 THEN 0 ELSE run[c].ops + k
  BY <1>2
<1>4. Append(run[c].at, x) \in Seq(Nat)
  BY <1>1
<1>5. Called(c, k) = [run[c] EXCEPT !.called = run[c].called + 1, !.ops = run[c].ops + k,
                                    !.at = Append(run[c].at, x)]
  BY <1>3 DEF Called
<1> QED
  BY <1>1, <1>2, <1>4, <1>5 DEF Runs

\* The run once the call is made, if it takes k operations and its own is not
\* a publish, or not the first.
LEMMA RunGoesOn ==
  ASSUME IInv, NEW c \in Contexts, NEW kinds, NEW valid, Calling(c, kinds, valid), NEW k \in Nat,
         LET call == program[c][run[c].called + 1]
             published == call.valid /\ call.kind = "publish"
         IN ~published /\ k = IF call.valid THEN 1 ELSE 0
  PROVE  RunIs(program[c], Called(c, k))
<1> DEFINE i == run[c].called
           s == program[c]
<1>1. /\ i \in Nat /\ i + 1 <= Len(s) /\ run[c] \in Runs /\ run[c].ops = OpsBy(s, i) /\ OpsBy(s, i) \in Nat
  BY CallMade
<1>2. /\ Called(c, k).called = i + 1 /\ Called(c, k).ops = OpsBy(s, i) + k
      /\ Called(c, k).published = run[c].published /\ Called(c, k).session = run[c].session
  BY <1>1, CalledIs
<1>3. PICK j \in Nat : j = i
  BY <1>1
<1>4. /\ OpsBy(s, j + 1) = OpsBy(s, j) + k
      /\ PublishesBy(s, j + 1) = PublishesBy(s, j)
      /\ Cardinality(PublishesBy(s, j + 1)) = Cardinality(PublishesBy(s, j)) + 0
  BY <1>3, OneCall
<1>5. Cardinality(PublishesBy(s, j)) \in Nat
  BY Counted
<1>6. RunIs(s, run[c])
  BY DEF IInv, RunsOK
<1> QED
  BY <1>1, <1>2, <1>3, <1>4, <1>5, <1>6 DEF RunIs

LEMMA ThrowsStep ==
  ASSUME IInv, NEW c \in Contexts, NEW kind, Throws(c, kind)
  PROVE  IInv' /\ Silent
<1>1. /\ Calling(c, {kind}, FALSE) /\ run' = [run EXCEPT ![c] = Called(c, 0)] /\ UNCHANGED <<placed, check>>
  BY DEF Throws
<1>2. /\ run[c] \in Runs /\ ~program[c][run[c].called + 1].valid /\ run[c].called \in Nat
      /\ UNCHANGED <<program, held, log, faults>>
  BY <1>1, CallMade
<1>3. RunIs(program[c], Called(c, 0))
  BY <1>1, <1>2, RunGoesOn
<1>4. Called(c, 0) \in Runs /\ run[c].called <= Called(c, 0).called
  BY <1>2, CalledIs
<1>5. PICK new : new = <<>>
  OBVIOUS
<1>6. DOMAIN new = {}
  BY <1>5
<1>7. placed = [o \in Ops |-> placed[o]] /\ check = [o \in Ops |-> check[o]]
  BY DEF IInv, Typed
<1>8. Place(new)
  BY <1>1, <1>6, <1>7 DEF Place
<1>9. PICK r \in Runs : r = Called(c, 0)
  BY <1>4
<1> QED
  BY <1>1, <1>2, <1>3, <1>4, <1>6, <1>8, <1>9, PlaceStep

LEMMA WaitStep ==
  ASSUME IInv, NEW c \in Contexts, NEW kind \in Waits \cup {"step"},
         Calling(c, {kind}, TRUE), CallOne(c, kind, Called(c, 1), 0)
  PROVE  IInv' /\ Silent
<1> DEFINE i == run[c].called
           s == program[c]
<1>1. /\ run[c] \in Runs /\ s[i + 1].valid /\ s[i + 1].kind = kind /\ i \in Nat /\ i + 1 \in 1..Len(s)
      /\ run[c].ops = OpsBy(s, i) /\ run[c].ops \in Nat
      /\ UNCHANGED <<program, held, log, faults>>
  BY CallMade
<1>2. kind # "publish" /\ kind \in Kinds
  BY DEF Waits, Kinds
<1>3. RunIs(s, Called(c, 1))
  BY <1>1, <1>2, RunGoesOn
<1>4. /\ Called(c, 1) \in Runs /\ i <= i + 1
      /\ Called(c, 1).called = i + 1 /\ Called(c, 1).ops = run[c].ops + 1
  <2>1. PICK k \in Nat : k = 1
    OBVIOUS
  <2>2. Called(c, k) \in Runs /\ Called(c, k).called = i + 1 /\ Called(c, k).ops = run[c].ops + k
    BY <1>1, CalledIs
  <2> QED
    BY <1>1, <2>1, <2>2
<1>5. PICK r \in Runs : r = Called(c, 1)
  BY <1>4
<1>6. r.called = i + 1 /\ r.ops = OpsBy(s, i + 1) /\ r.ops = run[c].ops + 1
  BY <1>3, <1>4, <1>5 DEF RunIs
<1>7. PICK x : x = Op(i + 1, kind, 0)
  OBVIOUS
<1>8. /\ x.op.for = i + 1 /\ x.op.kind = kind /\ x \in [op : OpRecords, position : Nat] /\ x.op # Nothing
  BY <1>1, <1>2, <1>7 DEF Op, OpRecords, Nothing
<1>9. PlacedIs(s, r.ops, x, r)
  BY <1>1, <1>2, <1>6, <1>8 DEF PlacedIs, Own
<1>10. PICK o : o = <<c, r.ops>>
  OBVIOUS
<1>11. PICK new : new = [q \in {o} |-> x]
  OBVIOUS
<1>12. run' = [run EXCEPT ![c] = r] /\ Place(new)
  BY <1>5, <1>6, <1>7, <1>10, <1>11 DEF CallOne
<1>13. DOMAIN new = {o} /\ new[o] = x /\ o[1] = c /\ o[2] = r.ops
  BY <1>10, <1>11
<1>14. run[c].called <= r.called
  BY <1>4, <1>6
<1>15. RunIs(program[c], r)
  BY <1>3, <1>5
<1> QED
  BY <1>1, <1>8, <1>9, <1>12, <1>13, <1>14, <1>15, PlaceStep

LEMMA PublishStep ==
  ASSUME IInv, NEW c \in Contexts, PublishCall(c)
  PROVE  IInv' /\ Silent
<1> DEFINE i == run[c].called
           s == program[c]
           position == run[c].published + 1
           n == run[c].ops + 1
<1>1. /\ run[c] \in Runs /\ s[i + 1].valid /\ s[i + 1].kind = "publish" /\ i \in Nat /\ i + 1 \in 1..Len(s)
      /\ i + 1 <= Len(s) /\ run[c].ops = OpsBy(s, i) /\ run[c].ops \in Nat
      /\ UNCHANGED <<program, held, log, faults>>
  <2>1. Calling(c, {"publish"}, TRUE)
    BY DEF PublishCall
  <2>2. /\ run[c] \in Runs /\ s[i + 1].valid = TRUE /\ s[i + 1].kind \in {"publish"}
        /\ i \in Nat /\ i + 1 \in 1..Len(s) /\ run[c].ops = OpsBy(s, i) /\ run[c].ops \in Nat
        /\ UNCHANGED <<program, held, log, faults>>
    BY <2>1, CallMade
  <2> QED
    BY <2>2
<1>2. RunIs(s, run[c]) /\ run[c].published \in Nat
  BY <1>1 DEF IInv, RunsOK, Runs
<1>3. PICK j \in Nat : j = i
  BY <1>1
<1>4. /\ OpsBy(s, j + 1) = OpsBy(s, j) + IF PublishesBy(s, j) = {} THEN 2 ELSE 1
      /\ PublishesBy(s, j + 1) # {}
      /\ Cardinality(PublishesBy(s, j + 1)) = position
  <2>1. s[j + 1].valid /\ s[j + 1].kind = "publish"
    BY <1>1, <1>3
  <2>2. /\ OpsBy(s, j + 1) = OpsBy(s, j) + IF PublishesBy(s, j) = {} THEN 2 ELSE 1
        /\ PublishesBy(s, j + 1) = PublishesBy(s, j) \cup {j + 1}
        /\ Cardinality(PublishesBy(s, j + 1)) = Cardinality(PublishesBy(s, j)) + 1
    BY <2>1, OneCall
  <2> QED
    BY <1>2, <1>3, <2>2 DEF RunIs
<1>5. position \in Nat /\ n \in Nat
  BY <1>1, <1>2
<1>6. CASE OpensSession(run[c])
  <2> DEFINE R == [Called(c, 2) EXCEPT !.published = position, !.session = n, !.opened = "pending"]
  <2>1. PublishesBy(s, j) = {}
    <3>1. run[c].session = 0
      BY <1>6 DEF OpensSession
    <3>2. ~Session(s, 0)
      <4>1. ASSUME NEW k \in 1..Len(s) PROVE OpsBy(s, k - 1) + 1 # 0
        <5>1. PICK h \in Nat : h = k - 1
          OBVIOUS
        <5>2. OpsBy(s, h) \in Nat
          BY Counted
        <5> QED
          BY <5>1, <5>2
      <4> QED
        BY <4>1 DEF Session
    <3> QED
      BY <1>2, <1>3, <3>1, <3>2 DEF RunIs
  <2>2. PICK k \in Nat : k = 2
    OBVIOUS
  <2>3. Called(c, k) \in Runs /\ Called(c, k).called = i + 1 /\ Called(c, k).ops = run[c].ops + k
    BY <1>1, CalledIs
  <2>4. R \in Runs /\ R.called = i + 1 /\ R.ops = run[c].ops + 2 /\ R.published = position /\ R.session = n
    BY <1>5, <2>2, <2>3 DEF Runs, Outs
  <2>5. PICK r \in Runs : r = R
    BY <2>4
  <2>6. r.called = j + 1 /\ r.ops = OpsBy(s, j + 1) /\ r.ops = n + 1 /\ r.published = position /\ r.session = n
        /\ n = OpsBy(s, j) + 1
    BY <1>1, <1>3, <1>4, <2>1, <2>4, <2>5
  <2>7. Session(s, n)
    <3>1. (j + 1) - 1 = j /\ j + 1 \in 1..Len(s)
      BY <1>1, <1>3
    <3>2. s[j + 1].valid /\ s[j + 1].kind = "publish"
      BY <1>1, <1>3
    <3> QED
      BY <2>1, <2>6, <3>1, <3>2 DEF Session
  <2>8. RunIs(s, r)
    BY <1>1, <1>3, <1>4, <2>6, <2>7 DEF RunIs
  <2>9. PICK x : x = Op(j + 1, "session", 0)
    OBVIOUS
  <2>10. PICK y : y = Op(j + 1, "publish", position)
    OBVIOUS
  <2>11. /\ x.op.for = j + 1 /\ x.op.kind = "session" /\ x \in [op : OpRecords, position : Nat] /\ x.op # Nothing
         /\ y.op.for = j + 1 /\ y.op.kind = "publish" /\ y \in [op : OpRecords, position : Nat] /\ y.op # Nothing
         /\ y.position = position
    BY <1>5, <2>9, <2>10 DEF Op, OpRecords, Kinds, Nothing
  <2>12. PlacedIs(s, n, x, r)
    <3>1. (j + 1) - 1 = j /\ j + 1 \in 1..Len(s) /\ j + 1 <= j + 1 /\ n = OpsBy(s, j + 1) - 1
      BY <1>1, <1>3, <1>4, <2>1, <2>6
    <3>2. s[j + 1].valid /\ s[j + 1].kind = "publish"
      BY <1>1, <1>3
    <3> QED
      BY <2>1, <2>6, <2>11, <3>1, <3>2 DEF PlacedIs, Own
  <2>13. PlacedIs(s, n + 1, y, r)
    <3>1. j + 1 \in 1..Len(s) /\ j + 1 <= j + 1 /\ n + 1 = OpsBy(s, j + 1)
      BY <1>1, <1>3, <2>6
    <3>2. s[j + 1].valid /\ s[j + 1].kind = "publish"
      BY <1>1, <1>3
    <3> QED
      BY <1>4, <2>6, <2>11, <3>1, <3>2 DEF PlacedIs, Own
  <2>14. PICK new : new = [o \in {<<c, n>>, <<c, n + 1>>} |-> IF o[2] = n THEN x ELSE y]
    OBVIOUS
  <2>15. run' = [run EXCEPT ![c] = r] /\ Place(new)
    <3>1. R.called = j + 1
      BY <1>3, <2>4
    <3> QED
      BY <1>6, <2>5, <2>9, <2>10, <2>14, <3>1 DEF PublishCall
  <2>16. DOMAIN new = {<<c, n>>, <<c, n + 1>>} /\ new[<<c, n>>] = x /\ new[<<c, n + 1>>] = y
    BY <1>5, <2>14
  <2>17. \A o \in DOMAIN new : /\ o[1] = c /\ new[o] \in [op : OpRecords, position : Nat]
                               /\ new[o].op # Nothing /\ PlacedIs(program[c], o[2], new[o], r)
    BY <2>11, <2>12, <2>13, <2>16
  <2>18. run[c].called <= r.called
    BY <1>1, <1>3, <2>6
  <2> QED
    BY <1>1, <2>8, <2>15, <2>17, <2>18, PlaceStep
<1>7. CASE ~OpensSession(run[c])
  <2> DEFINE R == [Called(c, 1) EXCEPT !.published = position]
  <2>1. PublishesBy(s, j) # {} /\ Session(s, run[c].session)
    <3>1. run[c].session # 0
      BY <1>7 DEF OpensSession
    <3> QED
      BY <1>2, <1>3, <3>1 DEF RunIs
  <2>2. PICK k \in Nat : k = 1
    OBVIOUS
  <2>3. /\ Called(c, k) \in Runs /\ Called(c, k).called = i + 1 /\ Called(c, k).ops = run[c].ops + k
        /\ Called(c, k).session = run[c].session
    BY <1>1, CalledIs
  <2>4. /\ R \in Runs /\ R.called = i + 1 /\ R.ops = run[c].ops + 1 /\ R.published = position
        /\ R.session = run[c].session
    BY <1>5, <2>2, <2>3 DEF Runs
  <2>5. PICK r \in Runs : r = R
    BY <2>4
  <2>6. r.called = j + 1 /\ r.ops = OpsBy(s, j + 1) /\ r.published = position /\ r.session = run[c].session
    BY <1>1, <1>3, <1>4, <2>1, <2>4, <2>5
  <2>7. RunIs(s, r)
    BY <1>1, <1>3, <1>4, <2>1, <2>6 DEF RunIs
  <2>8. PICK y : y = Op(j + 1, "publish", position)
    OBVIOUS
  <2>9. /\ y.op.for = j + 1 /\ y.op.kind = "publish" /\ y \in [op : OpRecords, position : Nat] /\ y.op # Nothing
        /\ y.position = position
    BY <1>5, <2>8 DEF Op, OpRecords, Kinds, Nothing
  <2>10. PlacedIs(s, r.ops, y, r)
    <3>1. j + 1 \in 1..Len(s) /\ j + 1 <= j + 1
      BY <1>1, <1>3
    <3>2. s[j + 1].valid /\ s[j + 1].kind = "publish"
      BY <1>1, <1>3
    <3> QED
      BY <1>4, <2>6, <2>9, <3>1, <3>2 DEF PlacedIs, Own
  <2>11. PICK new : new = [o \in {<<c, r.ops>>} |-> y]
    OBVIOUS
  <2>12. run' = [run EXCEPT ![c] = r] /\ Place(new)
    <3>1. R.called = j + 1
      BY <1>3, <2>4
    <3> QED
      BY <1>7, <2>5, <2>8, <2>11, <3>1 DEF PublishCall, CallOne
  <2>13. \A o \in DOMAIN new : /\ o[1] = c /\ new[o] \in [op : OpRecords, position : Nat]
                               /\ new[o].op # Nothing /\ PlacedIs(program[c], o[2], new[o], r)
    BY <2>9, <2>10, <2>11
  <2>14. run[c].called <= r.called
    BY <1>1, <1>3, <2>6
  <2> QED
    BY <1>1, <2>7, <2>12, <2>13, <2>14, PlaceStep
<1> QED
  BY <1>6, <1>7

-----------------------------------------------------------------------------
\* One operation goes on.

\* What is under its number is its checkpoint's, in every run.
LEMMA SamePlaces ==
  ASSUME IInv, NEW o \in Ops, placed[o].op # Nothing
  PROVE  check[o].op = placed[o].op /\ check[o].st # "none"
<1>1. Own(program[o[1]], o[2], placed[o].op)
  BY DEF IInv, PlacedOK, PlacedIs
<1>2. check[o].st # "none"
  BY DEF IInv, PlacedOK
<1>3. Own(program[o[1]], o[2], check[o].op)
  BY <1>2 DEF IInv, ChecksOK
<1>4. placed[o].op \in OpRecords /\ check[o].op \in OpRecords
  BY DEF IInv, Typed, Checks
<1> QED
  BY <1>1, <1>2, <1>3, <1>4, OwnIsOne

LEMMA UnderOne ==
  ASSUME IInv, NEW o \in Ops, NEW kinds, Under(o, kinds), "none" \notin kinds
  PROVE  /\ check[o].op = placed[o].op /\ check[o].st # "none"
         /\ check[o].op.kind \in kinds /\ placed[o].op # Nothing
<1>1. placed[o].op # Nothing
  BY DEF Under, Nothing
<1> QED
  BY <1>1, SamePlaces DEF Under

LEMMA Moves ==
  ASSUME IInv, NEW o \in Ops, UNCHANGED <<program, run, placed>>,
         check' \in [Ops -> Checks], held' \in [Ops -> Ways],
         \A p \in Ops : p # o => check'[p] = check[p] /\ held'[p] = held[p],
         faults \subseteq faults', faults' \subseteq Ops,
         check[o].st # "none", check'[o].op = check[o].op, check'[o].st # "none",
         check'[o].st # "done" => check'[o].out = "none",
         held'[o] # held[o] => check[o].op.kind \in Callbacks,
         o \notin faults' /\ check[o].op.kind \in Waits /\ check'[o].st = "done" =>
           Closed(o)' /\ check'[o].out = OutcomeOf(check[o].op.kind, held'[o]),
         log' \in Seq(Entries), LogOK', DoneOK'
  PROVE  IInv'
<1>1. Typed'
  BY DEF IInv, Typed
<1>2. RunsOK'
  BY DEF IInv, RunsOK
<1>3. PlacedOK'
  BY DEF IInv, PlacedOK
<1>4. ChecksOK'
  BY DEF IInv, ChecksOK
<1>5. HeldOK'
  BY DEF IInv, HeldOK
<1>6. WaitsOK'
  <2> SUFFICES ASSUME NEW p \in Ops \ faults', check'[p].op.kind \in Waits, check'[p].st = "done"
               PROVE  Closed(p)' /\ check'[p].out = OutcomeOf(check'[p].op.kind, held'[p])
    BY DEF WaitsOK
  <2>1. CASE p = o
    BY <2>1
  <2>2. CASE p # o
    BY <2>2 DEF IInv, WaitsOK, Closed
  <2> QED
    BY <2>1, <2>2
<1> QED
  BY <1>1, <1>2, <1>3, <1>4, <1>5, <1>6 DEF IInv

\* It goes on without a message.
LEMMA MovesSilently ==
  ASSUME IInv, NEW o \in Ops, UNCHANGED <<program, run, placed, log>>,
         check' \in [Ops -> Checks], held' \in [Ops -> Ways],
         \A p \in Ops : p # o => check'[p] = check[p] /\ held'[p] = held[p],
         faults \subseteq faults', faults' \subseteq Ops,
         check[o].st # "none", check'[o].op = check[o].op, check'[o].st # "none",
         check'[o].st # "done" => check'[o].out = "none",
         held'[o] # held[o] => check[o].op.kind \in Callbacks,
         o \notin faults' /\ check[o].op.kind \in Waits /\ check'[o].st = "done" =>
           Closed(o)' /\ check'[o].out = OutcomeOf(check[o].op.kind, held'[o]),
         check'[o] = check[o] \/ check[o].op.kind # "publish"
           \/ (check'[o].out # "ok" /\ check[o].out # "ok")
  PROVE  IInv' /\ Silent
<1>1. LogOK' /\ log' \in Seq(Entries)
  BY DEF IInv, Typed, LogOK
<1>2. DoneOK'
  <2> SUFFICES ASSUME NEW p \in Ops, check'[p].op.kind = "publish", check'[p].out = "ok"
               PROVE  \E i \in 1..Len(log) : log[i].of = <<p[1], check'[p].op.for>>
    BY DEF DoneOK
  <2>1. check'[p] = check[p]
    OBVIOUS
  <2> QED
    BY <2>1 DEF IInv, DoneOK
<1>3. IInv'
  BY <1>1, <1>2, Moves
<1>4. Silent
  <2> SUFFICES ASSUME NEW p \in Ops, check[p].op.kind = "publish" \/ check'[p].op.kind = "publish",
                      check[p].out = "ok" \/ check'[p].out = "ok"
               PROVE  check'[p] = check[p]
    BY Zenon DEF Silent
  <2>1. CASE p = o
    BY <2>1
  <2>2. CASE p # o
    BY <2>2
  <2> QED
    BY <2>1, <2>2
<1> QED
  BY <1>3, <1>4

\* An outcome is put in the checkpoint.
LEMMA Ended ==
  ASSUME IInv, NEW o \in Ops, NEW out \in Outs, Ends(o, out)
  PROVE  /\ check' \in [Ops -> Checks] /\ \A p \in Ops : p # o => check'[p] = check[p]
         /\ check'[o].op = check[o].op /\ check'[o].st = "done" /\ check'[o].out = out
<1>1. check \in [Ops -> Checks]
  BY DEF IInv, Typed
<1> QED
  BY <1>1 DEF Ends, Checks

LEMMA SubmitsStep ==
  ASSUME IInv, NEW o \in Ops, NEW kind \in Callbacks, Submits(o, kind)
  PROVE  IInv' /\ Silent
<1>1. /\ Under(o, {kind}) /\ check[o].st = "started"
      /\ held' = [held EXCEPT ![o] = IF @ = "none" THEN "open" ELSE @]
      /\ Registered(o) \/ UNCHANGED check
      /\ UNCHANGED <<program, run, placed, log, faults>>
  BY DEF Submits, Attempt
<1>2. check[o].op.kind = kind /\ kind # "publish" /\ check[o].out = "none"
  <2>1. "none" \notin {kind} /\ kind # "publish"
    BY DEF Callbacks, Waits
  <2> QED
    BY <1>1, <2>1, UnderOne DEF IInv, ChecksOK
<1>3. held' \in [Ops -> Ways] /\ \A p \in Ops : p # o => held'[p] = held[p]
  BY <1>1 DEF IInv, Typed, Ways
<1>4. check \in [Ops -> Checks]
  BY DEF IInv, Typed
<1>5. /\ check' \in [Ops -> Checks] /\ \A p \in Ops : p # o => check'[p] = check[p]
      /\ check'[o].op = check[o].op /\ check'[o].st \in {"started", "submitted"} /\ check'[o].out = "none"
  BY <1>1, <1>2, <1>4 DEF Registered, Checks
<1>6. faults' \subseteq Ops
  BY <1>1 DEF IInv, Typed
<1> QED
  BY <1>1, <1>2, <1>3, <1>5, <1>6, MovesSilently

\* A request of it failed for good.
LEMMA FailsStep ==
  ASSUME IInv, NEW o \in Ops, check[o].st = "started", Fails(o),
         UNCHANGED <<program, run, placed, log>>,
         held' = held \/ (held' = [held EXCEPT ![o] = IF @ = "none" THEN "open" ELSE @] /\ check[o].op.kind \in Callbacks)
  PROVE  IInv' /\ Silent
<1>1. "failed" \in Outs
  BY DEF Outs
<1>2. /\ check' \in [Ops -> Checks] /\ \A p \in Ops : p # o => check'[p] = check[p]
      /\ check'[o].op = check[o].op /\ check'[o].st = "done" /\ check'[o].out = "failed"
  BY <1>1, Ended DEF Fails
<1>3. held' \in [Ops -> Ways] /\ \A p \in Ops : p # o => held'[p] = held[p]
  BY DEF IInv, Typed, Ways
<1>4. faults' = faults \cup {o} /\ faults' \subseteq Ops /\ check[o].out = "none"
  BY DEF Fails, IInv, Typed, ChecksOK
<1> QED
  BY <1>2, <1>3, <1>4, MovesSilently

LEMMA RegistersCallbackStep ==
  ASSUME IInv, NEW o \in Ops, RegistersCallback(o)
  PROVE  IInv' /\ Silent
<1>1. "callback" \in Callbacks /\ "none" \notin {"callback"}
  BY DEF Callbacks, Waits
<1>2. CASE Submits(o, "callback")
  BY <1>1, <1>2, SubmitsStep
<1>3. CASE Attempt(o, "callback") /\ Fails(o)
  <2>1. /\ Under(o, {"callback"}) /\ check[o].st = "started"
        /\ held' = [held EXCEPT ![o] = IF @ = "none" THEN "open" ELSE @]
        /\ UNCHANGED <<program, run, placed, log>>
    BY <1>3 DEF Attempt
  <2>2. check[o].op.kind \in Callbacks
    BY <1>1, <2>1, UnderOne
  <2> QED
    BY <1>3, <2>1, <2>2, FailsStep
<1> QED
  BY <1>2, <1>3 DEF RegistersCallback

LEMMA RefusedStep ==
  ASSUME IInv, NEW o \in Ops, Refused(o)
  PROVE  IInv' /\ Silent
BY FailsStep DEF Refused

LEMMA CompletedStep ==
  ASSUME IInv, NEW o \in Ops, Completed(o)
  PROVE  IInv' /\ Silent
<1>1. /\ held[o] = "open" /\ UNCHANGED <<program, run, placed, check, log, faults>>
      /\ \E out \in Completions[check[o].op.kind] \cup {"unreadable"} : held' = [held EXCEPT ![o] = out]
  BY DEF Completed
<1>2. check[o].op.kind \in Callbacks
  BY <1>1 DEF IInv, HeldOK
<1>3. Completions[check[o].op.kind] \cup {"unreadable"} \subseteq Ways
  BY <1>2 DEF Completions, Callbacks, Waits, Ways
<1>4. held' \in [Ops -> Ways] /\ \A p \in Ops : p # o => held'[p] = held[p]
  BY <1>1, <1>3 DEF IInv, Typed
<1>5. check[o].st # "none"
  BY <1>2 DEF IInv, ChecksOK, NoCheck, Nothing, Callbacks, Waits
<1>6. ~(o \notin faults /\ check[o].op.kind \in Waits /\ check[o].st = "done")
  BY <1>1 DEF IInv, WaitsOK, Closed
<1>7. check' \in [Ops -> Checks] /\ faults' \subseteq Ops /\ (check[o].st # "done" => check[o].out = "none")
  BY <1>1 DEF IInv, Typed, ChecksOK
<1> QED
  BY <1>1, <1>2, <1>4, <1>5, <1>6, <1>7, MovesSilently

LEMMA TimedOutStep ==
  ASSUME IInv, NEW o \in Ops, TimedOut(o)
  PROVE  IInv' /\ Silent
<1>1. /\ check[o].op.kind \in Waits /\ check[o].st \in {"started", "submitted"}
      /\ held' = [held EXCEPT ![o] = "timeout"] /\ UNCHANGED <<program, run, placed, check, log, faults>>
  BY DEF TimedOut
<1>2. held' \in [Ops -> Ways] /\ \A p \in Ops : p # o => held'[p] = held[p]
  BY <1>1 DEF IInv, Typed, Ways
<1>3. check' \in [Ops -> Checks] /\ faults' \subseteq Ops /\ check[o].out = "none"
  BY <1>1 DEF IInv, Typed, ChecksOK
<1>4. check[o].op.kind \in Callbacks
  BY <1>1 DEF Callbacks
<1> QED
  BY <1>1, <1>2, <1>3, <1>4, MovesSilently

LEMMA ResumedStep ==
  ASSUME IInv, NEW o \in Ops, Resumed(o)
  PROVE  IInv' /\ Silent
<1>1. /\ Under(o, Callbacks) /\ check[o].st = "submitted" /\ Closed(o)
      /\ Ends(o, OutcomeOf(placed[o].op.kind, held[o]))
      /\ UNCHANGED <<program, run, placed, held, log, faults>>
  BY DEF Resumed
<1>2. "none" \notin Callbacks /\ "publish" \notin Callbacks
  BY DEF Callbacks, Waits
<1>3. check[o].op = placed[o].op /\ check[o].op.kind \in Callbacks
  BY <1>1, <1>2, UnderOne
<1>4. PICK out : out = OutcomeOf(check[o].op.kind, held[o])
  OBVIOUS
<1>5. out \in Outs
  BY <1>3, <1>4
     DEF OutcomeOf, SessionOutcome, MessageOutcome, ApprovalOutcome, CallbackOutcome, FailedCallback,
         Callbacks, Waits, Outs
<1>6. Ends(o, out)
  BY <1>1, <1>3, <1>4
<1>7. /\ check' \in [Ops -> Checks] /\ \A p \in Ops : p # o => check'[p] = check[p]
      /\ check'[o].op = check[o].op /\ check'[o].st = "done" /\ check'[o].out = out
  BY <1>5, <1>6, Ended
<1>8. held' \in [Ops -> Ways] /\ faults' \subseteq Ops /\ Closed(o)'
  BY <1>1 DEF IInv, Typed, Closed
<1> QED
  BY <1>1, <1>2, <1>3, <1>4, <1>7, <1>8, MovesSilently

LEMMA StepEndsStep ==
  ASSUME IInv, NEW o \in Ops, StepEnds(o)
  PROVE  IInv' /\ Silent
<1>1. /\ Under(o, {"step"}) /\ check[o].st = "started" /\ Ends(o, "ok")
      /\ UNCHANGED <<program, run, placed, held, log, faults>>
  BY DEF StepEnds
<1>2. check[o].op.kind = "step" /\ "step" \notin Waits /\ "ok" \in Outs
  BY <1>1, UnderOne DEF Waits, Outs
<1>3. /\ check' \in [Ops -> Checks] /\ \A p \in Ops : p # o => check'[p] = check[p]
      /\ check'[o].op = check[o].op /\ check'[o].st = "done"
  BY <1>1, <1>2, Ended
<1>4. held' \in [Ops -> Ways] /\ faults' \subseteq Ops
  BY <1>1 DEF IInv, Typed
<1> QED
  BY <1>1, <1>2, <1>3, <1>4, MovesSilently

LEMMA PublishFailsStep ==
  ASSUME IInv, NEW o \in Ops, PublishFails(o)
  PROVE  IInv' /\ Silent
<1>1. /\ Under(o, {"publish"}) /\ check[o].st = "started" /\ UNCHANGED <<program, run, placed, held, log>>
      /\ Fails(o) \/ (Ends(o, "failed") /\ UNCHANGED faults)
  BY DEF PublishFails
<1>2. CASE Fails(o)
  BY <1>1, <1>2, FailsStep
<1>3. CASE Ends(o, "failed") /\ UNCHANGED faults
  <2>1. check[o].op.kind = "publish" /\ "publish" \notin Waits /\ "failed" \in Outs
    BY <1>1, UnderOne DEF Waits, Outs
  <2>2. /\ check' \in [Ops -> Checks] /\ \A p \in Ops : p # o => check'[p] = check[p]
        /\ check'[o].op = check[o].op /\ check'[o].st = "done" /\ check'[o].out = "failed"
    BY <1>3, <2>1, Ended
  <2>3. held' \in [Ops -> Ways] /\ faults' \subseteq Ops /\ check[o].out = "none"
    BY <1>1, <1>3 DEF IInv, Typed, ChecksOK
  <2> QED
    BY <1>1, <1>3, <2>1, <2>2, <2>3, MovesSilently
<1> QED
  BY <1>1, <1>2, <1>3

-----------------------------------------------------------------------------
\* A publish learns how the session ended, and the process crashes.

LEMMA OpenedStep ==
  ASSUME IInv, NEW c \in Contexts, Opened(c)
  PROVE  IInv' /\ Silent
<1> DEFINE n == run[c].session
<1>1. /\ n > 0 /\ run' = [run EXCEPT ![c].opened = check[<<c, n>>].out]
      /\ UNCHANGED <<program, placed, check, held, log, faults>>
  BY DEF Opened
<1>2. RunIs(program[c], run[c]) /\ run[c] \in Runs /\ n \in Nat
  BY DEF IInv, RunsOK, Typed, Runs
<1>3. Session(program[c], n)
  BY <1>1, <1>2 DEF RunIs
<1>4. n \in 1..MaxOps
  <2>1. PICK j \in 1..Len(program[c]) : n = OpsBy(program[c], j - 1) + 1
    BY <1>3 DEF Session
  <2>2. PICK i \in Nat : i = j - 1
    OBVIOUS
  <2>3. OpsBy(program[c], i) \in 0..i + 1
    BY Counted
  <2>4. Len(program[c]) \in Nat /\ Len(program[c]) < MaxOps /\ MaxOps \in Nat
    BY Handlers
  <2> QED
    BY <2>1, <2>2, <2>3, <2>4
<1>5. check[<<c, n>>].out \in Outs
  BY <1>4 DEF IInv, Typed, Ops, Checks
<1>6. PICK r \in Runs : r = [run[c] EXCEPT !.opened = check[<<c, n>>].out]
  BY <1>2, <1>5 DEF Runs
<1>7. /\ r.called = run[c].called /\ r.ops = run[c].ops /\ r.published = run[c].published
      /\ r.session = run[c].session
  BY <1>2, <1>6 DEF Runs
<1>8. RunIs(program[c], r)
  BY <1>2, <1>7 DEF RunIs
<1>9. run' = [run EXCEPT ![c] = r]
  BY <1>1, <1>6
<1>10. PICK new : new = <<>>
  OBVIOUS
<1>11. DOMAIN new = {}
  BY <1>10
<1>12. placed = [o \in Ops |-> placed[o]] /\ check = [o \in Ops |-> check[o]]
  BY DEF IInv, Typed
<1>13. Place(new)
  BY <1>1, <1>11, <1>12 DEF Place
<1>14. run[c].called <= r.called
  BY <1>2, <1>7 DEF Runs
<1> QED
  BY <1>1, <1>8, <1>9, <1>11, <1>13, <1>14, PlaceStep

LEMMA CrashStep ==
  ASSUME IInv, Crash
  PROVE  IInv' /\ Silent
<1>1. /\ run' = [c \in Contexts |-> NoRun] /\ placed' = [o \in Ops |-> NoOp]
      /\ UNCHANGED <<program, check, held, log, faults>>
  BY DEF Crash
<1>2. NoOp \in [op : OpRecords, position : Nat] /\ NoOp.op = Nothing
  BY DEF NoOp, Nothing, OpRecords
<1>3. \A c \in Contexts : NoRun \in Runs /\ RunIs(program[c], NoRun)
  BY NoRunIs, Handlers
<1>4. Typed'
  BY <1>1, <1>2, <1>3 DEF IInv, Typed
<1>5. RunsOK' /\ PlacedOK'
  BY <1>1, <1>2, <1>3 DEF RunsOK, PlacedOK, PlacedIs
<1>6. ChecksOK' /\ HeldOK' /\ WaitsOK' /\ LogOK' /\ DoneOK'
  BY <1>1 DEF IInv, ChecksOK, HeldOK, WaitsOK, Closed, LogOK, DoneOK
<1>7. Silent
  BY <1>1 DEF Silent
<1> QED
  BY <1>4, <1>5, <1>6, <1>7 DEF IInv

LEMMA NothingMoves ==
  ASSUME IInv, UNCHANGED vars
  PROVE  IInv' /\ Silent
<1>1. UNCHANGED <<program, run, placed, check, held, log, faults>>
  BY DEF vars
<1>2. Typed' /\ RunsOK' /\ PlacedOK'
  BY <1>1 DEF IInv, Typed, RunsOK, PlacedOK
<1>3. ChecksOK' /\ HeldOK' /\ WaitsOK' /\ LogOK' /\ DoneOK'
  BY <1>1 DEF IInv, ChecksOK, HeldOK, WaitsOK, Closed, LogOK, DoneOK
<1>4. Silent
  BY <1>1 DEF Silent
<1> QED
  BY <1>2, <1>3, <1>4 DEF IInv

-----------------------------------------------------------------------------
\* A publish reaches Volcano.

\* The message of operation o of this run.
MessageOf(o) == <<o[1], placed[o].op.for>>

\* It is in the log when its key is: the key is the same in every run, and no
\* other publish has it.
LEMMA KeyIsItsOwn ==
  ASSUME IInv, NEW o \in Ops, Under(o, {"publish"})
  PROVE  LET key == PublishKey(o[1], placed[o].position)
             f == placed[o].op.for
             s == program[o[1]]
         IN /\ key \in Contexts \X Nat \X Nat /\ f \in 1..MaxOps /\ o[1] \in Contexts
            /\ key[1] = o[1] /\ KeyIs(s, key, f)
            /\ \A i \in 1..Len(log) : log[i].key = key <=> log[i].of = MessageOf(o)
<1> DEFINE c == o[1]
           s == program[c]
           key == PublishKey(c, placed[o].position)
           f == placed[o].op.for
<1>1. c \in Contexts /\ run[c] \in Runs /\ placed[o].position \in Nat /\ f \in Nat
  BY DEF Ops, IInv, Typed, OpRecords
<1>2. placed[o].op # Nothing /\ placed[o].op.kind = "publish"
  BY DEF Under, Nothing
<1>3. /\ Own(s, o[2], placed[o].op) /\ f <= run[c].called
      /\ placed[o].position = Cardinality(PublishesBy(s, f))
  BY <1>2 DEF IInv, PlacedOK, PlacedIs
<1>4. f \in 1..Len(s) /\ s[f].valid /\ s[f].kind = "publish"
  BY <1>2, <1>3 DEF Own
<1>5. f \in PublishesBy(s, run[c].called)
  <2>1. f \in 1..run[c].called
    BY <1>1, <1>3, <1>4 DEF Runs
  <2> QED
    BY <1>4, <2>1 DEF PublishesBy
<1>6. Session(s, run[c].session)
  BY <1>1, <1>5 DEF IInv, RunsOK, RunIs
<1>7. key = <<c, run[c].session, placed[o].position>> /\ run[c].session \in Nat
  BY <1>1 DEF PublishKey, Runs
<1>8. /\ key \in Contexts \X Nat \X Nat /\ key[1] = c /\ key[2] = run[c].session
      /\ key[3] = placed[o].position
  BY <1>1, <1>7
<1>9. KeyIs(s, key, f)
  BY <1>3, <1>4, <1>6, <1>8 DEF KeyIs
<1>10. f \in 1..MaxOps
  BY <1>1, <1>4, Handlers
<1>11. ASSUME NEW i \in 1..Len(log) PROVE log[i].key = key <=> log[i].of = MessageOf(o)
  <2>1. /\ log[i].key \in Contexts \X Nat \X Nat /\ log[i].of \in Contexts \X (1..MaxOps)
        /\ log[i].key[1] = log[i].of[1] /\ KeyIs(program[log[i].of[1]], log[i].key, log[i].of[2])
    <3>1. log[i] \in Entries
      BY DEF IInv, Typed
    <3> QED
      BY <3>1 DEF Entries, IInv, LogOK
  <2>2. ASSUME log[i].key = key PROVE log[i].of = MessageOf(o)
    <3>1. log[i].of[1] = c /\ KeyIs(s, key, log[i].of[2])
      BY <1>8, <2>1, <2>2
    <3>2. PICK g \in 1..MaxOps : g = log[i].of[2]
      BY <2>1
    <3>3. Cardinality(PublishesBy(s, g)) = Cardinality(PublishesBy(s, f)) /\ s[g].valid /\ s[g].kind = "publish"
      BY <1>3, <1>8, <3>1, <3>2 DEF KeyIs
    <3>4. g \in Nat /\ g > 0 /\ f > 0
      BY <1>10
    <3>5. g = f
      BY <1>1, <1>4, <3>3, <3>4, PositionIsOne
    <3>6. PICK x \in Contexts, y \in 1..MaxOps : log[i].of = <<x, y>>
      BY <2>1
    <3>7. x = c /\ y = f
      <4>1. <<x, y>>[1] = x /\ <<x, y>>[2] = y
        OBVIOUS
      <4>2. x = log[i].of[1] /\ y = log[i].of[2]
        BY <3>6, <4>1
      <4>3. x = c
        BY <3>1, <4>2
      <4>4. y = f
        BY <3>2, <3>5, <4>2
      <4> QED
        BY <4>3, <4>4
    <3> QED
      BY <3>6, <3>7 DEF MessageOf
  <2>3. ASSUME log[i].of = MessageOf(o) PROVE log[i].key = key
    <3>1. log[i].of[1] = c /\ log[i].of[2] = f
      BY <2>3 DEF MessageOf
    <3>2. log[i].key[1] = c /\ KeyIs(s, log[i].key, f)
      BY <2>1, <3>1
    <3>3. Session(s, log[i].key[2]) /\ log[i].key[3] = key[3]
      BY <1>3, <1>8, <3>2 DEF KeyIs
    <3>4. log[i].key[2] = key[2]
      BY <1>6, <1>8, <3>3, SessionIsOne
    <3>5. PICK x \in Contexts, y \in Nat, z \in Nat : log[i].key = <<x, y, z>>
      BY <2>1
    <3>6. x = c /\ y = run[c].session /\ z = placed[o].position
      BY <1>8, <3>2, <3>3, <3>4, <3>5
    <3> QED
      BY <1>7, <3>5, <3>6
  <2> QED
    BY <2>2, <2>3
<1> QED
  BY <1>1, <1>8, <1>9, <1>10, <1>11

LEMMA PublishesStep ==
  ASSUME IInv, NEW o \in Ops, Publishes(o)
  PROVE  /\ IInv' /\ Under(o, {"publish"})
         /\ MessageOf(o) \in Contexts \X (1..MaxOps)
         /\ \/ UNCHANGED log /\ \E i \in 1..Len(log) : log[i].of = MessageOf(o)
            \/ /\ ~ \E i \in 1..Len(log) : log[i].of = MessageOf(o)
               /\ \E key : log' = Append(log, [key |-> key, of |-> MessageOf(o)])
         /\ \A p \in Ops : p # o => check'[p] = check[p]
         /\ check'[o].op = check[o].op /\ check[o].op.kind = "publish" /\ check[o].out # "ok"
         /\ check[o].op.for = placed[o].op.for
<1> DEFINE key == PublishKey(o[1], placed[o].position)
           m == MessageOf(o)
           taken == \E i \in 1..Len(log) : log[i].key = key
<1>1. /\ Under(o, {"publish"}) /\ check[o].st = "started"
      /\ log' = IF taken THEN log ELSE Append(log, [key |-> key, of |-> m])
      /\ \/ Ends(o, "ok") /\ UNCHANGED faults
         \/ Fails(o)
         \/ UNCHANGED <<check, faults>>
      /\ UNCHANGED <<program, run, placed, held>>
  BY DEF Publishes, MessageOf
<1>2. /\ key \in Contexts \X Nat \X Nat /\ placed[o].op.for \in 1..MaxOps /\ o[1] \in Contexts
      /\ key[1] = o[1] /\ KeyIs(program[o[1]], key, placed[o].op.for)
      /\ \A i \in 1..Len(log) : log[i].key = key <=> log[i].of = m
  BY <1>1, KeyIsItsOwn
<1>3. m \in Contexts \X (1..MaxOps) /\ m[1] = o[1] /\ m[2] = placed[o].op.for
  BY <1>2 DEF MessageOf
<1>4. taken <=> \E i \in 1..Len(log) : log[i].of = m
  BY <1>2
<1>5. /\ check[o].op.kind = "publish" /\ "publish" \notin Waits /\ check[o].op = placed[o].op
      /\ check[o].out = "none"
  BY <1>1, UnderOne DEF Waits, IInv, ChecksOK
<1>6. /\ check' \in [Ops -> Checks] /\ \A p \in Ops : p # o => check'[p] = check[p]
      /\ check'[o].op = check[o].op /\ check'[o].st # "none" /\ (check'[o].st # "done" => check'[o].out = "none")
      /\ faults \subseteq faults' /\ faults' \subseteq Ops
  <2>1. "ok" \in Outs /\ "failed" \in Outs
    BY DEF Outs
  <2>2. CASE Ends(o, "ok") /\ UNCHANGED faults
    BY <2>1, <2>2, Ended DEF IInv, Typed
  <2>3. CASE Fails(o)
    <3>1. Ends(o, "failed") /\ faults' = faults \cup {o}
      BY <2>3 DEF Fails
    <3> QED
      BY <2>1, <3>1, Ended DEF IInv, Typed
  <2>4. CASE UNCHANGED <<check, faults>>
    BY <1>1, <1>5, <2>4 DEF IInv, Typed
  <2> QED
    BY <1>1, <2>2, <2>3, <2>4
<1>7. PICK e : e = [key |-> key, of |-> m]
  OBVIOUS
<1>8. e \in Entries /\ e.key = key /\ e.of = m
  BY <1>2, <1>3, <1>7 DEF Entries
<1>9. /\ log' \in Seq(Entries) /\ Len(log) \in Nat
      /\ \A i \in 1..Len(log) : i \in 1..Len(log') /\ log'[i] = log[i]
      /\ \A i \in 1..Len(log') : i \in 1..Len(log) \/ log'[i] = e
      /\ \E i \in 1..Len(log') : log'[i].of = m
  <2>1. log \in Seq(Entries)
    BY DEF IInv, Typed
  <2>2. CASE taken
    BY <1>1, <1>4, <2>1, <2>2
  <2>3. CASE ~taken
    <3>1. log' = Append(log, e)
      BY <1>1, <1>7, <2>3
    <3>2. /\ log' \in Seq(Entries) /\ Len(log) \in Nat /\ Len(log') = Len(log) + 1
          /\ log'[Len(log) + 1] = e /\ \A i \in 1..Len(log) : log'[i] = log[i]
      BY <1>8, <2>1, <3>1
    <3>3. Len(log) + 1 \in 1..Len(log')
      BY <3>2
    <3> QED
      BY <1>8, <3>2, <3>3
  <2> QED
    BY <2>2, <2>3
<1>10. LogOK'
  <2> SUFFICES ASSUME NEW i \in 1..Len(log')
               PROVE  /\ log'[i].key[1] = log'[i].of[1]
                      /\ KeyIs(program[log'[i].of[1]], log'[i].key, log'[i].of[2])
    BY <1>1 DEF LogOK
  <2>1. CASE i \in 1..Len(log)
    BY <1>9, <2>1 DEF IInv, LogOK
  <2>2. CASE log'[i] = e
    BY <1>2, <1>3, <1>8, <2>2
  <2> QED
    BY <1>9, <2>1, <2>2
<1>11. DoneOK'
  <2> SUFFICES ASSUME NEW p \in Ops, check'[p].op.kind = "publish", check'[p].out = "ok"
               PROVE  \E i \in 1..Len(log') : log'[i].of = <<p[1], check'[p].op.for>>
    BY DEF DoneOK
  <2>1. CASE p = o
    BY <1>5, <1>6, <1>9, <2>1 DEF MessageOf
  <2>2. CASE p # o
    <3>1. check'[p] = check[p]
      BY <1>6, <2>2
    <3>2. PICK i \in 1..Len(log) : log[i].of = <<p[1], check[p].op.for>>
      BY <3>1 DEF IInv, DoneOK
    <3> QED
      BY <1>9, <3>1, <3>2
  <2> QED
    BY <2>1, <2>2
<1>12. held' \in [Ops -> Ways] /\ check[o].st # "none"
  BY <1>1 DEF IInv, Typed
<1>13. IInv'
  BY <1>1, <1>5, <1>6, <1>9, <1>10, <1>11, <1>12, Moves
<1>14. \/ UNCHANGED log /\ \E i \in 1..Len(log) : log[i].of = m
       \/ /\ ~ \E i \in 1..Len(log) : log[i].of = m
          /\ \E k : log' = Append(log, [key |-> k, of |-> m])
  BY <1>1, <1>4
<1> QED
  BY <1>1, <1>3, <1>5, <1>6, <1>13, <1>14

-----------------------------------------------------------------------------
\* Every step but that of a publish leaves what was published.
LEMMA OtherSteps ==
  ASSUME IInv, Next, \A o \in Ops : ~Publishes(o)
  PROVE  IInv' /\ Silent
<1>1. ASSUME NEW c \in Contexts,
             \/ StepCall(c) \/ MessageWait(c) \/ ApprovalWait(c) \/ CallbackWait(c) \/ PublishCall(c)
             \/ InvalidPublish(c) \/ InvalidMessageWait(c) \/ InvalidApproval(c) \/ InvalidCallback(c)
             \/ Opened(c)
      PROVE  IInv' /\ Silent
  <2>1. CASE StepCall(c) \/ MessageWait(c) \/ ApprovalWait(c) \/ CallbackWait(c)
    <3>1. PICK kind \in Waits \cup {"step"} : Calling(c, {kind}, TRUE) /\ CallOne(c, kind, Called(c, 1), 0)
      BY <2>1 DEF StepCall, MessageWait, ApprovalWait, CallbackWait, Waits
    <3> QED
      BY <3>1, WaitStep
  <2>2. CASE PublishCall(c)
    BY <2>2, PublishStep
  <2>3. CASE InvalidPublish(c) \/ InvalidMessageWait(c) \/ InvalidApproval(c) \/ InvalidCallback(c)
    BY <2>3, ThrowsStep DEF InvalidPublish, InvalidMessageWait, InvalidApproval, InvalidCallback
  <2>4. CASE Opened(c)
    BY <2>4, OpenedStep
  <2> QED
    BY <1>1, <2>1, <2>2, <2>3, <2>4
<1>2. ASSUME NEW o \in Ops,
             \/ RegistersMessage(o) \/ RegistersApproval(o) \/ RegistersSession(o) \/ RegistersCallback(o)
             \/ Refused(o) \/ Completed(o) \/ TimedOut(o) \/ Resumed(o)
             \/ PublishFails(o) \/ StepEnds(o)
      PROVE  IInv' /\ Silent
  <2>1. CASE RegistersMessage(o) \/ RegistersApproval(o) \/ RegistersSession(o)
    <3>1. PICK kind \in Callbacks : Submits(o, kind)
      BY <2>1 DEF RegistersMessage, RegistersApproval, RegistersSession, Callbacks, Waits
    <3> QED
      BY <3>1, SubmitsStep
  <2> QED
    BY <1>2, <2>1, RegistersCallbackStep, RefusedStep, CompletedStep, TimedOutStep, ResumedStep,
       PublishFailsStep, StepEndsStep
<1>3. CASE Crash
  BY <1>3, CrashStep
<1>4. CASE AllDone
  BY <1>4, NothingMoves DEF AllDone
<1> QED
  BY <1>1, <1>2, <1>3, <1>4 DEF Next

LEMMA Invariance == Spec => []IInv
<1>1. ASSUME IInv, [Next]_vars PROVE IInv'
  <2>1. CASE \E o \in Ops : Publishes(o)
    BY <1>1, <2>1, PublishesStep
  <2>2. CASE Next /\ \A o \in Ops : ~Publishes(o)
    BY <1>1, <2>2, OtherSteps
  <2>3. CASE UNCHANGED vars
    BY <1>1, <2>3, NothingMoves
  <2> QED
    BY <1>1, <2>1, <2>2, <2>3
<1> QED
  BY <1>1, InitOK, PTL DEF Spec

-----------------------------------------------------------------------------
\* What is published, as the abstract specification sees it.

LogAbove == [i \in 1..Len(log) |-> log[i].of]

LEMMA PublishedStays == ASSUME IInv, Silent PROVE UNCHANGED Published
<1>1. \A o \in Ops : (check'[o].op.kind = "publish" /\ check'[o].out = "ok") <=>
                       (check[o].op.kind = "publish" /\ check[o].out = "ok")
  BY DEF Silent
<1>2. \A o \in Ops : check[o].op.kind = "publish" /\ check[o].out = "ok" => check'[o] = check[o]
  BY DEF Silent
<1> QED
  BY <1>1, <1>2 DEF Published

LEMMA TakenAbove ==
  ASSUME IInv
  PROVE  Promise!Taken = {log[i].of : i \in 1..Len(log)}
<1>1. log \in Seq(Entries) /\ Len(log) \in Nat
  BY DEF IInv, Typed
<1>2. PICK above : above = LogAbove
  OBVIOUS
<1>3. above \in Seq(Contexts \X (1..MaxOps)) /\ Len(above) = Len(log) /\ \A i \in 1..Len(log) : above[i] = log[i].of
  <2>1. \A i \in 1..Len(log) : log[i].of \in Contexts \X (1..MaxOps)
    <3>1. \A i \in 1..Len(log) : log[i] \in Entries
      BY <1>1
    <3> QED
      BY <3>1 DEF Entries
  <2> QED
    BY <1>1, <1>2, <2>1 DEF LogAbove
<1>4. Promise!Taken = {above[i] : i \in 1..Len(above)}
  BY <1>2 DEF Promise!Taken, LogAbove
<1> QED
  BY <1>3, <1>4

\* A sequence one longer than q that goes on as q and ends with x is Append(q, x).
LEMMA AppendIs ==
  ASSUME NEW S, NEW q \in Seq(S), NEW x \in S, NEW r \in Seq(S), Len(r) = Len(q) + 1,
         \A i \in 1..Len(q) : r[i] = q[i], r[Len(q) + 1] = x
  PROVE  r = Append(q, x)
<1>1. /\ Append(q, x) \in Seq(S) /\ Len(Append(q, x)) = Len(q) + 1
      /\ \A i \in 1..Len(q) : Append(q, x)[i] = q[i]
      /\ Append(q, x)[Len(q) + 1] = x
  BY AppendProperties
<1>2. Len(q) \in Nat /\ \A i \in 1..(Len(q)+1) : i = Len(q)+1 \/ i \in 1..Len(q)
  OBVIOUS
<1>3. \A i \in 1..(Len(q)+1) : r[i] = Append(q, x)[i]
  BY <1>1, <1>2
<1> QED
  BY <1>1, <1>3, SeqEqual

\* A publish that reaches Volcano takes its message, or it was taken and the
\* publish is answered, or tried again.
LEMMA PublishesAbove ==
  ASSUME IInv, NEW o \in Ops, Publishes(o)
  PROVE  [Promise!Next]_<<LogAbove, Published>>
<1>1. /\ Under(o, {"publish"})
      /\ MessageOf(o) \in Contexts \X (1..MaxOps)
      /\ \/ UNCHANGED log /\ \E i \in 1..Len(log) : log[i].of = MessageOf(o)
         \/ /\ ~ \E i \in 1..Len(log) : log[i].of = MessageOf(o)
            /\ \E key : log' = Append(log, [key |-> key, of |-> MessageOf(o)])
      /\ \A p \in Ops : p # o => check'[p] = check[p]
      /\ check'[o].op = check[o].op /\ check[o].op.kind = "publish" /\ check[o].out # "ok"
      /\ check[o].op.for = placed[o].op.for
  BY PublishesStep
<1>2. PICK m \in Contexts \X (1..MaxOps) : m = MessageOf(o)
  BY <1>1
<1>3. m = <<o[1], check[o].op.for>>
  BY <1>1, <1>2 DEF MessageOf
<1>4. Published' = IF check'[o].out = "ok" THEN Published \cup {m} ELSE Published
  <2>1. \A p \in Ops : check'[p].op.kind = "publish" /\ check'[p].out = "ok" <=>
          (p = o /\ check'[o].out = "ok") \/ (p # o /\ check[p].op.kind = "publish" /\ check[p].out = "ok")
    BY <1>1
  <2>2. ASSUME NEW x PROVE x \in Published' <=> x \in Published \/ (check'[o].out = "ok" /\ x = m)
    <3>1. x \in Published' <=>
            \E p \in Ops : check'[p].op.kind = "publish" /\ check'[p].out = "ok" /\ x = <<p[1], check'[p].op.for>>
      BY DEF Published
    <3>2. x \in Published <=>
            \E p \in Ops : check[p].op.kind = "publish" /\ check[p].out = "ok" /\ x = <<p[1], check[p].op.for>>
      BY DEF Published
    <3> QED
      BY <1>1, <1>3, <2>1, <3>1, <3>2
  <2> QED
    BY <2>2
<1>5. m \in Promise!Taken <=> \E i \in 1..Len(log) : log[i].of = m
  BY TakenAbove
<1>6. CASE UNCHANGED log /\ \E i \in 1..Len(log) : log[i].of = m
  <2>1. m \in Promise!Taken
    BY <1>5, <1>6
  <2>2. UNCHANGED LogAbove
    BY <1>6 DEF LogAbove
  <2>3. CASE check'[o].out = "ok"
    <3>1. Promise!Answer(m)
      BY <1>4, <2>1, <2>2, <2>3 DEF Promise!Answer, LogAbove
    <3> QED
      BY <3>1 DEF Promise!Next
  <2>4. CASE check'[o].out # "ok"
    BY <1>4, <2>2, <2>4
  <2> QED
    BY <2>3, <2>4
<1>7. CASE /\ ~ \E i \in 1..Len(log) : log[i].of = m
           /\ \E key : log' = Append(log, [key |-> key, of |-> m])
  <2>1. m \notin Promise!Taken
    BY <1>5, <1>7
  <2>2. PICK key : log' = Append(log, [key |-> key, of |-> m])
    BY <1>7
  <2>3. PICK e : e = [key |-> key, of |-> m]
    OBVIOUS
  <2>4. log \in Seq(Entries) /\ Len(log) \in Nat
    BY DEF IInv, Typed
  <2>5. LogAbove \in Seq(Contexts \X (1..MaxOps)) /\ Len(LogAbove) = Len(log)
    <3>1. \A i \in 1..Len(log) : log[i].of \in Contexts \X (1..MaxOps)
      <4>1. \A i \in 1..Len(log) : log[i] \in Entries
        BY <2>4
      <4> QED
        BY <4>1 DEF Entries
    <3> QED
      BY <2>4, <3>1 DEF LogAbove
  <2>6. /\ Len(log') = Len(log) + 1 /\ log'[Len(log) + 1] = e /\ e.of = m
        /\ \A i \in 1..Len(log) : log'[i] = log[i]
    <3>1. log \in Seq(Entries \cup {e}) /\ log' = Append(log, e) /\ e \in Entries \cup {e}
      BY <2>2, <2>3, <2>4
    <3> QED
      BY <2>3, <2>4, <3>1
  <2>7. LogAbove' = Append(LogAbove, m)
    <3>1. PICK n \in Nat : n = Len(log)
      BY <2>4
    <3>2. PICK above \in Seq(Contexts \X (1..MaxOps)) : above = LogAbove
      BY <2>5
    <3>3. PICK S : S = (Contexts \X (1..MaxOps)) \cup {m}
      OBVIOUS
    <3>4. Len(above) = n /\ above \in Seq(S) /\ m \in S /\ \A i \in 1..n : above[i] \in S
      BY <2>5, <3>1, <3>2, <3>3
    <3>5. \A i \in 1..n : above[i] = log[i].of
      BY <3>1, <3>2 DEF LogAbove
    <3>6. /\ \A i \in 1..n : log'[i].of = above[i]
          /\ log'[n + 1].of = m
      BY <2>3, <2>6, <3>1, <3>5
    <3>7. LogAbove' = [i \in 1..(n + 1) |-> log'[i].of]
      BY <2>6, <3>1 DEF LogAbove
    <3>8. PICK r : r = [i \in 1..(n + 1) |-> log'[i].of]
      OBVIOUS
    <3>9. (\A i \in 1..n : r[i] = above[i]) /\ r[n + 1] = m /\ \A i \in 1..(n + 1) : r[i] \in S
      <4>1. \A i \in 1..(n + 1) : i \in 1..n \/ i = n + 1
        BY <3>1
      <4>2. (\A i \in 1..n : r[i] = above[i]) /\ r[n + 1] = m
        BY <3>1, <3>6, <3>8
      <4> QED
        BY <3>4, <4>1, <4>2
    <3>10. r \in Seq(S) /\ Len(r) = n + 1
      BY <3>1, <3>8, <3>9
    <3>11. r = Append(above, m)
      BY <3>1, <3>4, <3>9, <3>10, AppendIs
    <3> QED
      BY <3>2, <3>7, <3>8, <3>11
  <2>8. Published' \in {Published, Published \cup {m}}
    BY <1>4
  <2>9. Promise!Take(m)
    BY <2>1, <2>7, <2>8 DEF Promise!Take, LogAbove
  <2> QED
    BY <2>9 DEF Promise!Next
<1> QED
  BY <1>1, <1>2, <1>6, <1>7

-----------------------------------------------------------------------------
\* In every run of the handler, after any number of crashes, each operation
\* takes the number it had before: no checkpoint is read by another operation.
THEOREM KeepsPlaces == Spec => []SamePlace
<1>1. IInv => SamePlace
  BY SamePlaces DEF SamePlace
<1> QED
  BY <1>1, Invariance, PTL

\* Unless its request failed, a wait answers what its callback was completed
\* with, whatever was lost, repeated or replayed.
THEOREM AnswersAsCompleted == Spec => []WaitOutcome
<1>1. IInv => WaitOutcome
  BY DEF IInv, WaitsOK, WaitOutcome
<1> QED
  BY <1>1, Invariance, PTL

\* Publishing implements Outbox: a message is taken once, and a publish is
\* answered with success when its own message was taken.
THEOREM ImplementsOutbox == Spec => KeepsPromise
<1>1. Init => Promise!Init
  <2> SUFFICES ASSUME Init PROVE Promise!Init
    OBVIOUS
  <2>1. log = <<>> /\ \A o \in Ops : check[o] = NoCheck
    BY DEF Init
  <2>2. LogAbove = <<>>
    BY <2>1 DEF LogAbove
  <2>3. Published = {}
    BY <2>1 DEF Published, NoCheck
  <2> QED
    BY <2>2, <2>3 DEF Promise!Init, LogAbove
<1>2. ASSUME IInv, [Next]_vars PROVE [Promise!Next]_<<LogAbove, Published>>
  <2>1. CASE \E o \in Ops : Publishes(o)
    BY <1>2, <2>1, PublishesAbove
  <2>2. ASSUME Silent PROVE [Promise!Next]_<<LogAbove, Published>>
    <3>1. UNCHANGED LogAbove
      BY <2>2 DEF Silent, LogAbove
    <3> QED
      BY <1>2, <2>2, <3>1, PublishedStays
  <2>3. CASE Next /\ \A o \in Ops : ~Publishes(o)
    BY <1>2, <2>2, <2>3, OtherSteps
  <2>4. CASE UNCHANGED vars
    BY <1>2, <2>2, <2>4, NothingMoves
  <2> QED
    BY <1>2, <2>1, <2>3, <2>4
<1>3. IInv /\ [Next]_vars => [Promise!Next]_<<[i \in 1..Len(log) |-> log[i].of], Published>>
  BY <1>2 DEF LogAbove
<1> QED
  BY <1>1, <1>3, Invariance, PTL DEF Spec, KeepsPromise, Promise!Spec

-----------------------------------------------------------------------------
\* The invariant of the callbacks, by the state it is about.

People == Users \cup {Listening!Nobody}
Asking == {"getUser", "profile", "refresh", "signOut"}
CallRecords ==
  [op : Asking \cup {"none", "signIn", "signUp"}, gen : Nat, owner : People, adopted : BOOLEAN]

ListenersTyped ==
  /\ born \in {"empty", "stored", "adopted"} /\ holder \in People /\ current \in People
  /\ generation \in Nat /\ announced \in Nat
  /\ unannounced \in BOOLEAN /\ quiet \in BOOLEAN /\ found \in BOOLEAN
  /\ hash \in People /\ callbacks \in Seq(Listeners)
  /\ notice \in [user : People, left : Seq(Listeners)]
  /\ told \in [Listeners -> People]
  /\ calls \in [Listening!Places -> CallRecords]

\* A call of the session there is has its owner's tokens; the one that adopted a
\* session out of the address is the only one that may still announce it.
CallIs(call) ==
  /\ call.gen <= generation
  /\ call.op \in Asking /\ call.gen = generation => call.owner = holder
  /\ call.adopted => call.op = "getUser" /\ hash = Listening!Nobody /\ born = "empty"
  /\ call.adopted /\ call.gen = generation => announced = 0

CallsAre ==
  /\ \A c \in Listening!Places : CallIs(calls[c])
  /\ \A c, d \in Listening!Places : calls[c].adopted /\ calls[d].adopted => c = d

\* How the client began decides who may announce its session, and when.
BornAs ==
  /\ hash # Listening!Nobody => born = "empty"
  /\ born = "adopted" => generation >= 1 /\ (generation = 1 => ~quiet)
  /\ unannounced => born = "adopted" /\ generation = 1 /\ announced = 0 /\ ~found
  /\ announced <= 1

\* The user is not known only where nobody has been told.
Known ==
  /\ current \in {Listening!Nobody, holder}
  /\ quiet \/ unannounced \/ current = holder

\* Amid a notification too: a callback has been told, or is still to be told.
Tells ==
  ~quiet /\ ~unannounced =>
    /\ notice.left # <<>> => notice.user = current
    /\ \A i \in DOMAIN callbacks :
         \/ told[callbacks[i]] = current
         \/ \E j \in DOMAIN notice.left : notice.left[j] = callbacks[i]

ListenersInv == ListenersTyped /\ CallsAre /\ BornAs /\ Known /\ Tells

-----------------------------------------------------------------------------
LEMMA ListenersBegin == Listening!ListenersInit => ListenersInv
<1> SUFFICES ASSUME Listening!ListenersInit PROVE ListenersInv
  OBVIOUS
<1> USE DEF Listening!ListenersInit, Listening!NoCall, Listening!Nobody, People
<1>1. CallsAre
  BY DEF CallsAre, CallIs, Asking
<1>2. unannounced <=> born = "adopted"
  OBVIOUS
<1>3. quiet <=> born = "stored"
  OBVIOUS
<1>4. ListenersTyped
  <2>1. unannounced \in BOOLEAN /\ quiet \in BOOLEAN
    OBVIOUS
  <2>2. /\ born \in {"empty", "stored", "adopted"} /\ holder \in People /\ current \in People
        /\ generation \in Nat /\ announced \in Nat /\ found \in BOOLEAN /\ hash \in People
    OBVIOUS
  <2>3. callbacks \in Seq(Listeners) /\ notice \in [user : People, left : Seq(Listeners)]
    OBVIOUS
  <2>4. told \in [Listeners -> People] /\ calls \in [Listening!Places -> CallRecords]
    BY DEF CallRecords
  <2> QED
    BY <2>1, <2>2, <2>3, <2>4 DEF ListenersTyped
<1>5. BornAs
  BY <1>2, <1>3 DEF BornAs
<1>6. Known
  BY <1>2, <1>3 DEF Known
<1>7. Tells
  BY DEF Tells
<1> QED
  BY <1>1, <1>4, <1>5, <1>6, <1>7 DEF ListenersInv

\* A call that is over.
LEMMA CallLeaves ==
  ASSUME ListenersInv, NEW c \in Listening!Places,
         calls' = [calls EXCEPT ![c] = Listening!NoCall]
  PROVE  /\ calls' \in [Listening!Places -> CallRecords]
         /\ \A d \in Listening!Places : d # c => calls'[d] = calls[d]
         /\ calls'[c] = Listening!NoCall
<1>1. Listening!NoCall \in CallRecords
  BY DEF Listening!NoCall, CallRecords, People, Listening!Nobody
<1> QED
  BY <1>1 DEF ListenersInv, ListenersTyped

\* The callbacks are told of user.
LEMMA NotifiesTells ==
  ASSUME ListenersInv, NEW user \in People, Listening!Notifies(user), notice.left = <<>>,
         current' = user
  PROVE  /\ notice' \in [user : People, left : Seq(Listeners)]
         /\ told' \in [Listeners -> People]
         /\ callbacks' = callbacks /\ quiet' = FALSE
         /\ Tells'
<1> USE DEF ListenersInv, ListenersTyped
<1>1. CASE callbacks = <<>>
  BY <1>1 DEF Listening!Notifies, Tells
<1>2. CASE callbacks # <<>>
  <2>1. Head(callbacks) \in Listeners /\ Tail(callbacks) \in Seq(Listeners)
    BY <1>2, HeadTailProperties
  <2>2. /\ told' = [told EXCEPT ![Head(callbacks)] = user]
        /\ notice' = [user |-> user, left |-> Tail(callbacks)]
        /\ callbacks' = callbacks /\ quiet' = FALSE
    BY <1>2 DEF Listening!Notifies
  <2>3. ASSUME NEW i \in DOMAIN callbacks
        PROVE  \/ told'[callbacks[i]] = user
               \/ \E j \in DOMAIN Tail(callbacks) : Tail(callbacks)[j] = callbacks[i]
    <3>1. CASE i = 1
      BY <3>1, <2>1, <2>2
    <3>2. CASE i # 1
      <4>1. i - 1 \in 1..Len(Tail(callbacks)) /\ Tail(callbacks)[i - 1] = callbacks[i]
        BY <3>2, <1>2
      <4> QED
        BY <4>1, <2>1
    <3> QED
      BY <3>1, <3>2
  <2> QED
    BY <2>1, <2>2, <2>3 DEF Tells
<1> QED
  BY <1>1, <1>2

\* The calls of a session are still what they were when some are over, and when a new
\* session begins.
LEMMA CallsStay ==
  ASSUME ListenersInv,
         \A d \in Listening!Places : calls'[d] = calls[d] \/ calls'[d] = Listening!NoCall,
         UNCHANGED <<born, hash>>,
         \/ UNCHANGED <<generation, holder, announced>>
         \/ generation' = generation + 1 /\ announced' = 0
  PROVE  CallsAre'
<1> USE DEF ListenersInv, ListenersTyped
<1>1. ASSUME NEW d \in Listening!Places
      PROVE  CallIs(calls[d])'
  <2>1. CallIs(calls[d]) /\ calls[d] \in CallRecords
    BY DEF CallsAre
  <2>2. CASE calls'[d] = calls[d]
    <3> DEFINE call == calls[d]
    <3>1. call.gen <= generation /\ call.gen \in Nat
      BY <2>1 DEF CallIs, CallRecords
    <3>2. CASE generation' = generation + 1 /\ announced' = 0
      <4>1. call.gen # generation' /\ call.gen <= generation'
        BY <3>1, <3>2
      <4> QED
        BY <2>1, <2>2, <3>2, <4>1 DEF CallIs
    <3>3. CASE UNCHANGED <<generation, holder, announced>>
      BY <2>1, <2>2, <3>3 DEF CallIs
    <3> QED
      BY <3>2, <3>3
  <2>3. CASE calls'[d] = Listening!NoCall
    BY <2>3 DEF CallIs, Listening!NoCall, Asking
  <2> QED
    BY <2>2, <2>3
<1>2. ASSUME NEW c \in Listening!Places, NEW d \in Listening!Places,
             calls'[c].adopted, calls'[d].adopted
      PROVE  c = d
  <2>1. calls'[c] = calls[c] /\ calls'[d] = calls[d]
    BY <1>2 DEF Listening!NoCall
  <2> QED
    BY <1>2, <2>1 DEF CallsAre
<1> QED
  BY <1>1, <1>2 DEF CallsAre

LEMMA TellsNextKeeps == ASSUME ListenersInv, Listening!TellsNext PROVE ListenersInv'
<1> USE DEF ListenersInv, ListenersTyped, Listening!TellsNext, Listening!ofClient
<1>1. Head(notice.left) \in Listeners /\ Tail(notice.left) \in Seq(Listeners)
  BY HeadTailProperties
<1>2. ListenersTyped'
  BY <1>1 DEF ListenersTyped
<1>3. CallsAre'
  BY CallsStay
<1>4. BornAs' /\ Known'
  BY DEF BornAs, Known
<1>5. Tells'
  <2> SUFFICES ASSUME ~quiet, ~unannounced
               PROVE  Tells'
    BY DEF Tells
  <2>1. notice.user = current
    BY DEF Tells
  <2>2. notice'.user = current' /\ notice'.left = Tail(notice.left)
    BY <2>1
  <2>3. ASSUME NEW i \in DOMAIN callbacks
        PROVE  \/ told'[callbacks[i]] = current
               \/ \E j \in DOMAIN Tail(notice.left) : Tail(notice.left)[j] = callbacks[i]
    <3>1. callbacks[i] \in Listeners
      OBVIOUS
    <3>2. CASE told[callbacks[i]] = current
      BY <3>1, <3>2, <2>1, <1>1
    <3>3. ASSUME NEW j \in DOMAIN notice.left, notice.left[j] = callbacks[i]
          PROVE  \/ told'[callbacks[i]] = current
                 \/ \E k \in DOMAIN Tail(notice.left) : Tail(notice.left)[k] = callbacks[i]
      <4>1. CASE j = 1
        BY <3>1, <3>3, <4>1, <2>1, <1>1
      <4>2. CASE j # 1
        <5>1. /\ j - 1 \in 1..Len(Tail(notice.left))
              /\ Tail(notice.left)[j - 1] = notice.left[j]
          BY <4>2
        <5> QED
          BY <5>1, <3>3, <1>1
      <4> QED
        BY <4>1, <4>2
    <3> QED
      BY <3>2, <3>3 DEF Tells
  <2> QED
    BY <2>2, <2>3 DEF Tells
<1> QED
  BY <1>2, <1>3, <1>4, <1>5 DEF ListenersInv

LEMMA SubscribeKeeps ==
  ASSUME ListenersInv, NEW l \in Listeners, Listening!Subscribe(l)
  PROVE  ListenersInv'
<1> USE DEF ListenersInv, ListenersTyped, Listening!Subscribe, Listening!ofClient
<1>1. /\ callbacks' \in Seq(Listeners) /\ Len(callbacks') = Len(callbacks) + 1
      /\ \A i \in 1..Len(callbacks) : callbacks'[i] = callbacks[i]
      /\ callbacks'[Len(callbacks) + 1] = l
  BY AppendProperties
<1>2. ListenersTyped'
  BY <1>1 DEF ListenersTyped
<1>3. CallsAre'
  BY CallsStay
<1>4. BornAs' /\ Known'
  BY DEF BornAs, Known
<1>5. Tells'
  <2>1. ASSUME ~quiet, ~unannounced, NEW i \in DOMAIN callbacks'
        PROVE  \/ told'[callbacks'[i]] = current
               \/ \E j \in DOMAIN notice.left : notice.left[j] = callbacks'[i]
    <3>1. CASE i = Len(callbacks) + 1
      BY <1>1, <3>1
    <3>2. CASE i # Len(callbacks) + 1
      <4>1. i \in DOMAIN callbacks /\ callbacks'[i] = callbacks[i] /\ callbacks[i] \in Listeners
        BY <1>1, <3>2
      <4> QED
        BY <2>1, <4>1 DEF Tells
    <3> QED
      BY <3>1, <3>2
  <2> QED
    BY <2>1 DEF Tells
<1> QED
  BY <1>2, <1>3, <1>4, <1>5 DEF ListenersInv

\* What is left of a sequence is of it.
LEMMA RemovedAt ==
  ASSUME NEW S, NEW s \in Seq(S), NEW i \in 1..Len(s)
  PROVE  /\ Listening!RemoveAt(s, i) \in Seq(S)
         /\ \A k \in DOMAIN Listening!RemoveAt(s, i) :
              \E j \in DOMAIN s : Listening!RemoveAt(s, i)[k] = s[j]
<1> DEFINE before == SubSeq(s, 1, i - 1)
           after == SubSeq(s, i + 1, Len(s))
<1>1. before \in Seq(S) /\ Len(before) = i - 1 /\ \A k \in 1..(i - 1) : before[k] = s[k]
  BY SubSeqProperties
<1>2. /\ after \in Seq(S) /\ Len(after) = Len(s) - i
      /\ \A k \in 1..(Len(s) - i) : after[k] = s[i + k]
  BY SubSeqProperties
<1>3. Listening!RemoveAt(s, i) = before \o after
  BY DEF Listening!RemoveAt
<1> HIDE DEF before, after
<1>4. Len(s) \in Nat /\ (i - 1) + (Len(s) - i) = Len(s) - 1
  BY LenProperties
<1>5. /\ before \o after \in Seq(S) /\ Len(before \o after) = Len(s) - 1
      /\ \A k \in 1..(Len(s) - 1) :
           (before \o after)[k] = IF k <= i - 1 THEN before[k] ELSE after[k - (i - 1)]
  <2>1. /\ before \o after \in Seq(S) /\ Len(before \o after) = Len(before) + Len(after)
        /\ \A k \in 1..(Len(before) + Len(after)) :
             (before \o after)[k] = IF k <= Len(before) THEN before[k] ELSE after[k - Len(before)]
    BY <1>1, <1>2, ConcatProperties
  <2> QED
    BY <2>1, <1>1, <1>2, <1>4
<1>6. ASSUME NEW k \in 1..(Len(s) - 1)
      PROVE  \E j \in 1..Len(s) : (before \o after)[k] = s[j]
  <2>1. CASE k <= i - 1
    BY <1>1, <1>4, <1>5, <2>1
  <2>2. CASE ~(k <= i - 1)
    <3>1. k - (i - 1) \in 1..(Len(s) - i) /\ i + (k - (i - 1)) = k + 1
      BY <1>4, <2>2
    <3>2. (before \o after)[k] = after[k - (i - 1)]
      BY <1>5, <2>2
    <3>3. after[k - (i - 1)] = s[k + 1]
      BY <1>2, <3>1
    <3> QED
      BY <1>4, <3>2, <3>3
  <2> QED
    BY <2>1, <2>2
<1>7. DOMAIN (before \o after) = 1..(Len(s) - 1) /\ DOMAIN s = 1..Len(s)
  BY <1>5, LenProperties
<1> QED
  BY <1>3, <1>5, <1>6, <1>7

LEMMA UnsubscribeKeeps ==
  ASSUME ListenersInv, NEW l \in Listeners, Listening!Unsubscribe(l)
  PROVE  ListenersInv'
<1> USE DEF ListenersInv, ListenersTyped, Listening!Unsubscribe, Listening!ofClient
<1>1. PICK i \in DOMAIN callbacks : callbacks' = Listening!RemoveAt(callbacks, i)
  OBVIOUS
<1>2. /\ callbacks' \in Seq(Listeners)
      /\ \A k \in DOMAIN callbacks' : \E j \in DOMAIN callbacks : callbacks'[k] = callbacks[j]
  BY <1>1, RemovedAt
<1>3. ListenersTyped'
  BY <1>2 DEF ListenersTyped
<1>4. CallsAre'
  BY CallsStay
<1>5. BornAs' /\ Known'
  BY DEF BornAs, Known
<1>6. Tells'
  BY <1>2 DEF Tells
<1> QED
  BY <1>3, <1>4, <1>5, <1>6 DEF ListenersInv

LEMMA SetInMemoryKeeps ==
  ASSUME ListenersInv, NEW u \in Users, Listening!SetInMemory(u)
  PROVE  ListenersInv'
<1>1. /\ holder' = u /\ current' = u /\ generation' = generation + 1
      /\ unannounced' = FALSE /\ found' = FALSE /\ announced' = 0 /\ quiet' = TRUE
      /\ UNCHANGED <<callbacks, notice, told, born, hash, calls>>
  BY DEF Listening!SetInMemory, Listening!NewSession, Listening!Quietly
<1>2. u \in People
  BY DEF People
<1>3. unannounced' \in BOOLEAN /\ found' \in BOOLEAN /\ quiet' \in BOOLEAN
  BY <1>1
<1>4. ListenersTyped'
  BY <1>1, <1>2, <1>3 DEF ListenersInv, ListenersTyped
<1>5. CallsAre'
  BY <1>1, CallsStay
<1>6. BornAs' /\ Known' /\ Tells'
  BY <1>1 DEF ListenersInv, ListenersTyped, BornAs, Known, Tells
<1> QED
  BY <1>4, <1>5, <1>6 DEF ListenersInv

\* A call is over, and nothing else happens.
Unchanged ==
  UNCHANGED <<born, holder, current, generation, unannounced, hash, callbacks, notice, told,
              quiet, found, announced>>

LEMMA OnlyLeaves ==
  ASSUME ListenersInv, NEW c \in Listening!Places, Unchanged,
         calls' = [calls EXCEPT ![c] = Listening!NoCall]
  PROVE  ListenersInv'
<1>1. /\ calls' \in [Listening!Places -> CallRecords]
      /\ \A d \in Listening!Places : d # c => calls'[d] = calls[d]
      /\ calls'[c] = Listening!NoCall
  BY CallLeaves
<1>2. ListenersTyped'
  BY <1>1 DEF ListenersInv, ListenersTyped, Unchanged
<1>3. CallsAre'
  BY <1>1, CallsStay DEF Unchanged
<1>4. BornAs' /\ Known' /\ Tells'
  BY DEF ListenersInv, BornAs, Known, Tells, Unchanged
<1> QED
  BY <1>2, <1>3, <1>4 DEF ListenersInv

LEMMA FailsKeeps ==
  ASSUME ListenersInv, NEW c \in Listening!Places, Listening!Fails(c)
  PROVE  ListenersInv'
<1>1. Unchanged /\ calls' = [calls EXCEPT ![c] = Listening!NoCall]
  BY DEF Listening!Fails, Listening!ofClient, Listening!Quietly, Unchanged
<1> QED
  BY <1>1, OnlyLeaves

LEMMA UserAnsweredKeeps ==
  ASSUME ListenersInv, NEW c \in Listening!Places, Listening!UserAnswered(c)
  PROVE  ListenersInv'
<1> USE DEF ListenersInv, ListenersTyped
<1>1. /\ notice.left = <<>> /\ calls[c].op = "getUser"
      /\ calls' = [calls EXCEPT ![c] = Listening!NoCall]
      /\ UNCHANGED <<born, holder, generation, hash>>
  BY DEF Listening!UserAnswered
<1>2. /\ calls' \in [Listening!Places -> CallRecords]
      /\ \A d \in Listening!Places : d # c => calls'[d] = calls[d]
      /\ calls'[c] = Listening!NoCall
  BY <1>1, CallLeaves
<1>3. CASE ~Listening!IsUser(calls[c])
  <2>1. UNCHANGED <<current, unannounced, quiet, found, announced, callbacks, notice, told>>
    BY <1>3 DEF Listening!UserAnswered, Listening!Quietly
  <2>2. CallsAre'
    BY <1>1, <1>2, <2>1, CallsStay
  <2> QED
    BY <1>1, <1>2, <2>1, <2>2 DEF ListenersInv, ListenersTyped, BornAs, Known, Tells
<1>4. CASE Listening!IsUser(calls[c])
  <2>1. /\ current' = calls[c].owner /\ found' = TRUE
        /\ IF Listening!Announces(calls[c])
           THEN /\ unannounced' = FALSE /\ announced' = announced + 1
                /\ Listening!Notifies(calls[c].owner)
           ELSE Listening!Quietly /\ UNCHANGED <<unannounced, quiet, announced>>
    BY <1>4 DEF Listening!UserAnswered
  <2>2. calls[c] \in CallRecords /\ CallIs(calls[c])
    BY DEF CallsAre
  <2>3. calls[c].owner = holder /\ calls[c].gen = generation
    BY <1>1, <1>4, <2>2 DEF CallIs, Asking, Listening!IsUser, Listening!IsCurrent
  <2>4. CASE Listening!Announces(calls[c])
    <3>1. /\ notice' \in [user : People, left : Seq(Listeners)]
          /\ told' \in [Listeners -> People]
          /\ callbacks' = callbacks /\ quiet' = FALSE
          /\ Tells'
      BY <1>1, <2>1, <2>3, <2>4, NotifiesTells
    <3>2. announced = 0
      BY <2>2, <2>3, <2>4 DEF Listening!Announces, CallIs, BornAs
    <3>3. announced' = 1 /\ unannounced' = FALSE
      BY <2>1, <2>4, <3>2
    <3>4. \A d \in Listening!Places : ~calls'[d].adopted
      <4>1. ASSUME NEW d \in Listening!Places, d # c, calls[d].adopted
            PROVE  FALSE
        <5>1. CallIs(calls[d])
          BY DEF CallsAre
        <5>2. born = "empty"
          BY <4>1, <5>1 DEF CallIs
        <5>3. calls[c].adopted
          BY <2>4, <5>2 DEF Listening!Announces, BornAs
        <5> QED
          BY <4>1, <5>3 DEF CallsAre
      <4> QED
        BY <1>2, <4>1 DEF Listening!NoCall
    <3>5. CallsAre'
      <4>1. ASSUME NEW d \in Listening!Places
            PROVE  CallIs(calls[d])'
        <5>1. CASE d = c
          BY <1>1, <1>2, <5>1 DEF CallIs, Listening!NoCall, Asking
        <5>2. CASE d # c
          <6>1. calls'[d] = calls[d] /\ CallIs(calls[d])
            BY <1>2, <5>2 DEF CallsAre
          <6>3. /\ calls[d].gen <= generation
                /\ calls[d].op \in Asking /\ calls[d].gen = generation => calls[d].owner = holder
            BY <6>1 DEF CallIs
          <6>4. UNCHANGED <<generation, holder>>
            BY <1>1
          <6>5. ~calls'[d].adopted
            BY <3>4
          <6> HIDE DEF ListenersInv, ListenersTyped
          <6> QED
            BY <6>1, <6>3, <6>4, <6>5 DEF CallIs
        <5> QED
          BY <5>1, <5>2
      <4> QED
        BY <3>4, <4>1 DEF CallsAre
    <3>6. ListenersTyped'
      BY <1>1, <1>2, <2>1, <2>3, <3>1, <3>3 DEF ListenersTyped
    <3>7. BornAs' /\ Known'
      BY <1>1, <2>1, <2>3, <3>1, <3>3 DEF BornAs, Known
    <3> QED
      BY <3>1, <3>5, <3>6, <3>7 DEF ListenersInv
  <2>5. CASE ~Listening!Announces(calls[c])
    <3>1. UNCHANGED <<unannounced, quiet, announced, callbacks, notice, told>>
      BY <2>1, <2>5 DEF Listening!Quietly
    <3>2. ~unannounced
      BY <2>5 DEF Listening!Announces
    <3>3. ListenersTyped'
      BY <1>1, <1>2, <2>1, <2>3, <3>1 DEF ListenersTyped
    <3>4. CallsAre'
      BY <1>1, <1>2, <3>1, CallsStay
    <3>5. BornAs' /\ Known'
      BY <1>1, <2>1, <2>3, <3>1, <3>2 DEF BornAs, Known
    <3>6. Tells'
      BY <2>1, <2>3, <3>1, <3>2 DEF Tells, Known
    <3> QED
      BY <3>3, <3>4, <3>5, <3>6 DEF ListenersInv
  <2> QED
    BY <2>4, <2>5
<1> QED
  BY <1>3, <1>4

LEMMA TakesKeeps ==
  ASSUME ListenersInv, NEW c \in Listening!Places, NEW own \in BOOLEAN,
         own => Listening!IsCurrent(calls[c]), Listening!Takes(c, own)
  PROVE  ListenersInv'
<1> USE DEF ListenersInv, ListenersTyped, Listening!Takes, Listening!Quietly
<1>1. CallIs(calls[c]) /\ calls[c] \in CallRecords
  BY DEF CallsAre
<1>2. own => calls[c].owner = holder
  BY <1>1 DEF CallIs, Asking, Listening!IsCurrent
<1>7. /\ current' = IF own THEN holder ELSE current
      /\ current' \in {current, holder}
  BY <1>2
<1>3. ListenersTyped'
  BY <1>7, CallLeaves DEF ListenersTyped
<1>4. CallsAre'
  BY CallLeaves, CallsStay
<1>5. BornAs' /\ Known'
  BY <1>7 DEF BornAs, Known
<1>6. Tells'
  BY <1>7 DEF Tells, Known
<1> QED
  BY <1>3, <1>4, <1>5, <1>6 DEF ListenersInv

LEMMA ProfileAnsweredKeeps ==
  ASSUME ListenersInv, NEW c \in Listening!Places,
         Listening!UserUpdated(c) \/ Listening!ProfileAnswered(c)
  PROVE  ListenersInv'
BY TakesKeeps DEF Listening!UserUpdated, Listening!ProfileAnswered, Listening!IsUser, Listening!IsCurrent

\* A session begins, or ends, and the callbacks are told.
LEMMA SessionBegins ==
  ASSUME ListenersInv, NEW c \in Listening!Places, NEW user \in People,
         calls' = [calls EXCEPT ![c] = Listening!NoCall], notice.left = <<>>,
         UNCHANGED <<born, hash>>, Listening!NewSession(user), Listening!Notifies(user)
  PROVE  ListenersInv'
<1>1. /\ holder' = user /\ current' = user /\ generation' = generation + 1
      /\ unannounced' = FALSE /\ found' = FALSE /\ announced' = 0
  BY DEF Listening!NewSession
<1>2. unannounced' \in BOOLEAN /\ found' \in BOOLEAN
  BY <1>1
<1>3. /\ notice' \in [user : People, left : Seq(Listeners)]
      /\ told' \in [Listeners -> People]
      /\ callbacks' = callbacks /\ quiet' = FALSE
      /\ Tells'
  BY <1>1, NotifiesTells
<1>4. quiet' \in BOOLEAN
  BY <1>3
<1>5. /\ calls' \in [Listening!Places -> CallRecords]
      /\ \A d \in Listening!Places : d # c => calls'[d] = calls[d]
      /\ calls'[c] = Listening!NoCall
  BY CallLeaves
<1>6. ListenersTyped'
  BY <1>1, <1>2, <1>3, <1>4, <1>5 DEF ListenersInv, ListenersTyped
<1>7. CallsAre'
  BY <1>1, <1>5, CallsStay
<1>8. BornAs' /\ Known'
  BY <1>1, <1>3 DEF ListenersInv, ListenersTyped, BornAs, Known
<1> QED
  BY <1>3, <1>6, <1>7, <1>8 DEF ListenersInv

LEMMA SignedInKeeps ==
  ASSUME ListenersInv, NEW c \in Listening!Places, NEW u \in Users, Listening!SignedIn(c, u)
  PROVE  ListenersInv'
<1>1. /\ notice.left = <<>> /\ calls' = [calls EXCEPT ![c] = Listening!NoCall]
      /\ UNCHANGED <<born, hash>>
      /\ IF Listening!IsCurrent(calls[c])
         THEN Listening!NewSession(u) /\ Listening!Notifies(u) ELSE Listening!Stays
  BY DEF Listening!SignedIn
<1>2. CASE Listening!IsCurrent(calls[c])
  BY <1>1, <1>2, SessionBegins DEF People
<1>3. CASE ~Listening!IsCurrent(calls[c])
  <2>1. Unchanged
    BY <1>1, <1>3 DEF Listening!Stays, Listening!Quietly, Unchanged
  <2> QED
    BY <1>1, <2>1, OnlyLeaves
<1> QED
  BY <1>2, <1>3

LEMMA SignedOutKeeps ==
  ASSUME ListenersInv, NEW c \in Listening!Places, Listening!SignedOut(c)
  PROVE  ListenersInv'
<1>1. /\ notice.left = <<>> /\ calls' = [calls EXCEPT ![c] = Listening!NoCall]
      /\ UNCHANGED <<born, hash>>
      /\ IF Listening!IsCurrent(calls[c]) THEN Listening!Clears ELSE Listening!Stays
  BY DEF Listening!SignedOut
<1>2. CASE Listening!IsCurrent(calls[c])
  BY <1>1, <1>2, SessionBegins DEF People, Listening!Clears
<1>3. CASE ~Listening!IsCurrent(calls[c])
  <2>1. Unchanged
    BY <1>1, <1>3 DEF Listening!Stays, Listening!Quietly, Unchanged
  <2> QED
    BY <1>1, <2>1, OnlyLeaves
<1> QED
  BY <1>2, <1>3

LEMMA RefreshAnsweredKeeps ==
  ASSUME ListenersInv, NEW c \in Listening!Places, NEW refused \in BOOLEAN,
         Listening!RefreshAnswered(c, refused)
  PROVE  ListenersInv'
<1>1. /\ notice.left = <<>> /\ calls' = [calls EXCEPT ![c] = Listening!NoCall]
      /\ calls[c].op = "refresh" /\ UNCHANGED <<born, hash>>
  BY DEF Listening!RefreshAnswered
<1>2. CASE ~Listening!IsCurrent(calls[c]) \/ Listening!SigningOut
  <2>1. Unchanged
    BY <1>1, <1>2 DEF Listening!RefreshAnswered, Listening!Stays, Listening!Quietly, Unchanged
  <2> QED
    BY <1>1, <2>1, OnlyLeaves
<1>3. CASE ~(~Listening!IsCurrent(calls[c]) \/ Listening!SigningOut) /\ refused
  <2>1. Listening!Clears
    BY <1>3 DEF Listening!RefreshAnswered
  <2> QED
    BY <1>1, <2>1, SessionBegins DEF People, Listening!Clears
<1>4. CASE ~(~Listening!IsCurrent(calls[c]) \/ Listening!SigningOut) /\ ~refused
  <2>1. /\ current' = calls[c].owner /\ unannounced' = FALSE
        /\ Listening!Notifies(calls[c].owner)
        /\ UNCHANGED <<holder, generation, found, announced>>
    BY <1>4 DEF Listening!RefreshAnswered
  <2>2. CallIs(calls[c]) /\ calls[c].gen = generation
    BY <1>4 DEF ListenersInv, CallsAre, Listening!IsCurrent
  <2>3. calls[c].owner = holder
    BY <1>1, <2>2 DEF CallIs, Asking
  <2>4. holder \in People
    BY DEF ListenersInv, ListenersTyped
  <2>5. /\ notice' \in [user : People, left : Seq(Listeners)]
        /\ told' \in [Listeners -> People]
        /\ callbacks' = callbacks /\ quiet' = FALSE
        /\ Tells'
    BY <1>1, <2>1, <2>3, <2>4, NotifiesTells
  <2>6. quiet' \in BOOLEAN /\ unannounced' \in BOOLEAN
    BY <2>1, <2>5
  <2>7. /\ calls' \in [Listening!Places -> CallRecords]
        /\ \A d \in Listening!Places : d # c => calls'[d] = calls[d]
        /\ calls'[c] = Listening!NoCall
    BY <1>1, CallLeaves
  <2>8. ListenersTyped'
    BY <1>1, <2>1, <2>3, <2>5, <2>6, <2>7 DEF ListenersInv, ListenersTyped
  <2>9. CallsAre'
    BY <1>1, <2>1, <2>7, CallsStay
  <2>10. BornAs' /\ Known'
    BY <1>1, <2>1, <2>3, <2>5 DEF ListenersInv, ListenersTyped, BornAs, Known
  <2> QED
    BY <2>5, <2>8, <2>9, <2>10 DEF ListenersInv
<1> QED
  BY <1>2, <1>3, <1>4

\* A call begins, or goes on as another: it is of the session there is.
LEMMA CallPlaced ==
  ASSUME ListenersInv, NEW c \in Listening!Places, NEW call \in CallRecords,
         calls' = [calls EXCEPT ![c] = call], CallIs(call)', ~call.adopted,
         Unchanged
  PROVE  ListenersInv'
<1>1. /\ calls' \in [Listening!Places -> CallRecords]
      /\ \A d \in Listening!Places : d # c => calls'[d] = calls[d]
      /\ calls'[c] = call
  BY DEF ListenersInv, ListenersTyped
<1>2. ListenersTyped'
  BY <1>1 DEF ListenersInv, ListenersTyped, Unchanged
<1>3. ASSUME NEW d \in Listening!Places
      PROVE  CallIs(calls[d])'
  <2>1. CASE d = c
    BY <1>1, <2>1 DEF CallIs
  <2>2. CASE d # c
    <3>1. CallIs(calls[d])
      BY DEF ListenersInv, CallsAre
    <3> QED
      BY <1>1, <2>2, <3>1 DEF CallIs, Unchanged
  <2> QED
    BY <2>1, <2>2
<1>4. ASSUME NEW d \in Listening!Places, NEW e \in Listening!Places,
             calls'[d].adopted, calls'[e].adopted
      PROVE  d = e
  <2>1. d # c /\ e # c
    BY <1>1, <1>4
  <2>2. calls'[d] = calls[d] /\ calls'[e] = calls[e]
    BY <1>1, <2>1
  <2> QED
    BY <1>4, <2>2 DEF ListenersInv, CallsAre
<1>5. CallsAre'
  BY <1>3, <1>4 DEF CallsAre
<1>6. BornAs' /\ Known' /\ Tells'
  BY DEF ListenersInv, BornAs, Known, Tells, Unchanged
<1> QED
  BY <1>2, <1>5, <1>6 DEF ListenersInv

LEMMA SignedUpKeeps ==
  ASSUME ListenersInv, NEW c \in Listening!Places, NEW signsIn \in BOOLEAN,
         Listening!SignedUp(c, signsIn)
  PROVE  ListenersInv'
<1>1. Unchanged /\ calls[c].op = "signUp"
  BY DEF Listening!SignedUp, Listening!Stays, Listening!Quietly, Unchanged
<1>2. CASE ~signsIn
  <2>1. calls' = [calls EXCEPT ![c] = Listening!NoCall]
    BY <1>2 DEF Listening!SignedUp
  <2> QED
    BY <1>1, <2>1, OnlyLeaves
<1>3. CASE signsIn
  <2>0. PICK call : call = [calls[c] EXCEPT !.op = "signIn", !.gen = generation]
    OBVIOUS
  <2>1. calls' = [calls EXCEPT ![c] = call]
    BY <1>3, <2>0 DEF Listening!SignedUp
  <2>2. calls[c] \in CallRecords /\ CallIs(calls[c]) /\ generation \in Nat
    BY DEF ListenersInv, ListenersTyped, CallsAre
  <2>3. ~calls[c].adopted
    BY <1>1, <2>2 DEF CallIs
  <2>4. call \in CallRecords /\ call.op = "signIn" /\ call.gen = generation
    BY <2>0, <2>2 DEF CallRecords
  <2>5. call.adopted = calls[c].adopted
    BY <2>0, <2>2 DEF CallRecords
  <2>6. ~call.adopted
    BY <2>3, <2>5
  <2>7. CallIs(call)'
    BY <1>1, <2>2, <2>4, <2>6 DEF CallIs, Asking, Unchanged
  <2> QED
    BY <1>1, <2>1, <2>4, <2>6, <2>7, CallPlaced
<1> QED
  BY <1>2, <1>3

LEMMA BeginsKeeps ==
  ASSUME ListenersInv, NEW c \in Listening!Places,
         NEW op \in {"getUser", "profile", "signIn", "signUp", "refresh", "signOut"},
         Listening!Begins(c, op)
  PROVE  ListenersInv'
<1>1. generation \in Nat /\ holder \in People /\ hash \in People
  BY DEF ListenersInv, ListenersTyped
<1>2. CASE ~(op = "getUser" /\ hash # Listening!Nobody)
  <2>0. PICK call : call = [op |-> op, gen |-> generation, owner |-> holder, adopted |-> FALSE]
    OBVIOUS
  <2>1. calls' = [calls EXCEPT ![c] = call]
    BY <1>2, <2>0 DEF Listening!Begins
  <2>2. Unchanged
    BY <1>2 DEF Listening!Begins, Listening!Quietly, Unchanged
  <2>3. call \in CallRecords
    BY <1>1, <2>0 DEF CallRecords, Asking
  <2>4. CallIs(call)' /\ ~call.adopted
    BY <1>1, <2>0, <2>2 DEF CallIs, Unchanged
  <2> QED
    BY <2>1, <2>2, <2>3, <2>4, CallPlaced
<1>3. CASE op = "getUser" /\ hash # Listening!Nobody
  <2>0. PICK call :
          call = [op |-> op, gen |-> generation + 1, owner |-> hash, adopted |-> TRUE]
    OBVIOUS
  <2>1. calls' = [calls EXCEPT ![c] = call]
    BY <1>3, <2>0 DEF Listening!Begins
  <2>2. /\ generation' = generation + 1 /\ holder' = hash /\ hash' = Listening!Nobody
        /\ current' = Listening!Nobody /\ quiet' = TRUE /\ found' = FALSE /\ announced' = 0
        /\ UNCHANGED <<callbacks, notice, told, born, unannounced>>
    BY <1>3 DEF Listening!Begins, Listening!Quietly
  <2>3. quiet' \in BOOLEAN /\ found' \in BOOLEAN /\ Listening!Nobody \in People
    BY <2>2 DEF People
  <2>4. call \in CallRecords
    BY <1>1, <1>3, <2>0 DEF CallRecords, Asking
  <2>5. /\ calls' \in [Listening!Places -> CallRecords]
        /\ \A d \in Listening!Places : d # c => calls'[d] = calls[d]
        /\ calls'[c] = call
    BY <2>1, <2>4 DEF ListenersInv, ListenersTyped
  <2>6. ListenersTyped'
    BY <1>1, <2>2, <2>3, <2>5 DEF ListenersInv, ListenersTyped
  <2>7. born = "empty" /\ ~unannounced
    BY <1>3 DEF ListenersInv, BornAs
  <2>8. ASSUME NEW d \in Listening!Places, d # c
        PROVE  CallIs(calls[d])' /\ ~calls'[d].adopted
    <3>1. calls'[d] = calls[d] /\ CallIs(calls[d]) /\ calls[d].gen \in Nat
      BY <2>5, <2>8 DEF ListenersInv, ListenersTyped, CallsAre, CallRecords
    <3>2. ~calls'[d].adopted
      BY <1>3, <3>1 DEF CallIs
    <3>3. calls'[d].gen <= generation' /\ calls'[d].gen # generation'
      BY <1>1, <2>2, <3>1 DEF CallIs
    <3> QED
      BY <3>2, <3>3 DEF CallIs
  <2>9. CallIs(call)'
    BY <1>1, <1>3, <2>0, <2>2, <2>7 DEF CallIs
  <2>10. CallsAre'
    BY <2>5, <2>8, <2>9 DEF CallsAre, CallIs
  <2>11. BornAs' /\ Known' /\ Tells'
    BY <2>2, <2>7 DEF BornAs, Known, Tells
  <2> QED
    BY <2>6, <2>10, <2>11 DEF ListenersInv
<1> QED
  BY <1>2, <1>3

\* Every step of the callbacks, of the calls and of the session keeps the invariant.
LEMMA ListenersStepKeeps == ListenersInv /\ Listening!ListenersStep => ListenersInv'
<1> SUFFICES ASSUME ListenersInv, Listening!ListenersStep PROVE ListenersInv'
  OBVIOUS
<1>1. ASSUME Listening!TellsNext PROVE ListenersInv'
  BY <1>1, TellsNextKeeps
<1>2. ASSUME NEW l \in Listeners, Listening!Subscribe(l) \/ Listening!Unsubscribe(l)
      PROVE  ListenersInv'
  BY <1>2, SubscribeKeeps, UnsubscribeKeeps
<1>3. ASSUME NEW u \in Users, Listening!SetInMemory(u)
      PROVE  ListenersInv'
  BY <1>3, SetInMemoryKeeps
<1>4. ASSUME NEW c \in Listening!Places,
             NEW op \in {"getUser", "profile", "signIn", "signUp", "refresh", "signOut"},
             Listening!Begins(c, op)
      PROVE  ListenersInv'
  BY <1>4, BeginsKeeps
<1>5. ASSUME NEW c \in Listening!Places,
             \/ Listening!Fails(c) \/ Listening!UserAnswered(c)
             \/ Listening!UserUpdated(c) \/ Listening!ProfileAnswered(c) \/ Listening!SignedOut(c)
      PROVE  ListenersInv'
  BY <1>5, FailsKeeps, UserAnsweredKeeps, ProfileAnsweredKeeps, SignedOutKeeps
<1>6. ASSUME NEW c \in Listening!Places, NEW yes \in BOOLEAN,
             Listening!RefreshAnswered(c, yes) \/ Listening!SignedUp(c, yes)
      PROVE  ListenersInv'
  BY <1>6, RefreshAnsweredKeeps, SignedUpKeeps
<1>7. ASSUME NEW c \in Listening!Places, NEW u \in Users, Listening!SignedIn(c, u)
      PROVE  ListenersInv'
  BY <1>7, SignedInKeeps
<1> QED
  BY <1>1, <1>2, <1>3, <1>4, <1>5, <1>6, <1>7 DEF Listening!ListenersStep

LEMMA ListenersStutter == ListenersInv /\ UNCHANGED ofListeners => ListenersInv'
BY DEF ofListeners, ListenersInv, ListenersTyped, CallsAre, CallIs, BornAs, Known, Tells

LEMMA ListenersImply == ListenersInv => ToldWhoIsIn
<1> SUFFICES ASSUME ListenersInv PROVE ToldWhoIsIn
  OBVIOUS
<1> USE DEF ListenersInv, ListenersTyped
<1>1. Listening!ToldWhoIsIn
  BY DEF Listening!ToldWhoIsIn, Tells
<1>2. Listening!IsOfOne
  BY DEF Listening!IsOfOne, Known
<1>3. Listening!AnnouncedOnce
  BY <1>1 DEF Listening!ToldWhoIsIn, Listening!AnnouncedOnce, BornAs
<1> QED
  BY <1>1, <1>2, <1>3 DEF ToldWhoIsIn

-----------------------------------------------------------------------------
\* The request of a workflow, in time.

\* What the delays before attempt n come to.
Before == <<0, 1, 3, 7, 15, 25, 35, 45, 55>>

RequestInv ==
  /\ now \in Nat /\ until \in Nat /\ attempt \in 1..9
  /\ phase \in {"sending", "sleeping", "settled", "refused", "gaveUp"}
  /\ phase = "sending" =>
       /\ now <= until /\ until <= Request!Deadline /\ Before[attempt] <= now
  /\ phase = "sleeping" =>
       /\ attempt <= 8 /\ now <= until /\ until < Request!Deadline
       /\ Before[attempt + 1] <= until
  /\ phase = "gaveUp" => Request!Deadline - 10 <= now
  /\ now <= Request!Deadline + MaxLate

LEMMA RequestBegins == Request!Init => RequestInv
BY PartsAssumption DEF Request!Init, RequestInv, Before, Request!RequestTimeout, Request!Deadline

LEMMA AnsweredKeeps == ASSUME RequestInv, Request!Answered PROVE RequestInv'
<1>0. MaxLate \in Nat
  BY PartsAssumption
<1> USE <1>0 DEF RequestInv, Request!Deadline
<1>1. PICK t \in now..(until + MaxLate), r \in Request!Results :
        /\ now' = t
        /\ IF r # "retryable" THEN phase' = r /\ UNCHANGED until
           ELSE IF attempt <= Len(Request!Delays) /\ Request!Deadline - t > Request!Delays[attempt]
           THEN phase' = "sleeping" /\ until' = t + Request!Delays[attempt]
           ELSE phase' = "gaveUp" /\ UNCHANGED until
  BY DEF Request!Answered
<1>2. phase = "sending" /\ UNCHANGED attempt
  BY DEF Request!Answered
<1>3. t \in Nat /\ now <= t /\ t <= until + MaxLate
  OBVIOUS
<1>4. Len(Request!Delays) = 8
  BY DEF Request!Delays
<1>5. CASE r # "retryable"
  BY <1>1, <1>2, <1>3, <1>5 DEF Request!Results
<1>6. CASE r = "retryable" /\ attempt <= 8 /\ Request!Deadline - t > Request!Delays[attempt]
  <2>1. /\ Request!Delays[attempt] \in Nat
        /\ Before[attempt + 1] = Before[attempt] + Request!Delays[attempt]
        /\ Before[attempt] \in Nat
    BY <1>6 DEF Request!Delays, Before
  <2> QED
    BY <1>1, <1>2, <1>3, <1>4, <1>6, <2>1
<1>7. CASE r = "retryable" /\ ~(attempt <= 8 /\ Request!Deadline - t > Request!Delays[attempt])
  <2>1. phase' = "gaveUp" /\ UNCHANGED until
    BY <1>1, <1>4, <1>7
  <2>2. CASE attempt = 9
    BY <1>1, <1>2, <1>3, <2>1, <2>2 DEF Before
  <2>3. CASE attempt \in 1..8
    <3>1. Request!Delays[attempt] \in 1..10
      BY <2>3 DEF Request!Delays
    <3> QED
      BY <1>1, <1>2, <1>3, <1>7, <2>1, <2>3, <3>1
  <2> QED
    BY <2>2, <2>3
<1> QED
  BY <1>5, <1>6, <1>7

LEMMA WokenKeeps == ASSUME RequestInv, Request!Woken PROVE RequestInv'
<1>0. MaxLate \in Nat
  BY PartsAssumption
<1> USE <1>0 DEF RequestInv, Request!Deadline
<1>1. PICK t \in until..(until + MaxLate) :
        /\ now' = t
        /\ IF Request!Deadline - t > 0
           THEN /\ phase' = "sending" /\ attempt' = attempt + 1
                /\ until' = t + Request!Smaller(Request!RequestTimeout, Request!Deadline - t)
           ELSE phase' = "gaveUp" /\ UNCHANGED <<until, attempt>>
  BY DEF Request!Woken
<1>2. phase = "sleeping"
  BY DEF Request!Woken
<1>3. t \in Nat /\ until <= t /\ t <= until + MaxLate
  OBVIOUS
<1>4. CASE Request!Deadline - t > 0
  <2>1. /\ until' \in Nat /\ t <= until' /\ until' <= 60
    BY <1>1, <1>3, <1>4 DEF Request!Smaller, Request!RequestTimeout
  <2>2. Before[attempt + 1] \in Nat
    BY <1>2 DEF Before
  <2> QED
    BY <1>1, <1>2, <1>3, <1>4, <2>1, <2>2
<1>5. CASE ~(Request!Deadline - t > 0)
  BY <1>1, <1>2, <1>3, <1>5
<1> QED
  BY <1>4, <1>5

LEMMA RequestStep == RequestInv /\ (Request!Next \/ UNCHANGED ofRequest) => RequestInv'
<1>1. RequestInv /\ UNCHANGED ofRequest => RequestInv'
  BY DEF RequestInv, ofRequest
<1>2. Request!Ended => UNCHANGED ofRequest
  BY DEF Request!Ended, Request!vars, ofRequest
<1> QED
  BY <1>1, <1>2, AnsweredKeeps, WokenKeeps DEF Request!Next

-----------------------------------------------------------------------------
HandlersInv == ListenersInv /\ RequestInv

\* The invariants of both hold in every behaviour.
THEOREM HandlersInvariance == PartsSpec => []HandlersInv
<1>1. PartsInit => HandlersInv
  BY ListenersBegin, RequestBegins DEF PartsInit, HandlersInv
<1>2. HandlersInv /\ [PartsNext]_all => HandlersInv'
  <2> SUFFICES ASSUME HandlersInv, [PartsNext]_all PROVE HandlersInv'
    OBVIOUS
  <2>1. ASSUME OfContexts(Next) PROVE HandlersInv'
    BY <2>1, ListenersStutter, RequestStep DEF OfContexts, HandlersInv
  <2>2. ASSUME OfRequest(Request!Next) PROVE HandlersInv'
    BY <2>2, ListenersStutter, RequestStep DEF OfRequest, HandlersInv
  <2>3. ASSUME OfListeners(Listening!ListenersStep) PROVE HandlersInv'
    BY <2>3, ListenersStepKeeps, RequestStep DEF OfListeners, HandlersInv
  <2>4. ASSUME OfDurations \/ UNCHANGED all PROVE HandlersInv'
    <3>1. UNCHANGED ofListeners /\ UNCHANGED ofRequest
      BY <2>4 DEF OfDurations, all
    <3> QED
      BY <3>1, ListenersStutter, RequestStep DEF HandlersInv
  <2> QED
    BY <2>1, <2>2, <2>3, <2>4 DEF PartsNext
<1> QED
  BY <1>1, <1>2, PTL DEF PartsSpec

\* Between notifications the callbacks of onAuthStateChange were last told who is
\* signed in, an adopted session is announced once, and what getSession says is of
\* one user: whatever calls were in flight when the session changed.
THEOREM CallbacksKnowWhoIsIn == PartsSpec => []ToldWhoIsIn
<1>1. HandlersInv => ToldWhoIsIn
  BY ListenersImply DEF HandlersInv
<1> QED
  BY <1>1, HandlersInvariance, PTL

\* postToPlatform rides out 25 seconds of outage and ends after 30 and one late timer.
THEOREM RequestsArePatient == PartsSpec => []Request!Patience
<1>1. HandlersInv => Request!Patience
  BY PartsAssumption DEF HandlersInv, RequestInv, Request!Patience, Request!Deadline
<1> QED
  BY <1>1, HandlersInvariance, PTL

-----------------------------------------------------------------------------
\* Powers of ten, and sums over positions.

\* The recursion of PowerOfTen is what it says.
LEMMA PowersOfTen ==
  /\ PowerOfTen \in [Nat -> Nat]
  /\ PowerOfTen[0] = 1
  /\ \A n \in Nat : PowerOfTen[n + 1] = 10 * PowerOfTen[n]
<1> DEFINE h == [p \in Nat \X Nat |-> 10 * p[2]]
           Is(f) == f = [n \in Nat |-> IF n = 0 THEN 1 ELSE 10 * f[n - 1]]
<1>1. \E f : Is(f) /\ f \in [Nat -> Nat]
  <2>1. h \in [Nat \X Nat -> Nat] /\ 1 \in Nat
    OBVIOUS
  <2>2. PICK f \in [Nat -> Nat] : Goes(f, 1, h)
    <3> HIDE DEF h
    <3> QED
      BY <2>1, FollowsForEver
  <2>3. \A k \in Nat : f[k] = IF k = 0 THEN 1 ELSE 10 * f[k - 1]
    <3>1. SUFFICES ASSUME NEW k \in Nat, k # 0 PROVE f[k] = 10 * f[k - 1]
      BY <2>2 DEF Goes
    <3>2. k - 1 \in Nat /\ f[k - 1] \in Nat
      BY <3>1
    <3> QED
      BY <2>2, <3>1, <3>2 DEF Goes
  <2>4. f = [k \in Nat |-> f[k]]
    OBVIOUS
  <2>5. Is(f)
    BY <2>3, <2>4
  <2> QED
    BY <2>5
<1>2. Is(PowerOfTen)
  <2>1. PowerOfTen = CHOOSE f : Is(f)
    BY DEF PowerOfTen
  <2> HIDE DEF Is
  <2> QED
    BY <1>1, <2>1, Zenon
<1>3. PowerOfTen[0] = 1 /\ \A n \in Nat : PowerOfTen[n + 1] = 10 * PowerOfTen[n]
  <2>1. \A k \in Nat : PowerOfTen[k] = IF k = 0 THEN 1 ELSE 10 * PowerOfTen[k - 1]
    BY <1>2, Zenon
  <2> QED
    BY <2>1
<1>4. \A n \in Nat : PowerOfTen[n] \in Nat
  <2> DEFINE S == {n \in Nat : PowerOfTen[n] \in Nat}
  <2>1. 0 \in S /\ \A n \in Nat : n \in S => n + 1 \in S
    BY <1>3
  <2> HIDE DEF S
  <2>2. \A n \in Nat : n \in S
    BY <2>1, FromZero
  <2> QED
    BY <2>2 DEF S
<1>5. PowerOfTen = [n \in Nat |-> PowerOfTen[n]]
  BY <1>2, Zenon
<1> QED
  BY <1>3, <1>4, <1>5

\* A sum over any of the positions, which may begin with any of them.
IsSum(F, w, m) ==
  /\ F \in [SUBSET (1..m) -> Nat]
  /\ F[{}] = 0
  /\ \A s \in SUBSET (1..m) : \A x \in s : F[s] = w[x] + F[s \ {x}]

\* There is such a sum.
LEMMA SumsAre ==
  ASSUME NEW m \in Nat, NEW w \in [1..m -> Nat]
  PROVE  \E F : IsSum(F, w, m)
<1> DEFINE D == SUBSET (1..m)
           V == [D -> Nat]
           adds(k, s) == IF k \in s THEN w[k] ELSE 0
           a == [s \in D |-> 0]
           h == [p \in Nat \X V |-> [s \in D |-> p[2][s] + adds(p[1], s)]]
<1>1. a \in V
  OBVIOUS
<1>2. h \in [Nat \X V -> V]
  <2>1. \A k \in Nat, s \in D : adds(k, s) \in Nat
    OBVIOUS
  <2> HIDE DEF adds
  <2>2. ASSUME NEW p \in Nat \X V PROVE [s \in D |-> p[2][s] + adds(p[1], s)] \in V
    <3>1. p[1] \in Nat /\ p[2] \in [D -> Nat]
      OBVIOUS
    <3>2. ASSUME NEW s \in D PROVE p[2][s] + adds(p[1], s) \in Nat
      <4>1. p[2][s] \in Nat
        BY <3>1
      <4>2. adds(p[1], s) \in Nat
        BY <2>1, <3>1
      <4> QED
        BY <4>1, <4>2
    <3> HIDE DEF D
    <3> QED
      BY <3>2
  <2> HIDE DEF V
  <2> QED
    BY <2>2
<1>3. PICK f \in [Nat -> V] : Goes(f, a, h)
  <2> HIDE DEF h, a, V
  <2> QED
    BY <1>1, <1>2, FollowsForEver
<1>4. \A s \in D : f[0][s] = 0
  <2>1. f[0] = a
    BY <1>3 DEF Goes
  <2> QED
    BY <2>1
<1>5. \A n \in Nat, s \in D : f[n + 1][s] = f[n][s] + adds(n + 1, s)
  <2> SUFFICES ASSUME NEW n \in Nat, NEW s \in D PROVE f[n + 1][s] = f[n][s] + adds(n + 1, s)
    OBVIOUS
  <2>1. n + 1 \in Nat /\ n + 1 # 0 /\ (n + 1) - 1 = n
    OBVIOUS
  <2>2. f[n + 1] = h[<<n + 1, f[n]>>]
    BY <1>3, <2>1 DEF Goes
  <2> HIDE DEF V, adds
  <2>3. <<n + 1, f[n]>> \in Nat \X V
    BY <2>1
  <2>4. f[n + 1] = [t \in D |-> f[n][t] + adds(n + 1, t)]
    BY <2>2, <2>3
  <2> QED
    BY <2>4
<1> HIDE DEF a, h
<1>6. f[m] \in [SUBSET (1..m) -> Nat]
  BY <1>3
<1>7. f[m][{}] = 0
  <2> DEFINE S == {n \in Nat : f[n][{}] = 0}
  <2>1. {} \in D
    OBVIOUS
  <2>2. 0 \in S
    BY <1>4, <2>1
  <2>3. \A n \in Nat : n \in S => n + 1 \in S
    BY <1>5, <2>1
  <2> HIDE DEF S
  <2>4. \A n \in Nat : n \in S
    BY <2>2, <2>3, FromZero
  <2> QED
    BY <2>4 DEF S
<1>8. ASSUME NEW s \in D, NEW x \in s PROVE f[m][s] = w[x] + f[m][s \ {x}]
  <2> DEFINE t == s \ {x}
             S == {n \in Nat : f[n][s] = f[n][t] + IF x <= n THEN w[x] ELSE 0}
  <2>1. t \in D /\ x \in 1..m /\ w[x] \in Nat
    OBVIOUS
  <2>2. 0 \in S
    BY <1>4, <2>1
  <2>3. ASSUME NEW n \in Nat, n \in S PROVE n + 1 \in S
    <3>1. f[n] \in V
      OBVIOUS
    <3>2. f[n][s] \in Nat /\ f[n][t] \in Nat
      BY <2>1, <3>1
    <3>3. f[n + 1][s] = f[n][s] + adds(n + 1, s) /\ f[n + 1][t] = f[n][t] + adds(n + 1, t)
      BY <1>5, <2>1
    <3>4. CASE n + 1 = x
      <4>1. adds(n + 1, s) = w[x] /\ adds(n + 1, t) = 0 /\ ~(x <= n) /\ x <= n + 1
        BY <3>4
      <4> QED
        BY <2>1, <2>3, <3>2, <3>3, <4>1
    <3>5. CASE n + 1 # x
      <4>1. adds(n + 1, s) = adds(n + 1, t)
        BY <3>5
      <4>2. x <= n + 1 <=> x <= n
        BY <2>1, <3>5
      <4>3. adds(n + 1, t) \in Nat
        BY <2>1
      <4> HIDE DEF adds
      <4> QED
        BY <2>1, <2>3, <3>2, <3>3, <4>1, <4>2, <4>3
    <3> QED
      BY <3>4, <3>5
  <2>4. m \in S
    <3> HIDE DEF S
    <3> QED
      BY <2>2, <2>3, FromZero
  <2>5. f[m][t] \in Nat
    BY <1>6, <2>1
  <2> QED
    BY <2>1, <2>4, <2>5
<1> QED
  BY <1>6, <1>7, <1>8 DEF IsSum

\* Where the digits of a text are.
DigitPlaces(chars) == {i \in 1..Len(chars) : chars[i] \in Digits}

\* The reference is one.
LEMMA ReferenceIsSum ==
  ASSUME NEW chars, Len(chars) \in Nat, NEW w, NEW F, IsSum(F, w, Len(chars)),
         \A i \in DigitPlaces(chars) : w[i] = Worth(chars, i)
  PROVE  Reference(chars) = F[DigitPlaces(chars)]
<1> DEFINE D == DigitPlaces(chars)
           One(s) == CHOOSE x \in s : TRUE
           Is(f) == f = [s \in SUBSET D |->
                           IF s = {} THEN 0 ELSE Worth(chars, One(s)) + f[s \ {One(s)}]]
           G == [s \in SUBSET D |-> F[s]]
<1>1. D \subseteq 1..Len(chars) /\ IsFiniteSet(D)
  <2>1. D \subseteq 1..Len(chars)
    BY DEF DigitPlaces
  <2>2. IsFiniteSet(1..Len(chars))
    BY FS_Interval
  <2> QED
    BY <2>1, <2>2, FS_Subset
<1>2. \A s : s # {} => One(s) \in s
  OBVIOUS
<1>3. Reference(chars) = (CHOOSE f : Is(f))[D]
  BY DEF Reference, MapThenSumSet, MapThenFoldSet, DigitPlaces
<1> HIDE DEF One, D
<1>4. Is(G)
  <2>1. ASSUME NEW s \in SUBSET D, s # {} PROVE G[s] = Worth(chars, One(s)) + G[s \ {One(s)}]
    <3>1. s \in SUBSET (1..Len(chars)) /\ One(s) \in s /\ One(s) \in D
      BY <1>1, <1>2, <2>1
    <3>2. F[s] = w[One(s)] + F[s \ {One(s)}]
      BY <3>1 DEF IsSum
    <3>3. w[One(s)] = Worth(chars, One(s))
      BY <3>1 DEF D
    <3> QED
      BY <3>2, <3>3
  <2>2. G[{}] = 0
    BY DEF IsSum
  <2>3. \A s \in SUBSET D :
          G[s] = IF s = {} THEN 0 ELSE Worth(chars, One(s)) + G[s \ {One(s)}]
    BY <2>1, <2>2
  <2>4. G = [s \in SUBSET D |-> G[s]]
    OBVIOUS
  <2> HIDE DEF G
  <2> QED
    BY <2>3, <2>4
<1>5. ASSUME NEW f, Is(f) PROVE f[D] = G[D]
  <2> DEFINE S == {n \in Nat : \A s \in SUBSET D : Cardinality(s) = n => f[s] = G[s]}
  <2>1. \A g : Is(g) =>
          /\ g[{}] = 0
          /\ \A s \in SUBSET D : s # {} => g[s] = Worth(chars, One(s)) + g[s \ {One(s)}]
    OBVIOUS
  <2> HIDE DEF Is, G
  <2>2. \A s \in SUBSET D : IsFiniteSet(s)
    BY <1>1, FS_Subset
  <2>3. 0 \in S
    <3>1. \A s \in SUBSET D : Cardinality(s) = 0 => s = {}
      BY <2>2, FS_EmptySet
    <3> QED
      BY <1>4, <1>5, <2>1, <3>1
  <2>4. ASSUME NEW n \in Nat, n \in S PROVE n + 1 \in S
    <3>1. SUFFICES ASSUME NEW s \in SUBSET D, Cardinality(s) = n + 1 PROVE f[s] = G[s]
      OBVIOUS
    <3>2. s # {}
      <4>1. n + 1 # 0
        OBVIOUS
      <4> QED
        BY <3>1, <4>1, FS_EmptySet
    <3>3. One(s) \in s
      BY <1>2, <3>2
    <3>4. Cardinality(s \ {One(s)}) = n
      BY <2>2, <3>1, <3>3, FS_RemoveElement
    <3>5. s \ {One(s)} \in SUBSET D
      OBVIOUS
    <3>6. f[s \ {One(s)}] = G[s \ {One(s)}]
      BY <2>4, <3>4, <3>5
    <3> QED
      BY <1>4, <1>5, <2>1, <3>2, <3>6
  <2>5. Cardinality(D) \in S
    <3>1. Cardinality(D) \in Nat
      BY <1>1, FS_CardinalityType
    <3> HIDE DEF S
    <3> QED
      BY <2>3, <2>4, <3>1, FromZero
  <2> QED
    BY <2>5
<1>6. Is(CHOOSE f : Is(f))
  <2> HIDE DEF Is
  <2> QED
    BY <1>4, Zenon
<1>7. (CHOOSE f : Is(f))[D] = G[D]
  <2> HIDE DEF Is, G
  <2> QED
    BY <1>5, <1>6
<1> QED
  BY <1>3, <1>7 DEF D

\* What Min and Max choose.
LEMMA MinIs ==
  ASSUME NEW S \in SUBSET Nat, S # {}
  PROVE  Min(S) \in S /\ \A y \in S : Min(S) <= y
BY LeastIs DEF Min

LEMMA MaxIs ==
  ASSUME NEW n \in Nat, NEW S \in SUBSET (0..n), S # {}
  PROVE  Max(S) \in S /\ \A y \in S : y <= Max(S)
<1> DEFINE T == {n - x : x \in S}
<1>1. \A x \in S : x \in Nat /\ n - x \in Nat
  OBVIOUS
<1>2. T \in SUBSET Nat /\ T # {}
  BY <1>1
<1>3. PICK z \in T : \A y \in T : z <= y
  <2> HIDE DEF T
  <2> QED
    BY <1>2, LeastIs
<1>4. PICK x \in S : z = n - x
  OBVIOUS
<1>5. ASSUME NEW y \in S PROVE y <= x
  <2>1. z <= n - y
    BY <1>3
  <2> QED
    BY <1>1, <1>4, <2>1
<1> QED
  BY <1>5 DEF Max

-----------------------------------------------------------------------------
\* Durations: what a text comes to.

\* A character is of one kind.
LEMMA DigitsAndUnits ==
  /\ DigitValue \in [Digits -> Nat]
  /\ Units = {"s", "m", "h", "d"}
  /\ \A u \in Units : UnitSeconds[u] \in Nat
  /\ Digits \cap Units = {} /\ Blank \notin Digits /\ Blank \notin Units
<1>1. DigitValue \in [Digits -> Nat]
  BY DEF DigitValue
<1>2. Units = {"s", "m", "h", "d"}
  BY DEF Units, UnitSeconds
<1>3. UnitSeconds["s"] = 1 /\ UnitSeconds["m"] = 60 /\ UnitSeconds["h"] = 3600
      /\ UnitSeconds["d"] = 86400
  BY DEF UnitSeconds
<1>4. Digits \cap Units = {} /\ Blank \notin Digits /\ Blank \notin Units
  BY <1>2, Zenon DEF Digits, Blank
<1>5. \A u \in Units : UnitSeconds[u] \in Nat
  BY <1>2, <1>3
<1> QED
  BY <1>1, <1>2, <1>4, <1>5

\* The scan ends at the first character that is no digit.
LEMMA ScanEnds ==
  ASSUME NEW Alphabet, NEW chars \in Seq(Alphabet), NEW i \in 1..(Len(chars) + 1)
  PROVE  /\ ScanDigits(chars, i) \in i..(Len(chars) + 1)
         /\ \A k \in i..(ScanDigits(chars, i) - 1) : chars[k] \in Digits
         /\ ScanDigits(chars, i) <= Len(chars) => chars[ScanDigits(chars, i)] \notin Digits
<1> DEFINE N == Len(chars)
           S == {j \in i..(N + 1) : j <= N => chars[j] \notin Digits}
           Ending(j) == /\ \A k \in i..(j - 1) : chars[k] \in Digits
                        /\ j <= N => chars[j] \notin Digits
<1>1. N \in Nat
  OBVIOUS
<1>2. S \in SUBSET Nat /\ N + 1 \in S
  BY <1>1
<1>3. PICK j \in S : \A y \in S : j <= y
  BY <1>2, LeastIs
<1>4. j \in i..(N + 1) /\ (j <= N => chars[j] \notin Digits)
  OBVIOUS
<1>5. ASSUME NEW k \in i..(j - 1) PROVE chars[k] \in Digits
  <2>1. k \in i..(N + 1) /\ ~(j <= k)
    BY <1>1, <1>4
  <2> HIDE DEF N
  <2>2. k \in S \/ chars[k] \in Digits
    BY <2>1
  <2> QED
    BY <1>3, <2>1, <2>2
<1>6. \E x \in i..(N + 1) : Ending(x)
  BY <1>4, <1>5
<1>7. ScanDigits(chars, i) = CHOOSE x \in i..(N + 1) : Ending(x)
  BY DEF ScanDigits
<1>8. ScanDigits(chars, i) \in i..(N + 1) /\ Ending(ScanDigits(chars, i))
  <2> HIDE DEF Ending
  <2> QED
    BY <1>6, <1>7
<1> QED
  BY <1>8

\* Digit by digit a number is ten times what it was, and the digit.
LEMMA NumberGrows ==
  ASSUME NEW digits \in Seq(Digits)
  PROVE  \E f \in [0..Len(digits) -> Nat] :
           /\ f[0] = 0
           /\ \A k \in 1..Len(digits) : f[k] = 10 * f[k - 1] + DigitValue[digits[k]]
           /\ Number(digits) = f[Len(digits)]
<1> DEFINE m == Len(digits)
           value(k) == IF k \in 1..m THEN DigitValue[digits[k]] ELSE 0
           h == [p \in Nat \X Nat |-> 10 * p[2] + value(p[1])]
           Is(f) ==
             f = [k \in 0..m |-> IF k = 0 THEN 0 ELSE 10 * f[k - 1] + DigitValue[digits[k]]]
<1>1. m \in Nat /\ \A k \in 1..m : DigitValue[digits[k]] \in Nat
  <2>1. m \in Nat /\ \A k \in 1..m : digits[k] \in Digits
    OBVIOUS
  <2> HIDE DEF m
  <2> QED
    BY <2>1, DigitsAndUnits
<1>2. \E f : Is(f)
  <2>1. \A k \in Nat : value(k) \in Nat
    BY <1>1
  <2>2. h \in [Nat \X Nat -> Nat] /\ 0 \in Nat
    <3>1. ASSUME NEW p \in Nat \X Nat PROVE 10 * p[2] + value(p[1]) \in Nat
      <4>1. p[1] \in Nat /\ p[2] \in Nat
        OBVIOUS
      <4> HIDE DEF value
      <4>2. value(p[1]) \in Nat
        BY <2>1, <4>1
      <4> QED
        BY <4>1, <4>2
    <3> HIDE DEF value
    <3> QED
      BY <3>1
  <2>3. PICK g \in [Nat -> Nat] : Goes(g, 0, h)
    <3> HIDE DEF h
    <3> QED
      BY <2>2, FollowsForEver
  <2> DEFINE f == [k \in 0..m |-> g[k]]
  <2>4. ASSUME NEW k \in 0..m
        PROVE f[k] = IF k = 0 THEN 0 ELSE 10 * f[k - 1] + DigitValue[digits[k]]
    <3>1. CASE k = 0
      <4>1. g[0] = 0
        BY <2>3 DEF Goes
      <4>2. 0 \in 0..m
        BY <1>1
      <4> HIDE DEF m
      <4> QED
        BY <3>1, <4>1, <4>2
    <3>2. CASE k # 0
      <4>1. k \in 1..m /\ k - 1 \in 0..m /\ k - 1 \in Nat /\ k \in Nat
        <5> HIDE DEF m
        <5> QED
          BY <1>1, <3>2
      <4>2. <<k, g[k - 1]>> \in Nat \X Nat
        BY <4>1
      <4>3. g[k] = h[<<k, g[k - 1]>>]
        BY <2>3, <3>2, <4>1 DEF Goes
      <4>4. h[<<k, g[k - 1]>>] = 10 * g[k - 1] + value(k)
        <5> HIDE DEF value
        <5> QED
          BY <4>2
      <4>5. value(k) = DigitValue[digits[k]]
        BY <4>1
      <4> QED
        BY <3>2, <4>1, <4>3, <4>4, <4>5
    <3> QED
      BY <3>1, <3>2
  <2>5. f = [k \in 0..m |-> f[k]]
    OBVIOUS
  <2> HIDE DEF f, m
  <2>6. Is(f)
    BY <2>4, <2>5
  <2> QED
    BY <2>6
<1> DEFINE n == CHOOSE f : Is(f)
<1>3. Is(n) /\ Number(digits) = n[m]
  <2>1. Number(digits) = n[m]
    BY DEF Number
  <2>2. Is(n)
    <3> HIDE DEF Is
    <3> QED
      BY <1>2, Zenon
  <2> QED
    BY <2>1, <2>2
<1> HIDE DEF n
<1>4. \A k \in 0..m : n[k] = IF k = 0 THEN 0 ELSE 10 * n[k - 1] + DigitValue[digits[k]]
  <2> HIDE DEF m
  <2> QED
    BY <1>3
<1>5. n[0] = 0 /\ \A k \in 1..m : n[k] = 10 * n[k - 1] + DigitValue[digits[k]]
  <2> HIDE DEF m
  <2>1. 0 \in 0..m /\ \A k \in 1..m : k \in 0..m /\ k # 0
    BY <1>1
  <2> QED
    BY <1>4, <2>1
<1>6. \A k \in 0..m : n[k] \in Nat
  <2> DEFINE S == {k \in Nat : k <= m => n[k] \in Nat}
  <2>1. 0 \in S
    BY <1>5
  <2>2. ASSUME NEW k \in Nat, k \in S PROVE k + 1 \in S
    <3> HIDE DEF m
    <3>1. SUFFICES ASSUME k + 1 <= m PROVE n[k + 1] \in Nat
      OBVIOUS
    <3>2. k + 1 \in 1..m /\ (k + 1) - 1 = k /\ n[k] \in Nat
      BY <1>1, <2>2, <3>1
    <3>3. n[k + 1] = 10 * n[k] + DigitValue[digits[k + 1]]
      BY <1>5, <3>2
    <3> QED
      BY <1>1, <3>2, <3>3
  <2>3. \A k \in Nat : k \in S
    <3> HIDE DEF S
    <3> QED
      BY <2>1, <2>2, FromZero
  <2> QED
    BY <1>1, <2>3
<1>7. n = [k \in 0..m |-> n[k]]
  <2> HIDE DEF m
  <2> QED
    BY <1>3, Zenon
<1>8. n \in [0..m -> Nat]
  <2> HIDE DEF m
  <2> QED
    BY <1>6, <1>7
<1> QED
  BY <1>3, <1>5, <1>8

\* What the digits of a text come to from one place on.
From(chars, p) == {i \in DigitPlaces(chars) : i >= p}

\* The worth of each place, where it is one.
Worths(chars) ==
  [i \in 1..Len(chars) |->
     IF i \in DigitPlaces(chars) /\ Worth(chars, i) \in Nat THEN Worth(chars, i) ELSE 0]

\* The digits from p on, to the unit at e.
Run(chars, p, e) ==
  /\ p \in 1..Len(chars) /\ e \in 1..Len(chars) /\ p < e
  /\ \A k \in p..(e - 1) : chars[k] \in Digits
  /\ chars[e] \in Units

Spells(digits, chars, p, e) ==
  /\ digits \in Seq(Digits) /\ Len(digits) = e - p
  /\ \A k \in 1..(e - p) : digits[k] = chars[p + k - 1]

\* A digit of a run is worth itself, by its distance to the unit.
LEMMA WorthIs ==
  ASSUME NEW Alphabet, NEW chars \in Seq(Alphabet), NEW p, NEW e, Run(chars, p, e),
         NEW k \in p..(e - 1)
  PROVE  /\ k \in DigitPlaces(chars)
         /\ Worth(chars, k)
              = DigitValue[chars[k]] * PowerOfTen[e - k - 1] * UnitSeconds[chars[e]]
         /\ Worth(chars, k) \in Nat
<1>1. Len(chars) \in Nat /\ k \in 1..Len(chars) /\ e \in k..Len(chars) /\ e - k - 1 \in Nat
  BY DEF Run
<1>2. \A j \in k..(e - 1) : chars[j] \in Digits
  BY <1>1 DEF Run
<1>3. UnitAfter(chars, k) = e
  <2> DEFINE S == {j \in k..Len(chars) : chars[j] \notin Digits}
  <2>1. e \in S
    BY <1>1, DigitsAndUnits DEF Run
  <2>2. \A j \in S : e <= j
    BY <1>1, <1>2
  <2>3. S \in SUBSET Nat
    BY <1>1
  <2>4. Min(S) \in S /\ Min(S) <= e
    <3> HIDE DEF S
    <3> QED
      BY <2>1, <2>3, MinIs
  <2>5. Min(S) = e
    BY <1>1, <2>2, <2>4
  <2> QED
    BY <2>5 DEF UnitAfter
<1>4. k \in DigitPlaces(chars) /\ DigitValue[chars[k]] \in Nat
  <2>1. chars[k] \in Digits
    BY DEF Run
  <2> QED
    BY <1>1, <2>1, DigitsAndUnits DEF DigitPlaces
<1>5. PowerOfTen[e - k - 1] \in Nat /\ UnitSeconds[chars[e]] \in Nat
  BY <1>1, PowersOfTen, DigitsAndUnits DEF Run
<1>6. \A x, y, z \in Nat : x * y * z \in Nat
  OBVIOUS
<1> QED
  BY <1>3, <1>4, <1>5, <1>6 DEF Worth

\* A run of digits is worth its number, in its unit.
LEMMA RunIsWorth ==
  ASSUME NEW Alphabet, NEW chars \in Seq(Alphabet), NEW p, NEW e, Run(chars, p, e),
         NEW F, IsSum(F, Worths(chars), Len(chars)),
         NEW digits, Spells(digits, chars, p, e)
  PROVE  F[From(chars, p)] = Number(digits) * UnitSeconds[chars[e]] + F[From(chars, e)]
<1> DEFINE m == e - p
           u == UnitSeconds[chars[e]]
<1>1. m \in Nat /\ p \in Nat /\ e \in Nat /\ u \in Nat /\ e = p + m
  <2>1. u \in Nat
    BY DigitsAndUnits DEF Run
  <2>2. Len(chars) \in Nat /\ p \in 1..Len(chars) /\ e \in 1..Len(chars) /\ p < e
    BY DEF Run
  <2>3. p \in Nat /\ e \in Nat
    BY <2>2
  <2>4. m \in Nat /\ e = p + m
    BY <2>2, <2>3
  <2> QED
    BY <2>1, <2>3, <2>4
<1>2. PICK n \in [0..m -> Nat] :
        /\ n[0] = 0
        /\ \A k \in 1..m : n[k] = 10 * n[k - 1] + DigitValue[digits[k]]
        /\ Number(digits) = n[m]
  BY NumberGrows DEF Spells
<1> DEFINE Rest(k) == F[From(chars, p + k)]
           Told(k) == Rest(0) = n[k] * PowerOfTen[m - k] * u + Rest(k)
           S == {k \in Nat : k <= m => Told(k)}
<1>3. \A q : F[From(chars, q)] \in Nat
  BY DEF IsSum, From, DigitPlaces
<1>4. 0 \in S
  <2>1. PowerOfTen[m] \in Nat
    BY <1>1, PowersOfTen
  <2>2. Rest(0) \in Nat
    BY <1>3
  <2> HIDE DEF Rest, u, m
  <2>3. 0 * PowerOfTen[m] * u = 0 /\ m - 0 = m
    BY <1>1, <2>1
  <2> QED
    BY <1>2, <2>2, <2>3
<1>5. ASSUME NEW k \in Nat, k \in S PROVE k + 1 \in S
  <2>1. SUFFICES ASSUME k + 1 <= m PROVE Told(k + 1)
    OBVIOUS
  <2> HIDE DEF m
  <2>2. k \in 0..m /\ k + 1 \in 1..m /\ m - (k + 1) \in Nat /\ m - k = (m - (k + 1)) + 1
    BY <1>1, <2>1
  <2>3. p + k \in p..(e - 1) /\ e - (p + k) - 1 = m - (k + 1) /\ p + (k + 1) - 1 = p + k
    BY <1>1, <2>1
  <2> DEFINE d == DigitValue[chars[p + k]]
             t == PowerOfTen[m - (k + 1)]
             a == n[k]
  <2>4. /\ p + k \in DigitPlaces(chars) /\ Worth(chars, p + k) = d * t * u
        /\ Worth(chars, p + k) \in Nat
    BY <2>3, WorthIs
  <2>5. n[k + 1] = 10 * a + d
    <3>1. digits[k + 1] = chars[p + k]
      BY <2>2, <2>3 DEF m, Spells
    <3>2. (k + 1) - 1 = k
      OBVIOUS
    <3> QED
      BY <1>2, <2>2, <3>1, <3>2
  <2>6. PowerOfTen[m - k] = 10 * t
    BY <2>2, PowersOfTen
  <2>7. Rest(k) = d * t * u + Rest(k + 1)
    <3>1. From(chars, p + k) \in SUBSET (1..Len(chars)) /\ p + k \in From(chars, p + k)
      BY <1>1, <2>4 DEF From, DigitPlaces
    <3>2. From(chars, p + k) \ {p + k} = From(chars, p + (k + 1))
      <4>1. \A i \in Nat : i >= p + k /\ i # p + k <=> i >= p + (k + 1)
        BY <1>1
      <4>2. \A i \in 1..Len(chars) : i \in Nat
        OBVIOUS
      <4> QED
        BY <4>1, <4>2 DEF From, DigitPlaces
    <3>3. Worths(chars)[p + k] = d * t * u
      BY <2>4 DEF Worths, DigitPlaces
    <3> QED
      BY <3>1, <3>2, <3>3 DEF IsSum
  <2>8. a \in Nat /\ t \in Nat /\ d \in Nat /\ Rest(0) \in Nat /\ Rest(k + 1) \in Nat
    <3>1. d \in Nat
      BY <2>3, DigitsAndUnits DEF Run
    <3> QED
      BY <1>2, <1>3, <2>2, <3>1, PowersOfTen
  <2>9. Rest(0) = a * (10 * t) * u + Rest(k)
    BY <1>5, <2>1, <2>2, <2>6
  <2> HIDE DEF a, t, d, u, Rest
  <2>10. \A x, y, z, w \in Nat : x * (10 * y) * w + z * y * w = (10 * x + z) * y * w
    OBVIOUS
  <2>11. \A x, y, z \in Nat : x * y * z \in Nat
    OBVIOUS
  <2>12. a * (10 * t) * u + (d * t * u + Rest(k + 1)) = (10 * a + d) * t * u + Rest(k + 1)
    <3>1. a * (10 * t) * u \in Nat /\ d * t * u \in Nat
      BY <1>1, <2>8, <2>11
    <3> QED
      BY <1>1, <2>8, <2>10, <3>1
  <2>13. Rest(0) = n[k + 1] * t * u + Rest(k + 1)
    BY <2>5, <2>7, <2>9, <2>12
  <2> QED
    BY <2>13 DEF t, u
<1>6. Told(m)
  <2>1. m \in S
    <3> HIDE DEF S, m
    <3> QED
      BY <1>1, <1>4, <1>5, FromZero
  <2> QED
    BY <1>1, <2>1
<1>7. n[m] * PowerOfTen[m - m] * u = n[m] * u
  <2>1. m - m = 0 /\ n[m] \in Nat
    BY <1>1
  <2> HIDE DEF u, m
  <2> QED
    BY <1>1, <2>1, PowersOfTen
<1> QED
  BY <1>1, <1>2, <1>6, <1>7

-----------------------------------------------------------------------------
\* Durations: the scan of a text.

\* From p on, each character is of a number with its unit.
GoodFrom(chars, p) ==
  \A i \in p..Len(chars) :
    /\ chars[i] \in Digits \cup Units \cup {Blank}
    /\ chars[i] \in Digits => i < Len(chars) /\ chars[i + 1] \in Digits \cup Units
    /\ chars[i] \in Units => i > p /\ chars[i - 1] \in Digits

\* The step of the scan: what a text comes to from i on, by what it comes to
\* from later places.
Scan(chars, f, i) ==
  IF i > Len(chars) THEN 0
  ELSE IF chars[i] = Blank THEN f[i + 1]
  ELSE LET end == ScanDigits(chars, i)
           seconds == Segment(chars, i, end)
       IN IF seconds = Invalid THEN Invalid
          ELSE LET rest == f[IF end > Len(chars) THEN end ELSE end + 1]
               IN IF rest = Invalid THEN Invalid ELSE seconds + rest

\* What is claimed of it.
Comes(chars, F, i) == IF GoodFrom(chars, i) THEN F[From(chars, i)] ELSE Invalid

LaterCome(chars, F, f, i) == \A j \in (i + 1)..(Len(chars) + 1) : f[j] = Comes(chars, F, j)

\* A place that has no digit adds nothing.
LEMMA SumsFrom ==
  ASSUME NEW Alphabet, NEW chars \in Seq(Alphabet), NEW F, IsSum(F, Worths(chars), Len(chars))
  PROVE  /\ \A p : F[From(chars, p)] \in Nat
         /\ F[From(chars, Len(chars) + 1)] = 0
         /\ \A p \in 1..Len(chars) :
              chars[p] \notin Digits => F[From(chars, p)] = F[From(chars, p + 1)]
<1>1. Len(chars) \in Nat
  OBVIOUS
<1>2. \A p : From(chars, p) \in SUBSET (1..Len(chars))
  BY DEF From, DigitPlaces
<1>3. From(chars, Len(chars) + 1) = {}
  BY <1>1 DEF From, DigitPlaces
<1>4. ASSUME NEW p \in 1..Len(chars), chars[p] \notin Digits
      PROVE  From(chars, p) = From(chars, p + 1)
  <2>1. \A i \in 1..Len(chars) : i # p => (i >= p <=> i >= p + 1)
    BY <1>1
  <2> QED
    BY <1>4, <2>1 DEF From, DigitPlaces
<1> QED
  BY <1>2, <1>3, <1>4 DEF IsSum

\* The claim is kept by each step of the scan,
LEMMA ScanComes ==
  ASSUME NEW Alphabet, NEW chars \in Seq(Alphabet), NEW F, IsSum(F, Worths(chars), Len(chars)),
         NEW i \in 1..(Len(chars) + 1), NEW f,
         LaterCome(chars, F, f, i)
  PROVE  Scan(chars, f, i) = Comes(chars, F, i)
<1> DEFINE N == Len(chars)
<1>1. N \in Nat /\ i \in Nat /\ 1 <= i /\ i <= N + 1
  <2>1. N \in Nat
    OBVIOUS
  <2> HIDE DEF N
  <2>2. i \in 1..(N + 1)
    BY DEF N
  <2> QED
    BY <2>1, <2>2
<1> HIDE DEF N
<1>2. CASE i > N
  <2>1. i = N + 1
    BY <1>1, <1>2
  <2>2. GoodFrom(chars, i)
    <3>1. i..N = {}
      BY <1>1, <2>1
    <3> QED
      BY <3>1 DEF GoodFrom, N
  <2>3. F[From(chars, i)] = 0
    BY <2>1, SumsFrom DEF N
  <2> QED
    BY <1>2, <2>2, <2>3 DEF Scan, Comes, N
<1>3. CASE i <= N /\ chars[i] = Blank
  <2>1. i \in 1..N /\ i + 1 \in (i + 1)..(N + 1) /\ ~(i > N)
    BY <1>1, <1>3
  <2>2. chars[i] \notin Digits /\ chars[i] \notin Units
    BY <1>3, DigitsAndUnits
  <2>3. GoodFrom(chars, i) <=> GoodFrom(chars, i + 1)
    <3>1. ASSUME GoodFrom(chars, i), NEW k \in (i + 1)..N, chars[k] \in Units PROVE k > i + 1
      <4>1. k # i + 1
        <5>1. k \in i..N /\ (k = i + 1 => k - 1 = i)
          BY <1>1, <3>1
        <5>2. chars[k - 1] \in Digits
          BY <3>1, <5>1 DEF GoodFrom, N
        <5> QED
          BY <2>2, <5>1, <5>2
      <4> QED
        BY <1>1, <4>1
    <3>2. \A k \in (i + 1)..N : k \in i..N
      BY <1>1
    <3>3. \A k \in i..N : k = i \/ k \in (i + 1)..N
      BY <1>1
    <3>4. \A k \in (i + 1)..N : k > i
      BY <1>1
    <3>5. GoodFrom(chars, i) => GoodFrom(chars, i + 1)
      BY <3>1, <3>2 DEF GoodFrom, N
    <3>6. GoodFrom(chars, i + 1) => GoodFrom(chars, i)
      BY <1>3, <2>2, <3>3, <3>4 DEF GoodFrom, N
    <3> QED
      BY <3>5, <3>6
  <2>4. F[From(chars, i)] = F[From(chars, i + 1)]
    BY <2>1, <2>2, SumsFrom DEF N
  <2>5. f[i + 1] = Comes(chars, F, i + 1)
    BY <2>1 DEF N, LaterCome
  <2> QED
    BY <1>3, <2>1, <2>3, <2>4, <2>5 DEF Scan, Comes, N
<1>4. CASE i <= N /\ chars[i] # Blank
  <2> DEFINE e == ScanDigits(chars, i)
  <2>1. /\ e \in Nat /\ i <= e /\ e <= N + 1
        /\ \A k \in i..(e - 1) : chars[k] \in Digits
        /\ e <= N => chars[e] \notin Digits
    <3>1. /\ e \in i..(N + 1)
          /\ \A k \in i..(e - 1) : chars[k] \in Digits
          /\ e <= N => chars[e] \notin Digits
      BY ScanEnds DEF N
    <3> HIDE DEF e
    <3>2. e \in Nat /\ i <= e /\ e <= N + 1
      BY <1>1, <3>1
    <3> QED
      BY <3>1, <3>2
  <2> HIDE DEF e
  <2>2. CASE e # i /\ e <= N /\ chars[e] \in Units
    <3>1. Run(chars, i, e) /\ e + 1 \in (i + 1)..(N + 1) /\ ~(e > N) /\ i \in 1..N /\ e \in 1..N
      <4>1. i < e /\ e + 1 \in (i + 1)..(N + 1) /\ ~(e > N) /\ i \in 1..N /\ e \in 1..N
        BY <1>1, <1>4, <2>1, <2>2
      <4> QED
        BY <2>1, <2>2, <4>1 DEF Run, N
    <3> DEFINE d == SubSeq(chars, i, e - 1)
               u == UnitSeconds[chars[e]]
    <3>2. Spells(d, chars, i, e)
      <4>1. e - 1 \in Nat /\ e - 1 >= i /\ e - 1 <= N /\ (e - 1) - i + 1 = e - i
        BY <1>1, <2>1, <2>2
      <4>2. d = [k \in 1..(e - i) |-> chars[i + k - 1]]
        BY <1>1, <4>1
      <4>3. \A k \in 1..(e - i) : i + k - 1 \in i..(e - 1)
        BY <1>1, <4>1
      <4>4. e - i \in Nat /\ \A k \in 1..(e - i) : chars[i + k - 1] \in Digits
        BY <1>1, <2>1, <4>1, <4>3
      <4> HIDE DEF d
      <4>5. d \in [1..(e - i) -> Digits]
        BY <4>2, <4>4
      <4> QED
        BY <4>2, <4>4, <4>5 DEF Spells
    <3> HIDE DEF d
    <3>3. F[From(chars, i)] = Number(d) * u + F[From(chars, e)]
      BY <3>1, <3>2, RunIsWorth
    <3>4. F[From(chars, e)] = F[From(chars, e + 1)]
      BY <2>1, <2>2, <3>1, SumsFrom DEF N
    <3>5. Number(d) \in Nat /\ u \in Nat
      <4>1. Number(d) \in Nat
        BY <3>2, NumberGrows DEF Spells
      <4> QED
        BY <2>2, <4>1, DigitsAndUnits
    <3>6. Number(d) * u \in Nat
      BY <3>5
    <3>7. Segment(chars, i, e) = Number(d) * u
      BY <2>2, <3>1 DEF Segment, d, N
    <3>8. GoodFrom(chars, i) <=> GoodFrom(chars, e + 1)
      <4>1. \A k \in (e + 1)..N : k \in i..N /\ k > i
        BY <1>1, <2>1
      <4>2. ASSUME GoodFrom(chars, i), NEW k \in (e + 1)..N, chars[k] \in Units PROVE k > e + 1
        <5>1. k \in i..N /\ (k = e + 1 => k - 1 = e)
          BY <1>1, <2>1, <4>1
        <5>2. chars[k - 1] \in Digits
          BY <4>2, <5>1 DEF GoodFrom, N
        <5>3. k # e + 1
          BY <2>1, <2>2, <5>1, <5>2
        <5> QED
          BY <1>1, <2>1, <5>3
      <4>3. GoodFrom(chars, i) => GoodFrom(chars, e + 1)
        BY <4>1, <4>2 DEF GoodFrom, N
      <4>4. ASSUME NEW k \in i..N PROVE k \in i..(e - 1) \/ k = e \/ k \in (e + 1)..N
        BY <1>1, <2>1
      <4>5. ASSUME NEW k \in i..(e - 1)
            PROVE  k < N /\ chars[k + 1] \in Digits \cup Units
        <5>1. k < N /\ (k + 1 \in i..(e - 1) \/ k + 1 = e)
          BY <1>1, <2>1, <2>2
        <5> QED
          BY <2>1, <2>2, <5>1
      <4>6. e > i /\ chars[e - 1] \in Digits
        <5>1. e - 1 \in i..(e - 1) /\ e > i
          BY <1>1, <2>1, <2>2
        <5> QED
          BY <2>1, <5>1
      <4>7. \A k \in i..(e - 1) : chars[k] \notin Units
        BY <2>1, DigitsAndUnits
      <4>8. GoodFrom(chars, e + 1) => GoodFrom(chars, i)
        BY <2>1, <2>2, <4>1, <4>4, <4>5, <4>6, <4>7 DEF GoodFrom, N
      <4> QED
        BY <4>3, <4>8
    <3>9. f[e + 1] = Comes(chars, F, e + 1)
      BY <3>1 DEF N, LaterCome
    <3>10. F[From(chars, e + 1)] \in Nat
      BY SumsFrom
    <3>11. Scan(chars, f, i)
             = IF f[e + 1] = Invalid THEN Invalid ELSE Number(d) * u + f[e + 1]
      <4>1. Number(d) * u # Invalid
        BY <3>6 DEF Invalid
      <4> QED
        BY <1>4, <3>1, <3>7, <4>1 DEF Scan, e, N
    <3>12. F[From(chars, e + 1)] # Invalid
      BY <3>10 DEF Invalid
    <3> HIDE DEF u
    <3> QED
      BY <3>3, <3>4, <3>8, <3>9, <3>11, <3>12 DEF Comes
  <2>3. CASE e = i \/ e > N \/ chars[e] \notin Units
    <3>1. Segment(chars, i, e) = Invalid
      BY <2>3 DEF Segment, N
    <3>2. Scan(chars, f, i) = Invalid
      BY <1>1, <1>4, <3>1 DEF Scan, e, N
    <3>3. ~GoodFrom(chars, i)
      <4>1. CASE e = i
        <5>1. chars[i] \notin Digits /\ i \in i..N
          BY <1>1, <1>4, <2>1, <4>1
        <5> QED
          BY <1>1, <1>4, <5>1 DEF GoodFrom, N
      <4>2. CASE e # i
        <5>1. e - 1 \in i..(e - 1) /\ e - 1 \in i..N /\ (e - 1) + 1 = e
          BY <1>1, <2>1, <4>2
        <5>2. chars[e - 1] \in Digits
          BY <2>1, <5>1
        <5>3. e - 1 < N => e <= N
          BY <1>1, <2>1
        <5> QED
          BY <2>1, <2>3, <4>2, <5>1, <5>2, <5>3 DEF GoodFrom, N
      <4> QED
        BY <4>1, <4>2
    <3> QED
      BY <3>2, <3>3 DEF Comes
  <2> QED
    BY <1>1, <2>1, <2>2, <2>3
<1> QED
  BY <1>1, <1>2, <1>3, <1>4

\* and so the scan comes to what is claimed, at every place;
LEMMA TextComes ==
  ASSUME NEW Alphabet, NEW chars \in Seq(Alphabet), chars # <<>>,
         NEW F, IsSum(F, Worths(chars), Len(chars))
  PROVE  ParseDurationText(chars) = Comes(chars, F, 1)
<1> DEFINE N == Len(chars)
           Is(f) == f = [i \in 1..(N + 1) |-> Scan(chars, f, i)]
           G == [i \in 1..(N + 1) |-> Comes(chars, F, i)]
           from == CHOOSE f : Is(f)
<1>1. N \in Nat /\ 1 \in 1..(N + 1)
  OBVIOUS
<1>2. ParseDurationText(chars) = from[1]
  BY DEF ParseDurationText, Scan
<1>3. \A f, i : LaterCome(chars, F, f, i) <=> \A j \in (i + 1)..(N + 1) : f[j] = Comes(chars, F, j)
  BY DEF LaterCome
<1>4. ASSUME NEW f, NEW i \in 1..(N + 1), LaterCome(chars, F, f, i)
      PROVE  Scan(chars, f, i) = Comes(chars, F, i)
  BY <1>4, ScanComes
<1> HIDE DEF N
<1>5. Is(G)
  <2>1. ASSUME NEW i \in 1..(N + 1) PROVE Scan(chars, G, i) = Comes(chars, F, i)
    <3>1. \A j \in (i + 1)..(N + 1) : j \in 1..(N + 1)
      BY <1>1
    <3>2. \A j \in (i + 1)..(N + 1) : G[j] = Comes(chars, F, j)
      BY <3>1
    <3> HIDE DEF G
    <3> QED
      BY <1>3, <1>4, <3>2
  <2> DEFINE H == [i \in 1..(N + 1) |-> Scan(chars, G, i)]
  <2>2. G = H
    <3> HIDE DEF G
    <3>1. G = [i \in 1..(N + 1) |-> Comes(chars, F, i)]
      BY DEF G
    <3> QED
      BY <2>1, <3>1
  <2> HIDE DEF G
  <2> QED
    BY <2>2
<1>6. Is(from)
  <2> HIDE DEF Is, G
  <2> QED
    BY <1>5, Zenon
<1> HIDE DEF from
<1>7. \A i \in 1..(N + 1) : from[i] = Scan(chars, from, i)
  BY <1>6, Zenon
<1>8. \A i \in 1..(N + 1) : from[i] = Comes(chars, F, i)
  <2> DEFINE S == {n \in Nat : \A i \in 1..(N + 1) :
                     N + 1 <= n + i => from[i] = Comes(chars, F, i)}
  <2>1. 0 \in S
    <3>1. SUFFICES ASSUME NEW i \in 1..(N + 1), N + 1 <= 0 + i PROVE from[i] = Comes(chars, F, i)
      OBVIOUS
    <3>2. (i + 1)..(N + 1) = {}
      BY <1>1, <3>1
    <3> QED
      BY <1>3, <1>4, <1>7, <3>2
  <2>2. ASSUME NEW n \in Nat, n \in S PROVE n + 1 \in S
    <3>1. SUFFICES ASSUME NEW i \in 1..(N + 1), N + 1 <= (n + 1) + i
                   PROVE  from[i] = Comes(chars, F, i)
      OBVIOUS
    <3>2. \A j \in (i + 1)..(N + 1) : j \in 1..(N + 1) /\ N + 1 <= n + j
      BY <1>1, <3>1
    <3>3. \A j \in (i + 1)..(N + 1) : from[j] = Comes(chars, F, j)
      BY <2>2, <3>2
    <3> QED
      BY <1>3, <1>4, <1>7, <3>3
  <2>3. N \in S
    <3> HIDE DEF S
    <3> QED
      BY <1>1, <2>1, <2>2, FromZero
  <2>4. \A i \in 1..(N + 1) : N + 1 <= N + i
    BY <1>1
  <2> QED
    BY <2>3, <2>4
<1> QED
  BY <1>1, <1>2, <1>8

\* such a sum of the worths there is,
LEMMA SumOfWorths ==
  ASSUME NEW Alphabet, NEW chars \in Seq(Alphabet)
  PROVE  \E F : IsSum(F, Worths(chars), Len(chars))
<1>1. Worths(chars) \in [1..Len(chars) -> Nat]
  BY DEF Worths
<1> QED
  BY <1>1, SumsAre

\* in a well-formed text each digit is of a run that ends with its unit,
LEMMA DigitsRun ==
  ASSUME NEW Alphabet, NEW chars \in Seq(Alphabet), GoodFrom(chars, 1), NEW k \in DigitPlaces(chars)
  PROVE  Run(chars, k, ScanDigits(chars, k))
<1> DEFINE e == ScanDigits(chars, k)
           N == Len(chars)
<1>1. N \in Nat /\ k \in 1..N /\ chars[k] \in Digits
  BY DEF DigitPlaces
<1>2. /\ e \in k..(N + 1)
      /\ \A j \in k..(e - 1) : chars[j] \in Digits
      /\ e <= N => chars[e] \notin Digits
  <2>1. k \in 1..(N + 1)
    BY <1>1
  <2> HIDE DEF e
  <2> QED
    BY <2>1, ScanEnds DEF e
<1> HIDE DEF e, N
<1>3. e # k
  <2>1. k <= N
    BY <1>1
  <2> QED
    BY <1>1, <1>2, <2>1
<1>4. e - 1 \in k..(e - 1) /\ e - 1 \in 1..N /\ (e - 1) + 1 = e /\ k < e
  BY <1>1, <1>2, <1>3
<1>5. e - 1 < N /\ chars[e] \in Digits \cup Units
  BY <1>2, <1>4 DEF GoodFrom, N
<1>6. e <= N /\ e \in 1..N
  BY <1>1, <1>4, <1>5
<1> QED
  BY <1>1, <1>2, <1>4, <1>5, <1>6 DEF Run, N, e

\* and the reference is that sum, if the text is well-formed.
LEMMA ReferenceComes ==
  ASSUME NEW Alphabet, NEW chars \in Seq(Alphabet), GoodFrom(chars, 1),
         NEW F, IsSum(F, Worths(chars), Len(chars))
  PROVE  Reference(chars) = F[From(chars, 1)]
<1>1. ASSUME NEW k \in DigitPlaces(chars)
      PROVE  Worth(chars, k) \in Nat /\ Worths(chars)[k] = Worth(chars, k)
  <2> DEFINE e == ScanDigits(chars, k)
  <2>1. Run(chars, k, e)
    BY DigitsRun
  <2> HIDE DEF e
  <2>2. k \in k..(e - 1)
    BY <2>1 DEF Run
  <2>3. Worth(chars, k) \in Nat
    BY <2>1, <2>2, WorthIs
  <2> QED
    BY <2>3 DEF Worths, DigitPlaces
<1>2. From(chars, 1) = DigitPlaces(chars)
  BY DEF From, DigitPlaces
<1> QED
  BY <1>1, <1>2, ReferenceIsSum

-----------------------------------------------------------------------------
\* Durations: the text without the blanks around it.

\* t is text from a on, up to its last character that is not blank.
Within(chars, t, a) ==
  /\ a \in Nat \ {0} /\ Len(t) > 0 /\ a + Len(t) <= Len(chars) + 1
  /\ \A k \in 1..Len(t) : t[k] = chars[a + k - 1]
  /\ t[1] # Blank
  /\ \A i \in 1..Len(chars) : i < a \/ i >= a + Len(t) => chars[i] = Blank

\* What trim leaves is such a text,
LEMMA TrimmedIs ==
  ASSUME NEW Alphabet, NEW chars \in Seq(Alphabet), \E i \in 1..Len(chars) : chars[i] # Blank
  PROVE  /\ Trimmed(chars) \in Seq(Alphabet)
         /\ \E a : Within(chars, Trimmed(chars), a)
<1> DEFINE N == Len(chars)
           inner == {i \in 1..N : chars[i] # Blank}
           a == Min(inner)
           b == Max(inner)
           t == [k \in 1..(b - a + 1) |-> chars[a + k - 1]]
<1>1. N \in Nat /\ inner # {} /\ inner \in SUBSET Nat /\ inner \in SUBSET (0..N)
  <2>1. N \in Nat
    OBVIOUS
  <2> HIDE DEF N
  <2> QED
    BY <2>1 DEF N
<1>2. Trimmed(chars) = SubSeq(chars, a, b)
  BY <1>1 DEF Trimmed
<1>3. /\ a \in inner /\ \A i \in inner : a <= i
      /\ b \in inner /\ \A i \in inner : i <= b
  <2> HIDE DEF inner
  <2> QED
    BY <1>1, MinIs, MaxIs
<1> HIDE DEF a, b
<1>4. a \in 1..N /\ b \in 1..N /\ a <= b /\ chars[a] # Blank
  BY <1>3
<1>5. \A i \in 1..N : i < a \/ i > b => chars[i] = Blank
  <2> SUFFICES ASSUME NEW i \in 1..N, i < a \/ i > b, chars[i] # Blank PROVE FALSE
    OBVIOUS
  <2>1. i \in inner /\ i \in Nat
    BY <1>1
  <2> HIDE DEF inner
  <2> QED
    BY <1>3, <1>4, <2>1
<1> HIDE DEF N
<1>6. Trimmed(chars) = t
  <2>1. SubSeq(chars, a, b) = t
    BY <1>1, <1>4
  <2> QED
    BY <1>2, <2>1
<1>7. b - a + 1 \in Nat /\ b - a + 1 > 0 /\ a + (b - a + 1) <= N + 1 /\ a \in Nat \ {0}
  BY <1>1, <1>4
<1>8. \A k \in 1..(b - a + 1) : chars[a + k - 1] \in Alphabet
  <2>1. \A k \in 1..(b - a + 1) : a + k - 1 \in 1..N
    BY <1>1, <1>4
  <2> QED
    BY <2>1 DEF N
<1>9. t \in Seq(Alphabet) /\ Len(t) = b - a + 1
  BY <1>7, <1>8
<1>10. t[1] = chars[a]
  <2>1. 1 \in 1..(b - a + 1) /\ a + 1 - 1 = a
    BY <1>7, <1>4
  <2> QED
    BY <2>1
<1>11. \A k \in 1..(b - a + 1) : t[k] = chars[a + k - 1]
  OBVIOUS
<1>12. \A i \in 1..N : i >= a + (b - a + 1) => i > b
  BY <1>1, <1>4
<1> HIDE DEF t
<1>13. Within(chars, t, a)
  BY <1>4, <1>5, <1>7, <1>9, <1>10, <1>11, <1>12 DEF Within, N
<1> QED
  BY <1>6, <1>9, <1>13

\* well-formed when the whole is,
LEMMA GoodAlike ==
  ASSUME NEW Alphabet, NEW chars \in Seq(Alphabet), NEW t \in Seq(Alphabet), NEW a,
         Within(chars, t, a)
  PROVE  GoodFrom(chars, 1) <=> GoodFrom(t, 1)
<1> DEFINE N == Len(chars)
           L == Len(t)
<1>1. N \in Nat /\ L \in Nat /\ a \in Nat \ {0} /\ L > 0 /\ a + L <= N + 1
  BY DEF Within
<1> HIDE DEF N, L
<1>2. \A k \in 1..L : t[k] = chars[a + k - 1]
  BY DEF Within, L
<1>3. \A i \in 1..N : i < a \/ i >= a + L => chars[i] = Blank
  BY DEF Within, L, N
<1>4. Blank \notin Digits /\ Blank \notin Units /\ Digits \cap Units = {}
  BY DigitsAndUnits
<1>5. ASSUME GoodFrom(chars, 1), NEW k \in 1..L
      PROVE  /\ t[k] \in Digits \cup Units \cup {Blank}
             /\ t[k] \in Digits => k < L /\ t[k + 1] \in Digits \cup Units
             /\ t[k] \in Units => k > 1 /\ t[k - 1] \in Digits
  <2> DEFINE i == a + k - 1
  <2>1. i \in 1..N /\ t[k] = chars[i]
    BY <1>1, <1>2
  <2>2. /\ chars[i] \in Digits \cup Units \cup {Blank}
        /\ chars[i] \in Digits => i < N /\ chars[i + 1] \in Digits \cup Units
        /\ chars[i] \in Units => i > 1 /\ chars[i - 1] \in Digits
    BY <1>5, <2>1 DEF GoodFrom, N
  <2>3. ASSUME t[k] \in Digits PROVE k < L /\ t[k + 1] \in Digits \cup Units
    <3>1. i < N /\ chars[i + 1] \in Digits \cup Units
      BY <2>1, <2>2, <2>3
    <3>2. i + 1 \in 1..N /\ ~(i + 1 >= a + L)
      <4>1. i + 1 \in 1..N
        BY <2>1, <3>1, <1>1
      <4>2. chars[i + 1] # Blank
        BY <1>4, <3>1
      <4> QED
        BY <1>3, <4>1, <4>2
    <3>3. k < L /\ k + 1 \in 1..L /\ a + (k + 1) - 1 = i + 1
      BY <1>1, <3>2
    <3> QED
      BY <1>2, <3>1, <3>3
  <2>4. ASSUME t[k] \in Units PROVE k > 1 /\ t[k - 1] \in Digits
    <3>1. i > 1 /\ chars[i - 1] \in Digits
      BY <2>1, <2>2, <2>4
    <3>2. ~(i - 1 < a)
      <4>1. i - 1 \in 1..N
        BY <2>1, <3>1, <1>1
      <4>2. chars[i - 1] # Blank
        BY <1>4, <3>1
      <4> QED
        BY <1>3, <4>1, <4>2
    <3>3. k > 1 /\ k - 1 \in 1..L /\ a + (k - 1) - 1 = i - 1
      BY <1>1, <3>2
    <3> QED
      BY <1>2, <3>1, <3>3
  <2> QED
    BY <2>1, <2>2, <2>3, <2>4
<1>6. ASSUME GoodFrom(t, 1), NEW i \in 1..N
      PROVE  /\ chars[i] \in Digits \cup Units \cup {Blank}
             /\ chars[i] \in Digits => i < N /\ chars[i + 1] \in Digits \cup Units
             /\ chars[i] \in Units => i > 1 /\ chars[i - 1] \in Digits
  <2>1. CASE i < a \/ i >= a + L
    BY <1>3, <1>4, <2>1
  <2>2. CASE ~(i < a) /\ ~(i >= a + L)
    <3> DEFINE k == i - a + 1
    <3>1. k \in 1..L /\ a + k - 1 = i
      BY <1>1, <2>2
    <3>2. t[k] = chars[i]
      BY <1>2, <3>1
    <3>3. /\ t[k] \in Digits \cup Units \cup {Blank}
          /\ t[k] \in Digits => k < L /\ t[k + 1] \in Digits \cup Units
          /\ t[k] \in Units => k > 1 /\ t[k - 1] \in Digits
      BY <1>6, <3>1 DEF GoodFrom, L
    <3>4. ASSUME k < L PROVE i < N /\ t[k + 1] = chars[i + 1]
      <4>1. k + 1 \in 1..L /\ a + (k + 1) - 1 = i + 1 /\ i < N
        BY <1>1, <3>1, <3>4
      <4> QED
        BY <1>2, <4>1
    <3>5. ASSUME k > 1 PROVE i > 1 /\ t[k - 1] = chars[i - 1]
      <4>1. k - 1 \in 1..L /\ a + (k - 1) - 1 = i - 1 /\ i > 1
        BY <1>1, <3>1, <3>5
      <4> QED
        BY <1>2, <4>1
    <3> QED
      BY <3>2, <3>3, <3>4, <3>5
  <2> QED
    BY <2>1, <2>2
<1>7. GoodFrom(chars, 1) => GoodFrom(t, 1)
  BY <1>5 DEF GoodFrom, L
<1>8. GoodFrom(t, 1) => GoodFrom(chars, 1)
  BY <1>6 DEF GoodFrom, N
<1> QED
  BY <1>7, <1>8

\* and worth as much.
LEMMA ReferenceAlike ==
  ASSUME NEW Alphabet, NEW chars \in Seq(Alphabet), NEW t \in Seq(Alphabet), NEW a,
         Within(chars, t, a),
         GoodFrom(chars, 1)
  PROVE  Reference(t) = Reference(chars)
<1> DEFINE N == Len(chars)
           L == Len(t)
<1>1. N \in Nat /\ L \in Nat /\ a \in Nat \ {0} /\ L > 0 /\ a + L <= N + 1
  BY DEF Within
<1>2. GoodFrom(t, 1)
  BY GoodAlike
<1>3. PICK F : IsSum(F, Worths(chars), Len(chars))
  BY SumOfWorths
<1>4. PICK H : IsSum(H, Worths(t), Len(t))
  BY SumOfWorths
<1>5. Reference(chars) = F[From(chars, 1)] /\ Reference(t) = H[From(t, 1)]
  BY <1>2, <1>3, <1>4, ReferenceComes
<1> HIDE DEF N, L
<1>6. \A k \in 1..L : t[k] = chars[a + k - 1] /\ a + k - 1 \in 1..N
  <2>1. \A k \in 1..L : t[k] = chars[a + k - 1]
    BY DEF Within, L
  <2>2. \A k \in 1..L : a + k - 1 \in 1..N
    BY <1>1
  <2> QED
    BY <2>1, <2>2
<1>7. \A i \in 1..N : i < a \/ i >= a + L => chars[i] \notin Digits
  BY DigitsAndUnits DEF Within, L, N
<1>8. ASSUME NEW k \in 1..L, t[k] \in Digits
      PROVE  Worths(t)[k] = Worths(chars)[a + k - 1]
  <2> DEFINE e == ScanDigits(t, k)
  <2>1. k \in DigitPlaces(t)
    BY <1>8 DEF DigitPlaces, L
  <2>2. Run(t, k, e)
    BY <1>2, <2>1, DigitsRun
  <2> HIDE DEF e
  <2>3. /\ k \in 1..L /\ e \in 1..L /\ k < e
        /\ \A j \in k..(e - 1) : t[j] \in Digits
        /\ t[e] \in Units
    BY <2>2 DEF Run, L
  <2>4. \A j \in (a + k - 1)..((a + e - 1) - 1) : chars[j] \in Digits
    <3> SUFFICES ASSUME NEW j \in (a + k - 1)..((a + e - 1) - 1) PROVE chars[j] \in Digits
      OBVIOUS
    <3>1. j - a + 1 \in k..(e - 1) /\ j - a + 1 \in 1..L /\ a + (j - a + 1) - 1 = j
      BY <1>1, <2>3
    <3> QED
      BY <1>6, <2>3, <3>1
  <2>5. Run(chars, a + k - 1, a + e - 1)
    <3>1. a + k - 1 \in 1..N /\ a + e - 1 \in 1..N /\ a + k - 1 < a + e - 1
      BY <1>1, <2>3
    <3>2. chars[a + e - 1] \in Units
      BY <1>6, <2>3
    <3> QED
      BY <2>4, <3>1, <3>2 DEF Run, N
  <2>6. k \in k..(e - 1) /\ a + k - 1 \in (a + k - 1)..((a + e - 1) - 1)
        /\ (a + e - 1) - (a + k - 1) - 1 = e - k - 1
    BY <1>1, <2>3
  <2>7. /\ Worth(t, k) = DigitValue[t[k]] * PowerOfTen[e - k - 1] * UnitSeconds[t[e]]
        /\ Worth(t, k) \in Nat
    BY <2>2, <2>6, WorthIs
  <2>8. /\ Worth(chars, a + k - 1) = DigitValue[chars[a + k - 1]]
             * PowerOfTen[(a + e - 1) - (a + k - 1) - 1] * UnitSeconds[chars[a + e - 1]]
        /\ a + k - 1 \in DigitPlaces(chars)
    BY <2>5, <2>6, WorthIs
  <2>9. Worth(chars, a + k - 1) = Worth(t, k)
    BY <1>6, <2>3, <2>6, <2>7, <2>8
  <2> QED
    BY <2>1, <2>7, <2>8, <2>9 DEF Worths, DigitPlaces
<1>9. \A k \in 1..(L + 1) : H[From(t, k)] = F[From(chars, a + k - 1)]
  <2> DEFINE S == {n \in Nat : \A k \in 1..(L + 1) :
                     L + 1 <= n + k => H[From(t, k)] = F[From(chars, a + k - 1)]}
  <2>1. H[From(t, L + 1)] = 0 /\ F[From(chars, a + (L + 1) - 1)] = 0
    <3>1. H[From(t, L + 1)] = 0
      BY <1>4, SumsFrom DEF L
    <3>2. From(chars, a + (L + 1) - 1) = {}
      <4>1. a + (L + 1) - 1 = a + L
        BY <1>1
      <4>2. \A i \in 1..N : i >= a + L => chars[i] \notin Digits
        BY <1>7
      <4> QED
        BY <4>1, <4>2 DEF From, DigitPlaces, N
    <3> QED
      BY <1>3, <3>1, <3>2 DEF IsSum
  <2>2. 0 \in S
    <3>1. \A k \in 1..(L + 1) : L + 1 <= 0 + k => k = L + 1
      BY <1>1
    <3> QED
      BY <2>1, <3>1
  <2>3. ASSUME NEW n \in Nat, n \in S PROVE n + 1 \in S
    <3>1. SUFFICES ASSUME NEW k \in 1..(L + 1), L + 1 <= (n + 1) + k
                   PROVE  H[From(t, k)] = F[From(chars, a + k - 1)]
      OBVIOUS
    <3>2. CASE k = L + 1
      BY <2>1, <3>2
    <3>3. CASE k # L + 1
      <4>1. k \in 1..L /\ k + 1 \in 1..(L + 1) /\ L + 1 <= n + (k + 1)
            /\ a + (k + 1) - 1 = (a + k - 1) + 1
        BY <1>1, <3>1, <3>3
      <4>2. H[From(t, k + 1)] = F[From(chars, (a + k - 1) + 1)]
        BY <2>3, <4>1
      <4>3. CASE t[k] \in Digits
        <5>1. k \in From(t, k) /\ From(t, k) \in SUBSET (1..Len(t))
          BY <1>1, <4>1, <4>3 DEF From, DigitPlaces, L
        <5>2. From(t, k) \ {k} = From(t, k + 1)
          <6>1. \A i \in Nat : i >= k /\ i # k <=> i >= k + 1
            BY <1>1, <4>1
          <6>2. \A i \in 1..Len(t) : i \in Nat
            OBVIOUS
          <6> QED
            BY <6>1, <6>2 DEF From, DigitPlaces
        <5> DEFINE q == a + k - 1
        <5>3. q \in 1..N /\ chars[q] \in Digits /\ q \in Nat
          BY <1>1, <1>6, <4>1, <4>3
        <5> HIDE DEF q
        <5>4. q \in From(chars, q) /\ From(chars, q) \in SUBSET (1..Len(chars))
          BY <1>1, <5>3 DEF From, DigitPlaces, N
        <5>5. From(chars, q) \ {q} = From(chars, q + 1)
          <6>1. \A i \in Nat : i >= q /\ i # q <=> i >= q + 1
            BY <5>3
          <6>2. \A i \in 1..Len(chars) : i \in Nat
            OBVIOUS
          <6> QED
            BY <6>1, <6>2 DEF From, DigitPlaces
        <5>6. H[From(t, k)] = Worths(t)[k] + H[From(t, k + 1)]
          BY <1>4, <5>1, <5>2 DEF IsSum
        <5>7. F[From(chars, q)] = Worths(chars)[q] + F[From(chars, q + 1)]
          BY <1>3, <5>4, <5>5 DEF IsSum
        <5> QED
          BY <1>8, <4>1, <4>2, <4>3, <5>6, <5>7 DEF q
      <4>4. CASE t[k] \notin Digits
        <5>1. H[From(t, k)] = H[From(t, k + 1)]
          BY <1>4, <4>1, <4>4, SumsFrom DEF L
        <5>2. a + k - 1 \in 1..N /\ chars[a + k - 1] \notin Digits
          BY <1>6, <4>1, <4>4
        <5>3. F[From(chars, a + k - 1)] = F[From(chars, (a + k - 1) + 1)]
          BY <1>3, <5>2, SumsFrom DEF N
        <5> QED
          BY <4>2, <5>1, <5>3
      <4> QED
        BY <4>3, <4>4
    <3> QED
      BY <3>2, <3>3
  <2>4. L \in S
    <3> HIDE DEF S
    <3> QED
      BY <1>1, <2>2, <2>3, FromZero
  <2>5. \A k \in 1..(L + 1) : L + 1 <= L + k
    BY <1>1
  <2> QED
    BY <2>4, <2>5
<1>10. From(chars, a + 1 - 1) = From(chars, 1)
  <2>1. \A i \in 1..N : chars[i] \in Digits => i >= a + 1 - 1 /\ i >= 1
    <3> SUFFICES ASSUME NEW i \in 1..N, chars[i] \in Digits PROVE i >= a + 1 - 1 /\ i >= 1
      OBVIOUS
    <3>1. ~(i < a)
      BY <1>7
    <3> QED
      BY <1>1, <3>1
  <2> QED
    BY <2>1 DEF From, DigitPlaces, N
<1> QED
  <2>1. 1 \in 1..(L + 1)
    BY <1>1
  <2> QED
    BY <1>5, <1>9, <1>10, <2>1

\* A text is read as the reference has it, or refused.
LEMMA TextIsRead ==
  ASSUME NEW Alphabet, NEW chars \in Seq(Alphabet)
  PROVE  /\ WellFormed(chars) => ParseDurationText(Trimmed(chars)) = Reference(chars)
         /\ ~WellFormed(chars) => ParseDurationText(Trimmed(chars)) = Invalid
<1>1. WellFormed(chars) <=> (\E i \in 1..Len(chars) : chars[i] # Blank) /\ GoodFrom(chars, 1)
  BY DEF WellFormed, GoodFrom
<1>2. CASE \A i \in 1..Len(chars) : chars[i] = Blank
  <2>1. Trimmed(chars) = <<>>
    BY <1>2 DEF Trimmed
  <2> QED
    BY <1>1, <1>2, <2>1 DEF ParseDurationText
<1>3. CASE \E i \in 1..Len(chars) : chars[i] # Blank
  <2> DEFINE t == Trimmed(chars)
  <2>1. t \in Seq(Alphabet) /\ \E a : Within(chars, t, a)
    BY <1>3, TrimmedIs
  <2> HIDE DEF t
  <2>2. PICK a : Within(chars, t, a)
    BY <2>1
  <2>3. t # <<>>
    BY <2>1, <2>2 DEF Within
  <2>4. PICK F : IsSum(F, Worths(t), Len(t))
    BY <2>1, SumOfWorths
  <2>5. ParseDurationText(t) = Comes(t, F, 1)
    BY <2>1, <2>3, <2>4, TextComes
  <2>6. GoodFrom(chars, 1) <=> GoodFrom(t, 1)
    BY <2>1, <2>2, GoodAlike
  <2>7. GoodFrom(t, 1) => Reference(t) = F[From(t, 1)]
    BY <2>1, <2>4, ReferenceComes
  <2>8. GoodFrom(chars, 1) => Reference(t) = Reference(chars)
    BY <2>1, <2>2, ReferenceAlike
  <2> QED
    BY <1>1, <1>3, <2>5, <2>6, <2>7, <2>8 DEF Comes, t
<1> QED
  BY <1>2, <1>3

\* The fields that are given to the engine are as many seconds.
LEMMA FieldsAreSeconds ==
  ASSUME NEW whole \in Nat
  PROVE  DurationSeconds(SecondsToDuration(whole)) = whole
<1>1. whole = (whole \div 86400) * 86400 + (whole % 86400)
  OBVIOUS
<1>2. whole % 86400 = ((whole % 86400) \div 3600) * 3600 + (whole % 3600)
  OBVIOUS
<1>3. whole % 3600 = ((whole % 3600) \div 60) * 60 + (whole % 60)
  OBVIOUS
<1>4. /\ SecondsToDuration(whole).days = whole \div 86400
      /\ SecondsToDuration(whole).hours = (whole % 86400) \div 3600
      /\ SecondsToDuration(whole).minutes = (whole % 3600) \div 60
      /\ SecondsToDuration(whole).seconds = whole % 60
  BY DEF SecondsToDuration
<1>5. /\ whole \div 86400 \in Nat /\ (whole % 86400) \div 3600 \in Nat
      /\ (whole % 3600) \div 60 \in Nat /\ whole % 60 \in Nat /\ whole % 3600 \in Nat
      /\ whole % 86400 \in Nat
  OBVIOUS
<1> QED
  BY <1>1, <1>2, <1>3, <1>4, <1>5 DEF DurationSeconds

-----------------------------------------------------------------------------
\* A text is read as it is meant, for a wait: one that comes to too much, or to
\* nothing, is refused as one that is no duration.
LEMMA TextIsWaited == text \in Seq(Characters) => ReadsDurations
<1> SUFFICES ASSUME text \in Seq(Characters) PROVE ReadsDurations
  OBVIOUS
<1> DEFINE read == ParseDurationText(Trimmed(text))
<1>1. \A seconds : Waitable(seconds) => seconds \in Nat
  BY DEF Waitable
<1>2. ~Waitable(Invalid)
  <2>1. Invalid \notin Nat
    BY DEF Invalid
  <2> QED
    BY <1>1, <2>1
<1>3. WellFormed(text) => read = Reference(text)
  BY TextIsRead
<1>4. ~WellFormed(text) => read = Invalid
  BY TextIsRead
<1> HIDE DEF read
<1>5. CASE WellFormed(text) /\ Waitable(Reference(text))
  <2>1. DurationSeconds(SecondsToDuration(read)) = read
    BY <1>1, <1>3, <1>5, FieldsAreSeconds
  <2> QED
    BY <1>3, <1>5, <2>1 DEF ReadsDurations, read
<1>6. CASE ~(WellFormed(text) /\ Waitable(Reference(text)))
  <2>1. ~Waitable(read)
    BY <1>2, <1>3, <1>4, <1>6
  <2> QED
    BY <1>6, <2>1 DEF ReadsDurations, read
<1> QED
  BY <1>5, <1>6

\* Any text of any characters is read as the sum of its numbers, each in its unit,
\* or refused; and what is read is split into fields that come to as much.
THEOREM DurationsAreRead == PartsSpec => []ReadsDurations
<1> DEFINE IsText == text \in Seq(Characters)
<1>1. PartsInit => IsText
  <2> SUFFICES ASSUME PartsInit PROVE IsText
    OBVIOUS
  <2>1. PICK n \in (IF part = "duration" THEN 0..MaxLength ELSE {0}) :
          text \in [1..n -> Characters]
    BY DEF PartsInit
  <2>2. n \in Nat
    BY <2>1, PartsAssumption
  <2> QED
    BY <2>1, <2>2
<1>2. IsText /\ [PartsNext]_all => IsText'
  BY DEF PartsNext, OfContexts, OfRequest, OfDurations, OfListeners, all
<1>3. IsText => ReadsDurations
  BY TextIsWaited
<1> QED
  BY <1>1, <1>2, <1>3, PTL DEF PartsSpec

\* Both parts: a request of a workflow goes on through an outage and ends in its
\* time, and a wait is as long as it was written.
THEOREM TakesTheTimeMeant == PartsSpec => []TakesItsTime
<1>1. Request!Patience /\ ReadsDurations => TakesItsTime
  BY DEF TakesItsTime
<1> QED
  BY <1>1, RequestsArePatient, DurationsAreRead, PTL
=================================================================================
