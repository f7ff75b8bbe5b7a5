------------------------------ MODULE AuthListeners ------------------------------
(***************************************************************************)
(* Who is signed in, and what the callbacks of onAuthStateChange were told *)
(* of it.  A session begins by sign-in, with tokens found in storage, with *)
(* tokens in the address of the page, or is set in memory; of the last     *)
(* three the client does not know the user before it has asked.            *)
(*                                                                         *)
(* A notification runs the callbacks one after the other, and each of them *)
(* may subscribe, unsubscribe, set a session or begin a call; answers wait *)
(* until it is over.                                                       *)
(***************************************************************************)
EXTENDS Naturals, SequencesExt

CONSTANTS Users, Listeners, MaxListening, MaxSessions, MaxActs

VARIABLES
  born,       \* how the client began: "empty", "stored" or "adopted"
  holder,      \* whose tokens the client has
  current,    \* currentUser
  generation, \* _sessionGeneration
  unannounced, \* _pendingUrlAuthNotify
  hash,       \* whose tokens wait in the address
  callbacks,  \* _authCallbacks
  notice,     \* the notification under way: what it says, who is still to be told
  told,       \* what each callback was last told
  quiet,      \* a session began without a notification
  found,      \* a getUser found the user of the session
  announced,  \* how often getUser announced the session
  calls,      \* calls in flight, by place
  acts        \* how often callbacks were subscribed and unsubscribed

listenerVars ==
  <<born, holder, current, generation, unannounced, hash, callbacks, notice, told, quiet, found,
    announced, calls, acts>>

Places == 1..MaxListening
Nobody == "nobody"
NoCall == [op |-> "none", gen |-> 0, owner |-> Nobody, adopted |-> FALSE]
ofClient == <<born, holder, current, generation, unannounced>>
Quietly == UNCHANGED <<callbacks, notice, told>>
Stays == Quietly /\ UNCHANGED <<holder, current, generation, unannounced, quiet, found, announced>>

ListenersInit ==
  /\ born \in {"empty", "stored", "adopted"}
  /\ holder \in IF born = "empty" THEN {Nobody} ELSE Users
  /\ hash \in IF born = "empty" THEN Users \cup {Nobody} ELSE {Nobody}
  /\ unannounced = (born = "adopted") /\ quiet = (born = "stored")
  /\ generation = IF born = "adopted" THEN 1 ELSE 0
  /\ current = Nobody /\ callbacks = <<>> /\ notice = [user |-> Nobody, left |-> <<>>]
  /\ told = [l \in Listeners |-> Nobody] /\ found = FALSE /\ announced = 0
  /\ calls = [c \in Places |-> NoCall] /\ acts = 0

-----------------------------------------------------------------------------
\* notifyAuthCallbacks: a snapshot of the callbacks is told, even those that one
\* of them unsubscribes.
Notifies(user) ==
  /\ quiet' = FALSE
  /\ UNCHANGED callbacks
  /\ IF callbacks = <<>> THEN UNCHANGED <<notice, told>>
     ELSE /\ told' = [told EXCEPT ![Head(callbacks)] = user]
          /\ notice' = [user |-> user, left |-> Tail(callbacks)]

TellsNext ==
  /\ notice.left # <<>>
  /\ told' = [told EXCEPT ![Head(notice.left)] = notice.user]
  /\ notice' = [notice EXCEPT !.left = Tail(@)]
  /\ UNCHANGED <<ofClient, hash, callbacks, quiet, found, announced, calls, acts>>

\* onAuthStateChange
Subscribe(l) ==
  /\ acts < MaxActs /\ \A i \in DOMAIN callbacks : callbacks[i] # l
  /\ acts' = acts + 1
  /\ callbacks' = Append(callbacks, l) /\ told' = [told EXCEPT ![l] = current]
  /\ UNCHANGED <<ofClient, hash, notice, quiet, found, announced, calls>>

\* The function that onAuthStateChange returned is called; the list has l once.
Unsubscribe(l) ==
  /\ acts < MaxActs /\ acts' = acts + 1
  /\ \E i \in DOMAIN callbacks : callbacks[i] = l /\ callbacks' = RemoveAt(callbacks, i)
  /\ UNCHANGED <<ofClient, hash, notice, told, quiet, found, announced, calls>>

NewSession(u) ==
  /\ holder' = u /\ current' = u /\ generation' = generation + 1
  /\ unannounced' = FALSE /\ found' = FALSE /\ announced' = 0

\* setSession and _adoptSessionInMemory: nobody is told.
SetInMemory(u) ==
  /\ generation < MaxSessions
  /\ NewSession(u) /\ quiet' = TRUE
  /\ Quietly /\ UNCHANGED <<born, hash, calls, acts>>

SigningOut == \E d \in Places : calls[d].op = "signOut" /\ calls[d].gen = generation

\* A call begins: of what is in the address, getUser takes the session first.
Begins(c, op) ==
  /\ calls[c] = NoCall
  /\ op \in {"refresh", "signOut"} => ~SigningOut
  /\ op = "refresh" =>
       \A d \in Places : calls[d].op = "refresh" => calls[d].gen # generation
  /\ LET adopted == op = "getUser" /\ hash # Nobody
         who == IF adopted THEN hash ELSE holder
         now == IF adopted THEN generation + 1 ELSE generation
     IN /\ who # Nobody \/ op \in {"signIn", "signUp"}
        /\ adopted => generation < MaxSessions
        /\ calls' = [calls EXCEPT ![c] =
             [op |-> op, gen |-> now, owner |-> who, adopted |-> adopted]]
        /\ generation' = now /\ holder' = who
        /\ IF adopted
           THEN hash' = Nobody /\ current' = Nobody /\ quiet' = TRUE /\ found' = FALSE /\ announced' = 0
           ELSE UNCHANGED <<hash, current, quiet, found, announced>>
  /\ Quietly /\ UNCHANGED <<born, unannounced, acts>>

Fails(c) ==
  /\ notice.left = <<>> /\ calls[c].op \notin {"none", "signOut"}
  /\ calls' = [calls EXCEPT ![c] = NoCall]
  /\ Quietly /\ UNCHANGED <<ofClient, hash, quiet, found, announced, acts>>

\* Mutant: an answer is taken whatever session there is by now.
MutIsCurrent(call) == TRUE

IsCurrent(call) == call.gen = generation
IsUser(call) == IsCurrent(call) /\ current \in {Nobody, call.owner}

\* getUser tells of the session that came with the address, when that was not done.
Announces(call) == call.adopted \/ unannounced

\* An answer of a session that is over changes nothing.
UserAnswered(c) ==
  /\ notice.left = <<>> /\ calls[c].op = "getUser"
  /\ calls' = [calls EXCEPT ![c] = NoCall]
  /\ IF ~IsUser(calls[c])
     THEN Quietly /\ UNCHANGED <<current, unannounced, quiet, found, announced>>
     ELSE /\ current' = calls[c].owner /\ found' = TRUE
          /\ IF Announces(calls[c])
             THEN unannounced' = FALSE /\ announced' = announced + 1 /\ Notifies(calls[c].owner)
             ELSE Quietly /\ UNCHANGED <<unannounced, quiet, announced>>
  /\ UNCHANGED <<born, holder, generation, hash, acts>>

\* A profile is answered, and taken if it is that of who is signed in.
Takes(c, own) ==
  /\ notice.left = <<>> /\ calls[c].op = "profile"
  /\ calls' = [calls EXCEPT ![c] = NoCall]
  /\ current' = IF own THEN calls[c].owner ELSE current
  /\ Quietly
  /\ UNCHANGED <<born, holder, generation, unannounced, hash, quiet, found, announced, acts>>

\* updateUser
UserUpdated(c) == Takes(c, IsUser(calls[c]))

\* adoptedUser of confirmEmailChange and convertAnonymous, which asks for the session alone.
ProfileAnswered(c) == Takes(c, IsCurrent(calls[c]))

\* setSession of the session's state: sign-in, also after sign-up or anonymous,
\* and the exchange of a provider's code.
SignedIn(c, u) ==
  /\ notice.left = <<>> /\ calls[c].op = "signIn" /\ generation < MaxSessions
  /\ calls' = [calls EXCEPT ![c] = NoCall]
  /\ IF IsCurrent(calls[c]) THEN NewSession(u) /\ Notifies(u) ELSE Stays
  /\ UNCHANGED <<born, hash, acts>>

\* finishSignUp: sign-in follows when it is wanted and the platform asks for no
\* confirmation.  Only then is it captured which session it is to replace.
SignedUp(c, signsIn) ==
  /\ notice.left = <<>> /\ calls[c].op = "signUp"
  /\ calls' = [calls EXCEPT ![c] =
       IF signsIn THEN [@ EXCEPT !.op = "signIn", !.gen = generation] ELSE NoCall]
  /\ Stays /\ UNCHANGED <<born, hash, acts>>

Clears == NewSession(Nobody) /\ Notifies(Nobody)

\* refreshResult: a refresh that ends while the session signs out changes nothing;
\* one that the platform refuses ends the session.
RefreshAnswered(c, refused) ==
  /\ notice.left = <<>> /\ calls[c].op = "refresh"
  /\ calls' = [calls EXCEPT ![c] = NoCall]
  /\ IF ~IsCurrent(calls[c]) \/ SigningOut
     THEN Stays
     ELSE IF refused THEN Clears
     ELSE /\ current' = calls[c].owner /\ unannounced' = FALSE /\ Notifies(calls[c].owner)
          /\ UNCHANGED <<holder, generation, found, announced>>
  /\ UNCHANGED <<born, hash, acts>>

\* clearSessionAtGeneration, whatever the platform answered.
SignedOut(c) ==
  /\ notice.left = <<>> /\ calls[c].op = "signOut"
  /\ calls' = [calls EXCEPT ![c] = NoCall]
  /\ IF IsCurrent(calls[c]) THEN Clears
     ELSE Stays
  /\ UNCHANGED <<born, hash, acts>>

ListenersStep ==
  \/ TellsNext
  \/ \E l \in Listeners : Subscribe(l) \/ Unsubscribe(l)
  \/ \E u \in Users : SetInMemory(u)
  \/ \E c \in Places :
       \/ \E op \in {"getUser", "profile", "signIn", "signUp", "refresh", "signOut"} :
            Begins(c, op)
       \/ Fails(c) \/ UserAnswered(c) \/ UserUpdated(c) \/ ProfileAnswered(c) \/ SignedOut(c)
       \/ \E yes \in BOOLEAN : RefreshAnswered(c, yes) \/ SignedUp(c, yes)
       \/ \E u \in Users : SignedIn(c, u)

-----------------------------------------------------------------------------
\* Between notifications every callback that is subscribed was last told who is
\* signed in; only of a session set in memory, found in storage or taken from
\* the address is nobody told before its user is asked for.
ToldWhoIsIn ==
  notice.left = <<>> /\ ~quiet /\ ~unannounced =>
    \A i \in DOMAIN callbacks : told[callbacks[i]] = current

\* What getSession says is of one user: the client has his tokens, and no answer of
\* an earlier call makes him another.
IsOfOne == current \in {Nobody, holder}

\* The session that came with the address when the client was made is announced
\* once: by the first getUser that finds its user, unless a refresh told of it
\* before, and by none that comes later.
AnnouncedOnce ==
  /\ announced <= 1
  /\ found => ~unannounced
  /\ born = "adopted" /\ generation = 1 /\ found /\ notice.left = <<>> =>
       \A i \in DOMAIN callbacks : told[callbacks[i]] = current
===================================================================================
