------------------------------- MODULE ApiCalls --------------------------------
(***************************************************************************)
(* The client's calls for storage, databases, durable executions, their    *)
(* approvals and messages, sandboxes, logs and the user's account.  They   *)
(* differ in the checks before their request, in the credential it is sent *)
(* with and in how its answer is read; two of them make several requests:  *)
(* uploadResumable and remove.  Every request with the session's token is  *)
(* sent again after a 401, while the session changes.                      *)
(***************************************************************************)
EXTENDS ClientSession, SequencesExt

CONSTANTS
  Paths,   \* storage paths that are valid
  BadPath, \* one that is not
  MaxSize, \* bound of the model: bytes of an uploaded file
  MaxList  \* bound of the model: paths given to remove

VARIABLES
  job,    \* the call
  reqs,   \* history: the requests it sent, and what the server did with each
  upload, \* the server's upload session
  list    \* the array given to remove; it stays the caller's

apiVars == <<job, reqs, upload, list>>

-----------------------------------------------------------------------------
\* What there is to call.  first: arguments are checked before anything else;
\* last: and more of them after the credential; cred: who it is for; strict:
\* the answer has to have its shape; ends: the answer of a session that is over
\* is not told, "always", or not when it is a "success".

Op(first, last, cred, strict) ==
  [first |-> first, last |-> last, cred |-> cred, strict |-> strict, ends |-> "never"]

\* Whether an answer of another shape is refused.  An upload session may lack
\* every field, and so be {}.
ObjectShape == TRUE
UploadShape == FALSE
RowsShape == TRUE
SandboxShape == TRUE
LogsShape == TRUE
ProviderShape == TRUE
SessionsShape == TRUE

\* The owner's session is needed: preflight, ownerSession.
Owner(last, strict) == Op(TRUE, last, "session", strict)

Upload == Owner(TRUE, ObjectShape)
Download == Owner(FALSE, TRUE)
ListObjects == Owner(FALSE, FALSE)
Transfer == Owner(FALSE, ObjectShape)
UpdateVisibility == Owner(FALSE, ObjectShape)
CreateUploadSession == Owner(TRUE, UploadShape)
UploadPart == Owner(FALSE, UploadShape)
CompleteUploadSession == Owner(FALSE, UploadShape)
GetUploadSession == Owner(FALSE, UploadShape)
AbortUploadSession == Owner(FALSE, FALSE)

\* A builder's database name is checked last, and its request made of what
\* was chosen by then.
Select == Op(FALSE, TRUE, "session", RowsShape)
Mutate == Op(FALSE, TRUE, "session", FALSE)

\* The application's routes take the session when there is one, else the key.
Application == Op(TRUE, FALSE, "any", TRUE)
StartDurable == Application
GetFromApplication == Application
StopFromApplication == Application
GetDurable == Owner(FALSE, TRUE)
ListDurable == Owner(FALSE, TRUE)
StopDurable == Owner(FALSE, TRUE)
ListApprovals == Owner(FALSE, TRUE)
GetApproval == Owner(FALSE, TRUE)
ApprovalStats == Owner(FALSE, TRUE)
Decide == Owner(FALSE, TRUE)
SendMessage(project) == IF project THEN Owner(FALSE, TRUE) ELSE Application
ListMessages(project) == IF project THEN Owner(FALSE, TRUE) ELSE Application

\* A sandbox call is sent whether or not there is a session.
Sandbox(strict) == Op(TRUE, FALSE, "token", strict)
DeleteTemplate == Sandbox(FALSE)
Presets == Op(FALSE, FALSE, "anon", SandboxShape)
Exec == Op(FALSE, TRUE, "token", SandboxShape)
Create == Op(FALSE, TRUE, "token", SandboxShape)
GetSession == Sandbox(SandboxShape)
Grant == Sandbox(FALSE)
Revoke == Sandbox(FALSE)
Deploy == Op(TRUE, TRUE, "token", SandboxShape)
Deployments == Sandbox(TRUE)
Deployment == Sandbox(TRUE)
Source == Sandbox(TRUE)
BuildLogs == Sandbox(TRUE)
SessionExec == Sandbox(SandboxShape)
SessionAccess == Sandbox(SandboxShape)
ReadFile == Sandbox(SandboxShape)
WriteFile == Sandbox(FALSE)

\* Calls through authFetchWithContext: checked and sent at once.
Account(first, ends, strict) == [Op(first, FALSE, "account", strict) EXCEPT !.ends = ends]
ProjectLogs == Account(TRUE, "never", LogsShape)
LinkProvider == Account(TRUE, "always", ProviderShape)
UnlinkProvider == Account(TRUE, "always", FALSE)
LinkedProviders == Account(FALSE, "always", ProviderShape)
ProviderToken == Account(TRUE, "always", TRUE)
CallProvider == Account(TRUE, "always", TRUE)
RequestEmailChange == Account(FALSE, "success", TRUE)
CancelEmailChange == Account(FALSE, "success", TRUE)
GetSessions == Account(FALSE, "always", SessionsShape)
DeleteOtherSessions == Account(FALSE, "success", FALSE)

\* Confirmations and new passwords are asked for without a session.
AccountMessage == Op(FALSE, FALSE, "anon", TRUE)

\* The server-side client's, with the tokens it is given.  What is no user is
\* told as none.
ServerUser == Op(TRUE, FALSE, "anon", FALSE)
ServerRefresh == Op(TRUE, FALSE, "anon", TRUE)

Operations ==
  {Upload, Download, ListObjects, Transfer, UpdateVisibility, CreateUploadSession, UploadPart,
   CompleteUploadSession, GetUploadSession, AbortUploadSession, Select, Mutate, StartDurable,
   GetFromApplication, StopFromApplication, GetDurable, ListDurable, StopDurable, ListApprovals,
   GetApproval, ApprovalStats, Decide, DeleteTemplate, Presets, Exec, Create, GetSession, Grant,
   Revoke, Deploy, Deployments, Deployment, Source, BuildLogs, SessionExec, SessionAccess,
   ReadFile, WriteFile, ProjectLogs, LinkProvider, UnlinkProvider, LinkedProviders, ProviderToken,
   CallProvider, RequestEmailChange, CancelEmailChange, GetSessions, DeleteOtherSessions,
   AccountMessage, ServerUser, ServerRefresh}
  \cup {SendMessage(p) : p \in BOOLEAN} \cup {ListMessages(p) : p \in BOOLEAN}

\* What uploadResumable and remove check for all their requests.
SessionCheck == Owner(FALSE, FALSE)

\* A request of remove: what it needs was checked once for all of them.
DeletePath == Op(FALSE, FALSE, "token", FALSE)

-----------------------------------------------------------------------------
NoCtx == [gen |-> 0, tok |-> 0]
NoJob == [st |-> "idle", plan |-> "one", op |-> Presets, bad |-> "none", stage |-> "only", n |-> 1,
          copy |-> <<>>, outs |-> <<>>, anon |-> FALSE, ctx |-> NoCtx, again |-> FALSE,
          ans |-> "none", cause |-> "none", told |-> "none"]
NoUpload == [st |-> "none", size |-> 0, part |-> 0, stored |-> <<>>]

ApiInit == job = NoJob /\ reqs = <<>> /\ upload = NoUpload /\ list = <<>>

Ends(j, told) == [j EXCEPT !.st = "ended", !.told = told]

\* The checks of a call come before its request.
Checks(j, op) ==
  [j EXCEPT !.op = op, !.again = FALSE, !.ans = "none", !.anon = (op.cred = "anon"),
            !.st = IF op.cred \in {"session", "account", "any"} \/ op.last
                   THEN "checking" ELSE "asking"]

Call(op, bad) ==
  /\ job.st = "idle"
  /\ LET j == [job EXCEPT !.bad = bad]
     IN job' = IF op.first /\ bad = "first" THEN Ends(j, "invalid") ELSE Checks(j, op)
  /\ UNCHANGED <<reqs, upload, list>>

\* uploadResumable, of a file of so many bytes.
CallUpload(size, bad) ==
  /\ job.st = "idle"
  /\ LET j == [job EXCEPT !.plan = "upload", !.bad = bad, !.stage = "before"]
     IN job' = IF bad = "first" THEN Ends(j, "invalid") ELSE Checks(j, SessionCheck)
  /\ upload' = [upload EXCEPT !.size = size]
  /\ UNCHANGED <<reqs, list>>

\* remove: the paths are copied before they are checked.
CallRemove(paths) ==
  /\ job.st = "idle" /\ list' = paths
  /\ LET j == [job EXCEPT !.plan = "remove", !.copy = paths, !.stage = "before"]
     IN job' = IF BadPath \in ToSet(paths) THEN Ends(j, "invalid") ELSE Checks(j, SessionCheck)
  /\ UNCHANGED <<reqs, upload>>

\* The caller goes on using its array.
CallerChanges ==
  /\ Event /\ job.plan = "remove" /\ job.st # "ended"
  /\ \E i \in DOMAIN list : list' = [list EXCEPT ![i] = BadPath]
  /\ UNCHANGED <<job, reqs, upload>>

\* What remove deletes.
Targets(j) == j.copy

\* The first request after the checks that stand for a whole plan.
Planned(j) ==
  IF j.stage # "before" THEN [j EXCEPT !.st = "asking"]
  ELSE IF j.plan = "upload" THEN Checks([j EXCEPT !.stage = "create"], CreateUploadSession)
  ELSE IF Targets(j) = <<>> THEN Ends(j, "ok")
  ELSE Checks([j EXCEPT !.stage = "path"], DeletePath)

-----------------------------------------------------------------------------
\* Requests.

\* What a request asks of the server: its stage, and which part or path.
Asks(j) == [stage |-> j.stage, what |-> IF j.stage = "path" THEN Targets(j)[j.n] ELSE j.n]
As(j) == IF j.anon THEN 0 ELSE gen

Requests(j) ==
  /\ job' = [j EXCEPT !.st = "sent", !.ctx = Current]
  /\ reqs' = Append(reqs, [asks |-> Asks(j), as |-> {As(j)}, done |-> 0, out |-> "none"])

\* fetchWithAuthRetry up to its request, or the request with the anon key.
Send == job.st = "asking" /\ (job.anon \/ ~exchange) /\ Requests(job) /\ UNCHANGED <<upload, list>>

Latest == Len(reqs)

\* The bytes of a part: fileBody.slice(start, end).
Slice(n, part, size) ==
  [n |-> n, from |-> (n - 1) * part, to |-> IF n * part <= size THEN n * part ELSE size]

\* The parts there are, as the server counts them.
Parts == (upload.size + upload.part - 1) \div upload.part

\* What the server does for an upload.  It may choose the size of the parts.
Performed(asks) ==
  CASE asks.stage = "create" ->
         \E part \in 1..upload.size : upload' = [upload EXCEPT !.st = "open", !.part = part]
    [] asks.stage = "part" ->
         /\ upload.st = "open"
         /\ upload' = [upload EXCEPT !.stored = Append(@, Slice(asks.what, upload.part, upload.size))]
    [] asks.stage = "complete" -> upload.st = "open" /\ upload' = [upload EXCEPT !.st = "completed"]
    [] asks.stage = "abort" -> upload.st = "open" /\ upload' = [upload EXCEPT !.st = "aborted"]
    [] OTHER -> UNCHANGED upload

\* The server refuses the request, does what it asks, or is not heard of
\* again; its answer may be lost, or not be what it should.
Answers ==
  /\ job.st = "sent" /\ job.ans = "none"
  /\ \/ /\ \E a \in {"401", "error"} : job' = [job EXCEPT !.ans = a]
        /\ UNCHANGED <<upload, reqs>>
     \/ /\ job.anon \/ job.ctx.tok # 0
        /\ Performed(Asks(job))
        /\ reqs' = [reqs EXCEPT ![Latest].done = @ + 1]
        /\ \E a \in {"ok", "odd", "error"} : job' = [job EXCEPT !.ans = a]
  /\ UNCHANGED list

\* Mutant: a request that failed is sent again too.
MutSendsAgain(j) == j.ans \in {"401", "error"} /\ ~j.anon /\ ~j.again

SendsAgain(j) == j.ans = "401" /\ ~j.anon /\ ~j.again

\* abortFailedPart
GivesUp(j, out) == Checks([j EXCEPT !.stage = "abort", !.cause = out], AbortUploadSession)

\* The loop of uploadParts.
NextPart(j) ==
  IF j.n < Parts THEN Checks([j EXCEPT !.stage = "part", !.n = j.n + 1], UploadPart)
  ELSE Checks([j EXCEPT !.stage = "complete"], CompleteUploadSession)

\* What follows a request with this outcome, of which "ok" is success.
\* An answer nobody could read may pass for one; a session's may not.
Follows(j, out) ==
  IF j.stage \in {"only", "before"} THEN {Ends(j, out)}
  ELSE IF j.stage = "path"
  THEN LET k == [j EXCEPT !.outs = Append(@, out)]
       IN {IF j.n < Len(Targets(j)) THEN Checks([k EXCEPT !.n = j.n + 1], DeletePath)
           ELSE Ends(k, IF ToSet(k.outs) \subseteq {"ok"} THEN "ok" ELSE "failed")}
  ELSE IF j.stage = "create"
  THEN {IF out = "ok" /\ j.ans # "odd" THEN NextPart([j EXCEPT !.n = 0])
        ELSE Ends(j, IF out = "ok" THEN "failed" ELSE out)}
  ELSE IF j.stage = "part"
  THEN IF out = "ok" THEN {NextPart(j), Ends(j, "threw")} ELSE {GivesUp(j, out)}
  ELSE {Ends(j, IF j.stage = "abort" THEN j.cause ELSE out)}

\* sessionRefusal, ownerSession, a builder's preflight, credentialMode: what
\* they see is the session after the page's sign-in was exchanged.
Checked ==
  /\ job.st = "checking" /\ ~exchange
  /\ IF job.op.cred \in {"session", "account"} /\ tok = 0
     THEN job' \in Follows(job, "no session") /\ UNCHANGED reqs
     ELSE IF job.op.last /\ job.bad = "last"
     THEN job' \in Follows(job, "invalid") /\ UNCHANGED reqs
     ELSE IF job.op.cred = "account" THEN Requests(job)
     ELSE job' = Planned([job EXCEPT !.anon = job.op.cred = "any" /\ tok = 0]) /\ UNCHANGED reqs
  /\ UNCHANGED <<upload, list>>

\* What is told of a session that is over: _isAuthContextCurrent in the calls
\* of the account.
Told(j, out) ==
  IF ~IsCurrent(j.ctx) /\ (j.op.ends = "always" \/ (j.op.ends = "success" /\ out = "ok"))
  THEN "changed" ELSE out

Settles(j, outcome) ==
  LET out == Told(j, outcome)
  IN /\ job' \in Follows(j, out)
     /\ reqs' = [reqs EXCEPT ![Latest].out = out,
          ![Latest].as = IF j.op.ends # "never" /\ out = "ok" THEN @ \cup {gen} ELSE @]
     /\ UNCHANGED <<upload, list>>

\* validatedResult, durableResult, sandboxResult: an outcome of the answer.
Outcome(j) == IF j.ans = "ok" \/ (j.ans = "odd" /\ ~j.op.strict) THEN "ok" ELSE "failed"

Answered ==
  /\ job.st = "sent" /\ job.ans # "none"
  /\ IF SendsAgain(job)
     THEN job' = [job EXCEPT !.st = "refreshing", !.ans = Asked(job.ctx)] /\ UNCHANGED <<reqs, upload, list>>
     ELSE Settles(job, Outcome(job))

RefreshEnds ==
  /\ job.st = "refreshing" /\ job.ans = "none"
  /\ \E answer \in {"ok", "denied", "failed"} :
       Taken(job.ctx.gen, answer) /\ job' = [job EXCEPT !.ans = answer]
  /\ UNCHANGED <<exchange, events, reqs, upload, list>>

\* Mutant: whose session it is by now is not looked at.
MutMayGoOn(j) == j.ans \in {"ok", "same"}

\* retryAfterUnauthorized
MayGoOn(j) == Refreshed(j.ctx, j.ans)

GoesOn ==
  /\ job.st = "refreshing" /\ job.ans # "none"
  /\ IF MayGoOn(job)
     THEN /\ job' = [job EXCEPT !.st = "sent", !.ans = "none", !.again = TRUE]
          /\ reqs' = [reqs EXCEPT ![Latest].as = @ \cup {As(job)}]
          /\ UNCHANGED <<upload, list>>
     ELSE Settles(job, IF Discarded(job.ctx, job.ans) THEN "discarded" ELSE "failed")

-----------------------------------------------------------------------------
Lists == UNION {[1..n -> Paths \cup {BadPath}] : n \in 0..MaxList}
Bads == {"none", "first", "last"}

ApiStep ==
  \/ /\ \/ \E op \in Operations, bad \in Bads : Call(op, bad)
        \/ \E size \in 1..MaxSize, bad \in Bads : CallUpload(size, bad)
        \/ \E paths \in Lists : CallRemove(paths)
        \/ Checked \/ Send \/ Answers \/ Answered \/ GoesOn
     /\ UNCHANGED <<session, events>>
  \/ RefreshEnds
  \/ CallerChanges /\ UNCHANGED session
  \/ SessionChanges /\ UNCHANGED apiVars
  \/ job.st = "ended" /\ UNCHANGED <<session, events, apiVars>>

-----------------------------------------------------------------------------
\* Properties.

\* A request is sent again only as who sent it first: neither the session that
\* replaced the one it was refused under nor nobody's takes it over.  And who
\* is told of his account is who asked.
SameSession == \A i \in DOMAIN reqs : \A x, y \in reqs[i].as : x = y

\* remove asks for the paths that were checked, and answers each one once,
\* though the caller changes its array meanwhile.
AsksWhatWasChecked ==
  job.plan = "remove" =>
    /\ \A i \in DOMAIN reqs : reqs[i].asks.what = job.copy[i]
    /\ job.told \in {"ok", "failed"} => Len(reqs) = Len(job.copy) /\ Len(job.outs) = Len(reqs)

\* What a caller is told of a request is what the server did: "ok" of one it
\* performed, and once; "discarded" only of one it never performed, so that
\* the caller may repeat it.  None is performed twice, nor one nobody checked.
PerformedAsTold ==
  /\ AsksWhatWasChecked
  /\ \A i \in DOMAIN reqs :
       /\ reqs[i].done <= 1
       /\ reqs[i].out = "ok" => reqs[i].done = 1
       /\ reqs[i].out = "discarded" => reqs[i].done = 0

\* A completed upload is the whole file, its parts in order and each byte in
\* one of them, whatever size of parts the server chose.
WholeFile ==
  LET s == upload.stored
  IN /\ \A i \in DOMAIN s :
          /\ s[i].n = i
          /\ s[i].from = (IF i = 1 THEN 0 ELSE s[i - 1].to) /\ s[i].from < s[i].to
     /\ upload.st = "completed" => s # <<>> /\ s[Len(s)].to = upload.size

\* An upload ends with a whole file, or leaves no session open at the server
\* but when a progress handler threw, or when the request was refused or failed
\* that would have told of the session or ended it: a part that fails ends it.
UploadEnds ==
  /\ WholeFile
  /\ job.plan = "upload" /\ job.st = "ended" =>
       /\ job.told = "ok" => upload.st = "completed"
       /\ upload.st = "open" => job.told = "threw" \/ job.stage \in {"create", "complete", "abort"}
================================================================================
