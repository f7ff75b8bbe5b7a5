--------------------------- MODULE ClientCallsProofs ---------------------------
(***************************************************************************)
(* Proofs about the parts of MCClientCalls, for any number of calls,       *)
(* handlers and sessions, files of any size, any names in paths and flows  *)
(* started in any order: each of them keeps an invariant of its own, and   *)
(* from their conjunction follow the properties TLC checks on a small      *)
(* instance.                                                               *)
(***************************************************************************)
EXTENDS MCClientCalls, FunctionCallsProofs, SequenceTheorems, FiniteSetTheorems, NumberLemmas

-----------------------------------------------------------------------------
\* Sequences of anything.

IsSeq(s) == \E S : s \in Seq(S)

LEMMA SeqIs ==
  ASSUME NEW s, IsSeq(s)
  PROVE  Len(s) \in Nat /\ DOMAIN s = 1..Len(s)
<1>1. PICK S : s \in Seq(S)
  BY DEF IsSeq
<1> QED
  BY <1>1, LenProperties

LEMMA EmptyIs == IsSeq(<<>>) /\ Len(<<>>) = 0
BY EmptySeq DEF IsSeq

LEMMA LongerBy ==
  ASSUME NEW s, IsSeq(s), NEW x
  PROVE  /\ IsSeq(Append(s, x)) /\ Len(Append(s, x)) = Len(s) + 1
         /\ Append(s, x)[Len(s) + 1] = x
         /\ \A i \in 1..Len(s) : Append(s, x)[i] = s[i]
<1>1. PICK S : s \in Seq(S)
  BY DEF IsSeq
<1>2. PICK T : T = S \cup {x}
  OBVIOUS
<1>3. s \in Seq(T) /\ x \in T
  BY <1>1, <1>2, SeqMonotonic
<1> QED
  BY <1>3, AppendProperties DEF IsSeq

Replaced(t, s, i, x) ==
  IsSeq(t) /\ Len(t) = Len(s) /\ t[i] = x /\ \A j \in 1..Len(s) : j # i => t[j] = s[j]

LEMMA ReplacedIn ==
  ASSUME NEW s, IsSeq(s), NEW i \in 1..Len(s), NEW x, NEW t, t = [s EXCEPT ![i] = x]
  PROVE  Replaced(t, s, i, x)
<1>1. PICK S : s \in Seq(S)
  BY DEF IsSeq
<1>2. PICK T : T = S \cup {x}
  OBVIOUS
<1>3. s \in Seq(T) /\ x \in T
  BY <1>1, <1>2, SeqMonotonic
<1> QED
  BY <1>3, ExceptSeq DEF IsSeq, Replaced

-----------------------------------------------------------------------------
\* The other calls of the API: what each of their requests was sent for and as whom,
\* how far a plan of several requests has come, and what the server has of a file.

JobFields ==
  {"st", "plan", "op", "bad", "stage", "n", "copy", "outs", "anon", "ctx", "again", "ans", "cause", "told"}

\* Who is told of his account asks with a session.
OpOK(op) ==
  /\ DOMAIN op = {"first", "last", "cred", "strict", "ends"}
  /\ op.ends \in {"never", "always", "success"} /\ (op.ends # "never" => op.cred = "account")

NotAnon(j) == j.anon = FALSE
AtOnce(op) == op.cred = "token" /\ op.last = FALSE

InFlightNow(j) == j.st \in {"sent", "refreshing"}

JobOK(j) ==
  /\ DOMAIN j = JobFields /\ IsSeq(j.copy) /\ IsSeq(j.outs) /\ j.n \in Nat
  /\ j.st \in {"idle", "checking", "asking", "sent", "refreshing", "ended"}
  /\ OpOK(j.op) /\ (j.op.ends # "never" => NotAnon(j))
  /\ j.st # "ended" => j.told = "none"
  /\ j.st \in {"idle", "checking", "asking"} => j.ans = "none"

\* A request was performed once at most, and what is told of it is so.
ReqOK(r) ==
  /\ DOMAIN r = {"asks", "as", "done", "out"}
  /\ r.done \in {0, 1} /\ (r.out = "ok" => r.done = 1) /\ (r.out = "discarded" => r.done = 0)
  /\ \E x : r.as \subseteq {x}

\* The request in flight is the last, sent by who the call is from, and was performed
\* when it was answered so; one that was refused was not.
Present == reqs[Len(reqs)]
PresentOK ==
  InFlightNow(job) =>
    /\ Len(reqs) > 0 /\ Present.asks = Api!Asks(job) /\ Present.out = "none"
    /\ Present.as = {IF job.anon THEN 0 ELSE job.ctx.gen}
    /\ job.st = "sent" =>
         /\ job.ans \in {"none", "401", "ok", "odd", "error"}
         /\ job.ans \in {"none", "401"} => Present.done = 0
         /\ job.ans \in {"ok", "odd"} => Present.done = 1
    /\ job.st = "refreshing" => Present.done = 0
Done == IF InFlightNow(job) THEN Present.done ELSE 0

ReqsOK ==
  /\ IsSeq(reqs) /\ (\A i \in 1..Len(reqs) : ReqOK(reqs[i]))
  /\ PresentOK

\* remove has asked for the paths it copied, one after the other.
RemoveOK(j, sent) ==
  j.plan = "remove" =>
    /\ j.stage \in {"before", "path"}
    /\ \A i \in 1..Len(sent) : sent[i].asks.what = j.copy[i]
    /\ j.stage = "before" =>
         /\ j.st \in {"checking", "ended"} /\ Len(sent) = 0 /\ Len(j.outs) = 0 /\ j.n = 1
         /\ j.told \in {"ok", "failed"} => Len(j.copy) = 0
         /\ j.op = Api!SessionCheck \/ j.st = "ended"
    /\ j.stage = "path" =>
         /\ j.op = Api!DeletePath /\ j.st \in {"asking", "sent", "refreshing", "ended"}
         /\ j.n \in 1..Len(j.copy)
         /\ j.st = "asking" => Len(sent) = j.n - 1
         /\ j.st # "asking" => Len(sent) = j.n
         /\ j.st # "ended" => Len(j.outs) = j.n - 1
         /\ j.st = "ended" => Len(j.outs) = j.n /\ j.n = Len(j.copy)

\* The server has the parts of the file in their order, so many as were performed;
\* p: how many there are to be, d: whether the request in flight was performed.
FileOK(j, u, p, d) ==
  /\ DOMAIN u = {"st", "size", "part", "stored"} /\ IsSeq(u.stored)
  /\ j.plan \in {"one", "remove", "upload"} /\ (j.plan = "one" => j.stage = "only")
  /\ j.plan # "upload" => u.st = "none" /\ Len(u.stored) = 0
  /\ j.plan = "upload" =>
       /\ u.size \in Nat \ {0} /\ (u.st # "none" => u.part \in 1..u.size)
       /\ \A i \in 1..Len(u.stored) : u.stored[i] = Api!Slice(i, u.part, u.size)
       /\ j.stage \in {"before", "create", "part", "complete", "abort"}
       /\ j.stage = "before" =>
            /\ j.st \in {"checking", "ended"} /\ (j.op = Api!SessionCheck \/ j.st = "ended")
            /\ u.st = "none" /\ Len(u.stored) = 0 /\ j.told # "ok"
       /\ j.stage = "create" =>
            /\ u.st \in {"none", "open"} /\ Len(u.stored) = 0 /\ j.told # "ok"
            /\ j.st # "ended" => (u.st = "open" <=> d = 1)
       /\ j.stage = "part" =>
            /\ u.st = "open" /\ j.n \in 1..p /\ Len(u.stored) <= p
            /\ j.st # "ended" => Len(u.stored) = j.n - 1 + d
            /\ j.st = "ended" => j.told = "threw"
       /\ j.stage = "complete" =>
            /\ u.st \in {"open", "completed"} /\ Len(u.stored) = p
            /\ j.st # "ended" => (u.st = "completed" <=> d = 1)
            /\ j.st = "ended" /\ j.told = "ok" => u.st = "completed"
       /\ j.stage = "abort" =>
            /\ u.st \in {"open", "aborted"} /\ Len(u.stored) <= p
            /\ j.cause # "ok" /\ j.told # "ok"

\* How many parts there are to be, once the server chose their size.
PartsNow == IF upload.st = "none" THEN 0 ELSE Api!Parts

IdleOK == job.st = "idle" => job = Api!NoJob /\ reqs = <<>> /\ upload = Api!NoUpload

ApiInv ==
  JobOK(job) /\ IdleOK /\ ReqsOK /\ RemoveOK(job, reqs) /\ FileOK(job, upload, PartsNow, Done)
-----------------------------------------------------------------------------
\* Parts of a file, of any size the server chose.

LEMMA PartsAre ==
  ASSUME upload.size \in Nat \ {0}, upload.part \in 1..upload.size
  PROVE  /\ Api!Parts \in Nat \ {0}
         /\ Api!Parts * upload.part >= upload.size /\ (Api!Parts - 1) * upload.part < upload.size
<1>1. PICK s \in Nat \ {0}, p \in Nat \ {0} : s = upload.size /\ p = upload.part
  OBVIOUS
<1>2. /\ (s + p - 1) \div p \in Nat \ {0}
      /\ ((s + p - 1) \div p) * p >= s /\ (((s + p - 1) \div p) - 1) * p < s
  OBVIOUS
<1> QED
  BY <1>1, <1>2 DEF Api!Parts

LEMMA TimesGrows ==
  ASSUME NEW a \in Nat, NEW b \in Nat, NEW p \in Nat, a <= b
  PROVE  a * p <= b * p /\ a * p \in Nat /\ b * p \in Nat /\ (a + 1) * p = a * p + p
OBVIOUS

\* They meet, none is empty, and the last ends with the file.
LEMMA SlicesMeet ==
  ASSUME upload.size \in Nat \ {0}, upload.part \in 1..upload.size, NEW n \in 1..Api!Parts
  PROVE  LET s == Api!Slice(n, upload.part, upload.size)
         IN /\ s.n = n /\ s.from < s.to
            /\ s.from = (IF n = 1 THEN 0 ELSE Api!Slice(n - 1, upload.part, upload.size).to)
            /\ n = Api!Parts => s.to = upload.size
<1>1. PICK z \in Nat \ {0}, p \in Nat \ {0}, k \in Nat \ {0} : z = upload.size /\ p = upload.part /\ k = Api!Parts
  BY PartsAre
<1>2. k * p >= z /\ (k - 1) * p < z
  BY <1>1, PartsAre
<1>3. (n - 1) * p <= (k - 1) * p /\ (n - 1) * p \in Nat /\ n * p = (n - 1) * p + p
  <2>1. n - 1 \in Nat /\ k - 1 \in Nat /\ n - 1 <= k - 1 /\ (n - 1) + 1 = n
    BY <1>1
  <2> QED
    BY <2>1, TimesGrows
<1>4. (k - 1) * p \in Nat /\ k * p \in Nat
  BY TimesGrows
<1>5. (n - 1) * p < z /\ (n - 1) * p < n * p
  BY <1>2, <1>3, <1>4
<1>6. n = 1 => (n - 1) * p = 0
  OBVIOUS
<1>7. LET s == Api!Slice(n, p, z)
      IN /\ s.n = n /\ s.from = (n - 1) * p /\ s.to = IF n * p <= z THEN n * p ELSE z
  BY DEF Api!Slice
<1>8. Api!Slice(n - 1, p, z).to = IF (n - 1) * p <= z THEN (n - 1) * p ELSE z
  BY DEF Api!Slice
<1>9. n = k => Api!Slice(n, p, z).to = z
  BY <1>2, <1>7, <1>4
<1> QED
  BY <1>1, <1>3, <1>5, <1>6, <1>7, <1>8, <1>9

-----------------------------------------------------------------------------
\* What there is to call.

LEMMA OpsAre ==
  /\ \A op \in Api!Operations : OpOK(op)
  /\ OpOK(Api!SessionCheck) /\ OpOK(Api!DeletePath) /\ OpOK(Api!CreateUploadSession)
  /\ OpOK(Api!UploadPart)
  /\ OpOK(Api!CompleteUploadSession) /\ OpOK(Api!AbortUploadSession) /\ OpOK(Api!Presets)
  /\ Api!SessionCheck.cred = "session" /\ Api!SessionCheck.last = FALSE
  /\ AtOnce(Api!DeletePath)
  /\ Api!DeletePath.ends = "never" /\ Api!SessionCheck.ends = "never"
  /\ Api!CreateUploadSession.ends = "never"
  /\ Api!UploadPart.ends = "never" /\ Api!CompleteUploadSession.ends = "never"
  /\ Api!AbortUploadSession.ends = "never"
<1>1. \A a, b, c, d : OpOK(Api!Op(a, b, c, d)) /\ Api!Op(a, b, c, d).ends = "never"
                      /\ Api!Op(a, b, c, d).cred = c /\ Api!Op(a, b, c, d).last = b
  BY DEF OpOK, Api!Op
<1>2. \A a, b : OpOK(Api!Owner(a, b)) /\ Api!Owner(a, b).ends = "never" /\ Api!Owner(a, b).cred = "session"
                /\ Api!Owner(a, b).last = a
  BY DEF Api!Owner, Api!Op, OpOK
<1>3. OpOK(Api!Application)
  BY <1>1 DEF Api!Application
<1>4. \A b : OpOK(Api!Sandbox(b))
  BY <1>1 DEF Api!Sandbox
<1>5. ASSUME NEW a, NEW e \in {"always", "success", "never"}, NEW b PROVE OpOK(Api!Account(a, e, b))
  BY DEF Api!Account, Api!Op, OpOK
<1>6. /\ OpOK(Api!SessionCheck) /\ OpOK(Api!DeletePath) /\ OpOK(Api!CreateUploadSession)
      /\ OpOK(Api!UploadPart)
      /\ OpOK(Api!CompleteUploadSession) /\ OpOK(Api!AbortUploadSession) /\ OpOK(Api!Presets)
  BY <1>1, <1>2 DEF Api!SessionCheck, Api!DeletePath, Api!CreateUploadSession, Api!UploadPart,
     Api!CompleteUploadSession, Api!AbortUploadSession, Api!Presets
<1>7. /\ Api!SessionCheck.cred = "session" /\ Api!SessionCheck.last = FALSE
      /\ AtOnce(Api!DeletePath)
      /\ Api!DeletePath.ends = "never" /\ Api!SessionCheck.ends = "never"
      /\ Api!CreateUploadSession.ends = "never"
      /\ Api!UploadPart.ends = "never" /\ Api!CompleteUploadSession.ends = "never"
      /\ Api!AbortUploadSession.ends = "never"
  BY DEF Api!SessionCheck, Api!DeletePath, Api!CreateUploadSession, Api!UploadPart,
     Api!CompleteUploadSession, Api!AbortUploadSession, Api!Owner, Api!Op, AtOnce
<1>8. \A op \in {Api!Upload, Api!Download, Api!ListObjects, Api!Transfer, Api!UpdateVisibility,
                 Api!CreateUploadSession, Api!UploadPart, Api!CompleteUploadSession,
                 Api!GetUploadSession, Api!AbortUploadSession, Api!GetDurable, Api!ListDurable,
                 Api!StopDurable, Api!ListApprovals, Api!GetApproval, Api!ApprovalStats,
                 Api!Decide} : OpOK(op)
  BY <1>2 DEF Api!Upload, Api!Download, Api!ListObjects, Api!Transfer, Api!UpdateVisibility,
       Api!CreateUploadSession, Api!UploadPart, Api!CompleteUploadSession, Api!GetUploadSession,
       Api!AbortUploadSession, Api!GetDurable, Api!ListDurable, Api!StopDurable,
       Api!ListApprovals, Api!GetApproval, Api!ApprovalStats, Api!Decide
<1>9. \A op \in {Api!DeleteTemplate, Api!GetSession, Api!Grant, Api!Revoke, Api!Deployments,
                 Api!Deployment, Api!Source, Api!BuildLogs, Api!SessionExec, Api!SessionAccess,
                 Api!ReadFile, Api!WriteFile, Api!StartDurable, Api!GetFromApplication,
                 Api!StopFromApplication} : OpOK(op)
  BY <1>3, <1>4 DEF Api!DeleteTemplate, Api!GetSession, Api!Grant, Api!Revoke, Api!Deployments,
       Api!Deployment, Api!Source, Api!BuildLogs, Api!SessionExec, Api!SessionAccess,
       Api!ReadFile, Api!WriteFile, Api!StartDurable, Api!GetFromApplication,
       Api!StopFromApplication
<1>10. \A op \in {Api!ProjectLogs, Api!LinkProvider, Api!UnlinkProvider, Api!LinkedProviders,
                  Api!ProviderToken, Api!CallProvider, Api!RequestEmailChange,
                  Api!CancelEmailChange, Api!GetSessions, Api!DeleteOtherSessions} : OpOK(op)
  BY <1>5 DEF Api!ProjectLogs, Api!LinkProvider, Api!UnlinkProvider, Api!LinkedProviders,
       Api!ProviderToken, Api!CallProvider, Api!RequestEmailChange, Api!CancelEmailChange,
       Api!GetSessions, Api!DeleteOtherSessions
<1>11. \A op \in {Api!Select, Api!Mutate, Api!Presets, Api!Exec, Api!Create, Api!Deploy,
                  Api!AccountMessage, Api!ServerUser, Api!ServerRefresh} : OpOK(op)
  BY <1>1 DEF Api!Select, Api!Mutate, Api!Presets, Api!Exec, Api!Create, Api!Deploy,
       Api!AccountMessage, Api!ServerUser, Api!ServerRefresh
<1>12. \A p \in BOOLEAN : OpOK(Api!SendMessage(p)) /\ OpOK(Api!ListMessages(p))
  BY <1>2, <1>3 DEF Api!SendMessage, Api!ListMessages
<1>13. \A op \in Api!Operations :
         \/ op \in {Api!Upload, Api!Download, Api!ListObjects, Api!Transfer,
                    Api!UpdateVisibility, Api!CreateUploadSession, Api!UploadPart,
                    Api!CompleteUploadSession, Api!GetUploadSession, Api!AbortUploadSession,
                    Api!GetDurable, Api!ListDurable, Api!StopDurable, Api!ListApprovals,
                    Api!GetApproval, Api!ApprovalStats, Api!Decide}
         \/ op \in {Api!DeleteTemplate, Api!GetSession, Api!Grant, Api!Revoke, Api!Deployments,
                    Api!Deployment, Api!Source, Api!BuildLogs, Api!SessionExec,
                    Api!SessionAccess, Api!ReadFile, Api!WriteFile, Api!StartDurable,
                    Api!GetFromApplication, Api!StopFromApplication}
         \/ op \in {Api!ProjectLogs, Api!LinkProvider, Api!UnlinkProvider, Api!LinkedProviders,
                    Api!ProviderToken, Api!CallProvider, Api!RequestEmailChange,
                    Api!CancelEmailChange, Api!GetSessions, Api!DeleteOtherSessions}
         \/ op \in {Api!Select, Api!Mutate, Api!Presets, Api!Exec, Api!Create, Api!Deploy,
                    Api!AccountMessage, Api!ServerUser, Api!ServerRefresh}
         \/ \E p \in BOOLEAN : op = Api!SendMessage(p) \/ op = Api!ListMessages(p)
  BY DEF Api!Operations
<1>14. \A op \in Api!Operations : OpOK(op)
  BY <1>8, <1>9, <1>10, <1>11, <1>12, <1>13
<1> QED
  BY <1>6, <1>7, <1>14

\* What its checks make of a call.
CheckedFrom(k, j, op) ==
  /\ DOMAIN k = JobFields /\ k.op = op /\ (op.cred # "anon" => NotAnon(k))
  /\ k.st \in {"checking", "asking"} /\ (AtOnce(op) => k.st = "asking")
  /\ (op.cred = "session" => k.st = "checking")
  /\ k.plan = j.plan /\ k.stage = j.stage /\ k.n = j.n /\ k.copy = j.copy /\ k.outs = j.outs
  /\ k.cause = j.cause /\ k.told = j.told /\ k.ans = "none"

LEMMA ChecksAre ==
  ASSUME NEW j, DOMAIN j = JobFields, NEW op
  PROVE  CheckedFrom(Api!Checks(j, op), j, op)
<1>1. PICK k : k = Api!Checks(j, op)
  OBVIOUS
<1>2. /\ DOMAIN k = JobFields /\ k.op = op /\ k.anon = (op.cred = "anon")
      /\ k.st = IF op.cred \in {"session", "account", "any"} \/ op.last THEN "checking" ELSE "asking"
      /\ k.plan = j.plan /\ k.stage = j.stage /\ k.n = j.n /\ k.copy = j.copy /\ k.outs = j.outs
      /\ k.cause = j.cause /\ k.told = j.told /\ k.ans = "none"
  BY <1>1 DEF Api!Checks, JobFields
<1>3. op.cred # "anon" => NotAnon(k)
  BY <1>2 DEF NotAnon
<1>4. AtOnce(op) => k.st = "asking"
  BY <1>2 DEF AtOnce
<1>5. CheckedFrom(k, j, op)
  BY <1>2, <1>3, <1>4 DEF CheckedFrom
<1> QED
  BY <1>1, <1>5

EndedFrom(k, j, t) ==
  /\ DOMAIN k = JobFields /\ k.op = j.op /\ (NotAnon(j) => NotAnon(k)) /\ k.st = "ended" /\ k.told = t
  /\ k.plan = j.plan /\ k.stage = j.stage /\ k.n = j.n /\ k.copy = j.copy /\ k.outs = j.outs
  /\ k.cause = j.cause

LEMMA EndsAre ==
  ASSUME NEW j, DOMAIN j = JobFields, NEW t
  PROVE  EndedFrom(Api!Ends(j, t), j, t)
<1>1. PICK k : k = Api!Ends(j, t)
  OBVIOUS
<1>2. /\ DOMAIN k = JobFields /\ k.op = j.op /\ k.anon = j.anon /\ k.st = "ended" /\ k.told = t
      /\ k.plan = j.plan /\ k.stage = j.stage /\ k.n = j.n /\ k.copy = j.copy /\ k.outs = j.outs
      /\ k.cause = j.cause
  BY <1>1 DEF Api!Ends, JobFields
<1>3. NotAnon(j) => NotAnon(k)
  BY <1>2 DEF NotAnon
<1>4. EndedFrom(k, j, t)
  BY <1>2, <1>3 DEF EndedFrom
<1> QED
  BY <1>1, <1>4

-----------------------------------------------------------------------------
\* What follows a refusal of the call's checks, or the outcome of a request.  d is 1
\* when the request was performed; afterwards none is in flight.

\* What remove has asked for is in the requests, whatever was told of them since.
LEMMA RemoveFits ==
  ASSUME NEW j, NEW r, NEW s, RemoveOK(j, r), Len(s) = Len(r),
         \A i \in 1..Len(r) : s[i].asks = r[i].asks
  PROVE  RemoveOK(j, s)
BY DEF RemoveOK

\* The call goes on to other checks, or ends, and no request is in flight.
Kept(k, r, u, p) ==
  JobOK(k) /\ RemoveOK(k, r) /\ FileOK(k, u, p, 0) /\ k.st \in {"checking", "asking", "ended"}

LEMMA EndedKeeps ==
  ASSUME NEW j, NEW r, NEW u, NEW p, NEW d, NEW t,
         JobOK(j), RemoveOK(j, r), FileOK(j, u, p, d), j.st \notin {"idle", "ended"},
         j.stage \in {"before", "create", "abort"} => t # "ok",
         j.stage = "before" => t # "failed",
         j.stage # "path",
         j.stage = "part" => t = "threw",
         j.stage = "complete" /\ t = "ok" => d = 1
  PROVE  Kept(Api!Ends(j, t), r, u, p)
<1>6. PICK k : k = Api!Ends(j, t)
  OBVIOUS
<1>1. DOMAIN j = JobFields
  BY DEF JobOK
<1>8. EndedFrom(k, j, t)
  BY <1>1, <1>6, EndsAre
<1>2. /\ DOMAIN k = JobFields /\ k.op = j.op /\ (NotAnon(j) => NotAnon(k)) /\ k.st = "ended" /\ k.told = t
      /\ k.plan = j.plan /\ k.stage = j.stage /\ k.n = j.n /\ k.copy = j.copy /\ k.outs = j.outs
      /\ k.cause = j.cause
  BY <1>8, Zenon DEF EndedFrom
<1>3. JobOK(k)
  BY <1>2 DEF JobOK
<1>4. RemoveOK(k, r)
  BY <1>2 DEF RemoveOK
<1>5. FileOK(k, u, p, 0)
  BY <1>2 DEF FileOK
<1>7. Kept(k, r, u, p)
  BY <1>2, <1>3, <1>4, <1>5 DEF Kept
<1> QED
  BY <1>6, <1>7

\* remove goes on to the next path, or ends with the last.
LEMMA PathKeeps ==
  ASSUME NEW j, NEW r, NEW u, NEW p, NEW d, NEW out, NEW k,
         JobOK(j), RemoveOK(j, r), FileOK(j, u, p, d), InFlightNow(j), j.stage = "path", j.plan = "remove",
         k \in Api!Follows(j, out)
  PROVE  Kept(k, r, u, p)
<1>1. /\ DOMAIN j = JobFields /\ IsSeq(j.copy) /\ IsSeq(j.outs) /\ j.n \in Nat
      /\ OpOK(j.op) /\ (j.op.ends # "never" => NotAnon(j)) /\ j.told = "none"
  BY DEF JobOK, InFlightNow
<1>2. /\ j.op = Api!DeletePath /\ j.n \in 1..Len(j.copy) /\ Len(r) = j.n /\ Len(j.outs) = j.n - 1
      /\ \A i \in 1..Len(r) : r[i].asks.what = j.copy[i]
  BY DEF RemoveOK, InFlightNow
<1>3. Len(j.copy) \in Nat
  BY <1>1, SeqIs
<1>4. PICK o : o = Append(j.outs, out)
  OBVIOUS
<1>5. IsSeq(o) /\ Len(o) = j.n
  BY <1>1, <1>2, <1>4, LongerBy
<1>6. PICK m : m = [j EXCEPT !.outs = o]
  OBVIOUS
<1>7. PICK q : q = [m EXCEPT !.n = j.n + 1]
  OBVIOUS
<1>8. /\ DOMAIN m = JobFields /\ m.outs = o /\ m.n = j.n /\ m.plan = j.plan
      /\ m.stage = j.stage /\ m.copy = j.copy /\ m.told = j.told /\ m.op = j.op
      /\ (NotAnon(j) => NotAnon(m))
  BY <1>1, <1>6 DEF JobFields, NotAnon
<1>9. /\ DOMAIN q = JobFields /\ q.outs = o /\ q.n = j.n + 1 /\ q.plan = j.plan
      /\ q.stage = j.stage /\ q.copy = j.copy /\ q.told = j.told
  BY <1>1, <1>7, <1>8 DEF JobFields
<1>10. IF j.n < Len(j.copy) THEN k = Api!Checks(q, Api!DeletePath) ELSE \E t : k = Api!Ends(m, t)
  BY <1>4, <1>6, <1>7 DEF Api!Follows, Api!Targets
<1>11. CASE j.n < Len(j.copy)
  <2>1. /\ DOMAIN k = JobFields /\ k.op = Api!DeletePath /\ k.st = "asking" /\ k.plan = j.plan
        /\ k.stage = j.stage /\ k.n = j.n + 1 /\ k.copy = j.copy /\ k.outs = o /\ k.told = j.told
        /\ k.ans = "none"
    <3>1. k = Api!Checks(q, Api!DeletePath) /\ DOMAIN q = JobFields
      BY <1>9, <1>10, <1>11
    <3>2. AtOnce(Api!DeletePath)
      BY OpsAre
    <3>4. CheckedFrom(k, q, Api!DeletePath)
      BY <3>1, ChecksAre
    <3>3. /\ DOMAIN k = JobFields /\ k.op = Api!DeletePath /\ k.st = "asking" /\ k.plan = q.plan
          /\ k.stage = q.stage /\ k.n = q.n /\ k.copy = q.copy /\ k.outs = q.outs /\ k.told = q.told
          /\ k.ans = "none"
      BY <3>2, <3>4 DEF CheckedFrom
    <3> QED
      BY <1>9, <3>3
  <2>2. JobOK(k)
    BY <1>1, <1>5, <2>1, OpsAre DEF JobOK
  <2>3. RemoveOK(k, r)
    BY <1>2, <1>3, <1>5, <1>11, <2>1 DEF RemoveOK
  <2>4. FileOK(k, u, p, 0)
    BY <2>1 DEF FileOK
  <2> QED
    BY <2>1, <2>2, <2>3, <2>4 DEF Kept
<1>12. CASE ~(j.n < Len(j.copy))
  <2>1. PICK t : k = Api!Ends(m, t)
    BY <1>10, <1>12
  <2>2. /\ DOMAIN k = JobFields /\ k.op = j.op /\ (NotAnon(j) => NotAnon(k)) /\ k.st = "ended"
        /\ k.plan = j.plan /\ k.stage = j.stage /\ k.n = j.n /\ k.copy = j.copy /\ k.outs = o
    <3>1. EndedFrom(k, m, t)
      BY <1>8, <2>1, EndsAre
    <3> QED
      BY <1>8, <3>1 DEF EndedFrom
  <2>3. JobOK(k)
    BY <1>1, <1>5, <2>2 DEF JobOK
  <2>4. RemoveOK(k, r)
    BY <1>2, <1>3, <1>5, <1>12, <2>2 DEF RemoveOK
  <2>5. FileOK(k, u, p, 0)
    BY <2>2 DEF FileOK
  <2> QED
    BY <2>2, <2>3, <2>4, <2>5 DEF Kept
<1> QED
  BY <1>11, <1>12

\* An upload goes on to its next part, or completes.
LEMMA NextPartKeeps ==
  ASSUME NEW j, NEW r, NEW u, NEW p \in Nat \ {0}, NEW d, NEW i, p = Api!Parts,
         JobOK(j), FileOK(j, u, p, d), j.plan = "upload", u.st = "open", Len(u.stored) <= p,
         j.st \notin {"idle", "ended"},
         DOMAIN i = JobFields, i.n = Len(u.stored), i.plan = j.plan, i.copy = j.copy, i.outs = j.outs,
         i.told = j.told
  PROVE  Kept(Api!NextPart(i), r, u, p)
<1>11. PICK k : k = Api!NextPart(i)
  OBVIOUS
<1>1. IsSeq(u.stored) /\ Len(u.stored) \in Nat
  BY SeqIs DEF FileOK
<1>2. PICK o : /\ o = IF i.n < p THEN Api!UploadPart ELSE Api!CompleteUploadSession
               /\ OpOK(o) /\ o.ends = "never" /\ o.cred = "session"
  <2>1. Api!UploadPart.cred = "session" /\ Api!CompleteUploadSession.cred = "session"
    BY DEF Api!UploadPart, Api!CompleteUploadSession, Api!Owner, Api!Op
  <2> QED
    BY <2>1, OpsAre
<1>3. PICK h : h = IF i.n < p THEN [i EXCEPT !.stage = "part", !.n = i.n + 1]
                   ELSE [i EXCEPT !.stage = "complete"]
  OBVIOUS
<1>4. /\ DOMAIN h = JobFields /\ h.plan = j.plan /\ h.copy = j.copy /\ h.outs = j.outs /\ h.told = j.told
      /\ i.n < p => h.stage = "part" /\ h.n = i.n + 1
      /\ ~(i.n < p) => h.stage = "complete" /\ h.n = i.n
  <2>1. CASE i.n < p
    BY <1>3, <2>1 DEF JobFields
  <2>2. CASE ~(i.n < p)
    BY <1>3, <2>2 DEF JobFields
  <2> QED
    BY <2>1, <2>2
<1>5. k = Api!Checks(h, o)
  <2>1. CASE i.n < p
    BY <1>2, <1>3, <1>11, <2>1 DEF Api!NextPart
  <2>2. CASE ~(i.n < p)
    BY <1>2, <1>3, <1>11, <2>2 DEF Api!NextPart
  <2> QED
    BY <2>1, <2>2
<1>6. /\ DOMAIN k = JobFields /\ k.op = o /\ k.st = "checking" /\ k.plan = j.plan /\ k.stage = h.stage
      /\ k.n = h.n /\ k.copy = j.copy /\ k.outs = j.outs /\ k.told = j.told /\ k.ans = "none"
  <2>1. DOMAIN h = JobFields /\ o.cred = "session"
    BY <1>2, <1>4
  <2>2. h.plan = j.plan /\ h.copy = j.copy /\ h.outs = j.outs /\ h.told = j.told
    BY <1>4
  <2>3. /\ DOMAIN k = JobFields /\ k.op = o /\ k.st = "checking" /\ k.plan = h.plan /\ k.stage = h.stage
        /\ k.n = h.n /\ k.copy = h.copy /\ k.outs = h.outs /\ k.told = h.told /\ k.ans = "none"
    <3>1. CheckedFrom(k, h, o)
      BY <1>5, <2>1, ChecksAre
    <3> QED
      BY <2>1, <3>1 DEF CheckedFrom
  <2> QED
    BY <2>2, <2>3
<1>7. k.n \in Nat
  BY <1>1, <1>4, <1>6
<1>8. JobOK(k)
  BY <1>2, <1>6, <1>7 DEF JobOK
<1>9. RemoveOK(k, r)
  BY <1>6 DEF RemoveOK
<1>10. FileOK(k, u, p, 0)
  <2>1. CASE i.n < p
    <3>1. k.n \in 1..p /\ Len(u.stored) = k.n - 1 + 0
      BY <1>1, <1>4, <1>6, <2>1
    <3> QED
      BY <1>4, <1>6, <2>1, <3>1 DEF FileOK
  <2>2. CASE ~(i.n < p)
    <3>1. Len(u.stored) = p
      BY <1>1, <2>2
    <3> QED
      BY <1>4, <1>6, <2>2, <3>1 DEF FileOK
  <2> QED
    BY <2>1, <2>2
<1>12. Kept(k, r, u, p)
  BY <1>6, <1>8, <1>9, <1>10 DEF Kept
<1> QED
  BY <1>11, <1>12

\* After a part that failed the upload gives up.
LEMMA GivesUpKeeps ==
  ASSUME NEW j, NEW r, NEW u, NEW p, NEW d, NEW out, out # "ok",
         JobOK(j), FileOK(j, u, p, d), j.plan = "upload", j.stage = "part", j.st \notin {"idle", "ended"}
  PROVE  Kept(Api!GivesUp(j, out), r, u, p)
<1>9. PICK k : k = Api!GivesUp(j, out)
  OBVIOUS
<1>1. /\ DOMAIN j = JobFields /\ IsSeq(j.copy) /\ IsSeq(j.outs) /\ j.n \in Nat /\ j.told = "none"
  BY DEF JobOK
<1>2. PICK h : h = [j EXCEPT !.stage = "abort", !.cause = out]
  OBVIOUS
<1>3. /\ DOMAIN h = JobFields /\ h.stage = "abort" /\ h.cause = out /\ h.n = j.n /\ h.plan = j.plan
      /\ h.copy = j.copy /\ h.outs = j.outs /\ h.told = j.told
  BY <1>1, <1>2 DEF JobFields
<1>4. Api!AbortUploadSession.cred = "session"
  BY DEF Api!AbortUploadSession, Api!Owner, Api!Op
<1>5. /\ DOMAIN k = JobFields /\ k.op = Api!AbortUploadSession /\ k.st = "checking"
      /\ k.plan = j.plan /\ k.stage = "abort" /\ k.n = j.n /\ k.copy = j.copy
      /\ k.outs = j.outs /\ k.told = j.told /\ k.cause = out /\ k.ans = "none"
  <2>1. k = Api!Checks(h, Api!AbortUploadSession)
    BY <1>2, <1>9, Zenon DEF Api!GivesUp
  <2>2. /\ DOMAIN k = JobFields /\ k.op = Api!AbortUploadSession /\ k.st = "checking" /\ k.plan = h.plan
        /\ k.stage = h.stage /\ k.n = h.n /\ k.copy = h.copy /\ k.outs = h.outs
        /\ k.told = h.told /\ k.ans = "none"
        /\ k.cause = h.cause
    <3>1. CheckedFrom(k, h, Api!AbortUploadSession)
      BY <1>3, <2>1, ChecksAre
    <3> QED
      BY <1>4, <3>1 DEF CheckedFrom
  <2> QED
    BY <1>3, <2>2
<1>6. JobOK(k)
  BY <1>1, <1>5, OpsAre DEF JobOK
<1>7. RemoveOK(k, r)
  BY <1>5 DEF RemoveOK
<1>8. FileOK(k, u, p, 0)
  BY <1>1, <1>5 DEF FileOK
<1>10. Kept(k, r, u, p)
  BY <1>5, <1>6, <1>7, <1>8 DEF Kept
<1> QED
  BY <1>9, <1>10

\* All of them: the call ends, or goes on to another request.
Fits(u, p) == u = upload /\ (u.st # "none" => p = Api!Parts)
TellsOf(j, d, out) ==
  \/ j.st = "checking" /\ d = 0 /\ out \in {"no session", "invalid"}
  \/ InFlightNow(j) /\ (out = "ok" => d = 1)

LEMMA FollowsKeeps ==
  ASSUME NEW j, NEW r, NEW u, NEW p \in Nat, NEW d \in {0, 1}, NEW out, NEW k,
         Fits(u, p), TellsOf(j, d, out),
         JobOK(j), RemoveOK(j, r), FileOK(j, u, p, d), k \in Api!Follows(j, out)
  PROVE  Kept(k, r, u, p)
<1>1. /\ j.st \in {"checking", "sent", "refreshing"} /\ DOMAIN j = JobFields /\ j.told = "none"
  BY DEF JobOK, InFlightNow, TellsOf
<1>2. /\ j.stage \in {"only", "before", "path", "create", "part", "complete", "abort"}
      /\ j.stage = "path" => j.plan = "remove"
      /\ j.stage \in {"create", "part", "complete", "abort"} => j.plan = "upload"
      /\ j.stage = "before" => j.st = "checking"
  BY <1>1 DEF RemoveOK, FileOK
<1>8. ASSUME NEW t, k = Api!Ends(j, t), j.stage # "path",
             j.stage \in {"before", "create", "abort"} => t # "ok", j.stage = "before" => t # "failed",
             j.stage = "part" => t = "threw", j.stage = "complete" /\ t = "ok" => d = 1
      PROVE  Kept(k, r, u, p)
  <2>1. j.st \notin {"idle", "ended"}
    BY <1>1
  <2> QED
    BY <1>8, <2>1, EndedKeeps
<1>9. ASSUME NEW i, k = Api!NextPart(i), j.plan = "upload", u.st = "open", Len(u.stored) <= p, p # 0,
             DOMAIN i = JobFields, i.n = Len(u.stored), i.plan = j.plan, i.copy = j.copy, i.outs = j.outs,
             i.told = j.told
      PROVE  Kept(k, r, u, p)
  <2>1. j.st \notin {"idle", "ended"}
    BY <1>1
  <2>2. p \in Nat \ {0} /\ p = Api!Parts
    BY <1>9 DEF Fits
  <2>3. Kept(Api!NextPart(i), r, u, p)
    BY <1>9, <2>1, <2>2, NextPartKeeps
  <2> QED
    BY <1>9, <2>3
<1>3. CASE j.stage \in {"only", "before"}
  <2>1. k = Api!Ends(j, out)
    BY <1>3 DEF Api!Follows
  <2>2. j.stage = "before" => out \notin {"ok", "failed"}
    BY <1>2 DEF InFlightNow, TellsOf
  <2> QED
    BY <1>3, <1>8, <2>1, <2>2
<1>4. CASE j.stage = "path"
  <2>1. InFlightNow(j) /\ j.plan = "remove"
    BY <1>1, <1>2, <1>4 DEF RemoveOK, InFlightNow, TellsOf
  <2> QED
    BY <1>4, <2>1, PathKeeps
<1>5. CASE j.stage = "create"
  <2>1. CASE out = "ok" /\ j.ans # "odd"
    <3>1. PICK i : i = [j EXCEPT !.n = 0]
      OBVIOUS
    <3>2. k = Api!NextPart(i)
      BY <1>5, <2>1, <3>1 DEF Api!Follows
    <3>3. /\ DOMAIN i = JobFields /\ i.n = 0 /\ i.plan = j.plan /\ i.copy = j.copy
          /\ i.outs = j.outs /\ i.told = j.told
      BY <1>1, <3>1 DEF JobFields
    <3>4. u.st = "open" /\ u.size \in Nat \ {0} /\ u.part \in 1..u.size
      BY <1>1, <1>2, <1>5, <2>1 DEF FileOK, InFlightNow, TellsOf
    <3>5. p # 0
      BY <3>4, PartsAre DEF Fits
    <3>6. Len(u.stored) = 0 /\ j.plan = "upload"
      BY <1>2, <1>5 DEF FileOK
    <3>7. Len(u.stored) <= p
      <4>1. 0 <= p
        OBVIOUS
      <4> QED
        BY <3>6, <4>1, Zenon
    <3> QED
      BY <1>9, <3>2, <3>3, <3>4, <3>5, <3>6, <3>7
  <2>2. CASE ~(out = "ok" /\ j.ans # "odd")
    <3>2. PICK t : t = IF out = "ok" THEN "failed" ELSE out
      OBVIOUS
    <3>3. k = Api!Ends(j, t)
      BY <1>5, <2>2, <3>2 DEF Api!Follows
    <3>1. k = Api!Ends(j, t) /\ t # "ok"
      BY <3>2, <3>3
    <3> QED
      BY <1>5, <1>8, <3>1
  <2> QED
    BY <2>1, <2>2
<1>6. CASE j.stage = "part"
  <2>1. /\ j.plan = "upload" /\ u.st = "open" /\ j.n \in 1..p /\ u.size \in Nat \ {0}
        /\ u.part \in 1..u.size
        /\ Len(u.stored) = j.n - 1 + d /\ Len(u.stored) <= p
    BY <1>1, <1>2, <1>6 DEF FileOK
  <2>2. p # 0
    BY <2>1, PartsAre DEF Fits
  <2>3. CASE out = "ok"
    <3>1. k = Api!NextPart(j) \/ k = Api!Ends(j, "threw")
      BY <1>6, <2>3 DEF Api!Follows
    <3>2. j.n = Len(u.stored)
      <4>1. d = 1
        BY <1>1, <2>3 DEF InFlightNow, TellsOf
      <4>2. j.n \in Nat
        BY DEF JobOK
      <4> QED
        BY <2>1, <4>1, <4>2
    <3>3. CASE k = Api!NextPart(j)
      BY <1>1, <1>9, <2>1, <2>2, <3>2, <3>3
    <3>4. CASE k = Api!Ends(j, "threw")
      BY <1>6, <1>8, <3>4
    <3> QED
      BY <3>1, <3>3, <3>4
  <2>4. CASE out # "ok"
    <3>1. k = Api!GivesUp(j, out)
      BY <1>6, <2>4 DEF Api!Follows
    <3> QED
      <4>1. j.st \notin {"idle", "ended"}
        BY <1>1
      <4> QED
        BY <1>6, <2>1, <2>4, <3>1, <4>1, GivesUpKeeps
  <2> QED
    BY <2>3, <2>4
<1>7. CASE j.stage \in {"complete", "abort"}
  <2>1. PICK t : t = (IF j.stage = "abort" THEN j.cause ELSE out) /\ k = Api!Ends(j, t)
    BY <1>7 DEF Api!Follows
  <2>2. j.stage = "abort" => t # "ok"
    BY <1>2, <2>1 DEF FileOK
  <2>3. j.stage = "complete" => t = out
    BY <2>1
  <2>4. j.stage = "complete" /\ t = "ok" => d = 1
    BY <1>1, <2>3 DEF InFlightNow, TellsOf
  <2> QED
    BY <1>2, <1>7, <1>8, <2>1, <2>2, <2>3, <2>4
<1> QED
  BY <1>2, <1>3, <1>4, <1>5, <1>6, <1>7

-----------------------------------------------------------------------------
\* The steps of a call.

\* The count of parts is a number, and a request was performed once or not at all.
LEMMA CountsAre ==
  ASSUME ApiInv
  PROVE  /\ PartsNow \in Nat /\ Fits(upload, PartsNow) /\ Done \in {0, 1}
         /\ (job.plan # "upload" => upload.st = "none")
<1>1. job.plan # "upload" => upload.st = "none"
  BY DEF ApiInv, FileOK
<1>2. upload.st # "none" => upload.size \in Nat \ {0} /\ upload.part \in 1..upload.size
  BY <1>1 DEF ApiInv, FileOK
<1>3. PartsNow \in Nat /\ (upload.st # "none" => PartsNow = Api!Parts)
  BY <1>2, PartsAre DEF PartsNow
<1>4. Done \in {0, 1}
  <2>1. InFlightNow(job) => Len(reqs) \in Nat /\ Len(reqs) > 0
    BY SeqIs DEF ApiInv, ReqsOK, PresentOK
  <2>2. InFlightNow(job) => ReqOK(reqs[Len(reqs)])
    BY <2>1 DEF ApiInv, ReqsOK
  <2> QED
    BY <2>2 DEF Done, Present, ReqOK
<1> QED
  BY <1>1, <1>3, <1>4 DEF Fits

\* Nothing happens to the call.
LEMMA ApiQuiet == ASSUME ApiInv, UNCHANGED <<job, reqs, upload>> PROVE ApiInv'
<1>1. job' = job /\ reqs' = reqs /\ upload' = upload
  OBVIOUS
<1>2. PartsNow' = PartsNow
  BY <1>1 DEF PartsNow, Api!Parts
<1>3. ReqsOK' /\ Done' = Done
  BY <1>1 DEF ApiInv, ReqsOK, PresentOK, Present, Done, Api!Asks, Api!Targets
<1>4. IdleOK'
  BY <1>1 DEF ApiInv, IdleOK
<1> QED
  BY <1>1, <1>2, <1>3, <1>4 DEF ApiInv

\* No request is in flight.
LEMMA KeptIs ==
  ASSUME NEW k, NEW r, NEW u, NEW p, job' = k, reqs' = r, upload' = u, PartsNow' = p,
         Kept(k, r, u, p), IsSeq(r), \A i \in 1..Len(r) : ReqOK(r[i])
  PROVE  ApiInv'
<1>1. JobOK(k) /\ RemoveOK(k, r) /\ FileOK(k, u, p, 0) /\ k.st \in {"checking", "asking", "ended"}
  BY DEF Kept
<1>2. ~InFlightNow(k) /\ k.st # "idle"
  BY <1>1 DEF InFlightNow
<1>3. Done' = 0
  BY <1>2 DEF Done
<1>4. ReqsOK'
  BY <1>2 DEF ReqsOK, PresentOK
<1>5. IdleOK'
  BY <1>2 DEF IdleOK
<1> QED
  BY <1>1, <1>3, <1>4, <1>5 DEF ApiInv

\* Before there is a call.
LEMMA IdleIs ==
  ASSUME ApiInv, job.st = "idle"
  PROVE  /\ job = Api!NoJob /\ reqs = <<>> /\ upload = Api!NoUpload /\ IsSeq(<<>>) /\ Len(<<>>) = 0
         /\ DOMAIN Api!NoJob = JobFields /\ Api!NoJob.plan = "one" /\ Api!NoJob.stage = "only"
         /\ Api!NoJob.n = 1
         /\ Api!NoJob.copy = <<>> /\ Api!NoJob.outs = <<>> /\ Api!NoJob.told = "none"
         /\ Api!NoJob.op = Api!Presets
         /\ OpOK(Api!Presets) /\ Api!Presets.ends = "never" /\ Api!NoJob.ans = "none"
         /\ NotAnon(Api!NoJob)
         /\ DOMAIN Api!NoUpload = {"st", "size", "part", "stored"} /\ Api!NoUpload.st = "none"
         /\ Api!NoUpload.stored = <<>>
<1>1. job = Api!NoJob /\ reqs = <<>> /\ upload = Api!NoUpload
  BY DEF ApiInv, IdleOK
<1>2. IsSeq(<<>>) /\ Len(<<>>) = 0
  BY EmptyIs
<1>3. OpOK(Api!Presets) /\ Api!Presets.ends = "never"
  BY OpsAre DEF Api!Presets, Api!Op
<1>4. /\ DOMAIN Api!NoJob = JobFields /\ Api!NoJob.plan = "one" /\ Api!NoJob.stage = "only"
      /\ Api!NoJob.n = 1
      /\ Api!NoJob.copy = <<>> /\ Api!NoJob.outs = <<>> /\ Api!NoJob.told = "none"
      /\ Api!NoJob.op = Api!Presets
      /\ Api!NoJob.ans = "none" /\ Api!NoJob.anon = FALSE
  BY DEF Api!NoJob, JobFields
<1>5. DOMAIN Api!NoUpload = {"st", "size", "part", "stored"} /\ Api!NoUpload.st = "none"
      /\ Api!NoUpload.stored = <<>>
  BY DEF Api!NoUpload
<1> QED
  BY <1>1, <1>2, <1>3, <1>4, <1>5 DEF NotAnon

LEMMA ApiBegins == Api!ApiInit => ApiInv
<1> SUFFICES ASSUME Api!ApiInit PROVE ApiInv
  OBVIOUS
<1>1. job = Api!NoJob /\ reqs = <<>> /\ upload = Api!NoUpload
  BY DEF Api!ApiInit
<1>2. /\ DOMAIN job = JobFields /\ job.st = "idle" /\ job.plan = "one" /\ job.stage = "only" /\ job.n = 1
      /\ job.copy = <<>> /\ job.outs = <<>> /\ job.told = "none" /\ job.op = Api!Presets
      /\ job.ans = "none" /\ job.anon = FALSE
  BY <1>1 DEF Api!NoJob, JobFields
<1>3. IsSeq(<<>>) /\ Len(<<>>) = 0
  BY EmptyIs
<1>4. OpOK(Api!Presets) /\ Api!Presets.ends = "never"
  BY OpsAre DEF Api!Presets, Api!Op
<1>5. JobOK(job)
  BY <1>2, <1>3, <1>4 DEF JobOK
<1>6. RemoveOK(job, reqs)
  BY <1>2 DEF RemoveOK
<1>7. DOMAIN upload = {"st", "size", "part", "stored"} /\ upload.st = "none" /\ upload.stored = <<>>
  BY <1>1 DEF Api!NoUpload
<1>8. FileOK(job, upload, PartsNow, Done)
  BY <1>2, <1>3, <1>7 DEF FileOK
<1>9. ReqsOK
  BY <1>1, <1>2, <1>3 DEF ReqsOK, PresentOK, InFlightNow
<1> QED
  BY <1>1, <1>5, <1>6, <1>8, <1>9 DEF ApiInv, IdleOK

\* Its checks, or their end, are what a call begins with.
LEMMA BegunKeeps ==
  ASSUME NEW j, NEW u, NEW p, NEW op, OpOK(op), NEW k,
         DOMAIN j = JobFields, IsSeq(j.copy), j.outs = <<>>, j.n = 1, j.told = "none", j.ans = "none",
         j.op = Api!Presets, DOMAIN u = {"st", "size", "part", "stored"}, u.st = "none", u.stored = <<>>,
         \/ j.plan = "one" /\ j.stage = "only"
         \/ j.plan = "remove" /\ j.stage = "before" /\ op = Api!SessionCheck
         \/ j.plan = "upload" /\ j.stage = "before" /\ op = Api!SessionCheck /\ u.size \in Nat \ {0},
         k = Api!Checks(j, op) \/ k = Api!Ends(j, "invalid")
  PROVE  Kept(k, <<>>, u, p)
<1>1. IsSeq(<<>>) /\ Len(<<>>) = 0
  BY EmptyIs
<1>2. OpOK(Api!Presets) /\ Api!Presets.ends = "never"
  BY OpsAre DEF Api!Presets, Api!Op
<1>3. CheckedFrom(k, j, op) \/ EndedFrom(k, j, "invalid")
  BY ChecksAre, EndsAre
<1>4. /\ DOMAIN k = JobFields /\ k.plan = j.plan /\ k.stage = j.stage /\ k.n = 1 /\ k.copy = j.copy
      /\ k.outs = <<>> /\ k.st \in {"checking", "asking", "ended"} /\ k.op \in {op, Api!Presets}
      /\ (k.op = op /\ op.cred # "anon" => NotAnon(k)) \/ k.op = Api!Presets
      /\ k.st # "ended" => k.op = op /\ k.told = "none" /\ k.ans = "none"
      /\ k.st = "ended" => k.told = "invalid"
  BY <1>3 DEF CheckedFrom, EndedFrom
<1>5. op.ends # "never" => op.cred = "account"
  BY DEF OpOK
<1>6. JobOK(k)
  BY <1>1, <1>2, <1>4, <1>5 DEF JobOK
<1>7. op = Api!SessionCheck /\ k.st # "ended" => k.st = "checking"
  <2>1. Api!SessionCheck.cred = "session"
    BY OpsAre
  <2> QED
    BY <1>3, <2>1 DEF CheckedFrom, EndedFrom
<1>8. RemoveOK(k, <<>>)
  BY <1>1, <1>4, <1>7 DEF RemoveOK
<1>9. FileOK(k, u, p, 0)
  BY <1>1, <1>4, <1>7 DEF FileOK
<1> QED
  BY <1>4, <1>6, <1>8, <1>9 DEF Kept

\* Calls, uploads of a file and removals begin.
LEMMA CallBegins ==
  ASSUME ApiInv, \/ \E op \in Api!Operations, bad \in Api!Bads : Api!Call(op, bad)
                 \/ \E size \in 1..MaxSize, bad \in Api!Bads : Api!CallUpload(size, bad)
                 \/ \E paths \in Api!Lists : Api!CallRemove(paths)
  PROVE  ApiInv'
<1>1. job.st = "idle"
  BY DEF Api!Call, Api!CallUpload, Api!CallRemove
<1>2. /\ job = Api!NoJob /\ reqs = <<>> /\ upload = Api!NoUpload /\ IsSeq(<<>>) /\ Len(<<>>) = 0
      /\ DOMAIN Api!NoJob = JobFields /\ Api!NoJob.plan = "one" /\ Api!NoJob.stage = "only"
      /\ Api!NoJob.n = 1
      /\ Api!NoJob.copy = <<>> /\ Api!NoJob.outs = <<>> /\ Api!NoJob.told = "none"
      /\ Api!NoJob.op = Api!Presets
      /\ Api!NoJob.ans = "none"
      /\ DOMAIN Api!NoUpload = {"st", "size", "part", "stored"} /\ Api!NoUpload.st = "none"
      /\ Api!NoUpload.stored = <<>>
  BY <1>1, IdleIs
<1>3. PICK n, k, u, p : n = Api!NoJob /\ k = job' /\ u = upload' /\ p = PartsNow'
  OBVIOUS
<1>4. \A i \in 1..Len(<<>>) : ReqOK(<<>>[i])
  BY <1>2
<1>5. reqs' = reqs /\ Kept(k, <<>>, u, p) => ApiInv'
  BY <1>2, <1>3, <1>4, KeptIs
<1>6. CASE \E op \in Api!Operations, bad \in Api!Bads : Api!Call(op, bad)
  <2>1. PICK op \in Api!Operations, bad \in Api!Bads : Api!Call(op, bad)
    BY <1>6
  <2>2. PICK j : j = [n EXCEPT !.bad = bad]
    OBVIOUS
  <2>3. u = Api!NoUpload /\ reqs' = reqs /\ (k = Api!Checks(j, op) \/ k = Api!Ends(j, "invalid"))
    BY <1>2, <1>3, <2>1, <2>2 DEF Api!Call
  <2>4. /\ DOMAIN j = JobFields /\ j.plan = "one" /\ j.stage = "only" /\ j.n = 1 /\ j.copy = <<>>
        /\ j.outs = <<>> /\ j.told = "none" /\ j.op = Api!Presets /\ j.ans = "none"
    BY <1>2, <1>3, <2>2 DEF JobFields
  <2>5. OpOK(op)
    BY OpsAre
  <2>6. Kept(k, <<>>, u, p)
    BY <1>2, <2>3, <2>4, <2>5, BegunKeeps
  <2> QED
    BY <1>5, <2>3, <2>6
<1>7. CASE \E size \in 1..MaxSize, bad \in Api!Bads : Api!CallUpload(size, bad)
  <2>1. PICK size \in 1..MaxSize, bad \in Api!Bads : Api!CallUpload(size, bad)
    BY <1>7
  <2>2. PICK j : j = [n EXCEPT !.plan = "upload", !.bad = bad, !.stage = "before"]
    OBVIOUS
  <2>3. /\ u = [Api!NoUpload EXCEPT !.size = size] /\ reqs' = reqs
        /\ k = Api!Checks(j, Api!SessionCheck) \/ k = Api!Ends(j, "invalid")
    BY <1>2, <1>3, <2>1, <2>2 DEF Api!CallUpload
  <2>4. /\ DOMAIN j = JobFields /\ j.plan = "upload" /\ j.stage = "before" /\ j.n = 1 /\ j.copy = <<>>
        /\ j.outs = <<>> /\ j.told = "none" /\ j.op = Api!Presets /\ j.ans = "none"
    BY <1>2, <1>3, <2>2 DEF JobFields
  <2>5. OpOK(Api!SessionCheck)
    BY OpsAre
  <2>6. DOMAIN u = {"st", "size", "part", "stored"} /\ u.st = "none" /\ u.stored = <<>> /\ u.size = size
    BY <1>2, <2>3
  <2>7. size \in Nat \ {0}
    BY PartsAssumption
  <2>8. Kept(k, <<>>, u, p)
    BY <1>2, <2>3, <2>4, <2>5, <2>6, <2>7, BegunKeeps
  <2> QED
    BY <1>5, <2>3, <2>8
<1>8. CASE \E paths \in Api!Lists : Api!CallRemove(paths)
  <2>1. PICK paths \in Api!Lists : Api!CallRemove(paths)
    BY <1>8
  <2>2. PICK j : j = [n EXCEPT !.plan = "remove", !.copy = paths, !.stage = "before"]
    OBVIOUS
  <2>3. /\ u = Api!NoUpload /\ reqs' = reqs
        /\ k = Api!Checks(j, Api!SessionCheck) \/ k = Api!Ends(j, "invalid")
    BY <1>2, <1>3, <2>1, <2>2 DEF Api!CallRemove
  <2>4. /\ DOMAIN j = JobFields /\ j.plan = "remove" /\ j.stage = "before" /\ j.n = 1 /\ j.copy = paths
        /\ j.outs = <<>> /\ j.told = "none" /\ j.op = Api!Presets /\ j.ans = "none"
    BY <1>2, <1>3, <2>2 DEF JobFields
  <2>5. OpOK(Api!SessionCheck)
    BY OpsAre
  <2>6. IsSeq(paths)
    <3>1. PICK m \in 0..MaxList : paths \in [1..m -> Paths \cup {BadPath}]
      BY DEF Api!Lists
    <3>2. m \in Nat
      BY <3>1, PartsAssumption
    <3> QED
      BY <3>1, <3>2, SeqDef DEF IsSeq
  <2>7. Kept(k, <<>>, u, p)
    BY <1>2, <2>3, <2>4, <2>5, <2>6, BegunKeeps
  <2> QED
    BY <1>5, <2>3, <2>7
<1> QED
  BY <1>6, <1>7, <1>8

\* A request is sent.
LEMMA RequestKeeps ==
  ASSUME ApiInv, Api!Requests(job), UNCHANGED upload,
         job.st = "asking" \/ (job.st = "checking" /\ job.op.cred = "account")
  PROVE  ApiInv'
<1>1. PICK j, r, u, p : j = job /\ r = reqs /\ u = upload /\ p = PartsNow
  OBVIOUS
<1>2. PICK k, s : k = job' /\ s = reqs'
  OBVIOUS
<1>3. PICK x : x = [asks |-> Api!Asks(j), as |-> {Api!As(j)}, done |-> 0, out |-> "none"]
  OBVIOUS
<1>4. k = [j EXCEPT !.st = "sent", !.ctx = Api!Current] /\ s = Append(r, x)
  BY <1>1, <1>2, <1>3 DEF Api!Requests
<1>5. JobOK(j) /\ RemoveOK(j, r) /\ FileOK(j, u, p, 0) /\ IsSeq(r) /\ \A i \in 1..Len(r) : ReqOK(r[i])
  <2>1. Done = 0
    BY DEF Done, InFlightNow
  <2> QED
    BY <1>1, <2>1 DEF ApiInv, ReqsOK
<1>6. /\ DOMAIN k = JobFields /\ k.op = j.op /\ k.anon = j.anon /\ k.st = "sent" /\ k.told = j.told
      /\ k.plan = j.plan /\ k.stage = j.stage /\ k.n = j.n /\ k.copy = j.copy /\ k.outs = j.outs
      /\ k.cause = j.cause /\ k.ans = j.ans /\ k.ctx = Api!Current
  BY <1>4, <1>5 DEF JobOK, JobFields
<1>7. j.ans = "none" /\ j.st \in {"checking", "asking"}
  BY <1>1, <1>5 DEF JobOK
<1>8. PICK m \in Nat : m = Len(r)
  BY <1>5, SeqIs
<1>9. IsSeq(s) /\ Len(s) = m + 1 /\ s[m + 1] = x /\ \A i \in 1..m : s[i] = r[i]
  BY <1>4, <1>5, <1>8, LongerBy
<1>10. Api!Asks(k) = Api!Asks(j)
  BY <1>6 DEF Api!Asks, Api!Targets
<1>11. /\ DOMAIN x = {"asks", "as", "done", "out"} /\ x.asks = Api!Asks(j) /\ x.as = {Api!As(j)}
       /\ x.done = 0
       /\ x.out = "none"
  BY <1>3
<1>12. ReqOK(x)
  BY <1>11 DEF ReqOK
<1>13. Api!As(j) = IF k.anon THEN 0 ELSE k.ctx.gen
  BY <1>6 DEF Api!As, Api!Current
<1>14. JobOK(k)
  <2>1. NotAnon(j) => NotAnon(k)
    BY <1>6 DEF NotAnon
  <2> QED
    BY <1>5, <1>6, <1>7, <2>1 DEF JobOK
<1>15. \A i \in 1..Len(s) : ReqOK(s[i])
  <2>1. \A i \in 1..(m + 1) : i \in 1..m \/ i = m + 1
    BY <1>8
  <2> QED
    BY <1>5, <1>8, <1>9, <1>12, <2>1
<1>16. ReqsOK' /\ Done' = 0
  <2>1. Present' = x /\ Len(s) > 0
    <3>1. s[Len(s)] = x
      BY <1>9
    <3> QED
      BY <1>2, <1>8, <1>9, <3>1 DEF Present
  <2>2. InFlightNow(k)
    BY <1>6 DEF InFlightNow
  <2>3. Done' = 0
    BY <1>2, <1>11, <2>1, <2>2 DEF Done
  <2>4. PresentOK'
    <3>1. Present'.asks = Api!Asks(k) /\ Present'.out = "none" /\ Present'.done = 0
      BY <1>10, <1>11, <2>1
    <3>2. Present'.as = {IF k.anon THEN 0 ELSE k.ctx.gen}
      BY <1>11, <1>13, <2>1
    <3>3. Api!Asks(job)' = Api!Asks(k)
      BY <1>2 DEF Api!Asks, Api!Targets
    <3> QED
      BY <1>2, <1>6, <1>7, <2>1, <3>1, <3>2, <3>3 DEF PresentOK
  <2> QED
    BY <1>2, <1>9, <1>15, <2>3, <2>4 DEF ReqsOK
<1>17. RemoveOK(k, s)
  <2> SUFFICES ASSUME j.plan = "remove" PROVE RemoveOK(k, s)
    BY <1>6 DEF RemoveOK
  <2>1. j.stage = "path" /\ j.st = "asking"
    <3>1. Api!SessionCheck.cred = "session" /\ j.st # "ended"
      BY <1>7, OpsAre
    <3> QED
      BY <1>1, <1>5, <1>7, <3>1 DEF RemoveOK
  <2>2. j.op = Api!DeletePath /\ j.n \in 1..Len(j.copy) /\ m = j.n - 1 /\ Len(j.outs) = j.n - 1
    BY <1>5, <1>8, <2>1 DEF RemoveOK
  <2>3. Len(s) = j.n
    BY <1>9, <2>2
  <2>4. s[j.n].asks.what = j.copy[j.n]
    <3>1. Api!Asks(j).what = j.copy[j.n]
      BY <2>1 DEF Api!Asks, Api!Targets
    <3>2. s[j.n] = x
      BY <1>9, <2>2
    <3> QED
      BY <1>11, <3>1, <3>2
  <2>5. \A i \in 1..Len(s) : s[i].asks.what = j.copy[i]
    <3>1. \A i \in 1..m : s[i].asks.what = j.copy[i]
      BY <1>5, <1>8, <1>9 DEF RemoveOK
    <3>2. \A i \in 1..Len(s) : i \in 1..m \/ i = j.n
      BY <1>8, <2>2, <2>3
    <3> QED
      BY <2>4, <3>1, <3>2
  <2> QED
    BY <1>6, <2>1, <2>2, <2>3, <2>5 DEF RemoveOK
<1>18. FileOK(k, u, p, 0)
  <2>1. j.st = "checking" => j.op # Api!SessionCheck
    BY <1>1, OpsAre
  <2>2. j.plan = "upload" => j.stage # "before"
    BY <1>5, <1>7, <2>1 DEF FileOK
  <2>3. j.told # "ok"
    BY <1>5, <1>7 DEF JobOK
  <2> QED
    BY <1>5, <1>6, <1>7, <2>2, <2>3 DEF FileOK
<1>19. IdleOK'
  BY <1>2, <1>6 DEF IdleOK
<1>20. upload' = u /\ PartsNow' = p
  BY <1>1 DEF PartsNow, Api!Parts
<1> QED
  BY <1>2, <1>14, <1>16, <1>17, <1>18, <1>19, <1>20 DEF ApiInv

\* The first request after the checks of a plan.
LEMMA PlanKeeps ==
  ASSUME NEW j, NEW i, NEW r, NEW u, NEW p, JobOK(j), RemoveOK(j, r), FileOK(j, u, p, 0), IsSeq(r),
         j.st = "checking", j.op.cred # "account", NEW a, i = [j EXCEPT !.anon = a]
  PROVE  Kept(Api!Planned(i), r, u, p)
<1>1. /\ DOMAIN j = JobFields /\ IsSeq(j.copy) /\ IsSeq(j.outs) /\ j.n \in Nat /\ OpOK(j.op)
      /\ j.told = "none" /\ j.ans = "none"
  BY DEF JobOK
<1>2. /\ DOMAIN i = JobFields /\ i.op = j.op /\ i.st = "checking" /\ i.told = "none" /\ i.ans = "none"
      /\ i.plan = j.plan /\ i.stage = j.stage /\ i.n = j.n /\ i.copy = j.copy /\ i.outs = j.outs
      /\ i.cause = j.cause
  BY <1>1 DEF JobFields
<1>3. j.op.ends = "never"
  BY <1>1 DEF OpOK
<1>4. PICK k : k = Api!Planned(i)
  OBVIOUS
<1>5. CASE j.stage # "before"
  <2>1. k = [i EXCEPT !.st = "asking"]
    BY <1>2, <1>4, <1>5 DEF Api!Planned
  <2>2. /\ DOMAIN k = JobFields /\ k.op = j.op /\ k.st = "asking" /\ k.told = "none" /\ k.ans = "none"
        /\ k.plan = j.plan /\ k.stage = j.stage /\ k.n = j.n /\ k.copy = j.copy /\ k.outs = j.outs
        /\ k.cause = j.cause
    BY <1>2, <2>1 DEF JobFields
  <2>3. JobOK(k)
    BY <1>1, <1>3, <2>2 DEF JobOK
  <2>4. j.plan # "remove"
    BY <1>5 DEF RemoveOK
  <2>5. RemoveOK(k, r)
    BY <2>2, <2>4 DEF RemoveOK
  <2>6. FileOK(k, u, p, 0)
    BY <1>5, <2>2 DEF FileOK
  <2>7. Kept(k, r, u, p)
    BY <2>2, <2>3, <2>5, <2>6 DEF Kept
  <2> QED
    BY <1>4, <2>7
<1>6. CASE j.stage = "before" /\ j.plan = "upload"
  <2>1. PICK h : h = [i EXCEPT !.stage = "create"]
    OBVIOUS
  <2>2. /\ DOMAIN h = JobFields /\ h.stage = "create" /\ h.plan = j.plan /\ h.n = j.n /\ h.copy = j.copy
        /\ h.outs = j.outs /\ h.told = "none"
    BY <1>2, <2>1 DEF JobFields
  <2>3. k = Api!Checks(h, Api!CreateUploadSession)
    BY <1>2, <1>4, <1>6, <2>1 DEF Api!Planned
  <2>4. CheckedFrom(k, h, Api!CreateUploadSession)
    BY <2>2, <2>3, ChecksAre
  <2>5. OpOK(Api!CreateUploadSession) /\ Api!CreateUploadSession.ends = "never"
    BY OpsAre
  <2>6. /\ DOMAIN k = JobFields /\ k.op = Api!CreateUploadSession /\ k.st \in {"checking", "asking"}
        /\ k.told = "none" /\ k.ans = "none" /\ k.plan = j.plan /\ k.stage = "create"
        /\ k.n = j.n /\ k.copy = j.copy /\ k.outs = j.outs
    BY <2>2, <2>4 DEF CheckedFrom
  <2>7. JobOK(k)
    BY <1>1, <2>5, <2>6 DEF JobOK
  <2>8. RemoveOK(k, r)
    BY <1>6, <2>6 DEF RemoveOK
  <2>9. FileOK(k, u, p, 0)
    BY <1>6, <2>6 DEF FileOK
  <2>10. Kept(k, r, u, p)
    BY <2>6, <2>7, <2>8, <2>9 DEF Kept
  <2> QED
    BY <1>4, <2>10
<1>7. CASE j.stage = "before" /\ j.plan # "upload"
  <2>1. j.plan = "remove"
    BY <1>7 DEF FileOK
  <2>2. /\ Len(r) = 0 /\ Len(j.outs) = 0 /\ j.n = 1 /\ j.op = Api!SessionCheck
    BY <1>7, <2>1 DEF RemoveOK
  <2>3. Len(j.copy) \in Nat /\ (j.copy = <<>> <=> Len(j.copy) = 0)
    BY <1>1, EmptySeq, LenProperties DEF IsSeq
  <2>4. CASE j.copy = <<>>
    <3>1. k = Api!Ends(i, "ok")
      BY <1>2, <1>4, <1>7, <2>4 DEF Api!Planned, Api!Targets
    <3>2. EndedFrom(k, i, "ok")
      BY <1>2, <3>1, EndsAre
    <3>3. /\ DOMAIN k = JobFields /\ k.op = j.op /\ k.st = "ended" /\ k.told = "ok"
          /\ k.plan = j.plan /\ k.stage = j.stage /\ k.n = j.n /\ k.copy = j.copy /\ k.outs = j.outs
      BY <1>2, <3>2 DEF EndedFrom
    <3>4. JobOK(k)
      BY <1>1, <1>3, <3>3 DEF JobOK
    <3>5. RemoveOK(k, r)
      BY <1>7, <2>1, <2>2, <2>3, <2>4, <3>3 DEF RemoveOK
    <3>6. FileOK(k, u, p, 0)
      BY <2>1, <3>3 DEF FileOK
    <3>7. Kept(k, r, u, p)
      BY <3>3, <3>4, <3>5, <3>6 DEF Kept
    <3> QED
      BY <1>4, <3>7
  <2>5. CASE j.copy # <<>>
    <3>1. PICK h : h = [i EXCEPT !.stage = "path"]
      OBVIOUS
    <3>2. /\ DOMAIN h = JobFields /\ h.stage = "path" /\ h.plan = j.plan /\ h.n = j.n /\ h.copy = j.copy
          /\ h.outs = j.outs /\ h.told = "none"
      BY <1>2, <3>1 DEF JobFields
    <3>3. k = Api!Checks(h, Api!DeletePath)
      BY <1>2, <1>4, <1>7, <2>5, <3>1 DEF Api!Planned, Api!Targets
    <3>4. CheckedFrom(k, h, Api!DeletePath)
      BY <3>2, <3>3, ChecksAre
    <3>5. OpOK(Api!DeletePath) /\ Api!DeletePath.ends = "never" /\ AtOnce(Api!DeletePath)
      BY OpsAre
    <3>6. /\ DOMAIN k = JobFields /\ k.op = Api!DeletePath /\ k.st = "asking"
          /\ k.told = "none" /\ k.ans = "none" /\ k.plan = j.plan /\ k.stage = "path"
          /\ k.n = j.n /\ k.copy = j.copy /\ k.outs = j.outs
      BY <3>2, <3>4, <3>5 DEF CheckedFrom
    <3>7. JobOK(k)
      BY <1>1, <3>5, <3>6 DEF JobOK
    <3>8. 1 \in 1..Len(j.copy)
      BY <2>3, <2>5
    <3>9. RemoveOK(k, r)
      BY <2>1, <2>2, <3>6, <3>8 DEF RemoveOK
    <3>10. FileOK(k, u, p, 0)
      BY <2>1, <3>6 DEF FileOK
    <3>11. Kept(k, r, u, p)
      BY <3>6, <3>7, <3>9, <3>10 DEF Kept
    <3> QED
      BY <1>4, <3>11
  <2> QED
    BY <2>4, <2>5
<1> QED
  BY <1>5, <1>6, <1>7

\* The checks end: the call is refused, asks at once, or goes on to its plan.
LEMMA CheckedKeeps == ASSUME ApiInv, Api!Checked PROVE ApiInv'
<1>1. PICK j, r, u, p : j = job /\ r = reqs /\ u = upload /\ p = PartsNow
  OBVIOUS
<1>2. /\ j.st = "checking" /\ upload' = u /\ PartsNow' = p /\ p \in Nat /\ Fits(u, p)
  BY <1>1, CountsAre DEF Api!Checked, PartsNow, Api!Parts, Fits
<1>3. JobOK(j) /\ RemoveOK(j, r) /\ FileOK(j, u, p, 0) /\ IsSeq(r) /\ \A i \in 1..Len(r) : ReqOK(r[i])
  <2>1. Done = 0
    BY <1>1, <1>2 DEF Done, InFlightNow
  <2> QED
    BY <1>1, <2>1 DEF ApiInv, ReqsOK
<1>4. ASSUME NEW k, job' = k, reqs' = r, Kept(k, r, u, p) PROVE ApiInv'
  BY <1>2, <1>3, <1>4, KeptIs
<1>5. ASSUME NEW out \in {"no session", "invalid"}, job' \in Api!Follows(j, out), reqs' = r PROVE ApiInv'
  <2>1. PICK k : k = job'
    OBVIOUS
  <2>2. TellsOf(j, 0, out)
    BY <1>2 DEF TellsOf
  <2>3. Kept(k, r, u, p)
    BY <1>2, <1>3, <1>5, <2>1, <2>2, FollowsKeeps
  <2> QED
    BY <1>4, <1>5, <2>1, <2>3
<1>6. \/ \E out \in {"no session", "invalid"} : job' \in Api!Follows(j, out) /\ reqs' = r
      \/ j.op.cred = "account" /\ Api!Requests(job)
      \/ /\ j.op.cred # "account" /\ reqs' = r
         /\ \E a : job' = Api!Planned([j EXCEPT !.anon = a])
  BY <1>1 DEF Api!Checked
<1>7. CASE j.op.cred = "account" /\ Api!Requests(job)
  BY <1>1, <1>2, <1>7, RequestKeeps
<1>8. CASE j.op.cred # "account" /\ reqs' = r /\ \E a : job' = Api!Planned([j EXCEPT !.anon = a])
  <2>1. PICK a : job' = Api!Planned([j EXCEPT !.anon = a])
    BY <1>8
  <2>2. PICK i : i = [j EXCEPT !.anon = a]
    OBVIOUS
  <2>3. PICK k : k = Api!Planned(i)
    OBVIOUS
  <2>4. Kept(k, r, u, p)
    BY <1>2, <1>3, <1>8, <2>2, <2>3, PlanKeeps
  <2> QED
    BY <1>4, <1>8, <2>1, <2>2, <2>3, <2>4
<1> QED
  BY <1>5, <1>6, <1>7, <1>8

\* The request in flight, and who it is from.
SenderOf(j) == IF j.anon THEN 0 ELSE j.ctx.gen
InFlightOK(j, y) ==
  /\ y.asks = Api!Asks(j) /\ y.out = "none" /\ y.as = {SenderOf(j)}
  /\ j.st = "sent" =>
       /\ j.ans \in {"none", "401", "ok", "odd", "error"}
       /\ j.ans \in {"none", "401"} => y.done = 0
       /\ j.ans \in {"ok", "odd"} => y.done = 1
  /\ j.st = "refreshing" => y.done = 0

LEMMA InFlightIs ==
  ASSUME ApiInv, InFlightNow(job), NEW y, y = Present
  PROVE  /\ Len(reqs) \in Nat \ {0} /\ reqs[Len(reqs)] = y /\ ReqOK(y) /\ InFlightOK(job, y)
         /\ Done = y.done /\ IsSeq(reqs) /\ \A i \in 1..Len(reqs) : ReqOK(reqs[i])
         /\ JobOK(job) /\ RemoveOK(job, reqs) /\ FileOK(job, upload, PartsNow, y.done)
<1>1. Done = y.done
  BY DEF Done
<1>2. IsSeq(reqs) /\ \A i \in 1..Len(reqs) : ReqOK(reqs[i])
  BY DEF ApiInv, ReqsOK
<1>3. Len(reqs) \in Nat \ {0}
  BY <1>2, SeqIs DEF ApiInv, ReqsOK, PresentOK
<1>4. ReqOK(y) /\ reqs[Len(reqs)] = y
  BY <1>2, <1>3 DEF Present
<1>5. InFlightOK(job, y)
  BY DEF ApiInv, ReqsOK, PresentOK, InFlightOK, SenderOf
<1> QED
  BY <1>1, <1>2, <1>3, <1>4, <1>5 DEF ApiInv

\* The request is in flight still.
LEMMA SentIs ==
  ASSUME NEW k, NEW s, NEW u, NEW p, NEW y,
         job' = k, reqs' = s, upload' = u, PartsNow' = p, InFlightNow(k), JobOK(k), RemoveOK(k, s),
         FileOK(k, u, p, y.done), IsSeq(s), Len(s) > 0, s[Len(s)] = y, InFlightOK(k, y),
         \A i \in 1..Len(s) : ReqOK(s[i])
  PROVE  ApiInv'
<1>1. Present' = y
  BY DEF Present
<1>2. Done' = y.done
  BY <1>1 DEF Done
<1>3. PresentOK'
  <2>1. Api!Asks(job)' = Api!Asks(k)
    BY DEF Api!Asks, Api!Targets
  <2> QED
    BY <1>1, <2>1 DEF PresentOK, InFlightOK, SenderOf
<1>4. IdleOK'
  BY DEF IdleOK, InFlightNow
<1>5. ReqsOK'
  BY <1>3 DEF ReqsOK
<1> QED
  BY <1>2, <1>4, <1>5 DEF ApiInv

\* It is the same request, whatever its answer.
SameCall(k, j) ==
  /\ DOMAIN k = JobFields /\ k.op = j.op /\ k.anon = j.anon /\ k.ctx = j.ctx /\ k.told = j.told
  /\ k.plan = j.plan /\ k.stage = j.stage /\ k.n = j.n /\ k.copy = j.copy /\ k.outs = j.outs
  /\ k.cause = j.cause

LEMMA SameIs ==
  ASSUME NEW j, NEW k, NEW r, NEW u, NEW p, NEW d, SameCall(k, j), InFlightNow(j), InFlightNow(k),
         JobOK(j), RemoveOK(j, r), FileOK(j, u, p, d)
  PROVE  /\ JobOK(k) /\ RemoveOK(k, r) /\ FileOK(k, u, p, d) /\ Api!Asks(k) = Api!Asks(j)
         /\ SenderOf(k) = SenderOf(j)
<1>1. NotAnon(j) => NotAnon(k)
  BY DEF SameCall, NotAnon
<1>2. j.st \in {"sent", "refreshing"} /\ k.st \in {"sent", "refreshing"}
  BY DEF InFlightNow
<1>3. JobOK(k)
  BY <1>1, <1>2 DEF JobOK, SameCall
<1>4. RemoveOK(k, r)
  BY <1>2 DEF RemoveOK, SameCall
<1>5. FileOK(k, u, p, d)
  BY <1>2 DEF FileOK, SameCall
<1>6. Api!Asks(k) = Api!Asks(j)
  BY DEF Api!Asks, Api!Targets, SameCall
<1>7. SenderOf(k) = SenderOf(j)
  BY DEF SenderOf, SameCall
<1> QED
  BY <1>3, <1>4, <1>5, <1>6, <1>7

\* What the server does for an upload.
LEMMA PerformedKeeps ==
  ASSUME NEW j, NEW u, NEW p, JobOK(j), FileOK(j, u, p, 0), InFlightNow(j), j.plan = "remove" => j.stage = "path",
         u = upload, p = PartsNow, p \in Nat, Api!Performed(Api!Asks(j))
  PROVE  FileOK(j, upload', PartsNow', 1)
<1>1. PICK v, q : v = upload' /\ q = PartsNow'
  OBVIOUS
<1>2. j.st \in {"sent", "refreshing"} /\ j.n \in Nat
  BY DEF InFlightNow, JobOK
<1>3. Api!Asks(j).stage = j.stage
  BY DEF Api!Asks
<1>4. DOMAIN u = {"st", "size", "part", "stored"} /\ IsSeq(u.stored)
  BY DEF FileOK
<1>5. ASSUME v.st # "none", u.st # "none", v.size = u.size, v.part = u.part PROVE q = p
  BY <1>1, <1>5 DEF PartsNow, Api!Parts
<1>6. CASE j.stage \notin {"create", "part", "complete", "abort"}
  <2>1. v = u
    BY <1>1, <1>3, <1>6 DEF Api!Performed
  <2>2. q = p
    BY <1>1, <2>1 DEF PartsNow, Api!Parts
  <2> QED
    BY <1>1, <1>2, <1>6, <2>1, <2>2 DEF FileOK
<1>7. ASSUME j.stage \in {"create", "part", "complete", "abort"}
      PROVE  j.plan = "upload"
  BY <1>7 DEF FileOK
<1>8. CASE j.stage = "create"
  <2>1. PICK z \in 1..u.size : v = [u EXCEPT !.st = "open", !.part = z]
    BY <1>1, <1>3, <1>8 DEF Api!Performed
  <2>2. /\ DOMAIN v = {"st", "size", "part", "stored"} /\ v.st = "open" /\ v.part = z
        /\ v.size = u.size /\ v.stored = u.stored
    BY <1>4, <2>1
  <2>3. u.size \in Nat \ {0} /\ Len(u.stored) = 0 /\ j.told # "ok"
    BY <1>7, <1>8 DEF FileOK
  <2> QED
    BY <1>1, <1>2, <1>4, <1>7, <1>8, <2>1, <2>2, <2>3 DEF FileOK
<1>9. CASE j.stage = "part"
  <2>1. PICK x : x = Api!Slice(j.n, u.part, u.size)
    OBVIOUS
  <2>2. u.st = "open" /\ v = [u EXCEPT !.stored = Append(u.stored, x)]
    <3>1. Api!Asks(j).what = j.n
      BY <1>9 DEF Api!Asks
    <3> QED
      BY <1>1, <1>3, <1>9, <2>1, <3>1 DEF Api!Performed
  <2>3. PICK t : t = Append(u.stored, x)
    OBVIOUS
  <2>4. PICK m \in Nat : m = Len(u.stored)
    BY <1>4, SeqIs
  <2>5. IsSeq(t) /\ Len(t) = m + 1 /\ t[m + 1] = x /\ \A i \in 1..m : t[i] = u.stored[i]
    BY <1>4, <2>3, <2>4, LongerBy
  <2>6. /\ DOMAIN v = {"st", "size", "part", "stored"} /\ v.st = "open" /\ v.part = u.part
        /\ v.size = u.size /\ v.stored = t
    BY <1>4, <2>2, <2>3
  <2>7. /\ u.size \in Nat \ {0} /\ u.part \in 1..u.size /\ m = j.n - 1 + 0 /\ j.n \in 1..p
        /\ \A i \in 1..m : u.stored[i] = Api!Slice(i, u.part, u.size)
    BY <1>2, <1>7, <1>9, <2>2, <2>4 DEF FileOK
  <2>8. m + 1 = j.n /\ m + 1 = j.n - 1 + 1 /\ m + 1 <= p
    BY <1>2, <2>4, <2>7
  <2>9. \A i \in 1..Len(t) : t[i] = Api!Slice(i, v.part, v.size)
    <3>1. \A i \in 1..(m + 1) : i \in 1..m \/ i = m + 1
      BY <2>4
    <3> QED
      BY <2>1, <2>5, <2>6, <2>7, <2>8, <3>1
  <2>10. q = p
    BY <1>5, <2>2, <2>6
  <2>11. Len(v.stored) = j.n - 1 + 1 /\ Len(v.stored) <= p
    BY <2>5, <2>6, <2>8
  <2> QED
    BY <1>1, <1>2, <1>7, <1>9, <2>5, <2>6, <2>7, <2>9, <2>10, <2>11 DEF FileOK
<1>10. CASE j.stage \in {"complete", "abort"}
  <2>1. PICK t \in {"completed", "aborted"} :
          /\ u.st = "open" /\ v = [u EXCEPT !.st = t]
          /\ j.stage = "complete" => t = "completed"
          /\ j.stage = "abort" => t = "aborted"
    BY <1>1, <1>3, <1>10 DEF Api!Performed
  <2>2. /\ DOMAIN v = {"st", "size", "part", "stored"} /\ v.st = t /\ v.part = u.part
        /\ v.size = u.size /\ v.stored = u.stored
    BY <1>4, <2>1
  <2>3. q = p
    BY <1>5, <2>1, <2>2
  <2> QED
    BY <1>1, <1>2, <1>4, <1>7, <1>10, <2>1, <2>2, <2>3 DEF FileOK
<1> QED
  BY <1>6, <1>8, <1>9, <1>10

\* The server refuses the request or performs it.
LEMMA AnswersKeeps == ASSUME ApiInv, Api!Answers PROVE ApiInv'
<1>1. PICK j, r, u, p, x : j = job /\ r = reqs /\ u = upload /\ p = PartsNow /\ x = Present
  OBVIOUS
<1>2. PICK k, s, v, q : k = job' /\ s = reqs' /\ v = upload' /\ q = PartsNow'
  OBVIOUS
<1>3. j.st = "sent" /\ j.ans = "none" /\ InFlightNow(j)
  BY <1>1 DEF Api!Answers, InFlightNow
<1>4. /\ Len(r) \in Nat \ {0} /\ r[Len(r)] = x /\ ReqOK(x) /\ InFlightOK(j, x)
      /\ IsSeq(r) /\ \A i \in 1..Len(r) : ReqOK(r[i])
      /\ JobOK(j) /\ RemoveOK(j, r) /\ FileOK(j, u, p, x.done)
  BY <1>1, <1>3, InFlightIs
<1>5. x.done = 0 /\ x.out = "none" /\ x.as = {SenderOf(j)} /\ x.asks = Api!Asks(j)
  BY <1>3, <1>4 DEF InFlightOK
<1>6. ASSUME NEW a, k = [j EXCEPT !.ans = a]
      PROVE  SameCall(k, j) /\ k.st = "sent" /\ k.ans = a /\ InFlightNow(k)
  BY <1>3, <1>4, <1>6 DEF JobOK, JobFields, SameCall, InFlightNow
<1>7. CASE \E a \in {"401", "error"} : k = [j EXCEPT !.ans = a] /\ UNCHANGED <<upload, reqs>>
  <2>1. PICK a \in {"401", "error"} : k = [j EXCEPT !.ans = a] /\ UNCHANGED <<upload, reqs>>
    BY <1>7
  <2>2. SameCall(k, j) /\ k.st = "sent" /\ k.ans = a /\ InFlightNow(k)
    BY <1>6, <2>1
  <2>3. s = r /\ v = u /\ q = p
    BY <1>1, <1>2, <2>1 DEF PartsNow, Api!Parts
  <2>4. JobOK(k) /\ RemoveOK(k, r) /\ FileOK(k, u, p, x.done) /\ Api!Asks(k) = Api!Asks(j)
        /\ SenderOf(k) = SenderOf(j)
    BY <1>3, <1>4, <2>2, SameIs
  <2>5. InFlightOK(k, x)
    BY <1>5, <2>2, <2>4 DEF InFlightOK
  <2> QED
    BY <1>2, <1>4, <2>2, <2>3, <2>4, <2>5, SentIs
<1>8. CASE /\ Api!Performed(Api!Asks(job)) /\ reqs' = [reqs EXCEPT ![Api!Latest].done = @ + 1]
           /\ \E a \in {"ok", "odd", "error"} : k = [j EXCEPT !.ans = a]
  <2>1. PICK a \in {"ok", "odd", "error"} : k = [j EXCEPT !.ans = a]
    BY <1>8
  <2>2. SameCall(k, j) /\ k.st = "sent" /\ k.ans = a /\ InFlightNow(k)
    BY <1>6, <2>1
  <2>3. PICK m \in Nat \ {0} : m = Len(r)
    BY <1>4
  <2>4. PICK y : y = [x EXCEPT !.done = 1]
    OBVIOUS
  <2>5. s = [r EXCEPT ![m] = y]
    <3>1. s = [r EXCEPT ![m].done = 0 + 1]
      BY <1>1, <1>2, <1>4, <1>5, <1>8, <2>3 DEF Api!Latest
    <3>2. 0 + 1 = 1
      OBVIOUS
    <3> QED
      BY <1>4, <2>3, <2>4, <3>1, <3>2
  <2>6. IsSeq(s) /\ Len(s) = m /\ s[m] = y /\ \A i \in 1..m : i # m => s[i] = r[i]
    <3>1. m \in 1..Len(r) /\ IsSeq(r)
      BY <1>4, <2>3
    <3>2. Replaced(s, r, m, y)
      BY <2>5, <3>1, ReplacedIn
    <3> QED
      BY <2>3, <3>2 DEF Replaced
  <2>7. /\ DOMAIN y = {"asks", "as", "done", "out"} /\ y.asks = x.asks /\ y.as = x.as /\ y.done = 1
        /\ y.out = x.out
    BY <1>4, <2>4 DEF ReqOK
  <2>8. ReqOK(y)
    BY <1>4, <1>5, <2>7 DEF ReqOK
  <2>9. \A i \in 1..Len(s) : ReqOK(s[i]) /\ s[i].asks = r[i].asks
    BY <1>4, <2>3, <2>6, <2>7, <2>8
  <2>10. p \in Nat /\ (j.plan = "remove" => j.stage = "path")
    <3>1. p \in Nat
      BY <1>1, CountsAre
    <3> QED
      BY <1>3, <1>4, <3>1 DEF RemoveOK
  <2>11. FileOK(j, v, q, 1)
    BY <1>1, <1>2, <1>3, <1>4, <1>5, <1>8, <2>10, PerformedKeeps
  <2>12. RemoveOK(j, s)
    BY <1>4, <2>3, <2>6, <2>9, RemoveFits
  <2>13. JobOK(k) /\ RemoveOK(k, s) /\ FileOK(k, v, q, 1) /\ Api!Asks(k) = Api!Asks(j)
         /\ SenderOf(k) = SenderOf(j)
    BY <1>3, <1>4, <2>2, <2>11, <2>12, SameIs
  <2>14. InFlightOK(k, y)
    BY <1>5, <2>1, <2>2, <2>7, <2>13 DEF InFlightOK
  <2>15. Len(s) > 0 /\ s[Len(s)] = y /\ FileOK(k, v, q, y.done)
    BY <2>3, <2>6, <2>7, <2>13
  <2> QED
    BY <1>2, <2>2, <2>6, <2>9, <2>13, <2>14, <2>15, SentIs
<1> QED
  BY <1>1, <1>2, <1>7, <1>8 DEF Api!Answers

\* A call is told the result of its request, and goes on or ends.
LEMMA ToldIs ==
  ASSUME NEW j, NEW o, OpOK(j.op), NEW out, out = Api!Told(j, o)
  PROVE  /\ out \in {o, "changed"} /\ (out = "ok" => o = "ok")
         /\ j.op.ends # "never" /\ out = "ok" => j.ctx.gen = gen
BY DEF Api!Told, Api!IsCurrent, OpOK

LEMMA SettlesKeeps ==
  ASSUME ApiInv, InFlightNow(job), NEW result, Api!Settles(job, result),
         result = "ok" => Done = 1, result = "discarded" => Done = 0
  PROVE  ApiInv'
<1>1. PICK j, r, u, p, x, o : j = job /\ r = reqs /\ u = upload /\ p = PartsNow /\ x = Present /\ o = result
  OBVIOUS
<1>2. PICK k, s, out : k = job' /\ s = reqs' /\ out = Api!Told(j, o)
  OBVIOUS
<1>3. /\ Len(r) \in Nat \ {0} /\ r[Len(r)] = x /\ ReqOK(x) /\ InFlightOK(j, x)
      /\ IsSeq(r) /\ \A i \in 1..Len(r) : ReqOK(r[i])
      /\ JobOK(j) /\ RemoveOK(j, r) /\ FileOK(j, u, p, x.done) /\ Done = x.done
  BY <1>1, InFlightIs
<1>4. OpOK(j.op) /\ (j.op.ends # "never" => NotAnon(j))
  BY <1>3 DEF JobOK
<1>5. /\ out \in {o, "changed"} /\ (out = "ok" => o = "ok")
      /\ j.op.ends # "never" /\ out = "ok" => j.ctx.gen = gen
  BY <1>2, <1>4, ToldIs
<1>6. (out = "ok" => x.done = 1) /\ (out = "discarded" => x.done = 0)
  BY <1>1, <1>3, <1>5
<1>7. PICK a : a = IF j.op.ends # "never" /\ out = "ok" THEN x.as \cup {gen} ELSE x.as
  OBVIOUS
<1>8. x.as = {SenderOf(j)} /\ DOMAIN x = {"asks", "as", "done", "out"} /\ x.done \in {0, 1}
  BY <1>3 DEF InFlightOK, ReqOK
<1>9. a = {SenderOf(j)}
  <2>1. CASE j.op.ends # "never" /\ out = "ok"
    <3>1. SenderOf(j) = gen
      BY <1>4, <1>5, <2>1 DEF SenderOf, NotAnon
    <3> QED
      BY <1>7, <1>8, <3>1
  <2>2. CASE ~(j.op.ends # "never" /\ out = "ok")
    BY <1>7, <1>8, <2>2
  <2> QED
    BY <2>1, <2>2
<1>10. PICK m \in Nat \ {0} : m = Len(r)
  BY <1>3
<1>11. m \in 1..Len(r) /\ DOMAIN r = 1..Len(r)
  BY <1>3, <1>10, SeqIs
<1>12. PICK y : y = [x EXCEPT !.out = out, !.as = a]
  OBVIOUS
<1>13. s = [r EXCEPT ![m] = y]
  <2>1. s = [r EXCEPT ![m].out = out, ![m].as = IF j.op.ends # "never" /\ out = "ok" THEN @ \cup {gen} ELSE @]
    BY <1>1, <1>2, <1>10 DEF Api!Settles, Api!Latest
  <2>2. r[m] = x
    BY <1>3, <1>10
  <2>3. CASE j.op.ends # "never" /\ out = "ok"
    <3>1. s = [r EXCEPT ![m].out = out, ![m].as = @ \cup {gen}]
      BY <2>1, <2>3
    <3>2. a = x.as \cup {gen}
      BY <1>7, <2>3
    <3> QED
      BY <1>8, <1>11, <1>12, <2>2, <3>1, <3>2
  <2>4. CASE ~(j.op.ends # "never" /\ out = "ok")
    <3>1. s = [r EXCEPT ![m].out = out, ![m].as = @]
      BY <2>1, <2>4
    <3>2. a = x.as
      BY <1>7, <2>4
    <3> QED
      BY <1>8, <1>11, <1>12, <2>2, <3>1, <3>2
  <2> QED
    BY <2>3, <2>4
<1>14. IsSeq(s) /\ Len(s) = m /\ s[m] = y /\ \A i \in 1..m : i # m => s[i] = r[i]
  <2>1. IsSeq(r)
    BY <1>3
  <2>2. Replaced(s, r, m, y)
    BY <1>11, <1>13, <2>1, ReplacedIn
  <2> QED
    BY <1>10, <2>2 DEF Replaced
<1>15. /\ DOMAIN y = {"asks", "as", "done", "out"} /\ y.asks = x.asks /\ y.as = a /\ y.done = x.done
       /\ y.out = out
  BY <1>8, <1>12
<1>16. ReqOK(y)
  BY <1>6, <1>8, <1>9, <1>15 DEF ReqOK
<1>17. \A i \in 1..Len(s) : ReqOK(s[i]) /\ s[i].asks = r[i].asks
  BY <1>3, <1>10, <1>14, <1>15, <1>16
<1>18. p \in Nat /\ Fits(u, p) /\ x.done \in {0, 1}
  BY <1>1, <1>8, CountsAre
<1>19. k \in Api!Follows(j, out) /\ upload' = u
  BY <1>1, <1>2 DEF Api!Settles
<1>20. TellsOf(j, x.done, out)
  BY <1>1, <1>6 DEF TellsOf
<1>21. Kept(k, r, u, p)
  BY <1>3, <1>18, <1>19, <1>20, FollowsKeeps
<1>22. Kept(k, s, u, p)
  <2>1. RemoveOK(k, s)
    BY <1>10, <1>14, <1>17, <1>21, RemoveFits DEF Kept
  <2> QED
    BY <1>21, <2>1 DEF Kept
<1>23. PartsNow' = p
  BY <1>1, <1>19 DEF PartsNow, Api!Parts
<1>24. \A i \in 1..Len(s) : ReqOK(s[i])
  BY <1>17
<1> QED
  BY <1>2, <1>14, <1>19, <1>22, <1>23, <1>24, KeptIs

\* A request that was refused waits for the session's refresh.
LEMMA AnsweredKeeps == ASSUME ApiInv, Api!Answered PROVE ApiInv'
<1>1. PICK j, r, u, p, x, k : j = job /\ r = reqs /\ u = upload /\ p = PartsNow /\ x = Present /\ k = job'
  OBVIOUS
<1>2. j.st = "sent" /\ InFlightNow(j)
  BY <1>1 DEF Api!Answered, InFlightNow
<1>3. /\ Len(r) \in Nat \ {0} /\ r[Len(r)] = x /\ ReqOK(x) /\ InFlightOK(j, x)
      /\ IsSeq(r) /\ \A i \in 1..Len(r) : ReqOK(r[i])
      /\ JobOK(j) /\ RemoveOK(j, r) /\ FileOK(j, u, p, x.done) /\ Done = x.done
  BY <1>1, <1>2, InFlightIs
<1>4. CASE Api!SendsAgain(job) /\ k = [j EXCEPT !.st = "refreshing", !.ans = Api!Asked(j.ctx)]
      /\ UNCHANGED <<reqs, upload>>
  <2>1. x.done = 0
    BY <1>1, <1>2, <1>3, <1>4 DEF Api!SendsAgain, InFlightOK
  <2>2. SameCall(k, j) /\ k.st = "refreshing" /\ InFlightNow(k)
    BY <1>3, <1>4 DEF JobOK, JobFields, SameCall, InFlightNow
  <2>3. JobOK(k) /\ RemoveOK(k, r) /\ FileOK(k, u, p, x.done) /\ Api!Asks(k) = Api!Asks(j)
        /\ SenderOf(k) = SenderOf(j)
    BY <1>2, <1>3, <2>2, SameIs
  <2>4. InFlightOK(k, x)
    BY <1>3, <2>1, <2>2, <2>3 DEF InFlightOK
  <2>5. reqs' = r /\ upload' = u /\ PartsNow' = p
    BY <1>1, <1>4 DEF PartsNow, Api!Parts
  <2> QED
    BY <1>1, <1>3, <2>2, <2>3, <2>4, <2>5, SentIs
<1>5. CASE Api!Settles(job, Api!Outcome(job))
  <2>1. PICK o : o = Api!Outcome(j)
    OBVIOUS
  <2>2. o \in {"ok", "failed"} /\ (o = "ok" => x.done = 1)
    BY <1>2, <1>3, <2>1 DEF Api!Outcome, InFlightOK
  <2> QED
    BY <1>1, <1>2, <1>3, <1>5, <2>1, <2>2, SettlesKeeps
<1> QED
  BY <1>1, <1>4, <1>5 DEF Api!Answered

\* It is sent again as who sent it, or its call is told.
LEMMA GoesOnKeeps == ASSUME ApiInv, Api!GoesOn PROVE ApiInv'
<1>1. PICK j, r, u, p, x, k, s :
        /\ j = job /\ r = reqs /\ u = upload /\ p = PartsNow /\ x = Present /\ k = job' /\ s = reqs'
  OBVIOUS
<1>2. j.st = "refreshing" /\ InFlightNow(j)
  BY <1>1 DEF Api!GoesOn, InFlightNow
<1>3. /\ Len(r) \in Nat \ {0} /\ r[Len(r)] = x /\ ReqOK(x) /\ InFlightOK(j, x)
      /\ IsSeq(r) /\ \A i \in 1..Len(r) : ReqOK(r[i])
      /\ JobOK(j) /\ RemoveOK(j, r) /\ FileOK(j, u, p, x.done) /\ Done = x.done
  BY <1>1, <1>2, InFlightIs
<1>4. x.done = 0 /\ x.as = {SenderOf(j)} /\ DOMAIN x = {"asks", "as", "done", "out"}
  BY <1>2, <1>3 DEF InFlightOK, ReqOK
<1>5. CASE Api!MayGoOn(job)
  <2>1. /\ k = [j EXCEPT !.st = "sent", !.ans = "none", !.again = TRUE]
        /\ s = [r EXCEPT ![Len(r)].as = @ \cup {Api!As(j)}] /\ upload' = u
    BY <1>1, <1>5 DEF Api!GoesOn, Api!Latest
  <2>2. Api!As(j) = SenderOf(j)
    BY <1>1, <1>5 DEF Api!MayGoOn, Api!Refreshed, Api!IsCurrent, Api!As, SenderOf
  <2>3. PICK m \in Nat \ {0} : m = Len(r)
    BY <1>3
  <2>4. PICK y : y = [x EXCEPT !.as = {SenderOf(j)}]
    OBVIOUS
  <2>5. s = [r EXCEPT ![m] = y]
    <3>1. x.as \cup {Api!As(j)} = {SenderOf(j)}
      BY <1>4, <2>2
    <3>2. s = [r EXCEPT ![m].as = r[m].as \cup {Api!As(j)}] /\ r[m] = x
      BY <1>3, <2>1, <2>3
    <3>3. s = [r EXCEPT ![m].as = {SenderOf(j)}]
      BY <3>1, <3>2
    <3> QED
      BY <2>4, <3>2, <3>3
  <2>6. IsSeq(s) /\ Len(s) = m /\ s[m] = y /\ \A i \in 1..m : i # m => s[i] = r[i]
    <3>1. m \in 1..Len(r) /\ IsSeq(r)
      BY <1>3, <2>3
    <3>2. Replaced(s, r, m, y)
      BY <2>5, <3>1, ReplacedIn
    <3> QED
      BY <2>3, <3>2 DEF Replaced
  <2>7. /\ DOMAIN y = {"asks", "as", "done", "out"} /\ y.asks = x.asks /\ y.as = x.as /\ y.done = x.done
        /\ y.out = x.out
    BY <1>4, <2>4
  <2>8. ReqOK(y)
    BY <1>3, <2>7 DEF ReqOK
  <2>9. \A i \in 1..Len(s) : ReqOK(s[i]) /\ s[i].asks = r[i].asks
    BY <1>3, <2>3, <2>6, <2>7, <2>8
  <2>10. SameCall(k, j) /\ k.st = "sent" /\ k.ans = "none" /\ InFlightNow(k)
    BY <1>3, <2>1 DEF JobOK, JobFields, SameCall, InFlightNow
  <2>11. RemoveOK(j, s)
    BY <1>3, <2>3, <2>6, <2>9, RemoveFits
  <2>12. JobOK(k) /\ RemoveOK(k, s) /\ FileOK(k, u, p, x.done) /\ Api!Asks(k) = Api!Asks(j)
         /\ SenderOf(k) = SenderOf(j)
    BY <1>2, <1>3, <2>10, <2>11, SameIs
  <2>13. InFlightOK(k, y)
    BY <1>3, <1>4, <2>7, <2>10, <2>12 DEF InFlightOK
  <2>14. Len(s) > 0 /\ s[Len(s)] = y /\ FileOK(k, u, p, y.done)
    BY <2>3, <2>6, <2>7, <2>12
  <2>15. PartsNow' = p
    BY <1>1, <2>1 DEF PartsNow, Api!Parts
  <2> QED
    BY <1>1, <2>1, <2>6, <2>9, <2>10, <2>12, <2>13, <2>14, <2>15, SentIs
<1>6. CASE ~Api!MayGoOn(job)
  <2>1. PICK o \in {"discarded", "failed"} : Api!Settles(job, o)
    BY <1>6 DEF Api!GoesOn
  <2> QED
    BY <1>1, <1>2, <1>3, <1>4, <2>1, SettlesKeeps
<1> QED
  BY <1>5, <1>6

\* The refresh ends; its answer is all the call has of it.
LEMMA RefreshKeeps == ASSUME ApiInv, Api!RefreshEnds PROVE ApiInv'
<1>1. PICK j, r, u, p, x, k : j = job /\ r = reqs /\ u = upload /\ p = PartsNow /\ x = Present /\ k = job'
  OBVIOUS
<1>2. j.st = "refreshing" /\ InFlightNow(j)
  BY <1>1 DEF Api!RefreshEnds, InFlightNow
<1>3. /\ Len(r) \in Nat \ {0} /\ r[Len(r)] = x /\ ReqOK(x) /\ InFlightOK(j, x)
      /\ IsSeq(r) /\ \A i \in 1..Len(r) : ReqOK(r[i])
      /\ JobOK(j) /\ RemoveOK(j, r) /\ FileOK(j, u, p, x.done) /\ Done = x.done
  BY <1>1, <1>2, InFlightIs
<1>4. PICK a : k = [j EXCEPT !.ans = a]
  BY <1>1 DEF Api!RefreshEnds
<1>5. SameCall(k, j) /\ k.st = "refreshing" /\ InFlightNow(k)
  BY <1>2, <1>3, <1>4 DEF JobOK, JobFields, SameCall, InFlightNow
<1>6. JobOK(k) /\ RemoveOK(k, r) /\ FileOK(k, u, p, x.done) /\ Api!Asks(k) = Api!Asks(j)
      /\ SenderOf(k) = SenderOf(j)
  BY <1>2, <1>3, <1>5, SameIs
<1>7. InFlightOK(k, x)
  BY <1>2, <1>3, <1>5, <1>6 DEF InFlightOK
<1>8. reqs' = r /\ upload' = u /\ PartsNow' = p
  BY <1>1 DEF Api!RefreshEnds, PartsNow, Api!Parts
<1> QED
  BY <1>1, <1>3, <1>5, <1>6, <1>7, <1>8, SentIs

LEMMA ApiNext == ASSUME ApiInv, Api!ApiStep PROVE ApiInv'
<1>1. ASSUME \E op \in Api!Operations, bad \in Api!Bads : Api!Call(op, bad) PROVE ApiInv'
  BY <1>1, CallBegins
<1>2. ASSUME \E size \in 1..MaxSize, bad \in Api!Bads : Api!CallUpload(size, bad) PROVE ApiInv'
  BY <1>2, CallBegins
<1>3. ASSUME \E paths \in Api!Lists : Api!CallRemove(paths) PROVE ApiInv'
  BY <1>3, CallBegins
<1>4. ASSUME Api!Send PROVE ApiInv'
  <2>1. Api!Requests(job) /\ UNCHANGED upload /\ job.st = "asking"
    BY <1>4 DEF Api!Send
  <2> QED
    BY <2>1, RequestKeeps
<1>5. ASSUME \/ Api!CallerChanges
             \/ Api!SessionChanges /\ UNCHANGED Api!apiVars
             \/ job.st = "ended" /\ UNCHANGED <<Api!session, events, Api!apiVars>>
      PROVE  ApiInv'
  <2>1. UNCHANGED <<job, reqs, upload>>
    BY <1>5 DEF Api!CallerChanges, Api!apiVars
  <2> QED
    BY <2>1, ApiQuiet
<1>6. ASSUME Api!Checked \/ Api!Answers \/ Api!Answered \/ Api!GoesOn \/ Api!RefreshEnds PROVE ApiInv'
  BY <1>6, CheckedKeeps, AnswersKeeps, AnsweredKeeps, GoesOnKeeps, RefreshKeeps
<1>7. \/ \E op \in Api!Operations, bad \in Api!Bads : Api!Call(op, bad)
      \/ \E size \in 1..MaxSize, bad \in Api!Bads : Api!CallUpload(size, bad)
      \/ \E paths \in Api!Lists : Api!CallRemove(paths)
      \/ Api!Checked \/ Api!Send \/ Api!Answers \/ Api!Answered \/ Api!GoesOn \/ Api!RefreshEnds \/ Api!CallerChanges
      \/ Api!SessionChanges /\ UNCHANGED Api!apiVars
      \/ job.st = "ended" /\ UNCHANGED <<Api!session, events, Api!apiVars>>
  BY DEF Api!ApiStep
<1> QED
  BY <1>1, <1>2, <1>3, <1>4, <1>5, <1>6, <1>7

\* What the invariant says of the properties.
LEMMA ApiImplies == ApiInv => Api!SameSession /\ Api!PerformedAsTold /\ Api!UploadEnds
<1> SUFFICES ASSUME ApiInv PROVE Api!SameSession /\ Api!PerformedAsTold /\ Api!UploadEnds
  OBVIOUS
<1>1. /\ IsSeq(reqs) /\ Len(reqs) \in Nat /\ DOMAIN reqs = 1..Len(reqs)
      /\ \A i \in 1..Len(reqs) : ReqOK(reqs[i])
      /\ JobOK(job) /\ RemoveOK(job, reqs) /\ FileOK(job, upload, PartsNow, Done) /\ IdleOK
  BY SeqIs DEF ApiInv, ReqsOK
<1>2. Api!SameSession
  <2> SUFFICES ASSUME NEW i \in DOMAIN reqs PROVE \A x, y \in reqs[i].as : x = y
    BY DEF Api!SameSession
  <2>1. PICK x : reqs[i].as \subseteq {x}
    BY <1>1 DEF ReqOK
  <2> QED
    BY <2>1
<1>3. Api!AsksWhatWasChecked
  <2> SUFFICES ASSUME job.plan = "remove"
               PROVE  /\ \A i \in DOMAIN reqs : reqs[i].asks.what = job.copy[i]
                      /\ job.told \in {"ok", "failed"} => Len(reqs) = Len(job.copy) /\ Len(job.outs) = Len(reqs)
    BY DEF Api!AsksWhatWasChecked
  <2>1. \A i \in DOMAIN reqs : reqs[i].asks.what = job.copy[i]
    BY <1>1 DEF RemoveOK
  <2>2. ASSUME job.told \in {"ok", "failed"} PROVE Len(reqs) = Len(job.copy) /\ Len(job.outs) = Len(reqs)
    <3>1. job.st = "ended"
      BY <1>1, <2>2 DEF JobOK
    <3> QED
      BY <1>1, <2>2, <3>1 DEF RemoveOK
  <2> QED
    BY <2>1, <2>2
<1>4. \A i \in DOMAIN reqs :
        reqs[i].done <= 1 /\ (reqs[i].out = "ok" => reqs[i].done = 1) /\ (reqs[i].out = "discarded" => reqs[i].done = 0)
  BY <1>1 DEF ReqOK
<1>5. Api!UploadEnds
  <2>1. PICK u, j, p : u = upload /\ j = job /\ p = PartsNow
    OBVIOUS
  <2>2. DOMAIN u = {"st", "size", "part", "stored"} /\ IsSeq(u.stored)
        /\ FileOK(j, u, p, Done) /\ JobOK(j)
    BY <1>1, <2>1 DEF FileOK
  <2>3. Len(u.stored) \in Nat /\ DOMAIN u.stored = 1..Len(u.stored)
    BY <2>2, SeqIs
  <2>4. ASSUME u.st = "none" PROVE Len(u.stored) = 0
    BY <2>2, <2>4 DEF FileOK
  <2>5. ASSUME u.st # "none"
        PROVE  /\ u.size \in Nat \ {0} /\ u.part \in 1..u.size /\ Len(u.stored) <= p /\ p = Api!Parts
               /\ p \in Nat \ {0} /\ \A i \in 1..Len(u.stored) : u.stored[i] = Api!Slice(i, u.part, u.size)
               /\ u.st = "completed" => Len(u.stored) = p
    <3>1. j.plan = "upload"
      BY <2>2, <2>5 DEF FileOK
    <3>2. /\ u.size \in Nat \ {0} /\ u.part \in 1..u.size
          /\ \A i \in 1..Len(u.stored) : u.stored[i] = Api!Slice(i, u.part, u.size)
      BY <2>2, <2>5, <3>1 DEF FileOK
    <3>3. p = Api!Parts /\ p \in Nat \ {0}
      BY <2>1, <2>5, <3>2, PartsAre DEF PartsNow
    <3>4. 0 <= p
      BY <3>3
    <3>5. Len(u.stored) <= p /\ (u.st = "completed" => Len(u.stored) = p)
      <4>1. j.stage \in {"create", "part", "complete", "abort"}
        BY <2>2, <2>5, <3>1 DEF FileOK
      <4> QED
        BY <2>2, <2>3, <2>5, <3>1, <3>3, <3>4, <4>1 DEF FileOK
    <3> QED
      BY <3>2, <3>3, <3>5
  <2>6. \A i \in DOMAIN u.stored :
          /\ u.stored[i].n = i
          /\ u.stored[i].from = (IF i = 1 THEN 0 ELSE u.stored[i - 1].to) /\ u.stored[i].from < u.stored[i].to
    <3> SUFFICES ASSUME NEW i \in 1..Len(u.stored)
                 PROVE  /\ u.stored[i].n = i
                        /\ u.stored[i].from = (IF i = 1 THEN 0 ELSE u.stored[i - 1].to)
                        /\ u.stored[i].from < u.stored[i].to
      BY <2>3
    <3>1. u.st # "none"
      BY <2>4
    <3>2. i \in 1..Api!Parts
      BY <2>3, <2>5, <3>1
    <3>3. PICK s : s = Api!Slice(i, u.part, u.size)
      OBVIOUS
    <3>4. /\ s.n = i /\ s.from < s.to
          /\ s.from = (IF i = 1 THEN 0 ELSE Api!Slice(i - 1, u.part, u.size).to)
      BY <2>1, <2>5, <3>1, <3>2, <3>3, SlicesMeet
    <3>5. u.stored[i] = s
      BY <2>5, <3>1, <3>3
    <3>6. i # 1 => u.stored[i - 1] = Api!Slice(i - 1, u.part, u.size)
      <4> SUFFICES ASSUME i # 1 PROVE i - 1 \in 1..Len(u.stored)
        BY <2>5, <3>1
      <4> QED
        BY <2>3
    <3> QED
      BY <3>4, <3>5, <3>6
  <2>7. ASSUME u.st = "completed" PROVE u.stored # <<>> /\ u.stored[Len(u.stored)].to = u.size
    <3>1. u.st # "none"
      BY <2>7
    <3>2. Len(u.stored) = p /\ p = Api!Parts /\ p \in Nat \ {0} /\ p \in 1..Api!Parts
      BY <2>5, <2>7, <3>1
    <3>3. Api!Slice(p, u.part, u.size).to = u.size
      BY <2>1, <2>5, <3>1, <3>2, SlicesMeet
    <3>4. u.stored # <<>>
      BY <3>2, EmptyIs
    <3> QED
      BY <2>5, <3>1, <3>2, <3>3, <3>4
  <2>8. Api!WholeFile
    BY <2>1, <2>6, <2>7 DEF Api!WholeFile
  <2>9. ASSUME j.plan = "upload", j.st = "ended"
        PROVE  /\ j.told = "ok" => u.st = "completed"
               /\ u.st = "open" => j.told = "threw" \/ j.stage \in {"create", "complete", "abort"}
    BY <2>2, <2>9 DEF FileOK
  <2> QED
    BY <2>1, <2>8, <2>9 DEF Api!UploadEnds
<1> QED
  BY <1>2, <1>3, <1>4, <1>5 DEF Api!PerformedAsTold

-----------------------------------------------------------------------------
\* The handle of a sandbox session.

\* A session that is ending does not start over.
Over == Sandbox!Ending \cup {"gone"}
States == {"starting", "running", "suspending", "suspended", "resuming"} \cup Over

\* What a call was answered, and what the handle keeps of it, may be old, but no
\* older than the end: whoever saw the session end saw it for good, and a dispose
\* that was answered has ended it.
SandboxInv ==
  /\ DOMAIN ask = Askers /\ remote \in States
  /\ handle \in Sandbox!Ending => remote \in Over
  /\ \A k \in Askers :
       /\ DOMAIN ask[k] = {"st", "op", "seen", "told"}
       /\ ask[k].st \in {"sent", "answered"} => ask[k].told = "none"
       /\ ask[k].st = "answered" =>
            /\ ask[k].seen \in Sandbox!Ending \cup {"404"} => remote \in Over
            /\ ask[k].op = "dispose" /\ ask[k].seen \notin {"error", "other"} => remote \in Over
       /\ ask[k].op = "dispose" /\ ask[k].told = "ok" => remote \in Over

\* The end of a session is not left, by itself or by a request.
LEMMA OverStays ==
  ASSUME NEW s \in States
  PROVE  /\ \A r \in Sandbox!Following(s) : r \in States /\ (s \in Over => r \in Over)
         /\ \A op : Sandbox!Asked(op, s) # "refused" =>
              /\ Sandbox!Asked(op, s) \in States
              /\ s \in Over => Sandbox!Asked(op, s) \in Over
<1>1. \A r \in Sandbox!Following(s) : r \in States /\ (s \in Over => r \in Over)
  BY DEF States, Over, Sandbox!Ending, Sandbox!Following
<1>2. ASSUME NEW op, Sandbox!Asked(op, s) # "refused"
      PROVE  Sandbox!Asked(op, s) \in States /\ (s \in Over => Sandbox!Asked(op, s) \in Over)
  BY <1>2 DEF States, Over, Sandbox!Ending, Sandbox!Asked
<1> QED
  BY <1>1, <1>2

LEMMA SandboxBegins == Sandbox!SandboxInit => SandboxInv
BY DEF Sandbox!SandboxInit, SandboxInv, Sandbox!NoAsk, States, Over, Sandbox!Ending

\* The session goes on, and what was known of its end stays true.
LEMMA SandboxGoesOn ==
  ASSUME SandboxInv, ask' = ask, handle' = handle,
         remote' \in States, remote \in Over => remote' \in Over
  PROVE  SandboxInv'
BY DEF SandboxInv

LEMMA SandboxAsks ==
  ASSUME SandboxInv, NEW k \in Askers, NEW op, Sandbox!Ask(k, op)
  PROVE  SandboxInv'
<1>1. UNCHANGED <<remote, handle>>
  BY DEF Sandbox!Ask
<1>2. PICK a : /\ a = IF op = "dispose" /\ handle \in Sandbox!Ending
                       THEN [Sandbox!NoAsk EXCEPT !.st = "ended", !.op = op, !.told = "ok"]
                       ELSE [Sandbox!NoAsk EXCEPT !.st = "sent", !.op = op]
               /\ ask' = [ask EXCEPT ![k] = a]
  BY DEF Sandbox!Ask
<1>4. /\ DOMAIN a = {"st", "op", "seen", "told"}
      /\ \/ a.st = "sent" /\ a.told = "none"
         \/ a.st = "ended" /\ handle \in Sandbox!Ending
  BY <1>2 DEF Sandbox!NoAsk
<1>3. DOMAIN ask' = Askers /\ ask'[k] = a /\ \A j \in Askers : j # k => ask'[j] = ask[j]
  BY <1>2 DEF SandboxInv
<1> QED
  BY <1>1, <1>3, <1>4 DEF SandboxInv

LEMMA SandboxServes ==
  ASSUME SandboxInv, NEW k \in Askers, Sandbox!Serves(k)
  PROVE  SandboxInv'
<1>1. handle' = handle /\ ask[k].st = "sent"
  BY DEF Sandbox!Serves
<1>2. PICK s : s = Sandbox!Asked(ask[k].op, remote)
  OBVIOUS
<1>3. PICK x : /\ ask' = [ask EXCEPT ![k].st = "answered", ![k].seen = x]
               /\ \/ x = "error" /\ remote' = remote
                  \/ x = "404" /\ remote' = remote /\ remote = "gone"
                  \/ remote # "gone" /\ s # "refused" /\ remote' = s /\ x \in {s, "unknown", "other", "error"}
  BY <1>2 DEF Sandbox!Serves
<1>4. /\ DOMAIN ask' = Askers /\ DOMAIN ask'[k] = {"st", "op", "seen", "told"}
      /\ ask'[k].st = "answered" /\ ask'[k].seen = x /\ ask'[k].op = ask[k].op
      /\ ask'[k].told = ask[k].told
      /\ \A j \in Askers : j # k => ask'[j] = ask[j]
  BY <1>3 DEF SandboxInv
<1>5. remote' \in States /\ (remote \in Over => remote' \in Over) /\ (remote' = s => s \in States)
  <2>1. remote \in States
    BY DEF SandboxInv
  <2> QED
    BY <1>2, <1>3, <2>1, OverStays
<1>6. ask[k].op = "dispose" /\ x \notin {"error", "other"} => remote' \in Over
  BY <1>2, <1>3 DEF Sandbox!Asked, Over, Sandbox!Ending
<1>7. x \in Sandbox!Ending \cup {"404"} => remote' \in Over
  <2>1. x = s /\ remote' = s => x # "404"
    BY <1>5 DEF States, Over, Sandbox!Ending
  <2> QED
    BY <1>3, <2>1 DEF Over, Sandbox!Ending
<1>8. ask[k].told = "none"
  BY <1>1 DEF SandboxInv
<1> QED
  BY <1>1, <1>4, <1>5, <1>6, <1>7, <1>8 DEF SandboxInv

LEMMA SandboxReturns ==
  ASSUME SandboxInv, NEW k \in Askers, Sandbox!Returns(k)
  PROVE  SandboxInv'
<1>1. PICK seen : seen = ask[k].seen
  OBVIOUS
<1>2. remote' = remote /\ ask[k].st = "answered"
  BY DEF Sandbox!Returns
<1>3. PICK t : /\ ask' = [ask EXCEPT ![k].st = "ended", ![k].told = t]
               /\ t = "ok" => \/ seen \notin {"404", "error", "other"}
                              \/ ask[k].op = "dispose" /\ Sandbox!Accepted(seen)
  <2>1. CASE ask[k].seen \notin {"404", "error", "other"} \/ (ask[k].op = "dispose" /\ Sandbox!Accepted(ask[k].seen))
    <3>1. ask' = [ask EXCEPT ![k].st = "ended", ![k].told = "ok"]
      BY <2>1 DEF Sandbox!Returns
    <3> QED
      BY <1>1, <2>1, <3>1
  <2>2. CASE ~(ask[k].seen \notin {"404", "error", "other"} \/ (ask[k].op = "dispose" /\ Sandbox!Accepted(ask[k].seen)))
    <3>1. ask' = [ask EXCEPT ![k].st = "ended", ![k].told = "error"]
      BY <2>2 DEF Sandbox!Returns
    <3>2. "error" # "ok"
      OBVIOUS
    <3> QED
      BY <3>1, <3>2, Zenon
  <2> QED
    BY <2>1, <2>2
<1>9. t = "ok" => \/ seen \notin {"404", "error", "other"}
                  \/ ask[k].op = "dispose" /\ seen = "404"
  BY <1>3 DEF Sandbox!Accepted
<1>4. handle' = handle \/ handle' = seen
  BY <1>1 DEF Sandbox!Returns
<1>5. /\ DOMAIN ask' = Askers /\ DOMAIN ask'[k] = {"st", "op", "seen", "told"}
      /\ ask'[k].st = "ended" /\ ask'[k].told = t /\ ask'[k].op = ask[k].op
      /\ \A j \in Askers : j # k => ask'[j] = ask[j]
  BY <1>3 DEF SandboxInv
<1>6. seen \in Sandbox!Ending \cup {"404"} => remote \in Over
  BY <1>1, <1>2 DEF SandboxInv
<1>7. ask[k].op = "dispose" /\ t = "ok" => remote \in Over
  BY <1>1, <1>2, <1>9 DEF SandboxInv
<1>8. handle' \in Sandbox!Ending => remote' \in Over
  BY <1>2, <1>4, <1>6 DEF SandboxInv
<1> QED
  BY <1>2, <1>5, <1>7, <1>8 DEF SandboxInv

LEMMA SandboxNext ==
  ASSUME SandboxInv, [Sandbox!SandboxStep]_ofSandbox
  PROVE  SandboxInv'
<1>1. CASE Sandbox!ServerGoesOn
  <2>1. remote' \in States /\ (remote \in Over => remote' \in Over)
    BY <1>1, OverStays DEF Sandbox!ServerGoesOn, SandboxInv
  <2> QED
    BY <1>1, <2>1, SandboxGoesOn DEF Sandbox!ServerGoesOn
<1>2. CASE UNCHANGED ofSandbox
  BY <1>2, SandboxGoesOn DEF ofSandbox, SandboxInv
<1> QED
  BY <1>1, <1>2, SandboxAsks, SandboxServes, SandboxReturns
    DEF Sandbox!SandboxStep, Sandbox!sandboxVars, ofSandbox

LEMMA SandboxImplies == SandboxInv => Sandbox!DisposedIsEnding
BY DEF SandboxInv, Sandbox!DisposedIsEnding, Over

-----------------------------------------------------------------------------
\* One request with its timer.

\* As long as the request goes on, whoever aborted it is known: the timer that has
\* fired, or the caller who gave it up.
FetchInv ==
  /\ signal \in {"quiet", "timer", "caller"} /\ reason \in {"AbortError", "caller"}
  /\ signal = "caller" => caller = "aborted"
  /\ request \in {"idle", "fetching", "reading", "ended"}
  /\ request = "idle" => timer = "cleared" /\ signal = "quiet" /\ ~follows
  /\ request = "fetching" \/ (request = "reading" /\ reader = "consumer") =>
       /\ timer \in {"set", "fired"} /\ (timer = "fired" => signal # "quiet")
       /\ signal = "timer" => timer = "fired"
  /\ Fetch!TellsWhy

LEMMA FetchBegins == Fetch!FetchInit => FetchInv
BY DEF Fetch!FetchInit, FetchInv, Fetch!TellsWhy

\* Whatever ends it, what is told of it is why.
LEMMA FetchEnds ==
  ASSUME FetchInv, request = "fetching" \/ (request = "reading" /\ reader = "consumer"),
         NEW out, Fetch!Ends(out),
         \/ out \in {"network", "value"}
         \/ out = "{}" /\ signal = "quiet"
         \/ out = Fetch!Rejection /\ signal # "quiet"
  PROVE  FetchInv'
BY DEF FetchInv, Fetch!TellsWhy, Fetch!Ends, Fetch!GivenUp, Fetch!IsRequestTimeout, Fetch!Rejection

\* A body that is read later tells of itself.
LEMMA FetchTold ==
  ASSUME FetchInv, reader # "consumer", NEW out \in {"value", "{}", "unreadable"}, Fetch!Told(out)
  PROVE  FetchInv'
BY DEF FetchInv, Fetch!TellsWhy, Fetch!Told

LEMMA FetchNext ==
  ASSUME FetchInv, [Fetch!FetchStep]_ofFetch
  PROVE  FetchInv'
<1>1. CASE Fetch!Fetches
  <2>1. /\ request' = "fetching" /\ timer' = "set" /\ caller' = caller /\ reason' = reason
        /\ signal' = IF caller = "aborted" THEN "caller" ELSE "quiet"
    BY <1>1 DEF Fetch!Fetches
  <2>2. Fetch!TellsWhy'
    BY <2>1 DEF Fetch!TellsWhy
  <2> QED
    BY <2>1, <2>2 DEF FetchInv
<1>2. CASE Fetch!TimerFires
  BY <1>2 DEF Fetch!TimerFires, Fetch!AbortedBy, FetchInv, Fetch!TellsWhy
<1>3. CASE Fetch!CallerAborts
  <2>1. /\ caller' = "aborted" /\ caller = "quiet" /\ timer' = timer /\ reason' = reason
        /\ request' = request /\ outcome' = outcome /\ follows' = follows
        /\ signal' = signal \/ (signal = "quiet" /\ signal' = "caller")
    BY <1>3 DEF Fetch!CallerAborts, Fetch!AbortedBy
  <2>5. request \in {"idle", "ended"} => ~follows
    BY Zenon DEF FetchInv, Fetch!TellsWhy
  <2>6. ~follows => signal' = signal /\ ~follows'
    BY <1>3, Zenon DEF Fetch!CallerAborts
  <2>2. request \in {"idle", "ended"} => signal' = signal /\ ~follows'
    BY <2>5, <2>6
  <2>3. request = "ended" =>
          /\ outcome = "timeout" => signal = "timer"
          /\ outcome \in {"{}", "unreadable"} => signal = "quiet"
          /\ timer = "cleared"
    BY Zenon DEF FetchInv, Fetch!TellsWhy
  <2>7. request = "reading" /\ reader # "consumer" =>
          timer = "cleared" /\ ~follows /\ signal = "quiet"
    BY Zenon DEF FetchInv, Fetch!TellsWhy
  <2>8. reader' = reader
    BY <1>3 DEF Fetch!CallerAborts
  <2>4. Fetch!TellsWhy'
    BY <2>1, <2>2, <2>3, <2>6, <2>7, <2>8 DEF Fetch!TellsWhy
  <2> QED
    BY <2>1, <2>2, <2>4, <2>8 DEF FetchInv
<1>4. CASE Fetch!Responds
  BY <1>4 DEF Fetch!Responds, Fetch!GivenUp, FetchInv, Fetch!TellsWhy
<1>5. CASE Fetch!FetchFails
  BY <1>5, FetchEnds DEF Fetch!FetchFails
<1>6. CASE Fetch!BodyEnds
  BY <1>6, FetchEnds DEF Fetch!BodyEnds
<1>8. CASE Fetch!AnonBodyEnds
  BY <1>8, FetchTold DEF Fetch!AnonBodyEnds
<1>9. CASE Fetch!VolcanoBodyEnds
  BY <1>9, FetchTold DEF Fetch!VolcanoBodyEnds
<1>7. CASE UNCHANGED ofFetch
  BY <1>7 DEF ofFetch, FetchInv, Fetch!TellsWhy
<1> QED
  BY <1>1, <1>2, <1>3, <1>4, <1>5, <1>6, <1>7, <1>8, <1>9
    DEF Fetch!FetchStep, Fetch!fetchVars, ofFetch

LEMMA FetchImplies == FetchInv => Fetch!TellsWhy
BY DEF FetchInv

-----------------------------------------------------------------------------
\* Sign-in by redirect.

\* What storage has is of the flow last started, or nothing, and that flow was not
\* accepted yet; so none is accepted twice, and each one as the latest.
RedirectInv ==
  /\ IsSeq(flows) /\ IsSeq(accepted)
  /\ DOMAIN store = {"nonce", "url"} /\ store.nonce \in {0, Len(flows)}
  /\ ~storage => store.nonce = 0
  /\ store.nonce # 0 =>
       /\ flows[store.nonce].kind = "oauth" => store.url = flows[store.nonce].at
       /\ \A i \in 1..Len(accepted) : accepted[i].flow # store.nonce
  /\ \A i \in 1..Len(accepted) :
       /\ accepted[i].flow \in 1..Len(flows) /\ accepted[i].flow = accepted[i].latest
       /\ flows[accepted[i].flow].kind = "oauth" => accepted[i].to = flows[accepted[i].flow].at
       /\ \A j \in 1..Len(accepted) : accepted[j].flow = accepted[i].flow => j = i

LEMMA RedirectBegins == Redirect!RedirectInit => RedirectInv
BY EmptyIs DEF Redirect!RedirectInit, RedirectInv, Redirect!Empty

LEMMA RedirectImplies == RedirectInv => Redirect!TakenOnce
<1> SUFFICES ASSUME RedirectInv PROVE Redirect!TakenOnce
  OBVIOUS
<1>1. DOMAIN accepted = 1..Len(accepted)
  BY SeqIs DEF RedirectInv
<1> QED
  BY <1>1 DEF RedirectInv, Redirect!TakenOnce

\* Steps that neither start a flow nor accept one.
LEMMA RedirectRests ==
  ASSUME RedirectInv, flows' = flows, accepted' = accepted, storage' = storage,
         store' = store \/ store' = Redirect!Empty
  PROVE  RedirectInv'
BY SeqIs DEF RedirectInv, Redirect!Empty

\* A flow starts: what was stored of the one before is gone.
LEMMA FlowStarts ==
  ASSUME RedirectInv, NEW kind, NEW at, Redirect!StartsFlow(kind, at)
  PROVE  RedirectInv'
<1>1. PICK n \in Nat : n = Len(flows)
  BY SeqIs DEF RedirectInv
<1>2. /\ flows' = Append(flows, [kind |-> kind, at |-> at]) /\ accepted' = accepted /\ storage' = storage
      /\ store' = IF storage THEN [nonce |-> n + 1, url |-> IF kind = "oauth" THEN at ELSE Redirect!NoPage] ELSE store
  BY <1>1 DEF Redirect!StartsFlow
<1>3. /\ IsSeq(flows') /\ Len(flows') = n + 1 /\ flows'[n + 1] = [kind |-> kind, at |-> at]
      /\ \A i \in 1..n : flows'[i] = flows[i]
  BY <1>1, <1>2, LongerBy DEF RedirectInv
<1>4. Len(accepted) \in Nat
  BY SeqIs DEF RedirectInv
<1>5. DOMAIN store' = {"nonce", "url"} /\ store'.nonce \in {0, n + 1} /\ (~storage => store'.nonce = 0)
  BY <1>2 DEF RedirectInv
<1>6. store'.nonce # 0 => store'.nonce = n + 1 /\ (kind = "oauth" => store'.url = at)
  BY <1>2 DEF RedirectInv
<1>7. \A i \in 1..Len(accepted) :
       /\ accepted[i].flow \in 1..n /\ accepted[i].flow = accepted[i].latest
       /\ flows[accepted[i].flow].kind = "oauth" => accepted[i].to = flows[accepted[i].flow].at
       /\ \A j \in 1..Len(accepted) : accepted[j].flow = accepted[i].flow => j = i
  BY <1>1 DEF RedirectInv
<1>8. \A i \in 1..Len(accepted) : flows'[accepted[i].flow] = flows[accepted[i].flow] /\ accepted[i].flow # n + 1
  BY <1>3, <1>7
<1>9. store'.nonce # 0 => (flows'[store'.nonce].kind = "oauth" => store'.url = flows'[store'.nonce].at)
  BY <1>3, <1>6
<1>10. \A i \in 1..Len(accepted) : accepted[i].flow \in 1..(n + 1)
  BY <1>7
<1> QED
  BY <1>2, <1>3, <1>4, <1>5, <1>6, <1>7, <1>8, <1>9, <1>10 DEF RedirectInv

\* A callback is accepted: its flow is the one storage has, and no more.
LEMMA FlowAccepted ==
  ASSUME RedirectInv, NEW a, Redirect!Matches(a), Redirect!Accepts(a), store' = Redirect!Empty, UNCHANGED <<flows, storage>>
  PROVE  RedirectInv'
<1>1. PICK n \in Nat, m \in Nat : n = Len(flows) /\ m = Len(accepted)
  BY SeqIs DEF RedirectInv
<1>2. PICK x : x = [flow |-> a.flow, latest |-> Len(flows), to |-> store.url]
  OBVIOUS
<1>3. accepted' = Append(accepted, x)
  BY <1>2 DEF Redirect!Accepts
<1>4. /\ IsSeq(accepted') /\ Len(accepted') = m + 1 /\ accepted'[m + 1] = x
      /\ \A i \in 1..m : accepted'[i] = accepted[i]
  BY <1>1, <1>3, LongerBy DEF RedirectInv
<1>5. store.nonce = a.flow /\ store.nonce # 0 /\ store.nonce = n /\ n # 0
  BY <1>1 DEF Redirect!Matches, RedirectInv
<1>6. /\ x.flow = n /\ x.latest = n /\ (flows[n].kind = "oauth" => x.to = flows[n].at)
      /\ \A i \in 1..m : accepted[i].flow # n
  BY <1>1, <1>2, <1>5 DEF RedirectInv
<1>7. \A i \in 1..m :
       /\ accepted[i].flow \in 1..n /\ accepted[i].flow = accepted[i].latest
       /\ flows[accepted[i].flow].kind = "oauth" => accepted[i].to = flows[accepted[i].flow].at
       /\ \A j \in 1..m : accepted[j].flow = accepted[i].flow => j = i
  BY <1>1 DEF RedirectInv
<1>8. ASSUME NEW i \in 1..(m + 1)
      PROVE  /\ accepted'[i].flow \in 1..n /\ accepted'[i].flow = accepted'[i].latest
             /\ flows[accepted'[i].flow].kind = "oauth" => accepted'[i].to = flows[accepted'[i].flow].at
             /\ \A j \in 1..(m + 1) : accepted'[j].flow = accepted'[i].flow => j = i
  <2>1. CASE i = m + 1
    BY <1>4, <1>5, <1>6, <2>1
  <2>2. CASE i \in 1..m
    BY <1>4, <1>5, <1>6, <1>7, <2>2
  <2> QED
    BY <2>1, <2>2
<1>9. DOMAIN store' = {"nonce", "url"} /\ store'.nonce = 0
  BY DEF Redirect!Empty
<1>10. IsSeq(flows)
  BY DEF RedirectInv
<1> QED
  BY <1>1, <1>4, <1>8, <1>9, <1>10 DEF RedirectInv

LEMMA RedirectNext ==
  ASSUME RedirectInv, [Redirect!RedirectStep]_ofRedirect
  PROVE  RedirectInv'
<1>1. ASSUME NEW a, NEW c, NEW s, Redirect!ConsumeTokens(a, c, s), UNCHANGED <<flows, storage>>
      PROVE RedirectInv'
  BY <1>1, RedirectRests, FlowAccepted DEF Redirect!ConsumeTokens, Redirect!Taken
<1>2. ASSUME NEW a, NEW c, NEW s, Redirect!ConsumeCode(a, c, s), UNCHANGED <<flows, storage>>
      PROVE RedirectInv'
  BY <1>2, RedirectRests, FlowAccepted DEF Redirect!ConsumeCode, Redirect!Taken
<1>3. ASSUME NEW a, Redirect!Visit(a) PROVE RedirectInv'
  BY <1>1, <1>2, <1>3, RedirectRests DEF Redirect!Visit
<1>4. CASE \E kind \in {"hosted", "oauth"}, at \in Pages : Redirect!StartsFlow(kind, at)
  BY <1>4, FlowStarts
<1>5. CASE \E f \in 1..Len(flows) : Redirect!ComesBack(f) \/ Redirect!FragmentComes(f)
  BY <1>3, <1>5, RedirectRests DEF Redirect!ComesBack, Redirect!FragmentComes
<1>6. CASE Redirect!Reloads \/ Redirect!GoesBack
  BY <1>3, <1>6 DEF Redirect!Reloads, Redirect!GoesBack
<1>7. CASE Redirect!GetUser
  BY <1>1, <1>7 DEF Redirect!GetUser
<1>8. CASE Redirect!ExchangeEnds \/ Redirect!SignsIn
  BY <1>8, RedirectRests DEF Redirect!ExchangeEnds, Redirect!SignsIn
<1>9. CASE UNCHANGED ofRedirect
  BY <1>9, RedirectRests DEF ofRedirect
<1> QED
  BY <1>4, <1>5, <1>6, <1>7, <1>8, <1>9 DEF Redirect!RedirectStep

-----------------------------------------------------------------------------
\* What an answer with a session has to look like.

\* What a validated user is made of: the fields of a user alone.
UserOK(u) == u \in [Shapes!UserFields -> Shapes!Is] /\ Shapes!validateAuthUser(u)

\* The client has an access token with a user it validated, or no user; and storage
\* has the tokens, unless they were set in memory only.
ShapesInv ==
  /\ DOMAIN holds = {"access", "refresh", "user"}
  /\ holds.access \in {"text", "blank", "null"} /\ holds.refresh \in {"text", "blank", "null"}
  /\ holds.user = Shapes!NobodyUser \/ (UserOK(holds.user) /\ holds.access # "null")
  /\ kept = [access |-> kept.access, refresh |-> kept.refresh]
  /\ kept.access \in {"text", "blank", "null"} /\ kept.refresh \in {"text", "blank", "null"}
  /\ "memory" \in unchecked \/ (holds.access # "blank" /\ holds.refresh # "blank")
  /\ "storage" \in unchecked \/ (kept.access # "blank" /\ kept.refresh # "blank")
  /\ Shapes!StoredAsHeld

LEMMA ShapesBegin == Shapes!CompleteInit => ShapesInv
<1> SUFFICES ASSUME Shapes!CompleteInit PROVE ShapesInv
  OBVIOUS
<1>1. PICK a \in {"text", "blank", "null"}, r \in {"text", "blank", "null"} :
        holds = [access |-> a, refresh |-> r, user |-> Shapes!NobodyUser]
  BY DEF Shapes!CompleteInit, Shapes!Nothing
<1>2. PICK b \in {"text", "blank", "null"}, s \in {"text", "blank", "null"} :
        kept = [access |-> b, refresh |-> s]
  BY <1>1 DEF Shapes!CompleteInit, Shapes!Tokens, Shapes!Nothing
<1>3. (saved => kept = Shapes!Tokens(holds)) /\ "memory" \in unchecked /\ "storage" \in unchecked
  BY DEF Shapes!CompleteInit, Shapes!Places
<1> QED
  BY <1>1, <1>2, <1>3 DEF ShapesInv, Shapes!StoredAsHeld, Shapes!Tokens

\* Whatever way in, what is kept has been checked, or is noted as unchecked.
LEMMA KeepsWell ==
  ASSUME NEW a \in {"text", "blank", "null"}, NEW r \in {"text", "blank", "null"}, NEW u, NEW bare,
         u = Shapes!NobodyUser \/ (UserOK(u) /\ a # "null"),
         bare = Shapes!Places \/ (a # "blank" /\ r # "blank"),
         Shapes!Keeps([access |-> a, refresh |-> r, user |-> u], bare)
  PROVE  ShapesInv'
<1>1. /\ holds' = [access |-> a, refresh |-> r, user |-> u] /\ kept' = [access |-> a, refresh |-> r]
      /\ unchecked' = bare
  BY DEF Shapes!Keeps, Shapes!Stores, Shapes!Tokens
<1>2. Shapes!StoredAsHeld'
  BY <1>1 DEF Shapes!StoredAsHeld, Shapes!Tokens
<1>3. /\ "memory" \in bare \/ (a # "blank" /\ r # "blank")
      /\ "storage" \in bare \/ (a # "blank" /\ r # "blank")
  BY DEF Shapes!Places
<1> QED
  BY <1>1, <1>2, <1>3 DEF ShapesInv

\* A field of an answer, and its user as a record of its own.
LEMMA AnswersAre ==
  ASSUME NEW x \in Shapes!Answers
  PROVE  x \in [Shapes!Fields -> Shapes!Is]
<1>1. Shapes!Usual \in [Shapes!Fields -> Shapes!Is]
  BY DEF Shapes!Usual, Shapes!Is
<1>2. "absent" \in Shapes!Is
  BY DEF Shapes!Is
<1>3. PICK f \in Shapes!Fields, g \in Shapes!Fields, v \in Shapes!Is : x = [Shapes!Usual EXCEPT ![g] = "absent", ![f] = v]
  BY DEF Shapes!Answers
<1> QED
  BY <1>1, <1>2, <1>3

LEMMA UserIs ==
  ASSUME NEW x \in [Shapes!Fields -> Shapes!Is], Shapes!validateAuthUser(x)
  PROVE  UserOK(Shapes!UserFieldsOf(x))
<1>1. PICK u : u = Shapes!UserFieldsOf(x)
  OBVIOUS
<1>2. /\ u \in [Shapes!UserFields -> Shapes!Is] /\ u["id"] = x["id"] /\ u["email"] = x["email"]
      /\ u["status"] = x["status"]
      /\ u["email_confirmed"] = x["email_confirmed"] /\ u["banned_until"] = x["banned_until"]
      /\ u["created_at"] = x["created_at"] /\ u["user_metadata"] = x["user_metadata"]
  BY <1>1 DEF Shapes!UserFieldsOf, Shapes!UserFields, Shapes!Fields
<1>3. Shapes!validateAuthUser(u)
  BY <1>2 DEF Shapes!validateAuthUser, Shapes!isNonEmptyString, Shapes!isString,
       Shapes!optionalStatusError, Shapes!optionalBooleanError,
     Shapes!optionalNullableStringError, Shapes!optionalStringError, Shapes!optionalMetadataError
<1> QED
  BY <1>1, <1>2, <1>3 DEF UserOK

LEMMA AnswerKept ==
  ASSUME NEW x \in Shapes!Answers, Shapes!validateAuthUser(x), Shapes!isNonEmptyString(x["access_token"]),
         Shapes!optionalRefreshToken(x) \/ Shapes!isNonEmptyString(x["refresh_token"])
  PROVE  \E r \in {"text", "null"} : \E u :
           Shapes!OfAnswer(x) = [access |-> "text", refresh |-> r, user |-> u] /\ UserOK(u)
<1>1. UserOK(Shapes!UserFieldsOf(x))
  BY AnswersAre, UserIs
<1>2. x["access_token"] = "text" /\ Shapes!OrNull(x["refresh_token"]) \in {"text", "null"}
  BY DEF Shapes!isNonEmptyString, Shapes!optionalRefreshToken, Shapes!OrNull
<1> QED
  BY <1>1, <1>2 DEF Shapes!OfAnswer

LEMMA ShapesNext ==
  ASSUME ShapesInv, [Shapes!CompleteStep]_ofShapes
  PROVE  ShapesInv'
<1>1. ASSUME NEW x \in Shapes!Answers, Shapes!Keeps(Shapes!OfAnswer(x), {}), Shapes!validateAuthUser(x),
             Shapes!isNonEmptyString(x["access_token"]), Shapes!optionalRefreshToken(x) \/ Shapes!isNonEmptyString(x["refresh_token"])
      PROVE  ShapesInv'
  BY <1>1, AnswerKept, KeepsWell
<1>2. ASSUME NEW x \in Shapes!Answers,
             Shapes!signIn(x) \/ Shapes!signInAnonymously(x) \/ Shapes!exchangeOAuthCode(x) \/ Shapes!refreshSession(x)
      PROVE  ShapesInv'
  <2>1. /\ Shapes!Keeps(Shapes!OfAnswer(x), {}) /\ Shapes!validateAuthUser(x)
        /\ Shapes!isNonEmptyString(x["access_token"])
        /\ Shapes!optionalRefreshToken(x)
    BY <1>2 DEF Shapes!signIn, Shapes!signInAnonymously, Shapes!exchangeOAuthCode,
         Shapes!refreshSession, Shapes!validateSuccessfulRefresh,
       Shapes!assertAuthTokenResponse, Shapes!validateOAuthSession
  <2> QED
    BY <1>1, <2>1
<1>3. ASSUME NEW x \in Shapes!Answers, Shapes!setSession(x) PROVE ShapesInv'
  <2>1. Shapes!validateAuthUser(x) /\ Shapes!isNonEmptyString(x["access_token"])
        /\ Shapes!isNonEmptyString(x["refresh_token"])
    BY <1>3 DEF Shapes!setSession, Shapes!isCompleteSession, Shapes!validateCredentials
  <2>6. PICK r \in {"text", "null"} : \E u :
          Shapes!OfAnswer(x) = [access |-> "text", refresh |-> r, user |-> u] /\ UserOK(u)
    BY <2>1, AnswerKept
  <2>2. PICK u : Shapes!OfAnswer(x) = [access |-> "text", refresh |-> r, user |-> u] /\ UserOK(u)
    BY <2>6
  <2>3. /\ holds' = [access |-> "text", refresh |-> r, user |-> u] /\ kept' = kept /\ saved' = FALSE
        /\ unchecked' = unchecked \ {"memory"}
    BY <1>3, <2>2 DEF Shapes!setSession
  <2> QED
    BY <2>2, <2>3 DEF ShapesInv, Shapes!StoredAsHeld
<1>4. ASSUME NEW x \in Shapes!Answers, Shapes!adoptedUser(x) PROVE ShapesInv'
  <2>1. UserOK(Shapes!UserFieldsOf(x)) /\ holds.access # "null"
    BY <1>4, AnswersAre, UserIs DEF Shapes!adoptedUser, ShapesInv
  <2>2. PICK u : u = Shapes!UserFieldsOf(x)
    OBVIOUS
  <2>3. holds' = [holds EXCEPT !.user = u] /\ kept' = kept /\ saved' = saved /\ unchecked' = unchecked
    BY <1>4, <2>2 DEF Shapes!adoptedUser
  <2>4. /\ DOMAIN holds' = {"access", "refresh", "user"} /\ holds'.user = u
        /\ holds'.access = holds.access /\ holds'.refresh = holds.refresh
    BY <2>3 DEF ShapesInv
  <2>5. Shapes!StoredAsHeld'
    BY <2>3, <2>4 DEF Shapes!StoredAsHeld, Shapes!Tokens, ShapesInv
  <2> QED
    BY <2>1, <2>2, <2>3, <2>4, <2>5 DEF ShapesInv
<1>5. ASSUME NEW access \in {"text", "blank"}, NEW refresh \in {"text", "empty", "blank", "absent"},
             Shapes!consumeSessionFromUrl(access, refresh)
      PROVE ShapesInv'
  <2>1. PICK r \in {"text", "blank", "null"} :
          Shapes!Keeps([access |-> access, refresh |-> r, user |-> Shapes!NobodyUser], Shapes!Places)
    BY <1>5 DEF Shapes!consumeSessionFromUrl
  <2> QED
    BY <2>1, KeepsWell
<1>6. CASE Shapes!signOut
  BY <1>6, KeepsWell DEF Shapes!signOut, Shapes!Nothing
<1>7. CASE Shapes!initializeCredentials
  <2>1. /\ holds' = [access |-> kept.access, refresh |-> kept.refresh, user |-> Shapes!NobodyUser]
        /\ kept' = kept /\ unchecked' = IF "storage" \in unchecked THEN {"memory", "storage"} ELSE {}
    BY <1>7 DEF Shapes!initializeCredentials, Shapes!Places
  <2>2. Shapes!StoredAsHeld'
    BY <2>1 DEF Shapes!StoredAsHeld, Shapes!Tokens, ShapesInv
  <2> QED
    BY <2>1, <2>2 DEF ShapesInv
<1>8. CASE UNCHANGED ofShapes
  BY <1>8 DEF ofShapes, ShapesInv, Shapes!StoredAsHeld
<1> QED
  BY <1>2, <1>3, <1>4, <1>5, <1>6, <1>7, <1>8 DEF Shapes!CompleteStep

\* What the client says of a session another one takes.
LEMMA ShapesImply == ShapesInv => Shapes!StoredAsHeld /\ Shapes!TakesBack
<1> SUFFICES ASSUME ShapesInv PROVE Shapes!StoredAsHeld /\ Shapes!TakesBack
  OBVIOUS
<1>1. PICK u : u = holds.user
  OBVIOUS
<1>2. PICK g : g = Shapes!getSession
  OBVIOUS
<1>3. /\ g["access_token"] = holds.access /\ g["refresh_token"] = holds.refresh
      /\ \A f \in Shapes!UserFields : g[f] = u[f]
  <2>1. g["access_token"] = holds.access /\ g["refresh_token"] = holds.refresh
    BY <1>2 DEF Shapes!getSession, Shapes!Fields, Shapes!UserFields
  <2>2. ASSUME NEW f \in Shapes!UserFields PROVE g[f] = u[f]
    BY <1>1, <1>2 DEF Shapes!getSession, Shapes!Fields, Shapes!UserFields
  <2> QED
    BY <2>1, <2>2
<1>4. /\ g["id"] = u["id"] /\ g["email"] = u["email"] /\ g["status"] = u["status"]
      /\ g["email_confirmed"] = u["email_confirmed"] /\ g["banned_until"] = u["banned_until"]
      /\ g["created_at"] = u["created_at"] /\ g["user_metadata"] = u["user_metadata"]
  BY <1>3 DEF Shapes!UserFields
<1>5. /\ u # Shapes!NobodyUser => Shapes!validateAuthUser(u) /\ holds.access \in {"text", "blank"}
      /\ holds.refresh \in {"text", "blank", "null"}
      /\ "memory" \in unchecked \/ "blank" \notin {holds.access, holds.refresh}
  BY <1>1 DEF ShapesInv, UserOK
<1>6. Shapes!validateAuthUser(u) => Shapes!validateAuthUser(g)
  BY <1>4 DEF Shapes!validateAuthUser, Shapes!isNonEmptyString, Shapes!isString,
       Shapes!optionalStatusError, Shapes!optionalBooleanError,
     Shapes!optionalNullableStringError, Shapes!optionalStringError, Shapes!optionalMetadataError
<1>7. ASSUME u # Shapes!NobodyUser
      PROVE  /\ Shapes!validateAuthUser(g)
             /\ holds.refresh = "null" \/ Shapes!isCompleteSession(g)
                  \/ ("memory" \in unchecked /\ "blank" \in {holds.access, holds.refresh})
  <2>1. Shapes!validateAuthUser(g)
    BY <1>5, <1>6, <1>7
  <2>2. CASE holds.access = "text" /\ holds.refresh = "text"
    BY <1>3, <2>1, <2>2 DEF Shapes!isCompleteSession, Shapes!validateCredentials,
         Shapes!isNonEmptyString
  <2>3. CASE ~(holds.access = "text" /\ holds.refresh = "text")
    BY <1>5, <1>7, <2>1, <2>3
  <2> QED
    BY <2>1, <2>2, <2>3
<1> QED
  BY <1>1, <1>2, <1>7 DEF Shapes!TakesBack, ShapesInv

-----------------------------------------------------------------------------
\* The channels of a client.

\* A name finds a channel that has it, and every channel that nobody closed is found.
ChannelsInv ==
  /\ IsSeq(opened) /\ DOMAIN open = Channels!Names
  /\ \A n \in Channels!Names : open[n] \in 0..Len(opened) /\ (open[n] # 0 => opened[open[n]] = n)
  /\ \A o \in 1..Len(opened) : opened[o] \in Channels!Names
  /\ Channels!StaysOpen

LEMMA ChannelsBegin == Channels!EventsInit => ChannelsInv
<1> SUFFICES ASSUME Channels!EventsInit PROVE ChannelsInv
  OBVIOUS
<1>1. opened = <<>> /\ IsSeq(opened) /\ Len(opened) = 0
  BY EmptyIs DEF Channels!EventsInit
<1>2. DOMAIN open = Channels!Names /\ \A n \in Channels!Names : open[n] = 0
  BY DEF Channels!EventsInit
<1> QED
  BY <1>1, <1>2 DEF ChannelsInv, Channels!StaysOpen, Channels!Opened

\* What is told, and who registers for it, is of no account.
LEMMA ChannelsQuiet ==
  ASSUME ChannelsInv, UNCHANGED <<open, opened, closed>>
  PROVE  ChannelsInv'
BY DEF ChannelsInv, Channels!StaysOpen, Channels!Opened

\* A channel takes the name that nobody has.
LEMMA OpenKeeps ==
  ASSUME ChannelsInv, NEW name \in Channels!Names, Channels!Open(name)
  PROVE  ChannelsInv'
<1>1. PICK o, s, p, t, c : o = open /\ s = opened /\ p = open' /\ t = opened' /\ c = closed
  OBVIOUS
<1>2. /\ o[name] = 0 /\ t = Append(s, name) /\ p = [o EXCEPT ![name] = Len(s) + 1] /\ closed' = c
  BY <1>1 DEF Channels!Open
<1>3. /\ IsSeq(s) /\ DOMAIN o = Channels!Names
      /\ \A n \in Channels!Names : o[n] \in 0..Len(s) /\ (o[n] # 0 => s[o[n]] = n)
      /\ \A i \in 1..Len(s) : s[i] \in Channels!Names
      /\ \A i \in (1..Len(s)) \ c : o[s[i]] = i
  BY <1>1 DEF ChannelsInv, Channels!StaysOpen, Channels!Opened
<1>4. PICK m \in Nat : m = Len(s)
  BY <1>3, SeqIs
<1>5. IsSeq(t) /\ Len(t) = m + 1 /\ t[m + 1] = name /\ \A i \in 1..m : t[i] = s[i]
  BY <1>2, <1>3, <1>4, LongerBy
<1>6. DOMAIN p = Channels!Names /\ p[name] = m + 1 /\ \A n \in Channels!Names : n # name => p[n] = o[n]
  BY <1>2, <1>3, <1>4
<1>7. \A n \in Channels!Names : p[n] \in 0..(m + 1) /\ (p[n] # 0 => t[p[n]] = n)
  <2> SUFFICES ASSUME NEW n \in Channels!Names PROVE p[n] \in 0..(m + 1) /\ (p[n] # 0 => t[p[n]] = n)
    OBVIOUS
  <2>1. CASE n = name
    BY <1>4, <1>5, <1>6, <2>1
  <2>2. CASE n # name
    <3>1. p[n] = o[n] /\ o[n] \in 0..m /\ (o[n] # 0 => s[o[n]] = n)
      BY <1>3, <1>4, <1>6, <2>2
    <3>2. o[n] # 0 => t[o[n]] = s[o[n]]
      BY <1>5, <3>1
    <3> QED
      BY <1>4, <3>1, <3>2
  <2> QED
    BY <2>1, <2>2
<1>8. ASSUME NEW i \in 1..(m + 1)
      PROVE  t[i] \in Channels!Names /\ (i \notin c => p[t[i]] = i)
  <2>1. CASE i = m + 1
    BY <1>5, <1>6, <2>1
  <2>2. CASE i # m + 1
    <3>1. i \in 1..m
      BY <1>4, <2>2
    <3>2. t[i] = s[i] /\ s[i] \in Channels!Names /\ (i \notin c => o[s[i]] = i)
      BY <1>3, <1>4, <1>5, <3>1
    <3>3. i \notin c => s[i] # name
      BY <1>2, <3>1, <3>2
    <3> QED
      BY <1>6, <3>2, <3>3
  <2> QED
    BY <2>1, <2>2
<1>9. Channels!Opened' = 1..(m + 1)
  BY <1>1, <1>5 DEF Channels!Opened
<1>10. Channels!StaysOpen'
  BY <1>1, <1>2, <1>8, <1>9 DEF Channels!StaysOpen
<1> QED
  BY <1>1, <1>5, <1>6, <1>7, <1>8, <1>10 DEF ChannelsInv

\* Who closes a channel frees its name.
LEMMA CloseKeeps ==
  ASSUME ChannelsInv, NEW S, opened' = opened, closed' = closed \cup S,
         DOMAIN open' = Channels!Names, \A n \in Channels!Names : open'[n] = (IF open[n] \in S THEN 0 ELSE open[n])
  PROVE  ChannelsInv'
<1>1. PICK o, s, p, c : o = open /\ s = opened /\ p = open' /\ c = closed
  OBVIOUS
<1>2. /\ IsSeq(s) /\ DOMAIN p = Channels!Names
      /\ \A n \in Channels!Names : p[n] = (IF o[n] \in S THEN 0 ELSE o[n])
      /\ \A n \in Channels!Names : o[n] \in 0..Len(s) /\ (o[n] # 0 => s[o[n]] = n)
      /\ \A i \in 1..Len(s) : s[i] \in Channels!Names
      /\ \A i \in (1..Len(s)) \ c : o[s[i]] = i
  BY <1>1 DEF ChannelsInv, Channels!StaysOpen, Channels!Opened
<1>3. Len(s) \in Nat
  BY <1>2, SeqIs
<1>4. \A n \in Channels!Names : p[n] \in 0..Len(s) /\ (p[n] # 0 => s[p[n]] = n)
  BY <1>2, <1>3
<1>5. \A i \in (1..Len(s)) \ (c \cup S) : p[s[i]] = i
  BY <1>2, <1>3
<1>6. Channels!StaysOpen'
  BY <1>1, <1>5 DEF Channels!StaysOpen, Channels!Opened
<1> QED
  BY <1>1, <1>2, <1>4, <1>6 DEF ChannelsInv

LEMMA ChannelsNext == ASSUME ChannelsInv, Channels!EventsStep PROVE ChannelsInv'
<1>1. ASSUME \/ \E a \in Channels!Names, m \in Channels!Messages, f \in BOOLEAN : Channels!ServerPublication(a, m, f)
             \/ \E a \in Channels!Names : Channels!ServerJoin(a) \/ Channels!ServerSubscribed(a)
             \/ \E o \in Channels!Opened, m \in Channels!Messages : Channels!Publication(o, m)
      PROVE  ChannelsInv'
  <2>1. UNCHANGED <<open, opened, closed>>
    BY <1>1 DEF Channels!ServerPublication, Channels!ServerJoin, Channels!ServerSubscribed,
         Channels!Publication, Channels!Begins
  <2> QED
    BY <2>1, ChannelsQuiet
<1>2. ASSUME Channels!TellsOne \/ Channels!TellsNextEvent \/ Channels!Ends \/ Channels!Throws \/ Channels!IsSpent
      PROVE ChannelsInv'
  <2>1. UNCHANGED <<open, opened, closed>>
    BY <1>2 DEF Channels!TellsOne, Channels!TellsNextEvent, Channels!Ends, Channels!Throws,
         Channels!IsSpent, Channels!eventVars
  <2> QED
    BY <2>1, ChannelsQuiet
<1>3. ASSUME \/ \E o \in Channels!Opened : \E w \in Channels!WishesOf(Channels!TypeOf(opened[o])) : Channels!On(o, w)
             \/ \E o \in Channels!Opened, h \in Handlers : Channels!Off(o, h)
      PROVE  ChannelsInv'
  <2>1. UNCHANGED <<open, opened, closed>>
    BY <1>3 DEF Channels!On, Channels!Off
  <2> QED
    BY <2>1, ChannelsQuiet
<1>4. ASSUME \E n \in Channels!Names : Channels!Open(n) PROVE ChannelsInv'
  BY <1>4, OpenKeeps
<1>5. ASSUME NEW n \in Channels!Names, open[n] # 0, Channels!Dispose({open[n]}), open' = [open EXCEPT ![n] = 0]
      PROVE  ChannelsInv'
  <2>1. opened' = opened /\ closed' = closed \cup {open[n]}
    BY <1>5 DEF Channels!Dispose
  <2>2. DOMAIN open = Channels!Names /\ \A a, b \in Channels!Names : open[a] # 0 /\ open[a] = open[b] => a = b
    BY DEF ChannelsInv
  <2>3. DOMAIN open' = Channels!Names
        /\ \A a \in Channels!Names : open'[a] = (IF open[a] \in {open[n]} THEN 0 ELSE open[a])
    BY <1>5, <2>2
  <2> QED
    BY <2>1, <2>3, CloseKeeps
<1>6. ASSUME \E n \in Channels!Names : Channels!CloseChannel(n) PROVE ChannelsInv'
  BY <1>5, <1>6 DEF Channels!CloseChannel
<1>7. ASSUME NEW o \in Channels!Opened, Channels!CloseDurableChannel(o) PROVE ChannelsInv'
  <2>1. CASE Channels!IsItsOwn(o)
    <3>1. open[opened[o]] = o /\ open[opened[o]] # 0 /\ Channels!Dispose({o})
          /\ open' = [open EXCEPT ![opened[o]] = 0]
      BY <1>7, <2>1 DEF Channels!CloseDurableChannel, Channels!IsItsOwn
    <3>2. opened[o] \in Channels!Names
      BY DEF ChannelsInv, Channels!Opened
    <3> QED
      BY <1>5, <3>1, <3>2
  <2>2. CASE ~Channels!IsItsOwn(o)
    <3>1. UNCHANGED <<open, opened, closed>>
      BY <1>7, <2>2 DEF Channels!CloseDurableChannel, Channels!eventVars
    <3> QED
      BY <3>1, ChannelsQuiet
  <2> QED
    BY <2>1, <2>2
<1>8. ASSUME Channels!CloseAllChannels PROVE ChannelsInv'
  <2>1. PICK S : S = {open[n] : n \in Channels!Names} \ {0}
    OBVIOUS
  <2>2. opened' = opened /\ closed' = closed \cup S /\ open' = [n \in Channels!Names |-> 0]
    BY <1>8, <2>1 DEF Channels!CloseAllChannels, Channels!Dispose
  <2>3. DOMAIN open' = Channels!Names
        /\ \A n \in Channels!Names : open'[n] = (IF open[n] \in S THEN 0 ELSE open[n])
    BY <2>1, <2>2
  <2> QED
    BY <2>2, <2>3, CloseKeeps
<1> QED
  BY <1>1, <1>2, <1>3, <1>4, <1>6, <1>7, <1>8 DEF Channels!EventsStep

LEMMA ChannelsImply == ChannelsInv => Channels!StaysOpen
BY DEF ChannelsInv
\* Whoever is registered, and what is told of it.

WishRecords == [event : Channels!Events, change : {Channels!Nothing, "INSERT"}]
CallbackRecords == [handler : Handlers, wish : WishRecords]
Registers == [Channels!Events -> Seq(CallbackRecords)]
Tellings ==
  [channel : Nat, message : Channels!Messages, events : Seq(Channels!Events), then : Seq(Channels!Events),
   list : Seq(CallbackRecords), again : BOOLEAN, inside : Handlers \cup {Channels!Nothing}, threw : BOOLEAN]

\* Each callback is listed by its event, and a handler is in one place.
Registered(r) ==
  /\ \A v \in Channels!Events : \A i \in DOMAIN r[v] : r[v][i].wish.event = v
  /\ \A v, w \in Channels!Events : \A i \in DOMAIN r[v], j \in DOMAIN r[w] :
       r[v][i].handler = r[w][j].handler => v = w /\ i = j

Times(s, v) == Cardinality({i \in DOMAIN s : s[i] = v})

\* How often it is still to be told, if it matches.
Pending(e, l, then) ==
  (IF \E i \in DOMAIN l : l[i] = e THEN 1 ELSE 0) + Times(then, e.wish.event)

\* What it heard and what it has still to hear come to what is due.
Conserved(e, t, n) ==
  /\ ~Channels!Matches(e.wish, t.message) => n = 0
  /\ Channels!Matches(e.wish, t.message) =>
       LET due == Times(t.events, e.wish.event)
           sum == n + Pending(e, t.list, t.then)
       IN sum = due \/ (t.threw /\ sum \in due..(2 * due))

TellsOK(r, t, s, n) ==
  /\ \A h \in s : \E v \in Channels!Events : \E k \in DOMAIN r[v] : r[v][k].handler = h
  /\ \A i, j \in DOMAIN t.list : t.list[i].handler = t.list[j].handler => i = j
  /\ \A i \in DOMAIN t.list : t.list[i].handler \in s =>
       \E v \in Channels!Events : \E k \in DOMAIN r[v] : r[v][k] = t.list[i]
  /\ \A v \in Channels!Events : \A k \in DOMAIN r[v] : r[v][k].handler \in s =>
       Conserved(r[v][k], t, n[r[v][k].handler])

\* What is told of R by t, to those in s who heard n of it.
Tells(R, t, s, n) ==
  /\ R \in Seq(Registers) /\ \A o \in 1..Len(R) : Registered(R[o])
  /\ t \in Tellings /\ t.channel \in 0..Len(R)
  /\ s \in SUBSET Handlers /\ n \in [Handlers -> Nat]
  /\ t.channel = 0 => t = Channels!Idle /\ s = {}
  /\ t.channel # 0 => t.events # <<>> /\ (t.again => ~t.threw) /\ TellsOK(R[t.channel], t, s, n)

ToldInv == Tells(registered, telling, sure, heard) /\ Len(registered) = Len(opened)

-----------------------------------------------------------------------------
\* How often an event is among those that are told, counted from the first.
LEMMA TimesIs ==
  ASSUME NEW S, NEW s \in Seq(S), NEW v
  PROVE  Times(s, v) \in Nat /\ (s = <<>> => Times(s, v) = 0)
<1>1. IsFiniteSet({i \in 1..Len(s) : s[i] = v})
  <2>1. Len(s) \in Nat /\ IsFiniteSet(1..Len(s))
    BY LenProperties, FS_Interval
  <2>2. {i \in 1..Len(s) : s[i] = v} \subseteq 1..Len(s)
    OBVIOUS
  <2> QED
    BY <2>1, <2>2, FS_Subset
<1>2. Times(s, v) = Cardinality({i \in 1..Len(s) : s[i] = v})
  <2>1. DOMAIN s = 1..Len(s)
    BY LenProperties
  <2> QED
    BY <2>1 DEF Times
<1>3. s = <<>> => {i \in 1..Len(s) : s[i] = v} = {}
  OBVIOUS
<1> QED
  BY <1>1, <1>2, <1>3, FS_CardinalityType, FS_EmptySet

LEMMA TimesOfFirst ==
  ASSUME NEW S, NEW s \in Seq(S), s # <<>>, NEW v
  PROVE  Times(s, v) = Times(Tail(s), v) + IF Head(s) = v THEN 1 ELSE 0
<1>1. /\ Len(s) \in Nat /\ Len(s) > 0
      /\ Len(Tail(s)) = Len(s) - 1 /\ \A i \in 1..(Len(s) - 1) : Tail(s)[i] = s[i + 1]
      /\ Head(s) = s[1] /\ Tail(s) \in Seq(S)
  BY HeadTailProperties, LenProperties
<1> DEFINE A == {i \in 1..(Len(s) - 1) : s[i + 1] = v}
           B == {i \in 2..Len(s) : s[i] = v}
           f == [i \in A |-> i + 1]
<1>2. f \in Bijection(A, B)
  <2>1. f \in [A -> B]
    BY <1>1
  <2>2. \A i, j \in A : f[i] = f[j] => i = j
    OBVIOUS
  <2>3. \A b \in B : \E i \in A : f[i] = b
    <3> SUFFICES ASSUME NEW b \in B PROVE \E i \in A : f[i] = b
      OBVIOUS
    <3>1. b - 1 \in A /\ f[b - 1] = b
      BY <1>1
    <3> QED
      BY <3>1
  <2> QED
    BY <2>1, <2>2, <2>3 DEF Bijection, Injection, Surjection, IsInjective
<1>3. IsFiniteSet(A) /\ IsFiniteSet(B)
  <2>1. IsFiniteSet(1..(Len(s) - 1)) /\ IsFiniteSet(2..Len(s))
    BY <1>1, FS_Interval
  <2>2. A \subseteq 1..(Len(s) - 1) /\ B \subseteq 2..Len(s)
    OBVIOUS
  <2> QED
    BY <2>1, <2>2, FS_Subset
<1>4. Cardinality(A) = Cardinality(B)
  <2> HIDE DEF A, B, f
  <2> QED
    BY <1>2, <1>3, FS_Bijection DEF ExistsBijection
<1>5. Times(Tail(s), v) = Cardinality(A)
  <2>1. {i \in DOMAIN Tail(s) : Tail(s)[i] = v} = A
    BY <1>1
  <2> QED
    BY <2>1 DEF Times
<1>6. CASE Head(s) = v
  <2>1. {i \in DOMAIN s : s[i] = v} = B \cup {1} /\ 1 \notin B
    BY <1>1, <1>6
  <2>2. Cardinality(B \cup {1}) = Cardinality(B) + 1
    <3> HIDE DEF B
    <3> QED
      BY <1>3, <2>1, FS_AddElement
  <2> QED
    BY <1>4, <1>5, <1>6, <2>1, <2>2 DEF Times
<1>7. CASE Head(s) # v
  <2>1. {i \in DOMAIN s : s[i] = v} = B
    BY <1>1, <1>7
  <2>2. Cardinality(B) \in Nat
    BY <1>3, FS_CardinalityType
  <2>3. Times(s, v) = Cardinality(B) /\ (IF Head(s) = v THEN 1 ELSE 0) = 0
    BY <1>7, <2>1 DEF Times
  <2> HIDE DEF A, B
  <2> QED
    BY <1>4, <1>5, <2>2, <2>3
<1> QED
  BY <1>6, <1>7

LEMMA DueIs == \A w : Channels!Due(w) = IF Channels!Matches(w, telling.message) THEN Times(telling.events, w.event) ELSE 0
BY DEF Channels!Due, Times, Channels!Cardinality, Cardinality

\* The list of an event holds just what was registered for it.
LEMMA PendingAtFirst ==
  ASSUME NEW r \in Registers, Registered(r), NEW v \in Channels!Events, NEW k \in DOMAIN r[v],
         NEW ev \in Seq(Channels!Events), ev # <<>>
  PROVE  Pending(r[v][k], r[Head(ev)], Tail(ev)) = Times(ev, v)
<1>1. r[v][k].wish.event = v
  BY DEF Registered
<1>2. Head(ev) \in Channels!Events
  BY HeadTailProperties
<1>3. (\E i \in DOMAIN r[Head(ev)] : r[Head(ev)][i] = r[v][k]) <=> Head(ev) = v
  BY <1>2 DEF Registered
<1>4. Times(ev, v) = Times(Tail(ev), v) + IF Head(ev) = v THEN 1 ELSE 0
  BY TimesOfFirst
<1>5. Times(Tail(ev), v) \in Nat
  BY TimesIs, HeadTailProperties
<1>6. Pending(r[v][k], r[Head(ev)], Tail(ev)) =
        (IF Head(ev) = v THEN 1 ELSE 0) + Times(Tail(ev), v)
  BY <1>1, <1>3 DEF Pending
<1> QED
  BY <1>4, <1>5, <1>6

LEMMA PendingIs ==
  ASSUME NEW e, NEW l \in Seq(CallbackRecords), NEW then \in Seq(Channels!Events)
  PROVE  /\ Pending(e, l, then) \in Nat
         /\ l = <<>> => Pending(e, l, then) = Times(then, e.wish.event)
<1>1. Times(then, e.wish.event) \in Nat
  BY TimesIs
<1>2. l = <<>> => ~ \E i \in DOMAIN l : l[i] = e
  OBVIOUS
<1> QED
  BY <1>1, <1>2 DEF Pending

\* To tell the first of the list takes one from what is pending, of it alone.
LEMMA PendingAfterOne ==
  ASSUME NEW e, NEW l \in Seq(CallbackRecords), NEW then \in Seq(Channels!Events), l # <<>>,
         \A i, j \in DOMAIN l : l[i].handler = l[j].handler => i = j
  PROVE  Pending(e, l, then) =
           Pending(e, Tail(l), then) + IF Head(l) = e THEN 1 ELSE 0
<1>1. /\ Len(l) \in Nat /\ Len(l) > 0 /\ DOMAIN l = 1..Len(l)
      /\ DOMAIN Tail(l) = 1..(Len(l) - 1)
      /\ \A i \in 1..(Len(l) - 1) : Tail(l)[i] = l[i + 1]
      /\ Head(l) = l[1]
  BY HeadTailProperties, LenProperties
<1>2. Times(then, e.wish.event) \in Nat
  BY TimesIs
<1>3. CASE l[1] = e
  <2>1. ~ \E i \in DOMAIN Tail(l) : Tail(l)[i] = e
    <3> SUFFICES ASSUME NEW i \in 1..(Len(l) - 1), l[i + 1] = e PROVE FALSE
      BY <1>1
    <3>1. i + 1 \in DOMAIN l /\ 1 \in DOMAIN l /\ i + 1 # 1
      BY <1>1
    <3> QED
      BY <1>3, <3>1
  <2>2. \E i \in DOMAIN l : l[i] = e
    BY <1>1, <1>3
  <2> QED
    BY <1>1, <1>2, <1>3, <2>1, <2>2 DEF Pending
<1>4. CASE l[1] # e
  <2>1. (\E i \in DOMAIN l : l[i] = e) <=> \E i \in DOMAIN Tail(l) : Tail(l)[i] = e
    <3>1. ASSUME NEW i \in DOMAIN l, l[i] = e PROVE \E j \in DOMAIN Tail(l) : Tail(l)[j] = e
      <4>1. i - 1 \in 1..(Len(l) - 1) /\ Tail(l)[i - 1] = l[i]
        BY <1>1, <1>4, <3>1
      <4> QED
        BY <1>1, <3>1, <4>1
    <3>2. ASSUME NEW i \in DOMAIN Tail(l), Tail(l)[i] = e PROVE \E j \in DOMAIN l : l[j] = e
      <4>1. i + 1 \in DOMAIN l /\ l[i + 1] = e
        BY <1>1, <3>2
      <4> QED
        BY <4>1
    <3> QED
      BY <3>1, <3>2
  <2> QED
    BY <1>1, <1>2, <1>4, <2>1 DEF Pending
<1> QED
  BY <1>3, <1>4

-----------------------------------------------------------------------------
\* An event begins.
LEMMA TellsAtFirst ==
  ASSUME NEW r \in Registers, Registered(r), NEW t \in Tellings, t.events # <<>>,
         t.list = r[Head(t.events)], t.then = Tail(t.events),
         NEW s, \A h \in s : \E v \in Channels!Events : \E k \in DOMAIN r[v] : r[v][k].handler = h,
         NEW n, \A v \in Channels!Events : \A k \in DOMAIN r[v] : r[v][k].handler \in s => n[r[v][k].handler] = 0
  PROVE  TellsOK(r, t, s, n)
<1>1. t.events \in Seq(Channels!Events) /\ Head(t.events) \in Channels!Events
  BY HeadTailProperties DEF Tellings
<1>2. \A i, j \in DOMAIN t.list : t.list[i].handler = t.list[j].handler => i = j
  BY <1>1 DEF Registered
<1>3. \A i \in DOMAIN t.list : \E v \in Channels!Events : \E k \in DOMAIN r[v] : r[v][k] = t.list[i]
  BY <1>1
<1>4. ASSUME NEW v \in Channels!Events, NEW k \in DOMAIN r[v], r[v][k].handler \in s
      PROVE  Conserved(r[v][k], t, n[r[v][k].handler])
  <2>1. n[r[v][k].handler] = 0
    BY <1>4
  <2>2. r[v][k].wish.event = v
    BY DEF Registered
  <2>3. Pending(r[v][k], t.list, t.then) = Times(t.events, v)
    BY <1>1, PendingAtFirst
  <2>4. Times(t.events, v) \in Nat
    BY <1>1, TimesIs
  <2> QED
    BY <2>1, <2>2, <2>3, <2>4 DEF Conserved
<1> QED
  BY <1>2, <1>3, <1>4 DEF TellsOK

\* The next event of the list.
LEMMA TellsAtNext ==
  ASSUME NEW r \in Registers, Registered(r), NEW t \in Tellings, NEW u \in Tellings,
         NEW s, NEW n, TellsOK(r, t, s, n), t.list = <<>>, t.then # <<>>,
         u.list = r[Head(t.then)], u.then = Tail(t.then), u.events = t.events,
         u.message = t.message, u.threw = t.threw
  PROVE  TellsOK(r, u, s, n)
<1>1. t.then \in Seq(Channels!Events) /\ Head(t.then) \in Channels!Events
  BY HeadTailProperties DEF Tellings
<1>2. \A i, j \in DOMAIN u.list : u.list[i].handler = u.list[j].handler => i = j
  BY <1>1 DEF Registered
<1>3. \A i \in DOMAIN u.list : \E v \in Channels!Events : \E k \in DOMAIN r[v] : r[v][k] = u.list[i]
  BY <1>1
<1>4. ASSUME NEW v \in Channels!Events, NEW k \in DOMAIN r[v], r[v][k].handler \in s
      PROVE  Conserved(r[v][k], u, n[r[v][k].handler])
  <2>1. Conserved(r[v][k], t, n[r[v][k].handler])
    BY <1>4 DEF TellsOK
  <2>2. r[v][k].wish.event = v
    BY DEF Registered
  <2>3. Pending(r[v][k], u.list, u.then) = Times(t.then, v)
    BY <1>1, PendingAtFirst
  <2>4. Pending(r[v][k], t.list, t.then) = Times(t.then, v)
    BY <2>2, PendingIs DEF Tellings
  <2> QED
    BY <2>1, <2>3, <2>4 DEF Conserved
<1> QED
  BY <1>2, <1>3, <1>4 DEF TellsOK

\* The whole of it once more, after a handler threw.
LEMMA TellsAgain ==
  ASSUME NEW r \in Registers, Registered(r), NEW t \in Tellings, NEW u \in Tellings,
         NEW s \in SUBSET Handlers, NEW n \in [Handlers -> Nat], TellsOK(r, t, s, n),
         ~t.threw, t.events # <<>>,
         u.list = r[Head(t.events)], u.then = Tail(t.events), u.events = t.events,
         u.message = t.message, u.threw = TRUE
  PROVE  TellsOK(r, u, s, n)
<1>1. t.events \in Seq(Channels!Events) /\ Head(t.events) \in Channels!Events
  BY HeadTailProperties DEF Tellings
<1>2. \A i, j \in DOMAIN u.list : u.list[i].handler = u.list[j].handler => i = j
  BY <1>1 DEF Registered
<1>3. \A i \in DOMAIN u.list : \E v \in Channels!Events : \E k \in DOMAIN r[v] : r[v][k] = u.list[i]
  BY <1>1
<1>4. ASSUME NEW v \in Channels!Events, NEW k \in DOMAIN r[v], r[v][k].handler \in s
      PROVE  Conserved(r[v][k], u, n[r[v][k].handler])
  <2> DEFINE e == r[v][k]
             due == Times(t.events, v)
             left == Pending(e, t.list, t.then)
             told == n[e.handler]
  <2>1. Conserved(e, t, told)
    BY <1>4 DEF TellsOK
  <2>2. e.wish.event = v
    BY DEF Registered
  <2>3. Pending(e, u.list, u.then) = due
    BY <1>1, PendingAtFirst
  <2>4. due \in Nat /\ left \in Nat /\ told \in Nat
    BY <1>1, <1>4, TimesIs, PendingIs DEF Tellings
  <2>5. ~Channels!Matches(e.wish, t.message) => told = 0
    BY <2>1 DEF Conserved
  <2>6. Channels!Matches(e.wish, t.message) => told + left = due
    BY <2>1, <2>2 DEF Conserved
  <2> HIDE DEF e, left, told, due
  <2>7. Channels!Matches(e.wish, t.message) => told + due \in due..(2 * due)
    BY <2>4, <2>6
  <2>8. Conserved(e, u, told)
    BY <2>2, <2>3, <2>5, <2>7 DEF Conserved, due
  <2> QED
    BY <2>8 DEF e, told
<1> QED
  BY <1>2, <1>3, <1>4 DEF TellsOK

\* One handler of the list is told, or passed over.
LEMMA TellsFirst ==
  ASSUME NEW r \in Registers, Registered(r), NEW t \in Tellings, NEW u \in Tellings,
         NEW s \in SUBSET Handlers, NEW n \in [Handlers -> Nat], TellsOK(r, t, s, n),
         t.list # <<>>, u.list = Tail(t.list), u.then = t.then, u.events = t.events,
         u.message = t.message, u.threw = t.threw
  PROVE  TellsOK(r, u, s, IF Channels!Matches(Head(t.list).wish, t.message)
                          THEN [n EXCEPT ![Head(t.list).handler] = @ + 1] ELSE n)
<1> DEFINE c == Head(t.list)
           n2 == IF Channels!Matches(c.wish, t.message) THEN [n EXCEPT ![c.handler] = @ + 1] ELSE n
<1>1. /\ t.list \in Seq(CallbackRecords) /\ t.then \in Seq(Channels!Events)
      /\ t.events \in Seq(Channels!Events)
      /\ u.list \in Seq(CallbackRecords) /\ u.then \in Seq(Channels!Events)
  BY DEF Tellings
<1>2. /\ Len(t.list) \in Nat /\ Len(t.list) > 0 /\ DOMAIN t.list = 1..Len(t.list)
      /\ DOMAIN u.list = 1..(Len(t.list) - 1)
      /\ \A i \in 1..(Len(t.list) - 1) : u.list[i] = t.list[i + 1]
      /\ c = t.list[1] /\ c \in CallbackRecords
  BY <1>1, HeadTailProperties, LenProperties
<1>3. \A i, j \in DOMAIN t.list : t.list[i].handler = t.list[j].handler => i = j
  BY DEF TellsOK
<1>4. ASSUME NEW i \in DOMAIN u.list, NEW j \in DOMAIN u.list, u.list[i].handler = u.list[j].handler
      PROVE  i = j
  <2>1. i + 1 \in DOMAIN t.list /\ j + 1 \in DOMAIN t.list /\ i \in Nat /\ j \in Nat
    BY <1>2
  <2>2. i + 1 = j + 1
    BY <1>2, <1>3, <1>4, <2>1
  <2> QED
    BY <2>1, <2>2
<1>5. ASSUME NEW i \in DOMAIN u.list, u.list[i].handler \in s
      PROVE  \E v \in Channels!Events : \E k \in DOMAIN r[v] : r[v][k] = u.list[i]
  <2>1. i + 1 \in DOMAIN t.list /\ u.list[i] = t.list[i + 1]
    BY <1>2
  <2> QED
    BY <1>5, <2>1 DEF TellsOK
<1>6. ASSUME NEW v \in Channels!Events, NEW k \in DOMAIN r[v], r[v][k].handler \in s
      PROVE  Conserved(r[v][k], u, n2[r[v][k].handler])
  <2> DEFINE e == r[v][k]
             due == Times(t.events, v)
             left == Pending(e, t.list, t.then)
             rest == Pending(e, u.list, u.then)
             told == n[e.handler]
  <2>1. Conserved(e, t, told)
    BY <1>6 DEF TellsOK
  <2>2. e.wish.event = v
    BY DEF Registered
  <2>3. left = rest + IF c = e THEN 1 ELSE 0
    <3> HIDE DEF e, c
    <3>1. Pending(e, t.list, t.then) =
            Pending(e, Tail(t.list), t.then) + IF Head(t.list) = e THEN 1 ELSE 0
      BY <1>1, <1>3, PendingAfterOne
    <3> QED
      BY <3>1 DEF left, rest, c
  <2>4. due \in Nat /\ left \in Nat /\ rest \in Nat /\ told \in Nat
    BY <1>1, <1>6, TimesIs, PendingIs
  <2>5. c.handler = e.handler => c = e
    <3> SUFFICES ASSUME c.handler = e.handler PROVE c = e
      OBVIOUS
    <3>1. 1 \in DOMAIN t.list /\ t.list[1].handler \in s
      BY <1>2, <1>6
    <3>2. PICK w \in Channels!Events : \E j \in DOMAIN r[w] : r[w][j] = t.list[1]
      BY <3>1 DEF TellsOK
    <3>3. PICK j \in DOMAIN r[w] : r[w][j] = t.list[1]
      BY <3>2
    <3>4. w = v /\ j = k
      BY <1>2, <3>3 DEF Registered
    <3> QED
      BY <1>2, <3>3, <3>4
  <2>6. /\ ~Channels!Matches(e.wish, t.message) => told = 0
        /\ Channels!Matches(e.wish, t.message) =>
             told + left = due \/ (t.threw /\ told + left \in due..(2 * due))
    BY <2>1, <2>2 DEF Conserved
  <2>7. n2[e.handler] = IF c = e /\ Channels!Matches(e.wish, t.message) THEN told + 1 ELSE told
    <3>1. e.handler \in Handlers /\ c.handler \in Handlers
      BY <1>2, <1>6 DEF CallbackRecords
    <3> QED
      BY <2>5, <3>1
  <2> HIDE DEF e, left, told, due, rest, n2, c
  <2>8. Channels!Matches(e.wish, t.message) => n2[e.handler] + rest = told + left
    BY <2>3, <2>4, <2>7
  <2>9. ~Channels!Matches(e.wish, t.message) => n2[e.handler] = 0
    BY <2>6, <2>7
  <2>10. Conserved(e, u, n2[e.handler])
    BY <2>2, <2>6, <2>8, <2>9 DEF Conserved, due, rest
  <2> QED
    BY <2>10 DEF e
<1>7. \A h \in s : \E v \in Channels!Events : \E k \in DOMAIN r[v] : r[v][k].handler = h
  BY DEF TellsOK
<1> HIDE DEF n2
<1>8. TellsOK(r, u, s, n2)
  BY <1>4, <1>5, <1>6, <1>7 DEF TellsOK
<1> QED
  BY <1>8 DEF n2

-----------------------------------------------------------------------------
\* Handlers come and go: those who are still sure stay as they were.
KeptFor(r, r2, s) ==
  /\ \A v \in Channels!Events : \A k \in DOMAIN r[v] :
       r[v][k].handler \in s => \E j \in DOMAIN r2[v] : r2[v][j] = r[v][k]
  /\ \A v \in Channels!Events : \A k \in DOMAIN r2[v] :
       r2[v][k].handler \in s => \E j \in DOMAIN r[v] : r[v][j] = r2[v][k]

LEMMA TellsWhileKept ==
  ASSUME NEW r, NEW r2, NEW t, NEW s, NEW s2 \in SUBSET s, NEW n, TellsOK(r, t, s, n), KeptFor(r, r2, s2)
  PROVE  TellsOK(r2, t, s2, n)
<1>1. ASSUME NEW h \in s2 PROVE \E v \in Channels!Events : \E k \in DOMAIN r2[v] : r2[v][k].handler = h
  <2>1. PICK v \in Channels!Events : \E k \in DOMAIN r[v] : r[v][k].handler = h
    BY DEF TellsOK
  <2>2. PICK k \in DOMAIN r[v] : r[v][k].handler = h
    BY <2>1
  <2>3. \E j \in DOMAIN r2[v] : r2[v][j] = r[v][k]
    BY <2>2 DEF KeptFor
  <2> QED
    BY <2>2, <2>3
<1>2. ASSUME NEW i \in DOMAIN t.list, t.list[i].handler \in s2
      PROVE  \E v \in Channels!Events : \E k \in DOMAIN r2[v] : r2[v][k] = t.list[i]
  <2>1. PICK v \in Channels!Events : \E k \in DOMAIN r[v] : r[v][k] = t.list[i]
    BY <1>2 DEF TellsOK
  <2> QED
    BY <1>2, <2>1 DEF KeptFor
<1>3. ASSUME NEW v \in Channels!Events, NEW k \in DOMAIN r2[v], r2[v][k].handler \in s2
      PROVE  Conserved(r2[v][k], t, n[r2[v][k].handler])
  <2>1. PICK j \in DOMAIN r[v] : r[v][j] = r2[v][k]
    BY <1>3 DEF KeptFor
  <2>2. Conserved(r[v][j], t, n[r[v][j].handler])
    BY <1>3, <2>1 DEF TellsOK
  <2> QED
    BY <2>1, <2>2
<1>4. \A i, j \in DOMAIN t.list : t.list[i].handler = t.list[j].handler => i = j
  BY DEF TellsOK
<1> QED
  BY <1>1, <1>2, <1>3, <1>4 DEF TellsOK

LEMMA RegistersAreLists ==
  ASSUME NEW r \in Registers, NEW v \in Channels!Events
  PROVE  /\ r[v] \in Seq(CallbackRecords) /\ Len(r[v]) \in Nat /\ DOMAIN r[v] = 1..Len(r[v])
         /\ \A i \in DOMAIN r[v] : r[v][i] \in CallbackRecords
<1>1. r[v] \in Seq(CallbackRecords)
  BY DEF Registers
<1> QED
  BY <1>1, LenProperties, ElementOfSeq

\* A handler that is in no other place is added.
LEMMA AddsOne ==
  ASSUME NEW r \in Registers, Registered(r), NEW e \in CallbackRecords, e.wish.event \in Channels!Events,
         \A v \in Channels!Events : \A k \in DOMAIN r[v] : r[v][k].handler # e.handler,
         NEW s, e.handler \notin s
  PROVE  LET r2 == [r EXCEPT ![e.wish.event] = Append(@, e)]
         IN r2 \in Registers /\ Registered(r2) /\ KeptFor(r, r2, s)
<1> DEFINE w == e.wish.event
           r2 == [r EXCEPT ![w] = Append(@, e)]
<1>1. \A v \in Channels!Events : /\ r[v] \in Seq(CallbackRecords) /\ Len(r[v]) \in Nat
                        /\ DOMAIN r[v] = 1..Len(r[v])
  BY RegistersAreLists
<1>2. r2 \in Registers /\ r2[w] = Append(r[w], e) /\ \A v \in Channels!Events \ {w} : r2[v] = r[v]
  <2>1. Append(r[w], e) \in Seq(CallbackRecords)
    BY <1>1, AppendProperties
  <2> QED
    BY <2>1 DEF Registers
<1>3. /\ DOMAIN r2[w] = 1..(Len(r[w]) + 1) /\ r2[w][Len(r[w]) + 1] = e
      /\ \A k \in DOMAIN r[w] : r2[w][k] = r[w][k]
  BY <1>1, <1>2, AppendProperties
<1> HIDE DEF r2, w
<1>4. ASSUME NEW v \in Channels!Events, NEW k \in DOMAIN r2[v]
      PROVE  (k \in DOMAIN r[v] /\ r2[v][k] = r[v][k]) \/ (v = w /\ k = Len(r[w]) + 1 /\ r2[v][k] = e)
  BY <1>1, <1>2, <1>3
<1>5. ASSUME NEW v \in Channels!Events, NEW k \in DOMAIN r[v]
      PROVE  k \in DOMAIN r2[v] /\ r2[v][k] = r[v][k]
  BY <1>1, <1>2, <1>3
<1>6. Registered(r2)
  <2>1. ASSUME NEW v \in Channels!Events, NEW i \in DOMAIN r2[v] PROVE r2[v][i].wish.event = v
    BY <1>4, <2>1 DEF Registered, w
  <2>2. ASSUME NEW v \in Channels!Events, NEW x \in Channels!Events, NEW i \in DOMAIN r2[v], NEW j \in DOMAIN r2[x],
               r2[v][i].handler = r2[x][j].handler
        PROVE  v = x /\ i = j
    BY <1>4, <2>2 DEF Registered
  <2> QED
    BY <2>1, <2>2 DEF Registered
<1>7. KeptFor(r, r2, s)
  BY <1>4, <1>5 DEF KeptFor
<1> QED
  BY <1>2, <1>6, <1>7 DEF r2, w

\* What is left of a list without one of its places.
LEMMA RemovedAt ==
  ASSUME NEW S, NEW s \in Seq(S), NEW i \in 1..Len(s)
  PROVE  /\ Channels!RemoveAt(s, i) \in Seq(S)
         /\ DOMAIN Channels!RemoveAt(s, i) = 1..(Len(s) - 1)
         /\ \A k \in 1..(Len(s) - 1) :
              Channels!RemoveAt(s, i)[k] = s[IF k < i THEN k ELSE k + 1]
<1> DEFINE before == SubSeq(s, 1, i - 1)
           after == SubSeq(s, i + 1, Len(s))
<1>1. before \in Seq(S) /\ Len(before) = i - 1 /\ \A k \in 1..(i - 1) : before[k] = s[k]
  BY SubSeqProperties
<1>2. /\ after \in Seq(S) /\ Len(after) = Len(s) - i
      /\ \A k \in 1..(Len(s) - i) : after[k] = s[i + k]
  BY SubSeqProperties
<1>3. Channels!RemoveAt(s, i) = before \o after
  BY DEF Channels!RemoveAt
<1> HIDE DEF before, after
<1>4. Len(s) \in Nat /\ (i - 1) + (Len(s) - i) = Len(s) - 1
  BY LenProperties
<1>5. /\ before \o after \in Seq(S) /\ Len(before \o after) = Len(s) - 1
      /\ \A k \in 1..(Len(s) - 1) :
           (before \o after)[k] = IF k <= i - 1 THEN before[k] ELSE after[k - (i - 1)]
  <2>1. /\ before \o after \in Seq(S) /\ Len(before \o after) = Len(before) + Len(after)
        /\ \A k \in 1..(Len(before) + Len(after)) :
             (before \o after)[k] = IF k <= Len(before) THEN before[k] ELSE after[k - Len(before)]
    BY <1>1, <1>2, ConcatProperties
  <2> QED
    BY <2>1, <1>1, <1>2, <1>4
<1>6. ASSUME NEW k \in 1..(Len(s) - 1)
      PROVE  (before \o after)[k] = s[IF k < i THEN k ELSE k + 1]
  <2>1. CASE k <= i - 1
    BY <1>1, <1>4, <1>5, <2>1
  <2>2. CASE ~(k <= i - 1)
    <3>1. k - (i - 1) \in 1..(Len(s) - i) /\ i + (k - (i - 1)) = k + 1
      BY <1>4, <2>2
    <3>2. (before \o after)[k] = after[k - (i - 1)]
      BY <1>5, <2>2
    <3>3. after[k - (i - 1)] = s[k + 1]
      BY <1>2, <3>1
    <3> QED
      BY <1>4, <2>2, <3>2, <3>3
  <2> QED
    BY <2>1, <2>2
<1>7. DOMAIN (before \o after) = 1..(Len(s) - 1)
  BY <1>5, LenProperties
<1> QED
  BY <1>3, <1>5, <1>6, <1>7

\* A callback is cut out of its list.
LEMMA TakesOne ==
  ASSUME NEW r \in Registers, Registered(r), NEW w \in Channels!Events, NEW i \in DOMAIN r[w],
         NEW s, r[w][i].handler \notin s
  PROVE  LET r2 == [r EXCEPT ![w] = Channels!RemoveAt(@, i)]
         IN r2 \in Registers /\ Registered(r2) /\ KeptFor(r, r2, s)
<1> DEFINE r2 == [r EXCEPT ![w] = Channels!RemoveAt(@, i)]
<1>1. \A v \in Channels!Events : /\ r[v] \in Seq(CallbackRecords) /\ Len(r[v]) \in Nat
                        /\ DOMAIN r[v] = 1..Len(r[v])
                        /\ \A k \in DOMAIN r[v] : r[v][k] \in CallbackRecords
  BY RegistersAreLists
<1>2. /\ Channels!RemoveAt(r[w], i) \in Seq(CallbackRecords)
      /\ DOMAIN Channels!RemoveAt(r[w], i) = 1..(Len(r[w]) - 1)
      /\ \A k \in 1..(Len(r[w]) - 1) : Channels!RemoveAt(r[w], i)[k] = r[w][IF k < i THEN k ELSE k + 1]
  BY <1>1, RemovedAt
<1>3. r2 \in Registers /\ r2[w] = Channels!RemoveAt(r[w], i)
      /\ \A v \in Channels!Events \ {w} : r2[v] = r[v]
  BY <1>2 DEF Registers
<1> HIDE DEF r2
<1>4. ASSUME NEW v \in Channels!Events, NEW k \in DOMAIN r2[v]
      PROVE  \E j \in DOMAIN r[v] : /\ r2[v][k] = r[v][j]
                                    /\ j = IF v = w /\ k >= i THEN k + 1 ELSE k
  <2>1. CASE v = w
    <3>1. (IF k < i THEN k ELSE k + 1) \in DOMAIN r[w] /\ k \in 1..(Len(r[w]) - 1)
      BY <1>1, <1>2, <1>3, <2>1
    <3> QED
      BY <1>1, <1>2, <1>3, <2>1, <3>1
  <2>2. CASE v # w
    BY <1>3, <2>2
  <2> QED
    BY <2>1, <2>2
<1>5. ASSUME NEW v \in Channels!Events, NEW k \in DOMAIN r[v], ~(v = w /\ k = i)
      PROVE  \E j \in DOMAIN r2[v] : r2[v][j] = r[v][k]
  <2>1. CASE v = w
    <3> DEFINE j == IF k < i THEN k ELSE k - 1
    <3>1. k \in 1..Len(r[w]) /\ i \in 1..Len(r[w]) /\ k # i
      BY <1>1, <1>5, <2>1
    <3>2. j \in 1..(Len(r[w]) - 1) /\ (IF j < i THEN j ELSE j + 1) = k
      BY <1>1, <3>1
    <3> QED
      BY <1>2, <1>3, <2>1, <3>2
  <2>2. CASE v # w
    BY <1>3, <2>2
  <2> QED
    BY <2>1, <2>2
<1>6. Registered(r2)
  <2>1. ASSUME NEW v \in Channels!Events, NEW k \in DOMAIN r2[v] PROVE r2[v][k].wish.event = v
    BY <1>4, <2>1 DEF Registered
  <2>2. ASSUME NEW v \in Channels!Events, NEW x \in Channels!Events, NEW k \in DOMAIN r2[v], NEW l \in DOMAIN r2[x],
               r2[v][k].handler = r2[x][l].handler
        PROVE  v = x /\ k = l
    <3>1. PICK a \in DOMAIN r[v] : r2[v][k] = r[v][a] /\ a = IF v = w /\ k >= i THEN k + 1 ELSE k
      BY <1>4
    <3>2. PICK b \in DOMAIN r[x] : r2[x][l] = r[x][b] /\ b = IF x = w /\ l >= i THEN l + 1 ELSE l
      BY <1>4
    <3>3. v = x /\ a = b
      BY <2>2, <3>1, <3>2 DEF Registered
    <3>4. /\ DOMAIN r2[v] \subseteq Nat /\ i \in Nat
      BY <1>1, <1>2, <1>3
    <3> QED
      BY <3>1, <3>2, <3>3, <3>4
  <2> QED
    BY <2>1, <2>2 DEF Registered
<1>7. KeptFor(r, r2, s)
  <2>1. \A v \in Channels!Events : \A k \in DOMAIN r[v] :
          r[v][k].handler \in s => \E j \in DOMAIN r2[v] : r2[v][j] = r[v][k]
    BY <1>5
  <2>2. \A v \in Channels!Events : \A k \in DOMAIN r2[v] :
          r2[v][k].handler \in s => \E j \in DOMAIN r[v] : r[v][j] = r2[v][k]
    BY <1>4
  <2> QED
    BY <2>1, <2>2 DEF KeptFor
<1> QED
  BY <1>3, <1>6, <1>7 DEF r2

-----------------------------------------------------------------------------
LEMMA NothingTold == Channels!Idle \in Tellings /\ Channels!Idle.channel = 0
<1>1. Channels!Idle.message \in Channels!Messages
  BY DEF Channels!Idle, Channels!Messages, Channels!Nothing
<1>2. <<>> \in Seq(Channels!Events) /\ <<>> \in Seq(CallbackRecords)
  OBVIOUS
<1> QED
  BY <1>1, <1>2 DEF Channels!Idle, Tellings

LEMMA NobodyIs == Channels!NoCallbacks \in Registers /\ Registered(Channels!NoCallbacks)
/\ \A v \in Channels!Events : Channels!NoCallbacks[v] = <<>>
BY DEF Channels!NoCallbacks, Registers, Registered

\* What is there of a channel that is told.
LEMMA ToldOf ==
  ASSUME NEW R, NEW t, NEW s, NEW n, Tells(R, t, s, n), t.channel # 0
  PROVE  /\ t.channel \in 1..Len(R) /\ R[t.channel] \in Registers /\ Registered(R[t.channel])
         /\ TellsOK(R[t.channel], t, s, n)
<1>1. t.channel \in 1..Len(R)
  <2>1. Len(R) \in Nat /\ t.channel \in 0..Len(R)
    BY LenProperties DEF Tells
  <2> QED
    BY <2>1
<1>2. R[t.channel] \in Registers
  BY <1>1, ElementOfSeq DEF Tells
<1> QED
  BY <1>1, <1>2 DEF Tells

LEMMA IdleTells ==
  ASSUME NEW R, NEW t, NEW s, NEW n, Tells(R, t, s, n)
  PROVE  Tells(R, Channels!Idle, {}, [h \in Handlers |-> 0])
<1>1. 0 \in 0..Len(R)
  BY LenProperties DEF Tells
<1> QED
  BY <1>1, NothingTold DEF Tells

LEMMA BeginTells ==
  ASSUME NEW R, NEW t, NEW s, NEW n, Tells(R, t, s, n), NEW o \in 1..Len(R), NEW u \in Tellings,
         u.channel = o, u.events # <<>>, u.then = Tail(u.events), u.list = R[o][Head(u.events)], ~u.threw,
         NEW all0, all0 = UNION {{R[o][v][i].handler : i \in DOMAIN R[o][v]} : v \in Channels!Events}
  PROVE  Tells(R, u, all0, [h \in Handlers |-> 0])
<1>1. R[o] \in Registers /\ Registered(R[o])
  BY ElementOfSeq DEF Tells
<1>2. PICK r : r = R[o]
  OBVIOUS
<1>3. \A v \in Channels!Events : \A k \in DOMAIN r[v] : r[v][k].handler \in Handlers
  BY <1>1, <1>2, RegistersAreLists DEF CallbackRecords
<1>4. all0 \in SUBSET Handlers /\ \A h \in all0 : \E v \in Channels!Events : \E k \in DOMAIN r[v] : r[v][k].handler = h
  BY <1>2, <1>3
<1>5. PICK n0 : n0 = [h \in Handlers |-> 0]
  OBVIOUS
<1>6. \A v \in Channels!Events : \A k \in DOMAIN r[v] : r[v][k].handler \in all0 => n0[r[v][k].handler] = 0
  BY <1>3, <1>5
<1>7. TellsOK(r, u, all0, n0)
  BY <1>1, <1>2, <1>4, <1>6, TellsAtFirst
<1>8. o \in 0..Len(R) /\ o # 0 /\ n0 \in [Handlers -> Nat]
  BY <1>5, LenProperties DEF Tells
<1> QED
  BY <1>2, <1>4, <1>5, <1>7, <1>8 DEF Tells

LEMMA OneTells ==
  ASSUME NEW R, NEW t, NEW s, NEW n, Tells(R, t, s, n), t.list # <<>>,
         NEW c, c = Head(t.list), NEW u,
         u = [t EXCEPT !.list = Tail(@), !.inside = IF Channels!Matches(c.wish, t.message) THEN c.handler ELSE Channels!Nothing]
  PROVE  Tells(R, u, s, IF Channels!Matches(c.wish, t.message) THEN [n EXCEPT ![c.handler] = @ + 1] ELSE n)
<1>1. t.channel # 0
  BY DEF Tells, Channels!Idle
<1>2. t \in Tellings /\ s \in SUBSET Handlers /\ n \in [Handlers -> Nat]
  BY DEF Tells
<1>3. c \in CallbackRecords /\ Tail(t.list) \in Seq(CallbackRecords)
  BY <1>2, HeadTailProperties DEF Tellings
<1>4. /\ u \in Tellings /\ u.list = Tail(t.list) /\ u.then = t.then /\ u.events = t.events
      /\ u.message = t.message /\ u.threw = t.threw /\ u.channel = t.channel /\ u.again = t.again
  BY <1>2, <1>3 DEF Tellings, CallbackRecords
<1>5. PICK n2 : n2 = IF Channels!Matches(c.wish, t.message) THEN [n EXCEPT ![c.handler] = @ + 1] ELSE n
  OBVIOUS
<1>6. n2 \in [Handlers -> Nat]
  BY <1>2, <1>3, <1>5 DEF CallbackRecords
<1>7. TellsOK(R[t.channel], u, s, n2)
  BY <1>1, <1>2, <1>4, <1>5, ToldOf, TellsFirst
<1> QED
  BY <1>1, <1>4, <1>5, <1>6, <1>7 DEF Tells

LEMMA NextTells ==
  ASSUME NEW R, NEW t, NEW s, NEW n, Tells(R, t, s, n), t.channel # 0, t.list = <<>>, t.then # <<>>,
         NEW u, u = [t EXCEPT !.list = R[t.channel][Head(t.then)], !.then = Tail(@), !.inside = Channels!Nothing]
  PROVE  Tells(R, u, s, n)
<1>1. R[t.channel] \in Registers /\ Registered(R[t.channel]) /\ TellsOK(R[t.channel], t, s, n)
  BY ToldOf
<1>2. t \in Tellings
  BY DEF Tells
<1>3. Head(t.then) \in Channels!Events /\ Tail(t.then) \in Seq(Channels!Events)
  BY <1>2, HeadTailProperties DEF Tellings
<1>4. R[t.channel][Head(t.then)] \in Seq(CallbackRecords)
  BY <1>1, <1>3, RegistersAreLists
<1>5. /\ u \in Tellings /\ u.list = R[t.channel][Head(t.then)] /\ u.then = Tail(t.then)
      /\ u.events = t.events
      /\ u.message = t.message /\ u.threw = t.threw /\ u.channel = t.channel /\ u.again = t.again
  BY <1>2, <1>3, <1>4 DEF Tellings
<1>6. TellsOK(R[t.channel], u, s, n)
  BY <1>1, <1>2, <1>5, TellsAtNext
<1> QED
  BY <1>5, <1>6 DEF Tells

LEMMA AgainTells ==
  ASSUME NEW R, NEW t, NEW s, NEW n, Tells(R, t, s, n), t.inside # Channels!Nothing, t.again,
         NEW u, u = [t EXCEPT !.list = R[t.channel][Head(t.events)], !.then = Tail(t.events),
                              !.again = FALSE, !.inside = Channels!Nothing, !.threw = TRUE]
  PROVE  Tells(R, u, s, n)
<1>1. t.channel # 0
  BY DEF Tells, Channels!Idle
<1>2. R[t.channel] \in Registers /\ Registered(R[t.channel]) /\ TellsOK(R[t.channel], t, s, n)
  BY <1>1, ToldOf
<1>3. /\ t \in Tellings /\ t.events # <<>> /\ ~t.threw
      /\ s \in SUBSET Handlers /\ n \in [Handlers -> Nat]
  BY <1>1 DEF Tells
<1>4. Head(t.events) \in Channels!Events /\ Tail(t.events) \in Seq(Channels!Events)
  BY <1>3, HeadTailProperties DEF Tellings
<1>5. R[t.channel][Head(t.events)] \in Seq(CallbackRecords)
  BY <1>2, <1>4, RegistersAreLists
<1>6. /\ u \in Tellings /\ u.list = R[t.channel][Head(t.events)] /\ u.then = Tail(t.events)
      /\ u.events = t.events
      /\ u.message = t.message /\ u.threw = TRUE /\ u.channel = t.channel /\ ~u.again
  BY <1>3, <1>4, <1>5 DEF Tellings
<1>7. TellsOK(R[t.channel], u, s, n)
  BY <1>2, <1>3, <1>6, TellsAgain
<1> QED
  BY <1>1, <1>3, <1>6, <1>7 DEF Tells

\* The list of one channel changes.
LEMMA ChangedTells ==
  ASSUME NEW R, NEW t, NEW s, NEW n, Tells(R, t, s, n), NEW o \in 1..Len(R),
         NEW r2 \in Registers, Registered(r2), NEW s2 \in SUBSET s, KeptFor(R[o], r2, s2)
  PROVE  Tells([R EXCEPT ![o] = r2], t, s2, n)
<1> DEFINE R2 == [R EXCEPT ![o] = r2]
<1>1. R \in Seq(Registers) /\ Len(R) \in Nat
  BY LenProperties DEF Tells
<1>2. R2 \in Seq(Registers) /\ Len(R2) = Len(R) /\ R2[o] = r2
      /\ \A p \in 1..Len(R) : p # o => R2[p] = R[p]
  BY <1>1, ExceptSeq
<1> HIDE DEF R2
<1>3. \A p \in 1..Len(R2) : Registered(R2[p])
  BY <1>2 DEF Tells
<1>4. ASSUME t.channel # 0 PROVE TellsOK(R2[t.channel], t, s2, n)
  <2>1. t.channel \in 1..Len(R) /\ TellsOK(R[t.channel], t, s, n)
    BY <1>4, ToldOf
  <2>2. KeptFor(R[t.channel], R2[t.channel], s2)
    <3>1. CASE t.channel = o
      BY <1>2, <3>1
    <3>2. CASE t.channel # o
      BY <1>2, <2>1, <3>2 DEF KeptFor
    <3> QED
      BY <3>1, <3>2
  <2> QED
    BY <2>1, <2>2, TellsWhileKept
<1>5. Tells(R2, t, s2, n)
  BY <1>2, <1>3, <1>4 DEF Tells
<1> QED
  BY <1>5 DEF R2

LEMMA OpenedTells ==
  ASSUME NEW R, NEW t, NEW s, NEW n, Tells(R, t, s, n)
  PROVE  Tells(Append(R, Channels!NoCallbacks), t, s, n)
  /\ Len(Append(R, Channels!NoCallbacks)) = Len(R) + 1
<1>1. R \in Seq(Registers) /\ Len(R) \in Nat /\ t.channel \in 0..Len(R)
  BY LenProperties DEF Tells
<1>2. PICK R2 : R2 = Append(R, Channels!NoCallbacks)
  OBVIOUS
<1>3. /\ R2 \in Seq(Registers) /\ Len(R2) = Len(R) + 1 /\ R2[Len(R) + 1] = Channels!NoCallbacks
      /\ \A p \in 1..Len(R) : R2[p] = R[p]
  BY <1>1, <1>2, NobodyIs, AppendProperties
<1>4. \A p \in 1..Len(R2) : Registered(R2[p])
  <2> SUFFICES ASSUME NEW p \in 1..(Len(R) + 1) PROVE Registered(R2[p])
    BY <1>3
  <2>1. CASE p = Len(R) + 1
    BY <1>3, <2>1, NobodyIs
  <2>2. CASE p # Len(R) + 1
    <3>1. p \in 1..Len(R)
      BY <1>1, <2>2
    <3> QED
      BY <1>3, <3>1 DEF Tells
  <2> QED
    BY <2>1, <2>2
<1>5. t.channel # 0 => t.channel \in 1..Len(R) /\ R2[t.channel] = R[t.channel]
  BY <1>1, <1>3
<1>6. t.channel \in 0..Len(R2)
  BY <1>1, <1>3
<1> QED
  BY <1>2, <1>3, <1>4, <1>5, <1>6 DEF Tells

LEMMA ClosedTells ==
  ASSUME NEW R, NEW t, NEW s, NEW n, Tells(R, t, s, n), NEW S,
         NEW R2, R2 = [o \in 1..Len(R) |-> IF o \in S THEN Channels!NoCallbacks ELSE R[o]]
  PROVE  Tells(R2, t, IF t.channel \in S THEN {} ELSE s, n) /\ Len(R2) = Len(R)
<1>1. R \in Seq(Registers) /\ Len(R) \in Nat
  BY LenProperties DEF Tells
<1>2. R2 \in Seq(Registers) /\ Len(R2) = Len(R)
  <2>1. \A o \in 1..Len(R) : R2[o] \in Registers
    BY <1>1, NobodyIs, ElementOfSeq
  <2> QED
    BY <1>1, <2>1, IsASeq, LenProperties
<1>3. \A o \in 1..Len(R2) : Registered(R2[o])
  BY <1>2, NobodyIs DEF Tells
<1>4. ASSUME t.channel # 0 PROVE TellsOK(R2[t.channel], t, IF t.channel \in S THEN {} ELSE s, n)
  <2>1. t.channel \in 1..Len(R) /\ TellsOK(R[t.channel], t, s, n)
    BY <1>4, ToldOf
  <2>2. CASE t.channel \in S
    <3>1. KeptFor(R[t.channel], R2[t.channel], {})
      BY DEF KeptFor
    <3>2. TellsOK(R2[t.channel], t, {}, n)
      BY <2>1, <3>1, TellsWhileKept
    <3> QED
      BY <2>2, <3>2
  <2>3. CASE t.channel \notin S
    BY <2>1, <2>3
  <2> QED
    BY <2>2, <2>3
<1>5. (IF t.channel \in S THEN {} ELSE s) \in SUBSET Handlers
  BY DEF Tells
<1> QED
  BY <1>2, <1>3, <1>4, <1>5 DEF Tells

-----------------------------------------------------------------------------
\* The steps of the module, one after the other.

LEMMA ToldBegins == Channels!EventsInit => ToldInv
<1> SUFFICES ASSUME Channels!EventsInit PROVE ToldInv
  OBVIOUS
<1>1. /\ registered = <<>> /\ opened = <<>> /\ telling = Channels!Idle /\ sure = {}
      /\ heard = [h \in Handlers |-> 0]
  BY DEF Channels!EventsInit
<1>2. registered \in Seq(Registers) /\ Len(registered) = 0 /\ Len(opened) = 0
  BY <1>1
<1> QED
  BY <1>1, <1>2, NothingTold DEF ToldInv, Tells

\* Whom an event of a channel is told begins with the first of its names.
LEMMA BeginKeeps ==
  ASSUME ToldInv, NEW o \in Channels!Opened, NEW m \in Channels!Messages, NEW ev \in Seq(Channels!Events), ev # <<>>,
         NEW again \in BOOLEAN, Channels!Begins(o, m, ev, again)
  PROVE  ToldInv'
<1>1. /\ Tells(registered, telling, sure, heard) /\ Len(registered) = Len(opened)
      /\ o \in 1..Len(registered)
  BY DEF ToldInv, Channels!Opened
<1>2. PICK R, u : R = registered /\ u = telling'
  OBVIOUS
<1>3. /\ registered' = R /\ opened' = opened /\ heard' = [h \in Handlers |-> 0]
      /\ sure' = UNION {{R[o][v][i].handler : i \in DOMAIN R[o][v]} : v \in Channels!Events}
      /\ u = [channel |-> o, message |-> m, events |-> ev, then |-> Tail(ev),
              list |-> R[o][Head(ev)], again |-> again, inside |-> Channels!Nothing, threw |-> FALSE]
  BY <1>2 DEF Channels!Begins, Channels!RegisteredOn, Channels!RegisteredFor, Channels!CallbacksOf
<1>4. R[o] \in Registers /\ Head(ev) \in Channels!Events /\ Tail(ev) \in Seq(Channels!Events) /\ o \in Nat
  BY <1>1, <1>2, ElementOfSeq, HeadTailProperties DEF Tells
<1>5. R[o][Head(ev)] \in Seq(CallbackRecords)
  BY <1>4, RegistersAreLists
<1>6. u \in Tellings
  BY <1>3, <1>4, <1>5 DEF Tellings
<1>7. /\ u.channel = o /\ u.events # <<>> /\ u.then = Tail(u.events)
      /\ u.list = R[o][Head(u.events)] /\ ~u.threw
  BY <1>3
<1>8. PICK all0 : all0 = UNION {{R[o][v][i].handler : i \in DOMAIN R[o][v]} : v \in Channels!Events}
  OBVIOUS
<1>9. Tells(R, u, all0, [h \in Handlers |-> 0])
  BY <1>1, <1>2, <1>6, <1>7, <1>8, BeginTells
<1>10. Tells(registered', telling', sure', heard')
  BY <1>2, <1>3, <1>8, <1>9
<1> QED
  BY <1>1, <1>2, <1>3, <1>10 DEF ToldInv

LEMMA MessagesAre ==
  \A m \in Channels!Messages : Channels!PayloadEvent(m) \in Channels!Events /\ Channels!EventOf(m) \in Channels!Events
BY DEF Channels!Messages, Channels!PayloadEvent, Channels!EventOf, Channels!Events, Channels!Nothing

LEMMA TwoEvents ==
  ASSUME NEW v \in Channels!Events, NEW w \in Channels!Events
  PROVE  <<v, w>> \in Seq(Channels!Events) /\ <<v, w>> # <<>> /\ <<v>> \in Seq(Channels!Events)
  /\ <<v>> # <<>>
OBVIOUS

LEMMA ServerKeeps ==
  ASSUME ToldInv, ChannelsInv,
         \/ \E a \in Channels!Names, m \in Channels!Messages, f \in BOOLEAN : Channels!ServerPublication(a, m, f)
         \/ \E a \in Channels!Names : Channels!ServerJoin(a) \/ Channels!ServerSubscribed(a)
         \/ \E o \in Channels!Opened, m \in Channels!Messages : Channels!Publication(o, m)
  PROVE  ToldInv'
<1>1. \A a \in Channels!Names : open[a] # 0 => open[a] \in Channels!Opened
  <2>1. Len(opened) \in Nat
    BY SeqIs DEF ChannelsInv
  <2> QED
    BY <2>1 DEF ChannelsInv, Channels!Opened
<1>2. "*" \in Channels!Events /\ "join" \in Channels!Events
      /\ "presence_sync" \in Channels!Events /\ Channels!Idle.message \in Channels!Messages
  BY NothingTold DEF Channels!Events, Tellings
<1>3. ASSUME NEW a \in Channels!Names, NEW m \in Channels!Messages, NEW f \in BOOLEAN, Channels!ServerPublication(a, m, f)
      PROVE  ToldInv'
  <2>1. Channels!PostgresBase(a) = Channels!Nothing \/ Channels!PostgresBase(a) \in Channels!Names
    BY DEF Channels!PostgresBase, Channels!Names
  <2>2. Channels!RouteOf(a) # 0 /\ Channels!Begins(Channels!RouteOf(a), m, <<Channels!PayloadEvent(m), "*">>, f)
    BY <1>3 DEF Channels!ServerPublication
  <2>3. Channels!RouteOf(a) \in Channels!Opened
    BY <1>1, <2>1, <2>2 DEF Channels!RouteOf, Channels!ServerEventRoute
  <2> QED
    BY <1>2, <2>2, <2>3, MessagesAre, TwoEvents, BeginKeeps
<1>4. ASSUME NEW a \in Channels!Names, Channels!ServerJoin(a) PROVE ToldInv'
  <2>1. open[a] \in Channels!Opened
        /\ Channels!Begins(open[a], Channels!Idle.message, <<"presence_sync", "join">>, FALSE)
    BY <1>1, <1>4 DEF Channels!ServerJoin
  <2> QED
    BY <1>2, <2>1, TwoEvents, BeginKeeps
<1>5. ASSUME NEW a \in Channels!Names, Channels!ServerSubscribed(a) PROVE ToldInv'
  <2>1. open[a] \in Channels!Opened
        /\ Channels!Begins(open[a], Channels!Idle.message, <<"presence_sync">>, FALSE)
    BY <1>1, <1>5 DEF Channels!ServerSubscribed
  <2> QED
    BY <1>2, <2>1, TwoEvents, BeginKeeps
<1>6. ASSUME NEW o \in Channels!Opened, NEW m \in Channels!Messages, Channels!Publication(o, m)
      PROVE ToldInv'
  <2>1. Channels!Begins(o, m, <<Channels!EventOf(m), "*">>, FALSE)
    BY <1>6 DEF Channels!Publication
  <2> QED
    BY <1>2, <2>1, MessagesAre, TwoEvents, BeginKeeps
<1> QED
  BY <1>3, <1>4, <1>5, <1>6

\* The handlers hear it, one after the other, until one throws or the last has.
LEMMA TellingKeeps ==
  ASSUME ToldInv, Channels!TellsOne \/ Channels!TellsNextEvent \/ Channels!Ends \/ Channels!Throws
  PROVE  ToldInv'
<1>1. Tells(registered, telling, sure, heard) /\ Len(registered) = Len(opened)
  BY DEF ToldInv
<1>2. ASSUME Channels!TellsOne PROVE ToldInv'
  <2>1. PICK c : c = Head(telling.list)
    OBVIOUS
  <2>2. /\ telling.list # <<>>
        /\ telling' = [telling EXCEPT
             !.list = Tail(@), !.inside = IF Channels!Matches(c.wish, telling.message) THEN c.handler ELSE Channels!Nothing]
        /\ heard' = IF Channels!Matches(c.wish, telling.message) THEN [heard EXCEPT ![c.handler] = @ + 1] ELSE heard
        /\ UNCHANGED <<opened, registered, sure>>
    BY <1>2, <2>1 DEF Channels!TellsOne
  <2>3. Tells(registered, telling', sure, heard')
    BY <1>1, <2>1, <2>2, OneTells
  <2> QED
    BY <1>1, <2>2, <2>3 DEF ToldInv
<1>3. ASSUME Channels!TellsNextEvent PROVE ToldInv'
  <2>1. /\ telling.channel # 0 /\ telling.list = <<>> /\ telling.then # <<>>
        /\ telling' = [telling EXCEPT !.list = registered[telling.channel][Head(telling.then)],
                                      !.then = Tail(@), !.inside = Channels!Nothing]
        /\ UNCHANGED <<opened, registered, sure, heard>>
    BY <1>3 DEF Channels!TellsNextEvent, Channels!CallbacksOf
  <2>2. Tells(registered, telling', sure, heard)
    BY <1>1, <2>1, NextTells
  <2> QED
    BY <1>1, <2>1, <2>2 DEF ToldInv
<1>4. ASSUME telling' = Channels!Idle, sure' = {}, heard' = [h \in Handlers |-> 0], UNCHANGED <<opened, registered>>
      PROVE  ToldInv'
  <2>1. Tells(registered, Channels!Idle, {}, [h \in Handlers |-> 0])
    BY <1>1, IdleTells
  <2> QED
    BY <1>1, <1>4, <2>1 DEF ToldInv
<1>5. ASSUME Channels!Ends PROVE ToldInv'
  BY <1>4, <1>5 DEF Channels!Ends
<1>6. ASSUME Channels!Throws PROVE ToldInv'
  <2>1. CASE telling.again
    <3>1. /\ telling.inside # Channels!Nothing
          /\ telling' = [telling EXCEPT !.list = registered[telling.channel][Head(telling.events)],
               !.then = Tail(telling.events), !.again = FALSE, !.inside = Channels!Nothing, !.threw = TRUE]
          /\ UNCHANGED <<opened, registered, sure, heard>>
      BY <1>6, <2>1 DEF Channels!Throws, Channels!CallbacksOf
    <3>2. Tells(registered, telling', sure, heard)
      BY <1>1, <2>1, <3>1, AgainTells
    <3> QED
      BY <1>1, <3>1, <3>2 DEF ToldInv
  <2>2. CASE ~telling.again
    BY <1>4, <1>6, <2>2 DEF Channels!Throws
  <2> QED
    BY <2>1, <2>2
<1> QED
  BY <1>2, <1>3, <1>5, <1>6

\* A new handler is in no list and not among those who were there.
LEMMA OnKeeps ==
  ASSUME ToldInv, NEW o \in Channels!Opened, NEW w \in Channels!WishesOf(Channels!TypeOf(opened[o])), Channels!On(o, w)
  PROVE  ToldInv'
<1>1. /\ Tells(registered, telling, sure, heard) /\ Len(registered) = Len(opened)
      /\ o \in 1..Len(registered)
  BY DEF ToldInv, Channels!Opened
<1>2. PICK R, h : R = registered /\ h = CHOOSE x \in Channels!Unused : TRUE
  OBVIOUS
<1>3. h \in Channels!Unused /\ registered' = [R EXCEPT ![o][w.event] = Append(@, [handler |-> h, wish |-> w])]
      /\ UNCHANGED <<opened, telling, sure, heard>>
  BY <1>2 DEF Channels!On
<1>4. h \in Handlers /\ \A p \in 1..Len(R) : \A v \in Channels!Events : \A k \in DOMAIN R[p][v] : R[p][v][k].handler # h
  <2>1. h \in Handlers /\ \A p \in Channels!Opened : h \notin Channels!RegisteredOn(p)
    BY <1>3 DEF Channels!Unused
  <2>2. \A p \in Channels!Opened : \A v \in Channels!Events : h \notin Channels!RegisteredFor(p, v)
    BY <2>1 DEF Channels!RegisteredOn
  <2>3. \A p \in Channels!Opened : \A v \in Channels!Events : \A k \in DOMAIN R[p][v] : R[p][v][k].handler # h
    BY <1>2, <2>2 DEF Channels!RegisteredFor
  <2>4. Channels!Opened = 1..Len(R)
    BY <1>1, <1>2 DEF Channels!Opened
  <2> QED
    BY <2>1, <2>3, <2>4
<1>5. w \in WishRecords
  BY DEF Channels!WishesOf, Channels!TypeOf, Channels!OnEvent, Channels!OnPostgresChanges,
       Channels!OnPresenceSync, WishRecords, Channels!Events, Channels!Nothing
<1>6. PICK e : e = [handler |-> h, wish |-> w]
  OBVIOUS
<1>7. e \in CallbackRecords /\ e.wish = w /\ e.handler = h /\ w.event \in Channels!Events
  BY <1>4, <1>5, <1>6 DEF CallbackRecords, WishRecords
<1>8. R[o] \in Registers /\ Registered(R[o])
  BY <1>1, <1>2, ElementOfSeq DEF Tells
<1>9. h \notin sure
  <2>1. CASE telling.channel = 0
    BY <1>1, <2>1 DEF Tells
  <2>2. CASE telling.channel # 0
    <3>1. PICK p : p = telling.channel
      OBVIOUS
    <3>2. p \in 1..Len(R) /\ TellsOK(R[p], telling, sure, heard)
      BY <1>1, <1>2, <2>2, <3>1, ToldOf
    <3> QED
      BY <1>4, <3>2 DEF TellsOK
  <2> QED
    BY <2>1, <2>2
<1>10. \A v \in Channels!Events : \A k \in DOMAIN R[o][v] : R[o][v][k].handler # h
  BY <1>1, <1>2, <1>4
<1>11. PICK r2 : r2 = [R[o] EXCEPT ![w.event] = Append(@, e)]
  OBVIOUS
<1>12. r2 \in Registers /\ Registered(r2) /\ KeptFor(R[o], r2, sure)
  BY <1>7, <1>8, <1>9, <1>10, <1>11, AddsOne
<1>13. registered' = [R EXCEPT ![o] = r2]
  BY <1>3, <1>6, <1>11
<1>14. Tells([R EXCEPT ![o] = r2], telling, sure, heard)
  BY <1>1, <1>2, <1>12, ChangedTells
<1>15. Len([R EXCEPT ![o] = r2]) = Len(R)
  BY <1>1, <1>2, <1>12, ExceptSeq DEF Tells
<1> QED
  BY <1>1, <1>2, <1>3, <1>13, <1>14, <1>15 DEF ToldInv

\* Whoever goes is no more among those who are sure; the list that is told stays.
LEMMA OffKeeps ==
  ASSUME ToldInv, NEW o \in Channels!Opened, NEW h \in Handlers, Channels!Off(o, h)
  PROVE  ToldInv'
<1>1. /\ Tells(registered, telling, sure, heard) /\ Len(registered) = Len(opened)
      /\ o \in 1..Len(registered)
  BY DEF ToldInv, Channels!Opened
<1>2. PICK R : R = registered
  OBVIOUS
<1>3. PICK w \in Channels!Events : \E i \in DOMAIN R[o][w] :
        R[o][w][i].handler = h /\ registered' = [R EXCEPT ![o][w] = Channels!RemoveAt(@, i)]
  BY <1>2 DEF Channels!Off
<1>4. PICK i \in DOMAIN R[o][w] :
        R[o][w][i].handler = h /\ registered' = [R EXCEPT ![o][w] = Channels!RemoveAt(@, i)]
  BY <1>3
<1>5. telling' = telling
  <2>1. telling' = [telling EXCEPT !.list = telling.list] /\ telling \in Tellings
    BY <1>1 DEF Channels!Off, Channels!Snapshot, Tells
  <2> QED
    BY <2>1 DEF Tellings
<1>6. sure' = sure \ {h} /\ UNCHANGED <<opened, heard>>
  BY DEF Channels!Off
<1>7. R[o] \in Registers /\ Registered(R[o])
  BY <1>1, <1>2, ElementOfSeq DEF Tells
<1>8. PICK r2 : r2 = [R[o] EXCEPT ![w] = Channels!RemoveAt(@, i)]
  OBVIOUS
<1>9. r2 \in Registers /\ Registered(r2) /\ KeptFor(R[o], r2, sure \ {h})
  BY <1>4, <1>7, <1>8, TakesOne
<1>10. registered' = [R EXCEPT ![o] = r2]
  BY <1>4, <1>8
<1>11. Tells([R EXCEPT ![o] = r2], telling, sure \ {h}, heard)
  BY <1>1, <1>2, <1>9, ChangedTells
<1>12. Len([R EXCEPT ![o] = r2]) = Len(R)
  BY <1>1, <1>2, <1>9, ExceptSeq DEF Tells
<1> QED
  BY <1>1, <1>2, <1>5, <1>6, <1>10, <1>11, <1>12 DEF ToldInv

\* A new channel has nobody, and whoever closes one has nobody told of it.
LEMMA OpenTells ==
  ASSUME ToldInv, ChannelsInv, NEW name \in Channels!Names, Channels!Open(name)
  PROVE  ToldInv'
<1>1. Tells(registered, telling, sure, heard) /\ Len(registered) = Len(opened)
  BY DEF ToldInv
<1>2. /\ registered' = Append(registered, Channels!NoCallbacks) /\ opened' = Append(opened, name)
      /\ UNCHANGED <<telling, sure, heard>>
  BY DEF Channels!Open
<1>3. Len(opened') = Len(opened) + 1
  BY <1>2, LongerBy DEF ChannelsInv
<1> QED
  BY <1>1, <1>2, <1>3, OpenedTells DEF ToldInv

LEMMA DisposeTells == ASSUME ToldInv, NEW S, Channels!Dispose(S) PROVE ToldInv'
<1>1. Tells(registered, telling, sure, heard) /\ Len(registered) = Len(opened)
  BY DEF ToldInv
<1>2. /\ registered' = [o \in 1..Len(registered) |-> IF o \in S THEN Channels!NoCallbacks ELSE registered[o]]
      /\ sure' = IF telling.channel \in S THEN {} ELSE sure
      /\ UNCHANGED <<opened, telling, heard>>
  BY <1>1 DEF Channels!Dispose, Channels!Opened
<1>3. PICK R2 : R2 = [o \in 1..Len(registered) |-> IF o \in S THEN Channels!NoCallbacks ELSE registered[o]]
  OBVIOUS
<1>4. Tells(R2, telling, IF telling.channel \in S THEN {} ELSE sure, heard) /\ Len(R2) = Len(registered)
  BY <1>1, <1>3, ClosedTells
<1> QED
  BY <1>1, <1>2, <1>3, <1>4 DEF ToldInv

LEMMA ToldQuiet ==
  ASSUME ToldInv, UNCHANGED <<opened, registered, telling, sure, heard>>
  PROVE  ToldInv'
BY DEF ToldInv

LEMMA ToldNext == ASSUME ToldInv, ChannelsInv, Channels!EventsStep PROVE ToldInv'
<1>1. ASSUME \/ \E n \in Channels!Names : Channels!CloseChannel(n)
             \/ \E o \in Channels!Opened : Channels!CloseDurableChannel(o)
             \/ Channels!CloseAllChannels \/ Channels!IsSpent
      PROVE  ToldInv'
  <2>1. (\E S : Channels!Dispose(S)) \/ UNCHANGED Channels!eventVars
    BY <1>1 DEF Channels!CloseChannel, Channels!CloseDurableChannel, Channels!CloseAllChannels,
         Channels!IsSpent
  <2>2. UNCHANGED Channels!eventVars => UNCHANGED <<opened, registered, telling, sure, heard>>
    BY DEF Channels!eventVars
  <2> QED
    BY <2>1, <2>2, DisposeTells, ToldQuiet
<1> QED
  BY <1>1, ServerKeeps, TellingKeeps, OnKeeps, OffKeeps, OpenTells DEF Channels!EventsStep

\* When the last has heard it, nothing is pending.
LEMMA ToldImplies == ToldInv => Channels!ToldOnce
<1> SUFFICES ASSUME ToldInv, Channels!IsOver, NEW v \in Channels!Events, NEW i \in DOMAIN registered[telling.channel][v],
                    registered[telling.channel][v][i].handler \in sure
             PROVE  LET e == registered[telling.channel][v][i]
                    IN heard[e.handler] \in
                         {Channels!Due(e.wish)} \cup (IF telling.threw THEN Channels!Due(e.wish)..2 * Channels!Due(e.wish) ELSE {})
  BY DEF Channels!ToldOnce
<1>1. telling.channel # 0 /\ telling.list = <<>> /\ telling.then = <<>>
  BY DEF Channels!IsOver
<1>2. Tells(registered, telling, sure, heard)
  BY DEF ToldInv
<1>3. PICK r, e, t, n : /\ r = registered[telling.channel] /\ e = r[v][i] /\ t = telling
                        /\ n = heard[e.handler]
  OBVIOUS
<1>4. r \in Registers /\ TellsOK(r, t, sure, heard) /\ t \in Tellings
  BY <1>1, <1>2, <1>3, ToldOf DEF Tells
<1>5. e \in CallbackRecords /\ n \in Nat
  <2>1. e \in CallbackRecords
    BY <1>3, <1>4, RegistersAreLists
  <2> QED
    BY <1>2, <1>3, <2>1 DEF Tells, CallbackRecords
<1>6. Conserved(e, t, n)
  BY <1>3, <1>4 DEF TellsOK
<1>7. Pending(e, t.list, t.then) = 0
  <2>1. t.then \in Seq(Channels!Events) /\ t.list \in Seq(CallbackRecords)
    BY <1>4 DEF Tellings
  <2>2. Pending(e, t.list, t.then) = Times(t.then, e.wish.event)
    BY <1>1, <1>3, <2>1, PendingIs
  <2> QED
    BY <1>1, <1>3, <2>1, <2>2, TimesIs
<1>8. PICK due : due = Times(t.events, e.wish.event)
  OBVIOUS
<1>9. due \in Nat
  BY <1>4, <1>8, TimesIs DEF Tellings
<1>10. Channels!Due(e.wish) = IF Channels!Matches(e.wish, t.message) THEN due ELSE 0
  BY <1>3, <1>8, DueIs
<1>11. n = Channels!Due(e.wish) \/ (t.threw /\ n \in Channels!Due(e.wish)..(2 * Channels!Due(e.wish)))
  BY <1>5, <1>6, <1>7, <1>8, <1>9, <1>10 DEF Conserved
<1> QED
  BY <1>3, <1>11

-----------------------------------------------------------------------------
\* The route of a request: what was allowed of each name is sent as parts that the URL
\* parser leaves alone, so that the request arrives with the parts it was sent with,
\* each in its place; and of the routes that match there, its own is the best, but for
\* one that has a word where the request has that word for a name.

\* Two sequences are joined to the one that has the places of both.
LEMMA JoinedIs ==
  ASSUME NEW X, NEW p \in Seq(X), NEW q \in Seq(X), NEW r \in Seq(X),
         Len(r) = Len(p) + Len(q),
         \A j \in 1..Len(p) : r[j] = p[j],
         \A j \in 1..Len(q) : r[Len(p) + j] = q[j]
  PROVE  p \o q = r
<1>1. p \o q \in Seq(X) /\ Len(p \o q) = Len(r)
  OBVIOUS
<1>2. ASSUME NEW j \in 1..Len(r) PROVE (p \o q)[j] = r[j]
  <2>1. CASE j <= Len(p)
    BY <2>1
  <2>2. CASE ~(j <= Len(p))
    <3>1. j - Len(p) \in 1..Len(q) /\ Len(p) + (j - Len(p)) = j
      BY <2>2
    <3> QED
      BY <2>2, <3>1
  <2> QED
    BY <2>1, <2>2
<1> QED
  BY <1>1, <1>2, SeqEqual

\* s has one element at each place, but at k what it has there.
Spliced(s, k) ==
  LET m == Len(s[k])
  IN [j \in 1..(Len(s) + m - 1) |->
        IF j < k THEN s[j][1] ELSE IF j < k + m THEN s[k][j - k + 1] ELSE s[j - m + 1][1]]

\* To flatten sequences of which all but the k-th have one element.
LEMMA FlattenIs ==
  ASSUME NEW X, NEW s \in Seq(Seq(X)), NEW k \in 1..Len(s),
         \A i \in 1..Len(s) : i # k => Len(s[i]) = 1
  PROVE  Routing!FlattenSeq(s) = Spliced(s, k)
<1> DEFINE L == Len(s)
           m == Len(s[k])
           at(j) == IF j < k THEN s[j][1]
                    ELSE IF j < k + m THEN s[k][j - k + 1] ELSE s[j - m + 1][1]
           size(i) == IF i < k THEN i ELSE i + m - 1
           g == [i \in 1..L |-> [j \in 1..size(i) |-> at(j)]]
           Is(f) == f = [i \in 1..L |-> IF i = 1 THEN s[i] ELSE f[i - 1] \o s[i]]
<1>1. /\ L \in Nat /\ L >= 1 /\ m \in Nat /\ k \in Nat /\ k >= 1 /\ k <= L
      /\ \A i \in 1..L : s[i] \in Seq(X) /\ (i # k => Len(s[i]) = 1)
      /\ s[k] \in Seq(X) /\ Len(s[k]) = m
  OBVIOUS
<1> HIDE DEF L, m
<1>2. \A i \in 1..L : size(i) \in Nat
  BY <1>1
<1>3. ASSUME NEW i \in 1..L, NEW j \in 1..size(i) PROVE at(j) \in X
  <2>1. CASE j < k
    <3>1. j \in 1..L /\ j # k
      BY <1>1, <1>2, <2>1
    <3>2. s[j] \in Seq(X) /\ Len(s[j]) = 1
      BY <1>1, <3>1
    <3>3. s[j][1] \in X
      BY <3>2
    <3> QED
      BY <2>1, <3>3
  <2>2. CASE ~(j < k) /\ j < k + m
    <3>1. j - k + 1 \in 1..m
      BY <1>1, <1>2, <2>2
    <3> QED
      BY <1>1, <2>2, <3>1
  <2>3. CASE ~(j < k + m)
    <3>1. j - m + 1 \in 1..L /\ j - m + 1 # k /\ ~(j < k)
      BY <1>1, <1>2, <2>3
    <3>2. s[j - m + 1] \in Seq(X) /\ Len(s[j - m + 1]) = 1
      BY <1>1, <3>1
    <3>3. s[j - m + 1][1] \in X
      BY <3>2
    <3> QED
      BY <2>3, <3>1, <3>3
  <2> QED
    BY <2>1, <2>2, <2>3
<1>4. ASSUME NEW i \in 1..L PROVE g[i] \in Seq(X) /\ Len(g[i]) = size(i)
  <2> DEFINE t == [j \in 1..size(i) |-> at(j)]
             n == size(i)
  <2>1. g[i] = t
    OBVIOUS
  <2>2. n \in Nat
    BY <1>2
  <2> HIDE DEF g, at, size
  <2>3. t \in [1..n -> X]
    BY <1>3
  <2> HIDE DEF t, n
  <2>4. t \in Seq(X) /\ Len(t) = n
    BY <2>2, <2>3
  <2> QED
    BY <2>1, <2>4 DEF n
<1>5. g[1] = s[1]
  <2>1. 1 \in 1..L
    BY <1>1
  <2>2. CASE k = 1
    <3>1. g[1] = [j \in 1..m |-> s[1][j]]
      <4>1. size(1) = m
        BY <1>1, <2>2
      <4>2. \A j \in 1..m : at(j) = s[1][j]
        BY <1>1, <2>2
      <4> HIDE DEF at, size
      <4> QED
        BY <2>1, <4>1, <4>2
    <3>2. s[1] \in Seq(X) /\ Len(s[1]) = m
      BY <1>1, <2>2
    <3> QED
      BY <3>1, <3>2
  <2>3. CASE k # 1
    <3>1. g[1] = [j \in 1..1 |-> s[1][1]]
      <4>1. size(1) = 1
        BY <1>1, <2>3
      <4>2. \A j \in 1..1 : at(j) = s[1][1]
        BY <1>1, <2>3
      <4> HIDE DEF at, size
      <4> QED
        BY <2>1, <4>1, <4>2
    <3>2. s[1] \in Seq(X) /\ Len(s[1]) = 1
      BY <1>1, <2>1, <2>3
    <3> QED
      BY <3>1, <3>2
  <2> QED
    BY <2>2, <2>3
<1>6. ASSUME NEW i \in 1..L, i # 1 PROVE g[i - 1] \o s[i] = g[i]
  <2>1. i - 1 \in 1..L /\ i \in Nat
    BY <1>1, <1>6
  <2>2. /\ g[i - 1] \in Seq(X) /\ Len(g[i - 1]) = size(i - 1)
        /\ g[i] \in Seq(X) /\ Len(g[i]) = size(i)
    BY <1>4, <2>1
  <2>3. \A j \in 1..size(i - 1) : g[i - 1][j] = at(j)
    <3> HIDE DEF at, size
    <3> QED
      BY <2>1
  <2>4. \A j \in 1..size(i) : g[i][j] = at(j)
    <3> HIDE DEF at, size
    <3> QED
      BY <2>1
  <2>5. size(i) = size(i - 1) + Len(s[i])
    <3>1. CASE i = k
      <4>1. Len(s[i]) = m
        BY <1>1, <3>1
      <4>2. size(i) = i + m - 1 /\ size(i - 1) = i - 1
        BY <1>1, <2>1, <3>1
      <4> HIDE DEF size
      <4> QED
        BY <1>1, <2>1, <4>1, <4>2
    <3>2. CASE i # k
      <4>1. Len(s[i]) = 1
        BY <1>1, <3>2
      <4> QED
        BY <1>1, <2>1, <3>2, <4>1
    <3> QED
      BY <3>1, <3>2
  <2>6. ASSUME NEW j \in 1..Len(s[i]) PROVE at(size(i - 1) + j) = s[i][j]
    <3>1. CASE i = k
      <4>1. size(i - 1) + j = k - 1 + j /\ j \in 1..m
        BY <1>1, <2>1, <3>1
      <4>2. at(k - 1 + j) = s[k][(k - 1 + j) - k + 1] /\ (k - 1 + j) - k + 1 = j
        BY <1>1, <4>1
      <4> QED
        BY <3>1, <4>1, <4>2
    <3>2. CASE i < k
      <4>1. j = 1 /\ size(i - 1) = i - 1
        <5>1. Len(s[i]) = 1
          BY <1>1, <3>2
        <5>2. size(i - 1) = i - 1
          BY <1>1, <2>1, <3>2
        <5> HIDE DEF size
        <5> QED
          BY <5>1, <5>2
      <4> QED
        BY <2>1, <3>2, <4>1
    <3>3. CASE i > k
      <4>1. j = 1 /\ size(i - 1) = i + m - 2
        <5>1. Len(s[i]) = 1
          BY <1>1, <2>1, <3>3
        <5>2. size(i - 1) = i + m - 2
          BY <1>1, <2>1, <3>3
        <5> HIDE DEF size
        <5> QED
          BY <5>1, <5>2
      <4>2. ~(i + m - 1 < k) /\ ~(i + m - 1 < k + m) /\ (i + m - 1) - m + 1 = i
        BY <1>1, <2>1, <3>3
      <4> QED
        BY <1>1, <2>1, <4>1, <4>2
    <3> QED
      BY <1>1, <2>1, <3>1, <3>2, <3>3
  <2>7. /\ size(i - 1) \in Nat /\ Len(s[i]) \in Nat /\ s[i] \in Seq(X)
        /\ \A j \in 1..size(i - 1) : j \in 1..size(i)
        /\ \A j \in 1..Len(s[i]) : size(i - 1) + j \in 1..size(i)
    <3>1. size(i - 1) \in Nat /\ s[i] \in Seq(X) /\ Len(s[i]) \in Nat
      BY <1>1, <1>2, <2>1
    <3> HIDE DEF size
    <3> QED
      BY <2>5, <3>1
  <2> HIDE DEF at, size, g
  <2>8. \A j \in 1..Len(g[i - 1]) : g[i][j] = g[i - 1][j]
    BY <2>2, <2>3, <2>4, <2>7
  <2>9. \A j \in 1..Len(s[i]) : g[i][Len(g[i - 1]) + j] = s[i][j]
    BY <2>2, <2>4, <2>6, <2>7
  <2>10. Len(g[i]) = Len(g[i - 1]) + Len(s[i])
    BY <2>2, <2>5
  <2>11. g[i - 1] \in Seq(X) /\ s[i] \in Seq(X) /\ g[i] \in Seq(X)
    BY <2>2, <2>7
  <2> QED
    BY <2>8, <2>9, <2>10, <2>11, JoinedIs
<1>7. Is(g)
  <2>1. \A i \in 1..L : g[i] = IF i = 1 THEN s[i] ELSE g[i - 1] \o s[i]
    BY <1>5, <1>6
  <2>2. g = [i \in 1..L |-> g[i]]
    OBVIOUS
  <2> HIDE DEF g
  <2> QED
    BY <2>1, <2>2
<1>8. ASSUME NEW f, Is(f) PROVE f[L] = g[L]
  <2> DEFINE S == {n \in Nat : n + 1 <= L => f[n + 1] = g[n + 1]}
  <2>1. \A i \in 1..L : f[i] = IF i = 1 THEN s[i] ELSE f[i - 1] \o s[i]
    BY <1>8
  <2> HIDE DEF g, Is
  <2>2. 0 \in S
    <3>1. 1 \in 1..L
      BY <1>1
    <3> QED
      BY <1>5, <2>1, <3>1
  <2>3. ASSUME NEW n \in Nat, n \in S PROVE n + 1 \in S
    <3>1. SUFFICES ASSUME (n + 1) + 1 <= L PROVE f[(n + 1) + 1] = g[(n + 1) + 1]
      OBVIOUS
    <3>2. (n + 1) + 1 \in 1..L /\ (n + 1) + 1 # 1 /\ ((n + 1) + 1) - 1 = n + 1 /\ n + 1 <= L
      BY <1>1, <3>1
    <3>3. f[(n + 1) + 1] = f[n + 1] \o s[(n + 1) + 1]
      BY <2>1, <3>2
    <3>4. g[n + 1] \o s[(n + 1) + 1] = g[(n + 1) + 1]
      BY <1>6, <3>2
    <3> QED
      BY <2>3, <3>2, <3>3, <3>4
  <2>4. L - 1 \in S
    <3>1. L - 1 \in Nat
      BY <1>1
    <3> HIDE DEF S
    <3> QED
      BY <2>2, <2>3, <3>1, FromZero
  <2> QED
    BY <1>1, <2>4
<1>9. Is(CHOOSE f : Is(f))
  <2> HIDE DEF Is
  <2> QED
    BY <1>7, Zenon
<1>10. Routing!FlattenSeq(s) = (CHOOSE f : Is(f))[L]
  BY <1>1 DEF Routing!FlattenSeq, L
<1>11. Routing!FlattenSeq(s) = g[L]
  <2> HIDE DEF Is, g
  <2> QED
    BY <1>8, <1>9, <1>10
<1>12. size(L) = L + m - 1 /\ L \in 1..L
  BY <1>1
<1>13. g[L] = [j \in 1..(L + m - 1) |-> at(j)]
  <2> HIDE DEF at, size
  <2> QED
    BY <1>12
<1> QED
  BY <1>11, <1>13 DEF Spliced, L, m

\* A URL that has no dot segments stays as it is.
LEMMA ParsedIs ==
  ASSUME NEW X, NEW url \in Seq(X),
         \A i \in 1..Len(url) : url[i] \notin {<<".">>, <<"..">>}
  PROVE  Routing!Parsed(url) = url
<1> DEFINE L == Len(url)
           UpTo(f, i) ==
             LET before == f[i - 1]
                 left == IF url[i] = <<"..">> /\ before # <<>>
                         THEN Routing!Front(before) ELSE before
             IN IF url[i] \notin {<<".">>, <<"..">>} THEN Append(before, url[i])
                ELSE IF i = Len(url) THEN Append(left, <<"">>) ELSE left
           Is(f) == f = [i \in 0..L |-> IF i = 0 THEN <<>> ELSE UpTo(f, i)]
           g == [i \in 0..L |-> [j \in 1..i |-> url[j]]]
<1>1. L \in Nat /\ \A j \in 1..L : url[j] \in X
  OBVIOUS
<1>2. \A f : \A i \in 1..L : UpTo(f, i) = Append(f[i - 1], url[i])
  OBVIOUS
<1>3. Routing!Parsed(url) = (CHOOSE f : Is(f))[L]
  BY DEF Routing!Parsed
<1> HIDE DEF L, UpTo
<1>4. \A i \in 0..L : g[i] = [j \in 1..i |-> url[j]] /\ g[i] \in Seq(X) /\ Len(g[i]) = i
  <2> SUFFICES ASSUME NEW i \in 0..L
               PROVE  g[i] = [j \in 1..i |-> url[j]] /\ g[i] \in Seq(X) /\ Len(g[i]) = i
    OBVIOUS
  <2> DEFINE t == [j \in 1..i |-> url[j]]
  <2>1. i \in Nat /\ \A j \in 1..i : j \in 1..L
    BY <1>1
  <2>2. t \in [1..i -> X]
    BY <1>1, <2>1
  <2> HIDE DEF t
  <2>3. t \in Seq(X) /\ Len(t) = i
    BY <2>1, <2>2
  <2> QED
    BY <2>3 DEF t
<1>5. g[0] = <<>>
  <2>1. 0 \in 0..L
    BY <1>1
  <2> HIDE DEF g
  <2>2. g[0] \in Seq(X) /\ Len(g[0]) = 0
    BY <1>4, <2>1
  <2> QED
    BY <2>2, EmptySeq
<1>6. ASSUME NEW i \in 1..L PROVE g[i] = Append(g[i - 1], url[i])
  <2>1. i - 1 \in 0..L /\ i \in 0..L /\ i \in Nat /\ url[i] \in X
    BY <1>1
  <2> HIDE DEF g
  <2>2. /\ g[i - 1] \in Seq(X) /\ Len(g[i - 1]) = i - 1
        /\ g[i] \in Seq(X) /\ Len(g[i]) = i
    BY <1>4, <2>1
  <2>3. \A j \in 1..i : g[i][j] = url[j]
    BY <1>4, <2>1
  <2>4. \A j \in 1..(i - 1) : g[i - 1][j] = url[j]
    <3>1. g[i - 1] = [j \in 1..(i - 1) |-> url[j]]
      BY <1>4, <2>1, Zenon
    <3> QED
      BY <3>1
  <2>5. Append(g[i - 1], url[i]) \in Seq(X) /\ Len(Append(g[i - 1], url[i])) = i
    BY <2>1, <2>2
  <2>6. ASSUME NEW j \in 1..i PROVE Append(g[i - 1], url[i])[j] = g[i][j]
    <3>1. CASE j = i
      BY <2>1, <2>2, <2>3, <3>1
    <3>2. CASE j # i
      <4>1. j \in 1..(i - 1)
        BY <2>1, <3>2
      <4> QED
        BY <2>1, <2>2, <2>3, <2>4, <4>1
    <3> QED
      BY <3>1, <3>2
  <2> QED
    BY <2>2, <2>5, <2>6, SeqEqual
<1>7. Is(g)
  <2>1. \A i \in 0..L : g[i] = IF i = 0 THEN <<>> ELSE UpTo(g, i)
    <3> SUFFICES ASSUME NEW i \in 0..L PROVE g[i] = IF i = 0 THEN <<>> ELSE UpTo(g, i)
      OBVIOUS
    <3> HIDE DEF g
    <3>1. i # 0 => i \in 1..L
      BY <1>1
    <3> QED
      BY <1>2, <1>5, <1>6, <3>1
  <2>2. g = [i \in 0..L |-> g[i]]
    OBVIOUS
  <2> HIDE DEF g
  <2> QED
    BY <2>1, <2>2
<1>8. ASSUME NEW f, Is(f) PROVE f[L] = g[L]
  <2> DEFINE S == {n \in Nat : n <= L => f[n] = g[n]}
  <2>1. \A i \in 0..L : f[i] = IF i = 0 THEN <<>> ELSE UpTo(f, i)
    BY <1>8
  <2> HIDE DEF g, Is
  <2>2. 0 \in S
    <3>1. 0 \in 0..L
      BY <1>1
    <3> QED
      BY <1>5, <2>1, <3>1
  <2>3. ASSUME NEW n \in Nat, n \in S PROVE n + 1 \in S
    <3>1. SUFFICES ASSUME n + 1 <= L PROVE f[n + 1] = g[n + 1]
      OBVIOUS
    <3>2. n + 1 \in 1..L /\ n + 1 \in 0..L /\ n + 1 # 0 /\ (n + 1) - 1 = n /\ n <= L
      BY <1>1, <3>1
    <3>3. f[n + 1] = Append(f[n], url[n + 1])
      BY <1>2, <2>1, <3>2
    <3>4. g[n + 1] = Append(g[n], url[n + 1])
      BY <1>6, <3>2
    <3> QED
      BY <2>3, <3>2, <3>3, <3>4
  <2>4. L \in S
    <3> HIDE DEF S
    <3> QED
      BY <1>1, <2>2, <2>3, FromZero
  <2> QED
    BY <1>1, <2>4
<1>9. Is(CHOOSE f : Is(f))
  <2> HIDE DEF Is
  <2> QED
    BY <1>7, Zenon
<1>10. Routing!Parsed(url) = g[L]
  <2> HIDE DEF Is, g
  <2> QED
    BY <1>3, <1>8, <1>9
<1>11. g[L] = url
  <2>1. L \in 0..L
    BY <1>1
  <2>2. g[L] \in Seq(X) /\ Len(g[L]) = L /\ g[L] = [j \in 1..L |-> url[j]]
    BY <1>4, <2>1
  <2> HIDE DEF g
  <2>3. \A j \in 1..L : g[L][j] = url[j]
    BY <2>2
  <2> QED
    BY <2>2, <2>3, SeqEqual DEF L
<1> QED
  BY <1>10, <1>11

\* A path of parts, a segment of the URL for each, is decoded to those parts.
NoDots(at) == \A i \in 1..Len(at) : at[i] \notin {"", ".", ".."}

\* What has neither dots nor blanks arrives as it was sent.
LEMMA ReceivedIs ==
  ASSUME NEW X, NEW at \in Seq(X), Len(at) >= 1, NoDots(at)
  PROVE  LET url == [i \in 1..Len(at) |-> <<at[i]>>]
         IN Routing!FlattenSeq(url) = at /\ Routing!Received(url) = at
<1> DEFINE L == Len(at)
           url == [i \in 1..L |-> <<at[i]>>]
<1>1. L \in Nat /\ L >= 1 /\ \A j \in 1..L : at[j] \in X
  OBVIOUS
<1> HIDE DEF L
<1>2. url \in Seq(Seq(X)) /\ Len(url) = L
  <2>1. \A i \in 1..L : <<at[i]>> \in Seq(X)
    BY <1>1
  <2>2. url \in [1..L -> Seq(X)]
    BY <2>1
  <2> HIDE DEF url
  <2> QED
    BY <1>1, <2>2
<1>3. \A i \in 1..L : url[i] = <<at[i]>> /\ Len(url[i]) = 1 /\ url[i][1] = at[i]
  OBVIOUS
<1>4. ASSUME NEW w, w = url PROVE Routing!FlattenSeq(w) = at
  <2>1. 1 \in 1..L
    BY <1>1
  <2>2. Routing!FlattenSeq(url) = Spliced(url, 1)
    <3> HIDE DEF url
    <3> QED
      BY <1>2, <1>3, <2>1, FlattenIs
  <2>3. Spliced(url, 1) = [j \in 1..L |-> at[j]]
    <3> HIDE DEF url
    <3>1. Len(url) + Len(url[1]) - 1 = L /\ Len(url[1]) = 1
      <4>1. Len(url) = L /\ Len(url[1]) = 1
        BY <1>2, <1>3, <2>1, Zenon
      <4> QED
        BY <1>1, <4>1
    <3>2. Spliced(url, 1) = [j \in 1..L |-> IF j < 1 THEN url[j][1]
                               ELSE IF j < 2 THEN url[1][j] ELSE url[j][1]]
      BY <1>1, <3>1 DEF Spliced
    <3>3. \A j \in 1..L : (IF j < 1 THEN url[j][1]
                           ELSE IF j < 2 THEN url[1][j] ELSE url[j][1]) = at[j]
      <4>1. \A j \in 1..L : j < 2 => j = 1
        BY <1>1
      <4> QED
        BY <1>3, <4>1
    <3> QED
      BY <3>2, <3>3
  <2>4. [j \in 1..L |-> at[j]] = at
    BY <1>1 DEF L
  <2> HIDE DEF url
  <2> QED
    BY <1>4, <2>2, <2>3, <2>4
<1>5. Routing!Parsed(url) = url
  <2>1. \A i \in 1..Len(url) : url[i] \notin {<<".">>, <<"..">>}
    <3> SUFFICES ASSUME NEW i \in 1..L PROVE url[i] \notin {<<".">>, <<"..">>}
      BY <1>2
    <3>1. url[i][1] # "." /\ url[i][1] # ".."
      BY <1>3 DEF L, NoDots
    <3>2. <<".">>[1] = "." /\ <<"..">>[1] = ".."
      OBVIOUS
    <3> HIDE DEF url
    <3> QED
      BY <3>1, <3>2
  <2> HIDE DEF url
  <2> QED
    BY <1>2, <2>1, ParsedIs
<1>6. Routing!Received(url) = at
  <2>1. Routing!FlattenSeq(Routing!Parsed(url)) = at
    BY <1>4, <1>5
  <2>2. DOMAIN at = 1..L
    BY DEF L
  <2>3. [i \in DOMAIN at |-> IF at[i] = "" THEN <<>> ELSE <<at[i]>>] = url
    <3>1. \A i \in 1..L : at[i] # ""
      BY DEF L, NoDots
    <3> QED
      BY <2>2, <3>1
  <2> HIDE DEF url
  <2> QED
    BY <1>4, <2>1, <2>3 DEF Routing!Received
<1> QED
  BY <1>4, <1>6 DEF L

\* What stands between slashes in a URL, as it arrives: no blanks, no dots.
Said(v) == v \in Seq(Pieces) /\ Len(v) >= 1 /\ NoDots(v)

\* A name that is allowed is sent as such; but for an object's it is one part.
LEMMA MeantIs ==
  ASSUME NEW kind \in Routing!Kinds, NEW v \in Seq(Pieces) \ {<<>>}, Routing!Allowed(kind, v)
  PROVE  /\ Said(Routing!Meant(kind, v))
         /\ kind # ":object" => Len(Routing!Meant(kind, v)) = 1
<1> DEFINE M == Routing!Meant(kind, v)
<1>1. /\ v \in Seq(Pieces) /\ Len(v) \in Nat /\ Len(v) >= 1 /\ v[1] \in Pieces
      /\ \A j \in 1..Len(v) : v[j] \in Pieces
  BY EmptySeq
<1>2. /\ Trim \in [Pieces -> Pieces] /\ Trim[""] = "" /\ "" \in Pieces
      /\ Plains \subseteq Pieces /\ Uuids \subseteq Plains
      /\ "" \notin Plains /\ "." \notin Plains /\ ".." \notin Plains
  BY NamesAssumption DEF Routing!NamesAre
<1>3. ASSUME NEW w, w \in Seq(Pieces), Len(w) = 1, w[1] # "", w[1] # ".", w[1] # ".."
      PROVE  Said(w) /\ Len(w) = 1
  <2>1. \A i \in 1..Len(w) : w[i] = w[1]
    <3>1. \A i \in 1..1 : i = 1
      OBVIOUS
    <3> QED
      BY <1>3, <3>1, Zenon
  <2>2. NoDots(w)
    BY <1>3, <2>1 DEF NoDots
  <2>3. Len(w) >= 1
    <3>1. Len(w) = 1 => Len(w) >= 1
      OBVIOUS
    <3> QED
      BY <1>3, <3>1, Zenon
  <2> QED
    BY <1>3, <2>2, <2>3, Zenon DEF Said
<1>4. ASSUME NEW w, w \in Seq(Pieces), Routing!Plain(w) PROVE Said(w) /\ Len(w) = 1
  BY <1>2, <1>3, <1>4 DEF Routing!Plain
<1>5. Routing!Trimmed(v) \in Seq(Pieces)
  <2>1. Trim[v[1]] \in Pieces
    BY <1>1, <1>2, Zenon
  <2>2. <<Trim[v[1]]>> \in Seq(Pieces)
    BY <2>1
  <2> QED
    BY <1>1, <2>2, Zenon DEF Routing!Trimmed
<1>6. ASSUME NEW w, w \in Seq(Pieces), Routing!PathSegment(w) PROVE Said(w) /\ Len(w) = 1
  <2>1. Len(w) = 1 /\ w[1] # "." /\ w[1] # ".." /\ Routing!Trimmed(w) # <<"">>
    BY <1>6 DEF Routing!PathSegment, Routing!UnsafeName, Routing!Dots
  <2>2. w[1] # ""
    BY <1>2, <2>1 DEF Routing!Trimmed
  <2> QED
    BY <1>3, <1>6, <2>1, <2>2
<1>7. CASE kind = ":durable"
  <2>1. M = Routing!Trimmed(v)
    BY <1>7 DEF Routing!Meant
  <2>2. Routing!PathSegment(Routing!Trimmed(v))
    BY <1>7 DEF Routing!Allowed, Routing!Identifier
  <2> QED
    BY <1>5, <1>6, <2>1, <2>2
<1>8. CASE kind = ":label"
  <2>1. M = Routing!Trimmed(v)
    BY <1>8 DEF Routing!Meant
  <2>2. Routing!Plain(Routing!Trimmed(v))
    BY <1>8 DEF Routing!Allowed
  <2> QED
    BY <1>4, <1>5, <2>1, <2>2
<1>9. CASE kind = ":name"
  <2>1. M = v
    BY <1>9 DEF Routing!Meant
  <2>2. Routing!PathSegment(v)
    BY <1>9 DEF Routing!Allowed
  <2> QED
    BY <1>1, <1>6, <2>1, <2>2
<1>10. CASE kind \in {":key", ":provider"}
  <2>1. M = v
    BY <1>10 DEF Routing!Meant
  <2>2. Routing!Plain(v)
    BY <1>10 DEF Routing!Allowed
  <2> QED
    BY <1>1, <1>4, <2>1, <2>2
<1>11. CASE kind \in {":uuid", ":claim"}
  <2>1. M = v
    BY <1>11 DEF Routing!Meant
  <2>2. Routing!Uuid(v)
    BY <1>11 DEF Routing!Allowed
  <2>3. Routing!Plain(v)
    BY <1>2, <2>2 DEF Routing!Uuid, Routing!Plain
  <2> QED
    BY <1>1, <1>4, <2>1, <2>3
<1>12. CASE kind = ":object"
  <2> DEFINE b == Routing!BucketRelative(v)
  <2>1. M = b
    BY <1>12 DEF Routing!Meant
  <2>2. ~Routing!UnsafeSegment(b)
    BY <1>12 DEF Routing!Allowed
  <2>3. b \in Seq(Pieces) /\ Len(b) >= 1
    <3>1. CASE v[1] = "" /\ Len(v) > 1
      <4>1. b = Tail(v)
        BY <3>1 DEF Routing!BucketRelative
      <4>2. Tail(v) \in Seq(Pieces) /\ Len(Tail(v)) = Len(v) - 1
        BY <1>1, HeadTailProperties
      <4>3. Len(Tail(v)) >= 1
        <5>1. Len(v) > 1 /\ Len(v) \in Nat /\ Len(Tail(v)) = Len(v) - 1
          BY <1>1, <3>1, <4>2, Zenon
        <5> QED
          BY <5>1
      <4> QED
        BY <4>1, <4>2, <4>3, Zenon
    <3>2. CASE ~(v[1] = "" /\ Len(v) > 1)
      BY <1>1, <3>2 DEF Routing!BucketRelative
    <3> QED
      BY <3>1, <3>2
  <2>4. \A i \in 1..Len(b) : b[i] \notin Routing!Dots \cup {""}
    <3> HIDE DEF b
    <3>1. DOMAIN b = 1..Len(b)
      BY <2>3
    <3> QED
      BY <2>2, <3>1 DEF Routing!UnsafeSegment
  <2>5. NoDots(b)
    <3> HIDE DEF b
    <3> QED
      BY <2>4 DEF NoDots, Routing!Dots
  <2> QED
    BY <1>12, <2>1, <2>3, <2>5 DEF Said
<1> QED
  BY <1>7, <1>8, <1>9, <1>10, <1>11, <1>12 DEF Routing!Kinds

\* Each of s is one element but the k-th, and none is empty.
Single(s, k) ==
  /\ k \in 1..Len(s)
  /\ \A i \in 1..Len(s) : Len(s[i]) >= 1 /\ (i # k => Len(s[i]) = 1)

\* The places of what is spliced, of L sequences where the k-th has m elements.
Places(z, s, k, L, m) ==
  /\ Len(z) = L + m - 1 /\ L + m - 1 \in Nat /\ L + m - 1 >= L
  /\ \A j \in 1..(L + m - 1) :
       /\ j < k => j \in 1..L /\ z[j] = s[j][1]
       /\ k <= j /\ j < k + m => j - k + 1 \in 1..m /\ z[j] = s[k][j - k + 1]
       /\ k + m <= j => j - m + 1 \in 1..L /\ j - m + 1 > k /\ z[j] = s[j - m + 1][1]

\* The element of each place of what is spliced.
LEMMA SplicedIs ==
  ASSUME NEW X, NEW s \in Seq(Seq(X)), NEW k, Single(s, k)
  PROVE  Spliced(s, k) \in Seq(X) /\ Places(Spliced(s, k), s, k, Len(s), Len(s[k]))
<1> DEFINE L == Len(s)
           m == Len(s[k])
           at(j) == IF j < k THEN s[j][1]
                    ELSE IF j < k + m THEN s[k][j - k + 1] ELSE s[j - m + 1][1]
           n == L + m - 1
           z == Spliced(s, k)
<1>1. /\ L \in Nat /\ m \in Nat /\ m >= 1 /\ k \in Nat /\ k >= 1 /\ k <= L
      /\ \A i \in 1..L : s[i] \in Seq(X) /\ Len(s[i]) >= 1
      /\ s[k] \in Seq(X) /\ Len(s[k]) = m
  BY DEF Single
<1>2. z = [j \in 1..n |-> at(j)]
  BY DEF Spliced
<1> HIDE DEF L, m, z
<1>3. n \in Nat /\ n >= L
  BY <1>1
<1>4. ASSUME NEW j \in 1..n
      PROVE  /\ j < k => j \in 1..L /\ at(j) = s[j][1]
             /\ k <= j /\ j < k + m => j - k + 1 \in 1..m /\ at(j) = s[k][j - k + 1]
             /\ k + m <= j => j - m + 1 \in 1..L /\ j - m + 1 > k /\ at(j) = s[j - m + 1][1]
  <2>1. n = L + m - 1 /\ j \in Nat /\ j >= 1 /\ j <= n
    BY <1>3
  <2>2. CASE j < k
    <3>1. at(j) = s[j][1] /\ j \in 1..L /\ ~(k <= j) /\ ~(k + m <= j)
      BY <1>1, <2>1, <2>2
    <3> QED
      BY <3>1
  <2>3. CASE k <= j /\ j < k + m
    <3>1. ~(j < k) /\ j - k + 1 \in 1..m /\ ~(k + m <= j)
      BY <1>1, <2>1, <2>3
    <3> QED
      BY <2>3, <3>1
  <2>4. CASE k + m <= j
    <3>1. ~(j < k) /\ ~(j < k + m) /\ j - m + 1 \in 1..L /\ j - m + 1 > k
      BY <1>1, <2>1, <2>4
    <3> QED
      BY <3>1
  <2> HIDE DEF at, n
  <2> QED
    BY <1>1, <2>1, <2>2, <2>3, <2>4
<1>5. ASSUME NEW i \in 1..L PROVE s[i][1] \in X
  <2>1. s[i] \in Seq(X) /\ Len(s[i]) \in Nat /\ Len(s[i]) >= 1
    BY <1>1
  <2> QED
    BY <2>1
<1>6. ASSUME NEW j \in 1..m PROVE s[k][j] \in X
  BY <1>1
<1>7. ASSUME NEW j \in 1..n PROVE at(j) \in X
  <2>1. CASE j < k
    BY <1>1, <1>4, <1>5, <2>1
  <2>2. CASE k <= j /\ j < k + m
    BY <1>1, <1>4, <1>6, <2>2
  <2>3. CASE k + m <= j
    BY <1>1, <1>4, <1>5, <2>3
  <2> HIDE DEF at
  <2> QED
    BY <1>1, <1>3, <2>1, <2>2, <2>3
<1> HIDE DEF at, n
<1>8. z \in Seq(X) /\ Len(z) = n
  <2>1. z \in [1..n -> X]
    BY <1>2, <1>7
  <2> QED
    BY <1>3, <2>1
<1>9. \A j \in 1..n : z[j] = at(j)
  BY <1>2
<1>10. ASSUME NEW j \in 1..n
       PROVE  /\ j < k => j \in 1..L /\ z[j] = s[j][1]
              /\ k <= j /\ j < k + m => j - k + 1 \in 1..m /\ z[j] = s[k][j - k + 1]
              /\ k + m <= j => j - m + 1 \in 1..L /\ j - m + 1 > k /\ z[j] = s[j - m + 1][1]
  BY <1>4, <1>9
<1> QED
  BY <1>3, <1>8, <1>10 DEF L, m, n, z, Places

\* Segments of one part each.
Segmented(v) == [j \in 1..Len(v) |-> <<v[j]>>]

LEMMA SegmentedIs ==
  ASSUME NEW X, NEW v \in Seq(X)
  PROVE  /\ Segmented(v) \in Seq(Seq(X)) /\ Len(Segmented(v)) = Len(v)
         /\ \A j \in 1..Len(v) : Segmented(v)[j] = <<v[j]>>
<1> DEFINE n == Len(v)
<1>1. n \in Nat /\ \A j \in 1..n : v[j] \in X
  OBVIOUS
<1> HIDE DEF n
<1>2. \A j \in 1..n : <<v[j]>> \in Seq(X)
  BY <1>1
<1>3. Segmented(v) \in [1..n -> Seq(X)]
  BY <1>2 DEF Segmented, n
<1> QED
  BY <1>1, <1>3 DEF Segmented, n

\* To splice what is segmented is to segment what is spliced.
LEMMA SegmentsSpliced ==
  ASSUME NEW X, NEW s \in Seq(Seq(X)), NEW k, Single(s, k),
         NEW u \in Seq(Seq(Seq(X))), Len(u) = Len(s),
         \A i \in 1..Len(s) : u[i] = Segmented(s[i])
  PROVE  Single(u, k) /\ Spliced(u, k) = Segmented(Spliced(s, k))
<1> DEFINE L == Len(s)
           m == Len(s[k])
           n == L + m - 1
           z == Spliced(s, k)
           y == Spliced(u, k)
<1>1. /\ L \in Nat /\ k \in 1..L /\ k \in Nat /\ m \in Nat /\ Len(u) = L
      /\ \A i \in 1..L : /\ s[i] \in Seq(X) /\ Len(s[i]) >= 1 /\ (i # k => Len(s[i]) = 1)
                         /\ u[i] = Segmented(s[i])
  BY DEF Single
<1>2. \A i \in 1..L : Len(u[i]) = Len(s[i]) /\ \A j \in 1..Len(s[i]) : u[i][j] = <<s[i][j]>>
  BY <1>1, SegmentedIs
<1>3. Single(u, k)
  BY <1>1, <1>2 DEF Single
<1>4. Len(u[k]) = m /\ Len(u) = L
  BY <1>1, <1>2
<1>5. z \in Seq(X) /\ Places(z, s, k, L, m)
  BY SplicedIs
<1>6. y \in Seq(Seq(X)) /\ Places(y, u, k, L, m)
  <2>1. y \in Seq(Seq(X)) /\ Places(y, u, k, Len(u), Len(u[k]))
    BY <1>3, SplicedIs
  <2> QED
    BY <1>4, <2>1
<1>7. ASSUME NEW i \in 1..L PROVE 1 \in 1..Len(s[i])
  <2>1. Len(s[i]) \in Nat /\ Len(s[i]) >= 1
    BY <1>1
  <2> QED
    BY <2>1
<1>8. k \in 1..L /\ Len(s[k]) = m
  BY <1>1
<1> HIDE DEF L, m, n, z, y
<1>9. ASSUME NEW j \in 1..n PROVE y[j] = <<z[j]>>
  <2>1. CASE j < k
    <3>1. j \in 1..L /\ z[j] = s[j][1] /\ y[j] = u[j][1]
      BY <1>5, <1>6, <2>1 DEF Places, n
    <3> QED
      BY <1>2, <1>7, <3>1
  <2>2. CASE k <= j /\ j < k + m
    <3>1. j - k + 1 \in 1..m /\ z[j] = s[k][j - k + 1] /\ y[j] = u[k][j - k + 1]
      BY <1>5, <1>6, <2>2 DEF Places, n
    <3> QED
      BY <1>2, <1>8, <3>1
  <2>3. CASE k + m <= j
    <3>1. j - m + 1 \in 1..L /\ z[j] = s[j - m + 1][1] /\ y[j] = u[j - m + 1][1]
      BY <1>5, <1>6, <2>3 DEF Places, n
    <3> QED
      BY <1>2, <1>7, <3>1
  <2>4. n \in Nat
    BY <1>5 DEF Places, n
  <2> QED
    BY <1>1, <2>1, <2>2, <2>3, <2>4
<1>10. /\ Segmented(z) \in Seq(Seq(X)) /\ Len(Segmented(z)) = n
       /\ \A j \in 1..n : Segmented(z)[j] = <<z[j]>>
  BY <1>5, SegmentedIs DEF Places, n
<1>11. y = Segmented(z)
  <2>1. Len(y) = n /\ n \in Nat
    BY <1>6 DEF Places, n
  <2>2. y \in Seq(Seq(X)) /\ Segmented(z) \in Seq(Seq(X)) /\ Len(y) = Len(Segmented(z))
    BY <1>6, <1>10, <2>1
  <2>3. \A j \in 1..Len(y) : y[j] = Segmented(z)[j]
    BY <1>9, <1>10, <2>1
  <2> QED
    BY <2>2, <2>3, SeqEqual, Zenon
<1> QED
  BY <1>3, <1>11 DEF y, z

\* What a path's i-th place is sent as: its word, or the name's parts.
Sent(path, names, i) ==
  IF path[i] \in Routing!Kinds THEN Routing!Meant(path[i], names[i]) ELSE <<path[i]>>

AllSent(path, names) == [i \in DOMAIN path |-> Sent(path, names, i)]

\* Names of the platform, allowed where they stand.
Granted(path, names) ==
  \A i \in Routing!Names(path) :
    names[i] \in Seq(Pieces) \ {<<>>} /\ Routing!Allowed(path[i], names[i])

\* But for its k-th place a path has none for an object.
Only(path, k) == k \in 1..Len(path) /\ \A i \in 1..Len(path) : i # k => path[i] # ":object"

\* Whatever was allowed is sent as parts that the URL parser leaves alone, and as one
\* part where it is no object's path.
LEMMA NamesSent ==
  ASSUME NEW X, NEW path \in Seq(X), NoDots(path), NEW names, Granted(path, names),
         NEW i \in 1..Len(path)
  PROVE  /\ Sent(path, names, i) \in Seq(Pieces \cup X)
         /\ Len(Sent(path, names, i)) >= 1 /\ NoDots(Sent(path, names, i))
         /\ path[i] # ":object" => Len(Sent(path, names, i)) = 1
<1>1. CASE path[i] \in Routing!Kinds
  <2>1. i \in Routing!Names(path)
    BY <1>1 DEF Routing!Names
  <2>2. names[i] \in Seq(Pieces) \ {<<>>} /\ Routing!Allowed(path[i], names[i])
    BY <2>1 DEF Granted
  <2>3. /\ Said(Sent(path, names, i))
        /\ path[i] # ":object" => Len(Sent(path, names, i)) = 1
    BY <1>1, <2>2, MeantIs, Zenon DEF Sent
  <2>4. \A v \in Seq(Pieces) : v \in Seq(Pieces \cup X)
    OBVIOUS
  <2> QED
    BY <2>3, <2>4, Zenon DEF Said
<1>2. CASE path[i] \notin Routing!Kinds
  <2>1. Sent(path, names, i) = <<path[i]>>
    BY <1>2, Zenon DEF Sent
  <2>2. path[i] \in X
    OBVIOUS
  <2>3. <<path[i]>> \in Seq(Pieces \cup X) /\ Len(<<path[i]>>) = 1 /\ 1 >= 1
    BY <2>2
  <2>4. NoDots(<<path[i]>>)
    <3> DEFINE p == path[i]
    <3>1. p \notin {"", ".", ".."}
      BY Zenon DEF NoDots
    <3> HIDE DEF p
    <3>2. \A j \in 1..Len(<<p>>) : <<p>>[j] = p
      OBVIOUS
    <3>3. NoDots(<<p>>)
      BY <3>1, <3>2, Zenon DEF NoDots
    <3> QED
      BY <3>3 DEF p
  <2> QED
    BY <2>1, <2>3, <2>4, Zenon
<1> QED
  BY <1>1, <1>2

\* A request's URL has a segment for each part of what is sent, and arrives as that.
LEMMA ArrivesAs ==
  ASSUME NEW X, NEW path \in Seq(X), NoDots(path), NEW names, Granted(path, names),
         NEW k, Only(path, k)
  PROVE  LET s == AllSent(path, names)
             at == Spliced(s, k)
         IN /\ s \in Seq(Seq(Pieces \cup X)) /\ Len(s) = Len(path) /\ Single(s, k)
            /\ NoDots(at)
            /\ Routing!FlattenSeq(Routing!Filled(path, names)) = at
            /\ Routing!Received(Routing!Filled(path, names)) = at
<1> DEFINE Y == Pieces \cup X
           L == Len(path)
           s == AllSent(path, names)
           at == Spliced(s, k)
           u == [i \in DOMAIN path |->
                   IF path[i] \in Routing!Kinds
                   THEN Routing!Segments(path[i], Routing!Meant(path[i], names[i]))
                   ELSE <<<<path[i]>>>>]
<1>1. L \in Nat /\ DOMAIN path = 1..L
  OBVIOUS
<1>2. ASSUME NEW i \in 1..L
      PROVE  /\ s[i] = Sent(path, names, i) /\ s[i] \in Seq(Y) /\ Len(s[i]) >= 1 /\ NoDots(s[i])
             /\ (i # k => Len(s[i]) = 1) /\ (path[i] # ":object" => Len(s[i]) = 1)
  <2>1. s[i] = Sent(path, names, i)
    BY <1>1, Zenon DEF AllSent
  <2>2. /\ Sent(path, names, i) \in Seq(Y) /\ Len(Sent(path, names, i)) >= 1
        /\ NoDots(Sent(path, names, i))
        /\ path[i] # ":object" => Len(Sent(path, names, i)) = 1
    BY NamesSent
  <2>3. i # k => path[i] # ":object"
    BY DEF Only
  <2> HIDE DEF s, Y
  <2> QED
    BY <2>1, <2>2, <2>3, Zenon
<1>3. s \in Seq(Seq(Y)) /\ Len(s) = L
  <2>1. s \in [1..L -> Seq(Y)]
    <3>1. s = [i \in 1..L |-> s[i]]
      BY <1>1, Zenon DEF AllSent
    <3> HIDE DEF s, L, Y
    <3> QED
      BY <1>2, <3>1, Zenon
  <2> HIDE DEF s, L, Y
  <2> QED
    BY <1>1, <2>1
<1>4. Single(s, k)
  <2> HIDE DEF s, L
  <2>1. k \in 1..L
    BY DEF Only, L
  <2> QED
    BY <1>2, <1>3, <2>1 DEF Single
<1>5. ASSUME NEW i \in 1..L PROVE u[i] = Segmented(s[i])
  <2>1. u[i] = IF path[i] \in Routing!Kinds
               THEN Routing!Segments(path[i], Routing!Meant(path[i], names[i]))
               ELSE <<<<path[i]>>>>
    BY <1>1, Zenon
  <2>2. \A v : v \in Seq(Y) /\ Len(v) = 1 => Segmented(v) = <<v>>
    <3> SUFFICES ASSUME NEW v, v \in Seq(Y), Len(v) = 1 PROVE Segmented(v) = <<v>>
      OBVIOUS
    <3>1. v = <<v[1]>>
      OBVIOUS
    <3>2. Segmented(v) = [j \in 1..1 |-> <<v[j]>>]
      BY DEF Segmented
    <3>3. [j \in 1..1 |-> <<v[j]>>] = <<<<v[1]>>>>
      OBVIOUS
    <3> QED
      BY <3>1, <3>2, <3>3, Zenon
  <2> HIDE DEF u, s, L, Y
  <2>3. /\ s[i] = Sent(path, names, i) /\ s[i] \in Seq(Y)
        /\ path[i] # ":object" => Len(s[i]) = 1
    BY <1>2, Zenon
  <2>4. CASE path[i] \notin Routing!Kinds
    <3>1. s[i] = <<path[i]>> /\ path[i] # ":object"
      BY <2>3, <2>4 DEF Sent, Routing!Kinds
    <3> QED
      BY <2>1, <2>2, <2>3, <2>4, <3>1, Zenon
  <2>5. CASE path[i] \in Routing!Kinds /\ path[i] # ":object"
    <3>1. u[i] = <<s[i]>>
      BY <2>1, <2>3, <2>5, Zenon DEF Sent, Routing!Segments
    <3> QED
      BY <2>2, <2>3, <2>5, <3>1, Zenon
  <2>6. CASE path[i] = ":object"
    <3>1. path[i] \in Routing!Kinds
      BY <2>6 DEF Routing!Kinds
    <3>2. u[i] = [j \in DOMAIN s[i] |-> <<s[i][j]>>]
      BY <2>1, <2>3, <2>6, <3>1, Zenon DEF Sent, Routing!Segments
    <3>3. DOMAIN s[i] = 1..Len(s[i])
      BY <2>3
    <3> QED
      BY <3>2, <3>3, Zenon DEF Segmented
  <2> QED
    BY <2>4, <2>5, <2>6
<1>6. u \in Seq(Seq(Seq(Y))) /\ Len(u) = L
  <2> HIDE DEF s, Y
  <2>1. \A i \in 1..L : Segmented(s[i]) \in Seq(Seq(Y))
    BY <1>2, SegmentedIs
  <2>2. u = [i \in 1..L |-> u[i]]
    BY <1>1, Zenon
  <2> HIDE DEF u, L
  <2>3. u \in [1..L -> Seq(Seq(Y))]
    BY <1>5, <2>1, <2>2, Zenon
  <2> QED
    BY <1>1, <2>3
<1>7. Routing!Filled(path, names) = Routing!FlattenSeq(u)
  BY Zenon DEF Routing!Filled
<1> HIDE DEF u
<1>8. Single(u, k) /\ Spliced(u, k) = Segmented(at)
  <2> HIDE DEF s, L, Y
  <2> QED
    BY <1>3, <1>4, <1>5, <1>6, SegmentsSpliced
<1>9. Routing!FlattenSeq(u) = Segmented(at)
  <2> HIDE DEF at
  <2>1. k \in 1..Len(u) /\ \A i \in 1..Len(u) : i # k => Len(u[i]) = 1
    BY <1>8 DEF Single
  <2> HIDE DEF Y
  <2> QED
    BY <1>6, <1>8, <2>1, FlattenIs
<1>10. at \in Seq(Y) /\ Places(at, s, k, L, Len(s[k]))
  <2> HIDE DEF s, L, Y
  <2> QED
    BY <1>3, <1>4, SplicedIs
<1>11. NoDots(at)
  <2> DEFINE m == Len(s[k])
  <2>1. k \in 1..L /\ s[k] \in Seq(Y) /\ m \in Nat
    BY <1>2 DEF Only
  <2> HIDE DEF s, at, L, Y
  <2>2. \A i \in 1..L : 1 \in 1..Len(s[i])
    <3> SUFFICES ASSUME NEW i \in 1..L PROVE 1 \in 1..Len(s[i])
      OBVIOUS
    <3>1. s[i] \in Seq(Y) /\ Len(s[i]) >= 1
      BY <1>2
    <3> QED
      BY <3>1
  <2>3. \A i \in 1..L : \A j \in 1..Len(s[i]) : s[i][j] \notin {"", ".", ".."}
    BY <1>2, Zenon DEF NoDots
  <2> DEFINE Good(x) == x \notin {"", ".", ".."}
  <2>4. \A i \in 1..L : \A j \in 1..Len(s[i]) : Good(s[i][j])
    BY <2>3
  <2> HIDE DEF Good, m
  <2>5. ASSUME NEW j \in 1..Len(at) PROVE Good(at[j])
    <3>1. j \in Nat /\ m \in Nat /\ k \in Nat /\ Len(at) = L + m - 1 /\ m = Len(s[k])
      BY <1>1, <1>10, <2>1 DEF Places, m
    <3>2. CASE j < k
      BY <1>10, <2>2, <2>4, <3>1, <3>2 DEF Places, m
    <3>3. CASE k <= j /\ j < k + m
      BY <1>10, <2>1, <2>4, <3>1, <3>3 DEF Places, m
    <3>4. CASE k + m <= j
      BY <1>10, <2>2, <2>4, <3>1, <3>4 DEF Places, m
    <3> QED
      BY <3>1, <3>2, <3>3, <3>4
  <2> QED
    BY <2>5, Zenon DEF NoDots, Good
<1>12. Len(at) \in Nat /\ Len(at) >= 1
  <2>1. k \in 1..L
    BY DEF Only
  <2> HIDE DEF at, L, s
  <2> QED
    BY <1>1, <1>10, <2>1 DEF Places
<1>13. Routing!FlattenSeq(Segmented(at)) = at /\ Routing!Received(Segmented(at)) = at
  <2> HIDE DEF at, Y
  <2> QED
    BY <1>10, <1>11, <1>12, ReceivedIs DEF Segmented
<1> QED
  <2> HIDE DEF at, Y, s
  <2>1. /\ s \in Seq(Seq(Y)) /\ Len(s) = Len(path) /\ Single(s, k)
        /\ NoDots(at)
        /\ Routing!FlattenSeq(Routing!Filled(path, names)) = at
        /\ Routing!Received(Routing!Filled(path, names)) = at
    BY <1>3, <1>4, <1>7, <1>9, <1>11, <1>13, Zenon
  <2> QED
    BY <2>1 DEF at, Y, s

\* The words and kinds a path is made of, of which none is an object's place.
Sign(x) == x \notin {"", ".", "..", "*", ":object"}
Signs(path) ==
  /\ path \in Seq({path[i] : i \in 1..Len(path)}) /\ Len(path) >= 1
  /\ \A i \in 1..Len(path) : Sign(path[i])

\* A path that begins with a word, though not with one of storage.
Begins(x) == x \notin Routing!Kinds \cup {"storage", "public"}
Ordinary(path) == Signs(path) /\ Begins(path[1])

LEMMA SignsOf ==
  ASSUME NEW X, NEW p \in Seq(X), Len(p) >= 1, \A i \in 1..Len(p) : Sign(p[i])
  PROVE  Signs(p)
<1> DEFINE n == Len(p)
           R == {p[i] : i \in 1..n}
<1>1. n \in Nat /\ p \in [1..n -> R]
  <2>1. n \in Nat /\ p = [i \in 1..n |-> p[i]]
    OBVIOUS
  <2>2. \A i \in 1..n : p[i] \in R
    OBVIOUS
  <2> HIDE DEF n, R
  <2> QED
    BY <2>1, <2>2
<1>2. p \in Seq(R)
  <2> HIDE DEF n, R
  <2> QED
    BY <1>1
<1> QED
  BY <1>2 DEF Signs

LEMMA PathOf1 ==
  ASSUME NEW a, Sign(a)
  PROVE  Signs(<<a>>)
<1> DEFINE p == <<a>>
<1>1. p \in Seq({a}) /\ Len(p) >= 1
  OBVIOUS
<1>2. \A i \in 1..Len(p) : Sign(p[i])
  OBVIOUS
<1> HIDE DEF p
<1>3. Signs(p)
  BY <1>1, <1>2, SignsOf
<1> QED
  BY <1>3 DEF p

LEMMA PathOf2 ==
  ASSUME NEW a, NEW b, Sign(a), Sign(b)
  PROVE  Signs(<<a, b>>) /\ <<a, b>>[1] = a
<1> DEFINE p == <<a, b>>
<1>1. p \in Seq({a, b}) /\ Len(p) >= 1 /\ p[1] = a
  OBVIOUS
<1>2. \A i \in 1..Len(p) : Sign(p[i])
  OBVIOUS
<1> HIDE DEF p
<1>3. Signs(p)
  BY <1>1, <1>2, SignsOf
<1> QED
  BY <1>1, <1>3 DEF p

LEMMA PathOf3 ==
  ASSUME NEW a, NEW b, NEW c, Sign(a), Sign(b), Sign(c)
  PROVE  Signs(<<a, b, c>>) /\ <<a, b, c>>[1] = a
<1> DEFINE p == <<a, b, c>>
<1>1. p \in Seq({a, b, c}) /\ Len(p) >= 1 /\ p[1] = a
  OBVIOUS
<1>2. \A i \in 1..Len(p) : Sign(p[i])
  OBVIOUS
<1> HIDE DEF p
<1>3. Signs(p)
  BY <1>1, <1>2, SignsOf
<1> QED
  BY <1>1, <1>3 DEF p

LEMMA PathOf4 ==
  ASSUME NEW a, NEW b, NEW c, NEW d, Sign(a), Sign(b), Sign(c), Sign(d)
  PROVE  Signs(<<a, b, c, d>>) /\ <<a, b, c, d>>[1] = a
<1> DEFINE p == <<a, b, c, d>>
<1>1. p \in Seq({a, b, c, d}) /\ Len(p) >= 1 /\ p[1] = a
  OBVIOUS
<1>2. \A i \in 1..Len(p) : Sign(p[i])
  OBVIOUS
<1> HIDE DEF p
<1>3. Signs(p)
  BY <1>1, <1>2, SignsOf
<1> QED
  BY <1>1, <1>3 DEF p

\* A path is continued by another.
LEMMA PathsJoined ==
  ASSUME NEW p, NEW q, Ordinary(p), Signs(q)
  PROVE  Ordinary(p \o q)
<1> DEFINE X == {p[i] : i \in 1..Len(p)} \cup {q[i] : i \in 1..Len(q)}
           r == p \o q
<1>1. /\ p \in Seq({p[i] : i \in 1..Len(p)}) /\ q \in Seq({q[i] : i \in 1..Len(q)})
      /\ Len(p) >= 1 /\ \A i \in 1..Len(p) : Sign(p[i])
      /\ Len(q) >= 1 /\ \A i \in 1..Len(q) : Sign(q[i])
      /\ Begins(p[1])
  BY DEF Ordinary, Signs
<1>2. p \in Seq(X) /\ q \in Seq(X)
  BY <1>1, Zenon, SeqMonotonic
<1> HIDE DEF X
<1>3. /\ r \in Seq(X) /\ Len(r) = Len(p) + Len(q) /\ Len(p) \in Nat /\ Len(q) \in Nat
      /\ \A i \in 1..Len(p) : r[i] = p[i]
      /\ \A i \in 1..Len(r) : i > Len(p) => i - Len(p) \in 1..Len(q) /\ r[i] = q[i - Len(p)]
  BY <1>2
<1> HIDE DEF r
<1>4. Len(r) >= 1 /\ r[1] = p[1]
  BY <1>1, <1>3
<1>5. ASSUME NEW i \in 1..Len(r) PROVE Sign(r[i])
  <2>1. i \in Nat /\ i >= 1
    OBVIOUS
  <2>2. CASE i <= Len(p)
    BY <1>1, <1>3, <2>1, <2>2
  <2>3. CASE i > Len(p)
    BY <1>1, <1>3, <2>3
  <2> QED
    BY <1>3, <2>1, <2>2, <2>3
<1>6. Signs(r)
  BY <1>3, <1>4, <1>5, SignsOf
<1> QED
  BY <1>1, <1>4, <1>6 DEF Ordinary, r

\* The signs of the routes that are not of storage.
LEMMA TheSigns ==
  /\ Sign("sandboxes") /\ Sign("presets") /\ Sign("projects") /\ Sign("deployments")
  /\ Sign("logs") /\ Sign("source") /\ Sign("sandbox-sessions") /\ Sign("sandbox-executions")
  /\ Sign("suspend") /\ Sign("resume") /\ Sign("exec") /\ Sign("files") /\ Sign("read")
  /\ Sign("write") /\ Sign("grants") /\ Sign("access") /\ Sign("durable-functions")
  /\ Sign("executions") /\ Sign("stop") /\ Sign("messages") /\ Sign("durable-approvals")
  /\ Sign("stats") /\ Sign("approve") /\ Sign("deny") /\ Sign("durable-messages")
  /\ Sign("waits") /\ Sign("sessions") /\ Sign("publish") /\ Sign("durable-callbacks")
  /\ Sign("databases") /\ Sign("query") /\ Sign("select") /\ Sign("insert") /\ Sign("update")
  /\ Sign("delete") /\ Sign("locks") /\ Sign("lease") /\ Sign("functions") /\ Sign("resolve")
  /\ Sign("invoke") /\ Sign("search") /\ Sign("activity") /\ Sign("auth") /\ Sign("signin")
  /\ Sign("signup") /\ Sign("signup-anonymous") /\ Sign("logout") /\ Sign("refresh")
  /\ Sign("confirm") /\ Sign("resend-confirmation") /\ Sign("forgot-password")
  /\ Sign("reset-password") /\ Sign("user") /\ Sign("convert-anonymous")
  /\ Sign("change-email") /\ Sign("confirm-email-change") /\ Sign("cancel-email-change")
  /\ Sign("oauth") /\ Sign("exchange") /\ Sign("authorize") /\ Sign("providers")
  /\ Sign("link") /\ Sign("unlink") /\ Sign("token") /\ Sign("refresh-token")
  /\ Sign("call-api") /\ Sign("hosted")
  /\ Sign(":uuid") /\ Sign(":durable") /\ Sign(":name") /\ Sign(":key") /\ Sign(":provider")
  /\ Sign(":label") /\ Sign(":claim")
  BY DEF Sign

\* What the paths begin with.
LEMMA TheBeginnings ==
  /\ Begins("sandboxes") /\ Begins("projects") /\ Begins("sandbox-sessions")
  /\ Begins("durable-functions") /\ Begins("databases") /\ Begins("locks")
  /\ Begins("functions") /\ Begins("auth") /\ Begins("durable-messages")
  /\ Begins("durable-callbacks") /\ Begins("durable-approvals")
  BY DEF Begins, Routing!Kinds

\* The path of a route is what it was made of.
LEMMA PathsOfRoutes ==
  ASSUME NEW p
  PROVE  /\ Routing!GET(p).path = p /\ Routing!POST(p).path = p /\ Routing!PUT(p).path = p
         /\ Routing!PATCH(p).path = p /\ Routing!DELETE(p).path = p
  BY DEF Routing!GET, Routing!POST, Routing!PUT, Routing!PATCH, Routing!DELETE

\* None of the routes of sandboxes is taken for one of storage.
LEMMA SandboxRoutesAre == \A r \in Routing!SandboxRoutes : Ordinary(r.path)
<1> DEFINE Presets == <<"sandboxes", "presets">>
           Sessions == <<"projects", ":uuid", "sandbox-sessions">>
           Runs == <<"projects", ":uuid", "sandbox-executions">>
<1>1. /\ Ordinary(Presets) /\ Ordinary(Sessions) /\ Ordinary(Runs)
      /\ Ordinary(Routing!Templates) /\ Ordinary(Routing!Session)
  BY PathOf2, PathOf3, TheSigns, TheBeginnings, Zenon
     DEF Routing!Templates, Routing!Session, Ordinary
<1>2. Ordinary(Routing!Template)
  BY <1>1, PathOf1, PathsJoined, TheSigns, Zenon DEF Routing!Template
<1>3. /\ Ordinary(Routing!Template \o <<"deployments">>)
      /\ Ordinary(Routing!Template \o <<"deployments", ":uuid">>)
      /\ Ordinary(Routing!Template \o <<"deployments", ":uuid", "logs">>)
      /\ Ordinary(Routing!Template \o <<"deployments", ":uuid", "source">>)
  BY <1>2, PathOf1, PathOf2, PathOf3, PathsJoined, TheSigns, Zenon
<1>4. /\ Ordinary(Routing!Session \o <<"suspend">>) /\ Ordinary(Routing!Session \o <<"resume">>)
      /\ Ordinary(Routing!Session \o <<"exec">>) /\ Ordinary(Routing!Session \o <<"access">>)
      /\ Ordinary(Routing!Session \o <<"files", "read">>)
      /\ Ordinary(Routing!Session \o <<"files", "write">>)
      /\ Ordinary(Routing!Session \o <<"grants", ":uuid">>)
  BY <1>1, PathOf1, PathOf2, PathsJoined, TheSigns, Zenon
<1> HIDE DEF Presets, Sessions, Runs
<1>5. /\ Ordinary(Routing!listSandboxPresets.path) /\ Ordinary(Routing!listSandboxes.path)
      /\ Ordinary(Routing!createSandbox.path) /\ Ordinary(Routing!getSandbox.path)
      /\ Ordinary(Routing!deleteSandbox.path) /\ Ordinary(Routing!listSandboxSessions.path)
      /\ Ordinary(Routing!createSandboxSession.path) /\ Ordinary(Routing!executeSandbox.path)
  BY <1>1, <1>2, PathsOfRoutes, Zenon
     DEF Routing!listSandboxPresets, Routing!listSandboxes, Routing!createSandbox,
         Routing!getSandbox, Routing!deleteSandbox, Routing!listSandboxSessions,
         Routing!createSandboxSession, Routing!executeSandbox, Presets, Sessions, Runs
<1>6. /\ Ordinary(Routing!deploySandbox.path) /\ Ordinary(Routing!listSandboxDeployments.path)
      /\ Ordinary(Routing!getSandboxDeployment.path)
      /\ Ordinary(Routing!getSandboxDeploymentLogs.path)
      /\ Ordinary(Routing!getSandboxDeploymentSource.path)
  BY <1>3, PathsOfRoutes, Zenon
     DEF Routing!deploySandbox, Routing!listSandboxDeployments, Routing!getSandboxDeployment,
         Routing!getSandboxDeploymentLogs, Routing!getSandboxDeploymentSource
<1>7. /\ Ordinary(Routing!getSandboxSession.path)
      /\ Ordinary(Routing!terminateSandboxSession.path)
      /\ Ordinary(Routing!suspendSandboxSession.path)
      /\ Ordinary(Routing!resumeSandboxSession.path)
      /\ Ordinary(Routing!executeSandboxSession.path)
      /\ Ordinary(Routing!readSandboxSessionFile.path)
      /\ Ordinary(Routing!writeSandboxSessionFile.path)
      /\ Ordinary(Routing!grantSandboxSession.path)
      /\ Ordinary(Routing!revokeSandboxSession.path)
      /\ Ordinary(Routing!createSandboxSessionAccess.path)
  BY <1>1, <1>4, PathsOfRoutes, Zenon
     DEF Routing!getSandboxSession, Routing!terminateSandboxSession,
         Routing!suspendSandboxSession, Routing!resumeSandboxSession,
         Routing!executeSandboxSession, Routing!readSandboxSessionFile,
         Routing!writeSandboxSessionFile, Routing!grantSandboxSession,
         Routing!revokeSandboxSession, Routing!createSandboxSessionAccess
<1> QED
  BY <1>5, <1>6, <1>7, Zenon DEF Routing!SandboxRoutes

\* The routes of durable functions, of their messages and of approvals.
LEMMA DurableRoutesAre == \A r \in Routing!DurableRoutes : Ordinary(r.path)
<1>1. Ordinary(Routing!Executions) /\ Ordinary(Routing!Project)
  BY PathOf2, PathOf3, TheSigns, TheBeginnings, Zenon
     DEF Routing!Executions, Routing!Project, Ordinary
<1>2. /\ Ordinary(Routing!Execution)
      /\ Ordinary(Routing!Project \o Routing!Executions)
      /\ Ordinary(Routing!Approvals)
  BY <1>1, PathOf1, PathsJoined, TheSigns, Zenon
     DEF Routing!Execution, Routing!Approvals, Ordinary
<1>3. /\ Ordinary(Routing!Project \o Routing!Execution)
      /\ Ordinary(Routing!Execution \o <<"stop">>)
      /\ Ordinary(Routing!Execution \o <<"messages">>)
      /\ Ordinary(Routing!Approvals \o <<"stats">>)
      /\ Ordinary(Routing!Approvals \o <<":durable">>)
      /\ Ordinary(Routing!Approvals \o <<":durable", "approve">>)
      /\ Ordinary(Routing!Approvals \o <<":durable", "deny">>)
  BY <1>1, <1>2, PathOf1, PathOf2, PathsJoined, TheSigns, Zenon DEF Ordinary
<1>4. /\ Ordinary(Routing!Project \o Routing!Execution \o <<"stop">>)
      /\ Ordinary(Routing!Project \o Routing!Execution \o <<"messages">>)
  BY <1>3, PathOf1, PathsJoined, TheSigns, Zenon
<1>5. /\ Ordinary(Routing!startDurableExecutionFromApplication.path)
      /\ Ordinary(Routing!getDurableExecutionFromApplication.path)
      /\ Ordinary(Routing!stopDurableExecutionFromApplication.path)
      /\ Ordinary(Routing!sendDurableMessageFromApplication.path)
      /\ Ordinary(Routing!listDurableMessagesFromApplication.path)
      /\ Ordinary(Routing!listDurableExecutions.path) /\ Ordinary(Routing!getDurableExecution.path)
  BY <1>1, <1>2, <1>3, PathsOfRoutes, Zenon
     DEF Routing!startDurableExecutionFromApplication,
         Routing!getDurableExecutionFromApplication,
         Routing!stopDurableExecutionFromApplication,
         Routing!sendDurableMessageFromApplication,
         Routing!listDurableMessagesFromApplication, Routing!listDurableExecutions,
         Routing!getDurableExecution
<1>6. /\ Ordinary(Routing!stopDurableExecution.path)
      /\ Ordinary(Routing!sendDurableMessage.path) /\ Ordinary(Routing!listDurableMessages.path)
      /\ Ordinary(Routing!listDurableApprovals.path)
      /\ Ordinary(Routing!getDurableApprovalStats.path)
      /\ Ordinary(Routing!getDurableApproval.path)
      /\ Ordinary(Routing!approveDurableApproval.path)
      /\ Ordinary(Routing!denyDurableApproval.path)
  BY <1>2, <1>3, <1>4, PathsOfRoutes, Zenon
     DEF Routing!stopDurableExecution, Routing!sendDurableMessage, Routing!listDurableMessages,
         Routing!listDurableApprovals, Routing!getDurableApprovalStats,
         Routing!getDurableApproval, Routing!approveDurableApproval,
         Routing!denyDurableApproval
<1>7. ASSUME NEW r \in Routing!platformPosts PROVE Ordinary(r.path)
  <2>1. PICK p \in {<<"durable-messages", "waits">>, <<"durable-messages", "sessions">>,
              <<"durable-messages", "publish">>, <<"durable-callbacks">>, <<"durable-approvals">>} :
          r = Routing!POST(p)
    BY Zenon DEF Routing!platformPosts
  <2>2. \A a : <<a>>[1] = a
    OBVIOUS
  <2>3. /\ Ordinary(<<"durable-messages", "waits">>)
        /\ Ordinary(<<"durable-messages", "sessions">>)
        /\ Ordinary(<<"durable-messages", "publish">>)
        /\ Ordinary(<<"durable-callbacks">>) /\ Ordinary(<<"durable-approvals">>)
    BY <2>2, PathOf1, PathOf2, TheSigns, TheBeginnings, Zenon DEF Ordinary
  <2>4. Ordinary(p)
    BY <2>3, Zenon
  <2> QED
    BY <2>1, <2>4, PathsOfRoutes, Zenon
<1> QED
  BY <1>5, <1>6, <1>7, Zenon DEF Routing!DurableRoutes

\* The routes of databases, locks, functions and logs.
LEMMA DataRoutesAre == \A r \in Routing!DataRoutes : Ordinary(r.path)
<1>1. /\ Ordinary(<<"databases", ":name", "query", "select">>)
      /\ Ordinary(<<"databases", ":name", "query", "insert">>)
      /\ Ordinary(<<"databases", ":name", "query", "update">>)
      /\ Ordinary(<<"databases", ":name", "query", "delete">>)
      /\ Ordinary(<<"projects", ":name", "logs", "search">>)
      /\ Ordinary(<<"projects", ":name", "logs", "activity">>)
  BY PathOf4, TheSigns, TheBeginnings, Zenon DEF Ordinary
<1>2. /\ Ordinary(<<"locks", ":key", "lease">>) /\ Ordinary(<<"locks", ":key">>)
      /\ Ordinary(<<"functions", "resolve">>) /\ Ordinary(<<"functions", ":label", "invoke">>)
  BY PathOf2, PathOf3, TheSigns, TheBeginnings, Zenon DEF Ordinary
<1>3. /\ Ordinary(Routing!queryDatabaseSelect.path) /\ Ordinary(Routing!acquireProjectLock.path)
      /\ Ordinary(Routing!releaseProjectLock.path) /\ Ordinary(Routing!renewLock.path)
      /\ Ordinary(Routing!getLock.path) /\ Ordinary(Routing!forceRelease.path)
      /\ Ordinary(Routing!resolveFunction.path) /\ Ordinary(Routing!invokeFunction.path)
  BY <1>1, <1>2, PathsOfRoutes, Zenon
     DEF Routing!queryDatabaseSelect, Routing!acquireProjectLock, Routing!releaseProjectLock,
         Routing!renewLock, Routing!getLock, Routing!forceRelease, Routing!resolveFunction,
         Routing!invokeFunction
<1>4. \A o \in {"insert", "update", "delete"} : Ordinary(Routing!queryDatabase(o).path)
  <2>1. /\ Ordinary(Routing!queryDatabase("insert").path)
        /\ Ordinary(Routing!queryDatabase("update").path)
        /\ Ordinary(Routing!queryDatabase("delete").path)
    BY <1>1, PathsOfRoutes, Zenon DEF Routing!queryDatabase
  <2> QED
    BY <2>1, Zenon
<1>5. \A e \in {"search", "activity"} : Ordinary(Routing!projectLogs(e).path)
  <2>1. /\ Ordinary(Routing!projectLogs("search").path)
        /\ Ordinary(Routing!projectLogs("activity").path)
    BY <1>1, PathsOfRoutes, Zenon DEF Routing!projectLogs
  <2> QED
    BY <2>1, Zenon
<1> QED
  BY <1>3, <1>4, <1>5, Zenon DEF Routing!DataRoutes

\* The routes of sign-in.
LEMMA AuthRoutesAre == \A r \in Routing!AuthRoutes : Ordinary(r.path)
<1>1. /\ Ordinary(<<"auth", "signin">>) /\ Ordinary(<<"auth", "signup">>)
      /\ Ordinary(<<"auth", "signup-anonymous">>) /\ Ordinary(<<"auth", "logout">>)
      /\ Ordinary(<<"auth", "refresh">>) /\ Ordinary(<<"auth", "confirm">>)
      /\ Ordinary(<<"auth", "resend-confirmation">>) /\ Ordinary(<<"auth", "forgot-password">>)
      /\ Ordinary(<<"auth", "reset-password">>) /\ Ordinary(<<"auth", "user">>)
  BY PathOf2, TheSigns, TheBeginnings, Zenon DEF Ordinary
<1>2. /\ Ordinary(<<"auth", "user", "convert-anonymous">>)
      /\ Ordinary(<<"auth", "user", "change-email">>)
      /\ Ordinary(<<"auth", "user", "confirm-email-change">>)
      /\ Ordinary(<<"auth", "user", "cancel-email-change">>)
      /\ Ordinary(<<"auth", "oauth", "exchange">>) /\ Ordinary(<<"auth", "user", "sessions">>)
      /\ Ordinary(<<"auth", "oauth", "providers">>)
  BY PathOf3, TheSigns, TheBeginnings, Zenon DEF Ordinary
<1>3. /\ Ordinary(<<"auth", "user", "sessions", ":name">>)
      /\ Ordinary(<<"auth", "user", "sessions", ":claim">>)
      /\ Ordinary(<<"auth", "oauth", ":provider", "authorize">>)
      /\ Ordinary(<<"auth", "oauth", ":provider", "link">>)
      /\ Ordinary(<<"auth", "oauth", ":provider", "unlink">>)
      /\ Ordinary(<<"auth", "oauth", ":provider", "token">>)
      /\ Ordinary(<<"auth", "oauth", ":provider", "refresh-token">>)
      /\ Ordinary(<<"auth", "oauth", ":provider", "call-api">>)
      /\ Ordinary(<<"projects", ":name", "auth", "hosted">>)
  BY PathOf4, TheSigns, TheBeginnings, Zenon DEF Ordinary
<1>4. /\ Ordinary(Routing!authSignin.path) /\ Ordinary(Routing!signUp.path)
      /\ Ordinary(Routing!signInAnonymously.path) /\ Ordinary(Routing!signOut.path)
      /\ Ordinary(Routing!refreshSession.path) /\ Ordinary(Routing!user.path)
      /\ Ordinary(Routing!updateUser.path)
  BY <1>1, PathsOfRoutes, Zenon
     DEF Routing!authSignin, Routing!signUp, Routing!signInAnonymously, Routing!signOut,
         Routing!refreshSession, Routing!user, Routing!updateUser
<1>5. /\ Ordinary(Routing!convertAnonymous.path) /\ Ordinary(Routing!requestEmailChange.path)
      /\ Ordinary(Routing!confirmEmailChange.path) /\ Ordinary(Routing!cancelEmailChange.path)
      /\ Ordinary(Routing!oauthExchange.path) /\ Ordinary(Routing!userSessions.path)
      /\ Ordinary(Routing!deleteAllOtherSessions.path) /\ Ordinary(Routing!linkedProviders.path)
  BY <1>2, PathsOfRoutes, Zenon
     DEF Routing!convertAnonymous, Routing!requestEmailChange, Routing!confirmEmailChange,
         Routing!cancelEmailChange, Routing!oauthExchange, Routing!userSessions,
         Routing!deleteAllOtherSessions, Routing!linkedProviders
<1>6. /\ Ordinary(Routing!deleteSession.path) /\ Ordinary(Routing!revokeAccessSession.path)
      /\ Ordinary(Routing!authorize.path) /\ Ordinary(Routing!linkProvider.path)
      /\ Ordinary(Routing!unlinkProvider.path) /\ Ordinary(Routing!providerToken.path)
      /\ Ordinary(Routing!refreshProviderToken.path) /\ Ordinary(Routing!callProvider.path)
      /\ Ordinary(Routing!hostedAuth.path)
  BY <1>3, PathsOfRoutes, Zenon
     DEF Routing!deleteSession, Routing!revokeAccessSession, Routing!authorize,
         Routing!linkProvider, Routing!unlinkProvider, Routing!providerToken,
         Routing!refreshProviderToken, Routing!callProvider, Routing!hostedAuth
<1>7. ASSUME NEW r \in Routing!messages PROVE Ordinary(r.path)
  <2>1. PICK word \in {"confirm", "resend-confirmation", "forgot-password", "reset-password"} :
          r = Routing!POST(<<"auth", word>>)
    BY Zenon DEF Routing!messages
  <2>2. Ordinary(<<"auth", word>>)
    BY <1>1, Zenon
  <2> QED
    BY <2>1, <2>2, PathsOfRoutes, Zenon
<1> QED
  BY <1>4, <1>5, <1>6, <1>7, Zenon DEF Routing!AuthRoutes

\* A route begins with a word, and only storage's have objects.
LEMMA RoutesAre ==
  /\ \A r \in Routing!Routes \ Routing!StorageRoutes : Ordinary(r.path)
  /\ \A r \in Routing!Routes : r \in Routing!StorageRoutes \/ Ordinary(r.path)
  BY SandboxRoutesAre, DurableRoutesAre, DataRoutesAre, AuthRoutesAre, Zenon DEF Routing!Routes

\* What is true of every route's path.
Routed(path) ==
  /\ path \in Seq({path[i] : i \in 1..Len(path)}) /\ Len(path) >= 1
  /\ \A i \in 1..Len(path) : path[i] \notin {"", ".", "..", "*"}
  /\ path[1] \notin Routing!Kinds

Plainly(x) == x \notin {"", ".", "..", "*"}

LEMMA RoutedIs ==
  ASSUME NEW X, NEW p \in Seq(X), Len(p) >= 1, \A i \in 1..Len(p) : Plainly(p[i]),
         p[1] \notin Routing!Kinds
  PROVE  Routed(p)
<1> DEFINE n == Len(p)
           R == {p[i] : i \in 1..n}
<1>1. n \in Nat /\ p \in [1..n -> R]
  <2>1. n \in Nat /\ p = [i \in 1..n |-> p[i]]
    OBVIOUS
  <2>2. \A i \in 1..n : p[i] \in R
    OBVIOUS
  <2> HIDE DEF n, R
  <2> QED
    BY <2>1, <2>2
<1>2. p \in Seq(R)
  <2> HIDE DEF n, R
  <2> QED
    BY <1>1
<1> QED
  BY <1>2, Zenon DEF Routed, Plainly

LEMMA OrdinaryIsRouted ==
  ASSUME NEW path, Ordinary(path)
  PROVE  Routed(path) /\ Only(path, 1) /\ \A i \in 1..Len(path) : path[i] # ":object"
<1>1. \A x : Sign(x) => Plainly(x) /\ x # ":object"
  BY DEF Sign, Plainly
<1>2. \A x : Begins(x) => x \notin Routing!Kinds
  BY DEF Begins
<1>3. /\ path \in Seq({path[i] : i \in 1..Len(path)}) /\ Len(path) >= 1
      /\ \A i \in 1..Len(path) : Plainly(path[i]) /\ path[i] # ":object"
      /\ path[1] \notin Routing!Kinds
  BY <1>1, <1>2, Zenon DEF Ordinary, Signs
<1>4. 1 \in 1..Len(path)
  <2> DEFINE X == {path[i] : i \in 1..Len(path)}
  <2>1. path \in Seq(X) /\ Len(path) >= 1
    BY <1>3
  <2> HIDE DEF X
  <2> QED
    BY <2>1
<1> QED
  BY <1>3, <1>4, Zenon DEF Routed, Plainly, Only

\* The paths of storage, with their places.
LEMMA StoragePathsAre ==
  /\ Routing!uploadStorageObject.path = <<"storage", ":name", ":object">>
  /\ Routing!downloadStorageObject.path = <<"storage", ":name", ":object">>
  /\ Routing!deletePath.path = <<"storage", ":name", ":object">>
  /\ Routing!uploadPart.path = <<"storage", ":name", ":object">>
  /\ Routing!listStorage.path = <<"storage", ":name">>
  /\ Routing!updateVisibility.path = <<"storage", ":name", ":object", "visibility">>
  /\ Routing!storagePublicUrl.path = <<"public", ":name", ":name", ":object">>
  /\ \A o : Routing!transferStorage(o).path = <<"storage", ":name", o>>
  BY PathsOfRoutes, Zenon
     DEF Routing!uploadStorageObject, Routing!downloadStorageObject, Routing!deletePath,
         Routing!uploadPart, Routing!listStorage, Routing!updateVisibility,
         Routing!storagePublicUrl, Routing!transferStorage

\* The routes of storage: words and names of which at most one is an object's path.
LEMMA StorageRoutesAre ==
  ASSUME NEW r \in Routing!StorageRoutes
  PROVE  /\ Routed(r.path) /\ \E k \in 1..Len(r.path) : Only(r.path, k)
         /\ r.path[1] \in {"storage", "public"}
<1> DEFINE Good(p) == /\ Routed(p) /\ \E k \in 1..Len(p) : Only(p, k)
                      /\ p[1] \in {"storage", "public"}
<1>1. ASSUME NEW a, NEW b, NEW c, a \in {"storage", "public"}, a \notin Routing!Kinds,
             Plainly(a), Plainly(b), Plainly(c), a # ":object", b # ":object"
      PROVE  Good(<<a, b, c>>)
  <2> DEFINE p == <<a, b, c>>
  <2>1. /\ p \in Seq({a, b, c}) /\ Len(p) = 3 /\ p[1] = a
        /\ \A i \in 1..Len(p) : Plainly(p[i]) /\ (i # 3 => p[i] # ":object")
    BY <1>1
  <2>2. 3 \in 1..3 /\ 3 >= 1
    OBVIOUS
  <2> HIDE DEF p
  <2>3. Routed(p)
    <3>1. Len(p) >= 1
      BY <2>1, <2>2, Zenon
    <3> QED
      BY <1>1, <2>1, <3>1, RoutedIs, Zenon
  <2>4. Good(p)
    BY <1>1, <2>1, <2>2, <2>3, Zenon DEF Only
  <2> QED
    BY <2>4 DEF p
<1>2. ASSUME NEW a, NEW b, NEW c, NEW d, NEW k \in {3, 4},
             a \in {"storage", "public"}, a \notin Routing!Kinds,
             Plainly(a), Plainly(b), Plainly(c), Plainly(d), a # ":object", b # ":object",
             (k = 3 /\ d # ":object") \/ (k = 4 /\ c # ":object")
      PROVE  Good(<<a, b, c, d>>)
  <2> DEFINE p == <<a, b, c, d>>
  <2>1. /\ p \in Seq({a, b, c, d}) /\ Len(p) = 4 /\ p[1] = a
        /\ \A i \in 1..Len(p) : Plainly(p[i]) /\ (i # k => p[i] # ":object")
    BY <1>2
  <2>2. k \in 1..4 /\ 4 >= 1
    BY <1>2
  <2> HIDE DEF p
  <2>3. Routed(p)
    <3>1. Len(p) >= 1
      BY <2>1, <2>2, Zenon
    <3> QED
      BY <1>2, <2>1, <3>1, RoutedIs, Zenon
  <2>4. Good(p)
    BY <1>2, <2>1, <2>2, <2>3, Zenon DEF Only
  <2> QED
    BY <2>4 DEF p
<1>3. ASSUME NEW a, NEW b, a \in {"storage", "public"}, a \notin Routing!Kinds,
             Plainly(a), Plainly(b), a # ":object", b # ":object"
      PROVE  Good(<<a, b>>)
  <2> DEFINE p == <<a, b>>
  <2>1. /\ p \in Seq({a, b}) /\ Len(p) = 2 /\ p[1] = a
        /\ \A i \in 1..Len(p) : Plainly(p[i]) /\ p[i] # ":object"
    BY <1>3
  <2>2. 1 \in 1..2 /\ 2 >= 1
    OBVIOUS
  <2> HIDE DEF p
  <2>3. Routed(p)
    <3>1. Len(p) >= 1
      BY <2>1, <2>2, Zenon
    <3> QED
      BY <1>3, <2>1, <3>1, RoutedIs, Zenon
  <2>4. Good(p)
    BY <1>3, <2>1, <2>2, <2>3, Zenon DEF Only
  <2> QED
    BY <2>4 DEF p
<1>4. /\ Plainly("storage") /\ Plainly("public") /\ Plainly(":name") /\ Plainly(":object")
      /\ Plainly("visibility") /\ Plainly("move") /\ Plainly("copy")
      /\ "storage" \notin Routing!Kinds /\ "public" \notin Routing!Kinds
      /\ "storage" # ":object" /\ "public" # ":object" /\ ":name" # ":object"
      /\ "visibility" # ":object"
  BY DEF Plainly, Routing!Kinds
<1> HIDE DEF Good
<1>5. /\ Good(<<"storage", ":name", ":object">>)
      /\ Good(<<"storage", ":name", "move">>) /\ Good(<<"storage", ":name", "copy">>)
      /\ Good(<<"storage", ":name">>)
  <2>1. Good(<<"storage", ":name", ":object">>)
    BY <1>1, <1>4
  <2>2. Good(<<"storage", ":name", "move">>)
    BY <1>1, <1>4
  <2>3. Good(<<"storage", ":name", "copy">>)
    BY <1>1, <1>4
  <2>4. Good(<<"storage", ":name">>)
    BY <1>3, <1>4
  <2> QED
    BY <2>1, <2>2, <2>3, <2>4
<1>6. Good(<<"storage", ":name", ":object", "visibility">>)
  <2>1. 3 \in {3, 4}
    OBVIOUS
  <2> QED
    BY <1>2, <1>4, <2>1, Zenon
<1>7. Good(<<"public", ":name", ":name", ":object">>)
  <2>1. 4 \in {3, 4}
    OBVIOUS
  <2> QED
    BY <1>2, <1>4, <2>1, Zenon
<1>8. \A o \in {"move", "copy"} : Good(Routing!transferStorage(o).path)
  <2>1. /\ Good(Routing!transferStorage("move").path) /\ Good(Routing!transferStorage("copy").path)
    BY <1>5, StoragePathsAre, Zenon
  <2> QED
    BY <2>1, Zenon
<1>9. Good(r.path)
  BY <1>5, <1>6, <1>7, <1>8, StoragePathsAre, Zenon DEF Routing!StorageRoutes
<1> QED
  BY <1>9 DEF Good

\* Every route has a path of that kind.
LEMMA AllRouted ==
  ASSUME NEW r \in Routing!Routes
  PROVE  Routed(r.path) /\ \E k \in 1..Len(r.path) : Only(r.path, k)
<1>1. CASE r \in Routing!StorageRoutes
  BY <1>1, StorageRoutesAre, Zenon
<1>2. CASE Ordinary(r.path)
  BY <1>2, OrdinaryIsRouted, Zenon DEF Only
<1> QED
  BY <1>1, <1>2, RoutesAre, Zenon

\* A path of length L with m objects' parts at its k-th place.
SpreadAs(z, path, k, L, m) ==
  /\ Len(z) = L + m - 1
  /\ \A j \in 1..(L + m - 1) :
       /\ j < k => j \in 1..L /\ z[j] = path[j]
       /\ k <= j /\ j < k + m => z[j] = ":object"
       /\ k + m <= j => j - m + 1 \in 1..L /\ j - m + 1 > k /\ z[j] = path[j - m + 1]

ObjectAt(path, k) == path[k] = ":object"

\* A path of an object, for as many parts as arrive.
LEMMA SpreadIs ==
  ASSUME NEW X, NEW path \in Seq(X), NEW k, Only(path, k), ObjectAt(path, k),
         NEW m \in Nat, m >= 1
  PROVE  LET z == Routing!Spread(path, Len(path) + m - 1)
         IN z \in Seq(X) /\ SpreadAs(z, path, k, Len(path), m)
<1> DEFINE L == Len(path)
           n == L + m - 1
           o == {i \in DOMAIN path : path[i] = ":object"}
           a == SubSeq(path, 1, k - 1)
           b == [i \in 1..(n - L + 1) |-> ":object"]
           c == SubSeq(path, k + 1, L)
           z == a \o b \o c
<1>1. /\ L \in Nat /\ DOMAIN path = 1..L /\ k \in 1..L /\ k \in Nat /\ k >= 1 /\ k <= L
      /\ path[k] \in X
  BY DEF Only
<1>2. o = {k}
  BY <1>1 DEF Only, ObjectAt
<1>3. ~(n < L) /\ n - L + 1 = m
  BY <1>1
<1>4. (CHOOSE i \in o : TRUE) = k
  BY <1>2
<1>5. Routing!Spread(path, n) = z
  <2>1. Routing!Spread(path, n) =
          IF o = {} \/ n < L THEN path
          ELSE SubSeq(path, 1, (CHOOSE i \in o : TRUE) - 1) \o b
               \o SubSeq(path, (CHOOSE i \in o : TRUE) + 1, L)
    BY Zenon DEF Routing!Spread
  <2>2. o # {}
    BY <1>2
  <2> HIDE DEF o, b, n, L
  <2> QED
    BY <1>3, <1>4, <2>1, <2>2, Zenon
<1>6. /\ a \in Seq(X) /\ Len(a) = k - 1 /\ \A i \in 1..(k - 1) : a[i] = path[i]
  BY <1>1, SubSeqProperties
<1>7. /\ c \in Seq(X) /\ Len(c) = L - k /\ \A i \in 1..(L - k) : c[i] = path[k + i]
  <2>1. /\ k + 1 \in Int /\ L \in Int /\ \A i \in (k + 1)..L : path[i] \in X
    BY <1>1
  <2>2. /\ c \in Seq(X) /\ Len(c) = IF k + 1 <= L THEN L - (k + 1) + 1 ELSE 0
        /\ \A i \in 1..(L - (k + 1) + 1) : c[i] = path[(k + 1) + i - 1]
    BY <2>1, SubSeqProperties
  <2> HIDE DEF a, b, c, o, z, n, L
  <2>3. L - (k + 1) + 1 = L - k
    BY <1>1
  <2>4. k + 1 > L => 0 = L - k
    BY <1>1
  <2>5. \A i \in 1..(L - k) : (k + 1) + i - 1 = k + i
    BY <1>1
  <2>6. Len(c) = L - k
    BY <1>1, <2>2, <2>3, <2>4
  <2> QED
    BY <2>2, <2>3, <2>5, <2>6
<1>8. b \in Seq(X) /\ Len(b) = m /\ \A i \in 1..m : b[i] = ":object"
  <2>1. b = [i \in 1..m |-> ":object"]
    BY <1>3, Zenon
  <2> HIDE DEF b
  <2>2. b \in [1..m -> X]
    BY <1>1, <2>1 DEF ObjectAt
  <2> QED
    BY <2>1, <2>2
<1> DEFINE ab == a \o b
<1> HIDE DEF a, b, c, o
<1>9. /\ ab \in Seq(X) /\ Len(ab) = k - 1 + m
      /\ \A j \in 1..(k - 1 + m) : ab[j] = IF j < k THEN path[j] ELSE ":object"
  <2>1. ab \in Seq(X) /\ Len(ab) = k - 1 + m
    BY <1>1, <1>6, <1>8
  <2>2. ASSUME NEW j \in 1..(k - 1 + m) PROVE ab[j] = IF j < k THEN path[j] ELSE ":object"
    <3>1. CASE j < k
      BY <1>1, <1>6, <1>8, <3>1
    <3>2. CASE ~(j < k)
      <4>1. j - (k - 1) \in 1..m /\ j > k - 1
        BY <1>1, <3>2
      <4>2. ab[j] = b[j - (k - 1)]
        BY <1>1, <1>6, <1>8, <4>1
      <4> QED
        BY <1>8, <3>2, <4>1, <4>2
    <3> QED
      BY <3>1, <3>2
  <2> QED
    BY <2>1, <2>2
<1>10. z = ab \o c
  OBVIOUS
<1> HIDE DEF ab, z
<1>11. z \in Seq(X) /\ Len(z) = n
  <2>1. z \in Seq(X) /\ Len(z) = (k - 1 + m) + (L - k)
    <3> HIDE DEF L, n
    <3>1. ab \in Seq(X) /\ Len(ab) = k - 1 + m
      BY <1>9, Zenon
    <3>2. z \in Seq(X) /\ Len(z) = Len(ab) + Len(c)
      <4>1. c \in Seq(X)
        BY <1>7, Zenon
      <4> QED
        BY <1>10, <3>1, <4>1, ConcatProperties
    <3> QED
      BY <1>7, <3>1, <3>2
  <2> QED
    BY <1>1, <2>1
<1>12. ASSUME NEW j \in 1..n
       PROVE  /\ j < k => j \in 1..L /\ z[j] = path[j]
              /\ k <= j /\ j < k + m => z[j] = ":object"
              /\ k + m <= j => j - m + 1 \in 1..L /\ j - m + 1 > k /\ z[j] = path[j - m + 1]
  <2>1. CASE j < k + m
    <3>1. j \in 1..(k - 1 + m) /\ (j < k => j \in 1..L) /\ ~(k + m <= j)
      BY <1>1, <2>1
    <3>2. z[j] = ab[j]
      BY <1>1, <1>7, <1>9, <1>10, <3>1
    <3>3. z[j] = IF j < k THEN path[j] ELSE ":object"
      BY <1>9, <3>1, <3>2
    <3> QED
      BY <1>1, <3>1, <3>3
  <2>2. CASE ~(j < k + m)
    <3>1. /\ j - (k - 1 + m) \in 1..(L - k) /\ j > k - 1 + m
          /\ j - m + 1 \in 1..L /\ j - m + 1 > k /\ ~(j < k)
          /\ k + (j - (k - 1 + m)) = j - m + 1
      BY <1>1, <2>2
    <3>2. z[j] = c[j - (k - 1 + m)]
      BY <1>1, <1>7, <1>9, <1>10, <1>11, <3>1
    <3>3. z[j] = path[j - m + 1]
      BY <1>7, <3>1, <3>2
    <3> QED
      BY <2>2, <3>1, <3>3
  <2> QED
    BY <2>1, <2>2
<1> QED
  BY <1>5, <1>11, <1>12 DEF SpreadAs

\* What arrives, of a route's path with its names: m parts for the k-th place.
Arrival(path, names, k, m, at) ==
  /\ Len(path) \in Nat /\ k \in 1..Len(path) /\ m \in Nat /\ m >= 1
  /\ Len(at) = Len(path) + m - 1
  /\ Places(at, AllSent(path, names), k, Len(path), m)
  /\ m = Len(Sent(path, names, k))

\* A request arrives with the parts it was sent with, each in its place.
LEMMA ArrivalIs ==
  ASSUME NEW path, Routed(path), NEW names, Granted(path, names), NEW k, Only(path, k)
  PROVE  LET at == Routing!Received(Routing!Filled(path, names))
             m == Len(Sent(path, names, k))
         IN /\ Routing!FlattenSeq(Routing!Filled(path, names)) = at
            /\ Arrival(path, names, k, m, at)
            /\ path[k] # ":object" => m = 1
<1> DEFINE X == {path[i] : i \in 1..Len(path)}
           Y == Pieces \cup X
           s == AllSent(path, names)
           at == Spliced(s, k)
           m == Len(Sent(path, names, k))
<1>1. path \in Seq(X) /\ NoDots(path)
  <2>1. \A x : x \notin {"", ".", "..", "*"} => x \notin {"", ".", ".."}
    OBVIOUS
  <2> QED
    BY <2>1, Zenon DEF Routed, NoDots
<1> HIDE DEF X
<1>2. /\ s \in Seq(Seq(Y)) /\ Len(s) = Len(path) /\ Single(s, k)
      /\ Routing!FlattenSeq(Routing!Filled(path, names)) = at
      /\ Routing!Received(Routing!Filled(path, names)) = at
  BY <1>1, ArrivesAs
<1>3. k \in 1..Len(path) /\ Len(path) \in Nat /\ DOMAIN path = 1..Len(path)
  BY <1>1 DEF Only
<1>4. s[k] = Sent(path, names, k)
  BY <1>3, Zenon DEF AllSent
<1>5. m \in Nat /\ m >= 1 /\ (path[k] # ":object" => m = 1)
  <2>1. Sent(path, names, k) \in Seq(Y) /\ m >= 1 /\ (path[k] # ":object" => m = 1)
    BY <1>1, <1>3, NamesSent
  <2>2. \A v \in Seq(Y) : Len(v) \in Nat
    OBVIOUS
  <2> QED
    BY <2>1, <2>2, Zenon
<1> HIDE DEF Y
<1>6. Places(at, s, k, Len(path), m)
  <2>1. Places(at, s, k, Len(s), Len(s[k]))
    <3> HIDE DEF s
    <3> QED
      BY <1>2, SplicedIs, Zenon
  <2> QED
    BY <1>2, <1>4, <2>1, Zenon
<1>7. Len(at) = Len(path) + m - 1
  BY <1>6, Zenon DEF Places
<1> QED
  <2>1. Arrival(path, names, k, m, at)
    BY <1>3, <1>5, <1>6, <1>7, Zenon DEF Arrival
  <2> QED
    BY <1>2, <1>5, <2>1, Zenon

\* Where the places of a path arrive.
LEMMA PlacesArrive ==
  ASSUME NEW path, DOMAIN path = 1..Len(path), NEW names, NEW k, NEW m, NEW at,
         Arrival(path, names, k, m, at)
  PROVE  \A j \in 1..(Len(path) + m - 1) :
           /\ j < k => j \in 1..Len(path) /\ at[j] = Sent(path, names, j)[1]
           /\ j = k => at[j] = Sent(path, names, j)[1]
           /\ k + m <= j => /\ j - m + 1 \in 1..Len(path) /\ j - m + 1 # k
                            /\ at[j] = Sent(path, names, j - m + 1)[1]
<1> DEFINE s == AllSent(path, names)
           L == Len(path)
<1>1. \A i \in 1..L : s[i] = Sent(path, names, i)
  BY Zenon DEF AllSent
<1>2. /\ L \in Nat /\ k \in 1..L /\ m \in Nat /\ m >= 1 /\ Places(at, s, k, L, m)
  BY Zenon DEF Arrival
<1> HIDE DEF s, L
<1>3. ASSUME NEW j \in 1..(L + m - 1)
      PROVE  /\ j < k => j \in 1..L /\ at[j] = Sent(path, names, j)[1]
             /\ j = k => at[j] = Sent(path, names, j)[1]
             /\ k + m <= j => /\ j - m + 1 \in 1..L /\ j - m + 1 # k
                              /\ at[j] = Sent(path, names, j - m + 1)[1]
  <2>1. /\ j < k => j \in 1..L /\ at[j] = s[j][1]
        /\ k <= j /\ j < k + m => j - k + 1 \in 1..m /\ at[j] = s[k][j - k + 1]
        /\ k + m <= j => j - m + 1 \in 1..L /\ j - m + 1 > k /\ at[j] = s[j - m + 1][1]
    BY <1>2 DEF Places
  <2>2. k \in Nat /\ k <= k /\ k < k + m /\ k - k + 1 = 1
    BY <1>2
  <2>3. j - m + 1 > k => j - m + 1 # k
    BY <1>2
  <2>4. j = k => at[j] = s[k][1]
    BY <2>1, <2>2, Zenon
  <2> QED
    BY <1>1, <1>2, <2>1, <2>3, <2>4, Zenon
<1> QED
  BY <1>3 DEF L

\* A request is one its own route may be taken for.
LEMMA OwnFits ==
  ASSUME NEW path, Routed(path), NEW names, NEW k, Only(path, k), NEW m, NEW at,
         Arrival(path, names, k, m, at), path[k] # ":object" => m = 1
  PROVE  /\ Len(path) <= Len(at) /\ path[1] = at[1]
         /\ Routing!Fits(Routing!Spread(path, Len(at)), at)
         /\ path[k] # ":object" => Routing!Spread(path, Len(at)) = path
<1> DEFINE X == {path[i] : i \in 1..Len(path)}
           L == Len(path)
           n == L + m - 1
<1>1. path \in Seq(X) /\ path[1] \notin Routing!Kinds
  BY Zenon DEF Routed
<1> HIDE DEF X
<1>2. L \in Nat /\ DOMAIN path = 1..L
  BY <1>1
<1>3. k \in 1..L /\ m \in Nat /\ m >= 1 /\ Len(at) = n
  BY Zenon DEF Arrival
<1>4. \A j \in 1..n :
        /\ j < k => j \in 1..L /\ at[j] = Sent(path, names, j)[1]
        /\ j = k => at[j] = Sent(path, names, j)[1]
        /\ k + m <= j => /\ j - m + 1 \in 1..L /\ j - m + 1 # k
                         /\ at[j] = Sent(path, names, j - m + 1)[1]
  BY <1>2, PlacesArrive
<1>5. \A i \in 1..L : path[i] \notin Routing!Kinds => Sent(path, names, i)[1] = path[i]
  <2> SUFFICES ASSUME NEW i \in 1..L, path[i] \notin Routing!Kinds
               PROVE  Sent(path, names, i)[1] = path[i]
    OBVIOUS
  <2>1. Sent(path, names, i) = <<path[i]>>
    BY Zenon DEF Sent
  <2> QED
    BY <2>1
<1>6. L <= n /\ 1 \in 1..n /\ 1 \in 1..L /\ (1 < k \/ 1 = k)
  <2> HIDE DEF L
  <2> QED
    BY <1>2, <1>3
<1>7. path[1] = at[1]
  <2> HIDE DEF L, n
  <2>1. Sent(path, names, 1)[1] = path[1]
    BY <1>1, <1>5, <1>6, Zenon
  <2>2. (1 < k => at[1] = Sent(path, names, 1)[1]) /\ (1 = k => at[1] = Sent(path, names, 1)[1])
    BY <1>4, <1>6, Zenon
  <2> QED
    BY <1>6, <2>1, <2>2, Zenon
<1>8. CASE path[k] = ":object"
  <2> DEFINE z == Routing!Spread(path, n)
  <2>1. z \in Seq(X) /\ SpreadAs(z, path, k, L, m)
    <3>1. ObjectAt(path, k)
      BY <1>8 DEF ObjectAt
    <3> QED
      BY <1>1, <1>3, <3>1, SpreadIs
  <2> HIDE DEF z, n, L
  <2>2. Len(z) = n /\ DOMAIN z = 1..n
    BY <2>1 DEF SpreadAs, n
  <2>3. ASSUME NEW j \in 1..n, z[j] \notin Routing!Kinds PROVE z[j] = at[j]
    <3>1. /\ j < k => j \in 1..L /\ z[j] = path[j]
          /\ k <= j /\ j < k + m => z[j] = ":object"
          /\ k + m <= j => j - m + 1 \in 1..L /\ z[j] = path[j - m + 1]
      BY <2>1, Zenon DEF SpreadAs, n
    <3>2. ":object" \in Routing!Kinds
      BY DEF Routing!Kinds
    <3>3. j < k \/ (k <= j /\ j < k + m) \/ k + m <= j
      BY <1>2, <1>3 DEF n
    <3>4. CASE j < k
      BY <1>4, <1>5, <2>3, <3>1, <3>4, Zenon
    <3>5. CASE k <= j /\ j < k + m
      BY <2>3, <3>1, <3>2, <3>5, Zenon
    <3>6. CASE k + m <= j
      BY <1>4, <1>5, <2>3, <3>1, <3>6, Zenon
    <3> QED
      BY <3>3, <3>4, <3>5, <3>6, Zenon
  <2>4. Routing!Fits(z, at)
    BY <1>3, <2>2, <2>3, Zenon DEF Routing!Fits, Routing!Words
  <2> QED
    BY <1>3, <1>6, <1>7, <1>8, <2>4, Zenon DEF L, z
<1>9. CASE path[k] # ":object"
  <2>1. m = 1
    BY <1>9
  <2>2. {i \in DOMAIN path : path[i] = ":object"} = {}
    BY <1>2, <1>9 DEF Only
  <2>3. Routing!Spread(path, n) = path
    BY <2>2, Zenon DEF Routing!Spread
  <2>4. n = L
    <3> HIDE DEF L
    <3> QED
      BY <1>2, <2>1
  <2>5. ASSUME NEW j \in 1..L, path[j] \notin Routing!Kinds PROVE path[j] = at[j]
    <3> HIDE DEF n, L
    <3>1. j < k \/ j = k \/ k + m <= j
      BY <1>2, <1>3, <2>1
    <3>2. j - m + 1 = j
      BY <1>2, <2>1
    <3> QED
      BY <1>4, <1>5, <2>4, <2>5, <3>1, <3>2, Zenon
  <2>6. Routing!Fits(path, at)
    BY <1>2, <1>3, <2>4, <2>5, Zenon DEF Routing!Fits, Routing!Words
  <2> QED
    BY <1>3, <1>6, <1>7, <2>3, <2>6, Zenon
<1> QED
  BY <1>8, <1>9

\* A path without an object is as long as it is.
LEMMA OrdinarySpread ==
  ASSUME NEW path, Ordinary(path), NEW n
  PROVE  Routing!Spread(path, n) = path
<1>1. \A i \in 1..Len(path) : path[i] # ":object"
  BY OrdinaryIsRouted
<1>2. DOMAIN path = 1..Len(path)
  <2> DEFINE X == {path[i] : i \in 1..Len(path)}
  <2>1. path \in Seq(X)
    BY Zenon DEF Ordinary, Signs
  <2> HIDE DEF X
  <2> QED
    BY <2>1
<1>3. {i \in DOMAIN path : path[i] = ":object"} = {}
  BY <1>1, <1>2
<1> QED
  BY <1>3, Zenon DEF Routing!Spread

LEMMA RoutedDomain ==
  ASSUME NEW path, Routed(path)
  PROVE  DOMAIN path = 1..Len(path) /\ Len(path) \in Nat
<1> DEFINE X == {path[i] : i \in 1..Len(path)}
<1>1. path \in Seq(X)
  BY Zenon DEF Routed
<1> HIDE DEF X
<1> QED
  BY <1>1

LEMMA SpreadDomain ==
  ASSUME NEW r \in Routing!Routes, NEW n \in Nat, Len(r.path) <= n
  PROVE  DOMAIN Routing!Spread(r.path, n) = 1..Len(Routing!Spread(r.path, n))
<1> DEFINE path == r.path
           X == {path[i] : i \in 1..Len(path)}
           m == n - Len(path) + 1
<1>1. Routed(path)
  BY AllRouted
<1>2. PICK k \in 1..Len(path) : Only(path, k)
  BY AllRouted, Zenon
<1>3. path \in Seq(X)
  BY <1>1, Zenon DEF Routed
<1>4. DOMAIN path = 1..Len(path) /\ Len(path) \in Nat /\ Len(path) <= n
  BY <1>1, RoutedDomain, Zenon
<1> HIDE DEF X, path
<1>5. CASE path[k] = ":object"
  <2>1. m \in Nat /\ m >= 1 /\ Len(path) + m - 1 = n
    BY <1>4
  <2>2. ObjectAt(path, k)
    BY <1>5, Zenon DEF ObjectAt
  <2> HIDE DEF m
  <2>3. Routing!Spread(path, Len(path) + m - 1) \in Seq(X)
    BY <1>2, <1>3, <2>1, <2>2, SpreadIs
  <2>4. Routing!Spread(path, n) \in Seq(X)
    BY <2>1, <2>3, Zenon
  <2> QED
    BY <2>4 DEF path
<1>6. CASE path[k] # ":object"
  <2>1. {i \in DOMAIN path : path[i] = ":object"} = {}
    BY <1>2, <1>4, <1>6 DEF Only
  <2>2. Routing!Spread(path, n) = path
    BY <2>1, Zenon DEF Routing!Spread
  <2> QED
    BY <1>4, <2>2, Zenon DEF path
<1> QED
  BY <1>5, <1>6, Zenon

\* The words a route has for what arrives, and the routes it may be taken for.
WordsFor(r, at) == Routing!Words(Routing!Spread(r.path, Len(at)))

Best(method, at) ==
  {r \in Routing!Matches(method, at) :
     \A t \in Routing!Matches(method, at) :
       WordsFor(r, at) \subseteq WordsFor(t, at) => WordsFor(t, at) \subseteq WordsFor(r, at)}

\* A route serves when none that matches has more words than it.
LEMMA ServesTheBest ==
  ASSUME NEW method, NEW at
  PROVE  Routing!Serves(method, at) = {Routing!Shape(r) : r \in Best(method, at)}
  BY Zenon DEF Routing!Serves, Best, WordsFor

\* The words of a route that matches are at places of what arrives.
LEMMA WordsAreFinite ==
  ASSUME NEW method, NEW at, Len(at) \in Nat, NEW r \in Routing!Matches(method, at)
  PROVE  WordsFor(r, at) \in SUBSET (1..Len(at))
<1>1. /\ r \in Routing!Routes /\ Len(r.path) <= Len(at)
      /\ Len(Routing!Spread(r.path, Len(at))) = Len(at)
  BY Zenon DEF Routing!Matches, Routing!Fits
<1>2. DOMAIN Routing!Spread(r.path, Len(at)) = 1..Len(Routing!Spread(r.path, Len(at)))
  BY <1>1, SpreadDomain, Zenon
<1> QED
  BY <1>1, <1>2, Zenon DEF WordsFor, Routing!Words

\* One of the routes that match is best.
LEMMA OneIsBest ==
  ASSUME NEW method, NEW at, Len(at) \in Nat, NEW own \in Routing!Matches(method, at)
  PROVE  Best(method, at) # {}
<1> DEFINE M == Routing!Matches(method, at)
           n == Len(at)
           c(r) == Cardinality(WordsFor(r, at))
           S == {n - c(r) : r \in M}
<1>1. IsFiniteSet(1..n) /\ Cardinality(1..n) = n
  <2>1. 1 \in Int /\ n \in Int /\ n \in Nat
    OBVIOUS
  <2> HIDE DEF n
  <2> QED
    BY <2>1, FS_Interval
<1>2. ASSUME NEW r \in M
      PROVE  /\ WordsFor(r, at) \in SUBSET (1..n) /\ IsFiniteSet(WordsFor(r, at))
             /\ c(r) \in Nat /\ c(r) <= n
  <2>1. WordsFor(r, at) \in SUBSET (1..n)
    BY WordsAreFinite
  <2>2. IsFiniteSet(WordsFor(r, at)) /\ c(r) <= Cardinality(1..n)
    BY <1>1, <2>1, FS_Subset, Zenon
  <2>3. c(r) \in Nat
    BY <2>2, FS_CardinalityType, Zenon
  <2> QED
    BY <1>1, <2>1, <2>2, <2>3, Zenon
<1> HIDE DEF M, c
<1>3. S \in SUBSET Nat
  <2> SUFFICES ASSUME NEW r \in M PROVE n - c(r) \in Nat
    OBVIOUS
  <2>1. c(r) \in Nat /\ c(r) <= n /\ n \in Nat
    BY <1>2
  <2> HIDE DEF n
  <2> QED
    BY <2>1
<1>4. S # {}
  BY DEF M
<1>5. PICK x \in S : \A y \in S : x <= y
  <2> HIDE DEF S
  <2> QED
    BY <1>3, <1>4, LeastIs, Zenon
<1>6. PICK r \in M : x = n - c(r)
  BY <1>5
<1>7. ASSUME NEW t \in M, WordsFor(r, at) \subseteq WordsFor(t, at)
      PROVE  WordsFor(t, at) \subseteq WordsFor(r, at)
  <2>1. n - c(r) <= n - c(t)
    <3>1. n - c(t) \in S
      BY Zenon
    <3> QED
      BY <1>5, <1>6, <3>1, Zenon
  <2>2. /\ c(r) \in Nat /\ c(t) \in Nat /\ IsFiniteSet(WordsFor(t, at)) /\ n \in Nat
    BY <1>2
  <2>3. c(t) <= c(r)
    <3> HIDE DEF n
    <3> QED
      BY <2>1, <2>2
  <2>4. /\ c(r) <= c(t)
        /\ c(t) = c(r) => WordsFor(t, at) = WordsFor(r, at)
    <3>1. WordsFor(r, at) \in SUBSET WordsFor(t, at)
      BY <1>7
    <3> QED
      BY <2>2, <3>1, FS_Subset, Zenon DEF c
  <2>5. c(t) = c(r)
    BY <2>2, <2>3, <2>4
  <2> QED
    BY <2>4, <2>5, Zenon
<1>8. r \in Best(method, at)
  BY <1>7, Zenon DEF Best, M
<1> QED
  BY <1>8

\* A name that is itself a word of the shape, where that has it.
Excused(path, names, shape) ==
  \E i \in Routing!Names(path) : /\ i \in DOMAIN shape /\ shape[i] # "*"
                                 /\ Routing!Meant(path[i], names[i]) = <<shape[i]>>

\* The name of a place, where it is one part, is what arrives there.
LEMMA NameArrives ==
  ASSUME NEW path, NEW names, Granted(path, names), NEW i \in Routing!Names(path),
         Len(Routing!Meant(path[i], names[i])) = 1
  PROVE  Routing!Meant(path[i], names[i]) = <<Sent(path, names, i)[1]>>
<1> DEFINE v == Routing!Meant(path[i], names[i])
<1>1. path[i] \in Routing!Kinds /\ names[i] \in Seq(Pieces) \ {<<>>}
      /\ Routing!Allowed(path[i], names[i])
  BY Zenon DEF Routing!Names, Granted
<1>2. v \in Seq(Pieces) /\ Len(v) = 1
  BY <1>1, MeantIs, Zenon DEF Said
<1>3. Sent(path, names, i) = v
  BY <1>1, Zenon DEF Sent
<1> HIDE DEF v
<1>4. v = <<v[1]>>
  BY <1>2
<1> QED
  BY <1>3, <1>4 DEF v

\* Where there is no object each place arrives by itself.
LEMMA EachArrives ==
  ASSUME NEW path, DOMAIN path = 1..Len(path), NEW names, NEW at,
         Arrival(path, names, 1, 1, at), NEW i \in 1..Len(path)
  PROVE  at[i] = Sent(path, names, i)[1]
<1>1. Len(path) \in Nat
  BY Zenon DEF Arrival
<1>2. i \in 1..(Len(path) + 1 - 1) /\ (i = 1 \/ 1 + 1 <= i) /\ i - 1 + 1 = i
  BY <1>1
<1>3. /\ i = 1 => at[i] = Sent(path, names, i)[1]
      /\ 1 + 1 <= i => at[i] = Sent(path, names, i - 1 + 1)[1]
  BY <1>2, PlacesArrive
<1> QED
  BY <1>2, <1>3, Zenon

\* No route is preferred to one of the same words.
LEMMA OrdinaryServed ==
  ASSUME NEW own \in Routing!Routes, Ordinary(own.path), NEW names, Granted(own.path, names),
         NEW at, Arrival(own.path, names, 1, 1, at), own \in Routing!Matches(own.method, at),
         NEW r \in Best(own.method, at)
  PROVE  Routing!Shape(r) = Routing!Shape(own) \/ Excused(own.path, names, Routing!Shape(r))
<1> DEFINE p == own.path
           q == r.path
           n == Len(at)
<1>1. /\ r \in Routing!Matches(own.method, at)
      /\ \A t \in Routing!Matches(own.method, at) :
           WordsFor(r, at) \subseteq WordsFor(t, at) => WordsFor(t, at) \subseteq WordsFor(r, at)
  BY Zenon DEF Best
<1>2. /\ r \in Routing!Routes /\ q[1] = at[1] /\ p[1] = at[1]
      /\ Routing!Fits(Routing!Spread(q, n), at) /\ Routing!Fits(Routing!Spread(p, n), at)
  BY <1>1, Zenon DEF Routing!Matches
<1>3. Ordinary(q)
  <2>1. p[1] \notin {"storage", "public"}
    BY DEF Ordinary, Begins
  <2> QED
    BY <1>2, <2>1, RoutesAre, StorageRoutesAre, Zenon
<1>4. Routing!Spread(q, n) = q /\ Routing!Spread(p, n) = p
  BY <1>3, OrdinarySpread
<1>5. WordsFor(r, at) = Routing!Words(q) /\ WordsFor(own, at) = Routing!Words(p)
  BY <1>4, Zenon DEF WordsFor
<1>6. /\ Routed(p) /\ Routed(q) /\ \A i \in 1..Len(p) : p[i] # ":object"
      /\ Len(p) = n /\ Len(q) = n
      /\ \A i \in Routing!Words(q) : q[i] = at[i]
      /\ \A i \in Routing!Words(p) : p[i] = at[i]
  BY <1>2, <1>3, <1>4, OrdinaryIsRouted, Zenon DEF Routing!Fits
<1>7. DOMAIN p = 1..n /\ DOMAIN q = 1..n /\ n \in Nat
  BY <1>6, RoutedDomain, Zenon
<1> HIDE DEF p, q, n
<1>8. /\ DOMAIN Routing!Shape(r) = 1..n /\ DOMAIN Routing!Shape(own) = 1..n
      /\ \A i \in 1..n :
           /\ Routing!Shape(r)[i] = IF q[i] \in Routing!Kinds THEN "*" ELSE q[i]
           /\ Routing!Shape(own)[i] = IF p[i] \in Routing!Kinds THEN "*" ELSE p[i]
  BY <1>7, Zenon DEF Routing!Shape, p, q
<1>9. \A i \in 1..n : /\ i \in Routing!Words(q) <=> q[i] \notin Routing!Kinds
                      /\ i \in Routing!Words(p) <=> p[i] \notin Routing!Kinds
                      /\ i \in Routing!Names(p) <=> p[i] \in Routing!Kinds
  BY <1>7, Zenon DEF Routing!Words, Routing!Names
<1>10. CASE Routing!Words(q) \subseteq Routing!Words(p)
  <2>1. Routing!Words(p) = Routing!Words(q)
    <3>1. Routing!Words(p) \subseteq Routing!Words(q)
      BY <1>1, <1>5, <1>10, Zenon
    <3> QED
      BY <1>10, <3>1
  <2>2. \A i \in 1..n : Routing!Shape(r)[i] = Routing!Shape(own)[i]
    <3> SUFFICES ASSUME NEW i \in 1..n PROVE Routing!Shape(r)[i] = Routing!Shape(own)[i]
      OBVIOUS
    <3>1. CASE i \in Routing!Words(q)
      BY <1>6, <1>8, <1>9, <2>1, <3>1, Zenon
    <3>2. CASE i \notin Routing!Words(q)
      BY <1>8, <1>9, <2>1, <3>2, Zenon
    <3> QED
      BY <3>1, <3>2
  <2>3. Routing!Shape(r) = Routing!Shape(own)
    <3>1. /\ Routing!Shape(r) = [i \in 1..n |-> Routing!Shape(r)[i]]
          /\ Routing!Shape(own) = [i \in 1..n |-> Routing!Shape(own)[i]]
      BY <1>7, Zenon DEF Routing!Shape, p, q
    <3> QED
      BY <2>2, <3>1, Zenon
  <2> QED
    BY <2>3
<1>11. CASE ~(Routing!Words(q) \subseteq Routing!Words(p))
  <2>1. PICK i \in Routing!Words(q) : i \notin Routing!Words(p)
    BY <1>11
  <2>2. i \in 1..n
    BY <1>7, <2>1, Zenon DEF Routing!Words
  <2>3. i \in Routing!Names(p) /\ q[i] \notin Routing!Kinds /\ q[i] = at[i]
    BY <1>6, <1>9, <2>1, <2>2, Zenon
  <2>4. Routing!Shape(r)[i] = q[i] /\ i \in DOMAIN Routing!Shape(r)
    BY <1>8, <2>2, <2>3, Zenon
  <2>5. q[i] # "*"
    <3>1. q[i] \notin {"", ".", "..", "*"}
      BY <1>6, <2>2, Zenon DEF Routed
    <3> QED
      BY <3>1
  <2>6. Len(Routing!Meant(p[i], names[i])) = 1
    <3>1. p[i] \in Routing!Kinds /\ p[i] # ":object"
      BY <1>6, <1>9, <2>2, <2>3, Zenon
    <3>2. names[i] \in Seq(Pieces) \ {<<>>} /\ Routing!Allowed(p[i], names[i])
      BY <2>3, Zenon DEF Granted, p
    <3> QED
      BY <3>1, <3>2, MeantIs, Zenon
  <2>7. at[i] = Sent(p, names, i)[1]
    <3>1. DOMAIN p = 1..Len(p) /\ Arrival(p, names, 1, 1, at) /\ i \in 1..Len(p)
      BY <1>6, <1>7, <2>2, Zenon DEF p
    <3> QED
      BY <3>1, EachArrives
  <2>8. Routing!Meant(p[i], names[i]) = <<at[i]>>
    <3>1. Granted(p, names)
      BY DEF p
    <3> QED
      BY <2>3, <2>6, <2>7, <3>1, NameArrives
  <2>9. Excused(p, names, Routing!Shape(r))
    BY <2>3, <2>4, <2>5, <2>8, Zenon DEF Excused
  <2> QED
    BY <2>9 DEF p
<1> QED
  BY <1>10, <1>11

\* Which routes of storage there are of a method.
LEMMA StorageByMethod ==
  ASSUME NEW r \in Routing!StorageRoutes
  PROVE  /\ r.method = "DELETE" => r = Routing!deletePath
         /\ r.method = "PATCH" => r = Routing!updateVisibility
         /\ r.method = "PUT" => r = Routing!uploadPart
         /\ r.method = "GET" /\ r.path[1] = "public" => r = Routing!storagePublicUrl
         /\ r.method = "GET" /\ r.path[1] = "storage" =>
              r \in {Routing!downloadStorageObject, Routing!listStorage}
         /\ r.method = "POST" =>
              \/ r = Routing!uploadStorageObject
              \/ \E o \in {"move", "copy"} : r = Routing!transferStorage(o)
         /\ \/ r.method \in {"DELETE", "PATCH", "PUT"}
            \/ r.method = "GET" /\ r.path[1] \in {"public", "storage"}
            \/ r.method = "POST"
<1>1. \A p : /\ Routing!GET(p).method = "GET" /\ Routing!POST(p).method = "POST"
             /\ Routing!PUT(p).method = "PUT" /\ Routing!PATCH(p).method = "PATCH"
             /\ Routing!DELETE(p).method = "DELETE"
  BY DEF Routing!GET, Routing!POST, Routing!PUT, Routing!PATCH, Routing!DELETE
<1>2. /\ Routing!uploadStorageObject.method = "POST"
      /\ Routing!downloadStorageObject.method = "GET"
      /\ Routing!listStorage.method = "GET"
      /\ Routing!deletePath.method = "DELETE"
      /\ Routing!updateVisibility.method = "PATCH"
      /\ Routing!uploadPart.method = "PUT"
      /\ Routing!storagePublicUrl.method = "GET"
      /\ \A o : Routing!transferStorage(o).method = "POST"
  BY <1>1, Zenon
     DEF Routing!uploadStorageObject, Routing!downloadStorageObject, Routing!deletePath,
         Routing!uploadPart, Routing!listStorage, Routing!updateVisibility,
         Routing!storagePublicUrl, Routing!transferStorage
<1>3. /\ Routing!downloadStorageObject.path[1] = "storage"
      /\ Routing!listStorage.path[1] = "storage"
      /\ Routing!storagePublicUrl.path[1] = "public"
  BY StoragePathsAre
<1>4. \/ r = Routing!uploadStorageObject \/ r = Routing!downloadStorageObject
      \/ r = Routing!listStorage \/ r = Routing!deletePath \/ r = Routing!updateVisibility
      \/ r = Routing!uploadPart \/ r = Routing!storagePublicUrl
      \/ \E o \in {"move", "copy"} : r = Routing!transferStorage(o)
  BY Zenon DEF Routing!StorageRoutes
<1>5. CASE r = Routing!uploadStorageObject
  BY <1>2, <1>5
<1>6. CASE r = Routing!downloadStorageObject
  BY <1>2, <1>3, <1>6
<1>7. CASE r = Routing!listStorage
  BY <1>2, <1>3, <1>7
<1>8. CASE r = Routing!deletePath
  BY <1>2, <1>8
<1>9. CASE r = Routing!updateVisibility
  BY <1>2, <1>9
<1>10. CASE r = Routing!uploadPart
  BY <1>2, <1>10
<1>11. CASE r = Routing!storagePublicUrl
  BY <1>2, <1>3, <1>11
<1>12. CASE \E o \in {"move", "copy"} : r = Routing!transferStorage(o)
  <2>1. r.method = "POST"
    BY <1>2, <1>12, Zenon
  <2> QED
    BY <1>12, <2>1
<1> QED
  BY <1>4, <1>5, <1>6, <1>7, <1>8, <1>9, <1>10, <1>11, <1>12, Zenon

\* Without an object a path of storage is as long as it is.
LEMMA ShortSpread ==
  ASSUME NEW n
  PROVE  /\ Routing!Spread(<<"storage", ":name">>, n) = <<"storage", ":name">>
         /\ \A o \in {"move", "copy"} :
              Routing!Spread(<<"storage", ":name", o>>, n) = <<"storage", ":name", o>>
<1>1. {i \in DOMAIN <<"storage", ":name">> : <<"storage", ":name">>[i] = ":object"} = {}
  OBVIOUS
<1>2. ASSUME NEW o \in {"move", "copy"}
      PROVE  {i \in DOMAIN <<"storage", ":name", o>> :
                <<"storage", ":name", o>>[i] = ":object"} = {}
  OBVIOUS
<1>3. Routing!Spread(<<"storage", ":name">>, n) = <<"storage", ":name">>
  BY <1>1, Zenon DEF Routing!Spread
<1>4. ASSUME NEW o \in {"move", "copy"}
      PROVE  Routing!Spread(<<"storage", ":name", o>>, n) = <<"storage", ":name", o>>
  BY <1>2, Zenon DEF Routing!Spread
<1> QED
  BY <1>3, <1>4

\* A transfer arrives as one.
LEMMA TransferFits ==
  ASSUME NEW o \in {"move", "copy"}, NEW n, NEW at, Len(at) = n,
         Routing!Fits(Routing!Spread(Routing!transferStorage(o).path, n), at)
  PROVE  n = 3 /\ at[3] = o
<1> DEFINE p == <<"storage", ":name", o>>
<1>1. Routing!Fits(p, at)
  BY StoragePathsAre, ShortSpread, Zenon
<1>2. Len(p) = 3 /\ 3 \in DOMAIN p /\ p[3] = o
  OBVIOUS
<1>3. o \notin Routing!Kinds
  BY DEF Routing!Kinds
<1> HIDE DEF p
<1>4. 3 \in Routing!Words(p)
  BY <1>2, <1>3, Zenon DEF Routing!Words
<1> QED
  BY <1>1, <1>2, <1>4, Zenon DEF Routing!Fits

\* What is known of a route that is the best for a request to storage.
LEMMA StorageKept ==
  ASSUME NEW own \in Routing!StorageRoutes, NEW at, own \in Routing!Matches(own.method, at),
         NEW r \in Best(own.method, at)
  PROVE  /\ r \in Routing!StorageRoutes /\ r.method = own.method /\ r.path[1] = own.path[1]
         /\ Len(r.path) <= Len(at) /\ Len(own.path) <= Len(at)
         /\ Routing!Fits(Routing!Spread(r.path, Len(at)), at)
         /\ Routing!Fits(Routing!Spread(own.path, Len(at)), at)
         /\ WordsFor(r, at) \subseteq WordsFor(own, at) =>
              WordsFor(own, at) \subseteq WordsFor(r, at)
<1>1. /\ r \in Routing!Matches(own.method, at)
      /\ WordsFor(r, at) \subseteq WordsFor(own, at) =>
           WordsFor(own, at) \subseteq WordsFor(r, at)
  BY Zenon DEF Best
<1>2. /\ r \in Routing!Routes /\ r.method = own.method /\ r.path[1] = at[1] /\ own.path[1] = at[1]
      /\ Len(r.path) <= Len(at) /\ Len(own.path) <= Len(at)
      /\ Routing!Fits(Routing!Spread(r.path, Len(at)), at)
      /\ Routing!Fits(Routing!Spread(own.path, Len(at)), at)
  BY <1>1, Zenon DEF Routing!Matches
<1>3. r \in Routing!StorageRoutes
  <2>1. own.path[1] \in {"storage", "public"}
    BY StorageRoutesAre
  <2>2. Ordinary(r.path) => r.path[1] \notin {"storage", "public"}
    BY DEF Ordinary, Begins
  <2> QED
    BY <1>2, <2>1, <2>2, RoutesAre, Zenon
<1> QED
  BY <1>1, <1>2, <1>3, Zenon

LEMMA OneMore ==
  ASSUME NEW m \in Nat, 3 = 3 + m - 1
  PROVE  m = 1
  OBVIOUS

\* An upload is preferred to none; only its object may be called as a transfer is.
LEMMA UploadServed ==
  ASSUME NEW names, NEW o \in {"move", "copy"}, NEW at, NEW k, NEW m,
         Granted(Routing!uploadStorageObject.path, names),
         Only(Routing!uploadStorageObject.path, k),
         Arrival(Routing!uploadStorageObject.path, names, k, m, at), Len(at) = 3, at[3] = o
  PROVE  Excused(Routing!uploadStorageObject.path, names,
                 Routing!Shape(Routing!transferStorage(o)))
<1> DEFINE p == Routing!uploadStorageObject.path
           q == Routing!transferStorage(o).path
<1>1. /\ p = <<"storage", ":name", ":object">> /\ Len(p) = 3 /\ DOMAIN p = 1..3
      /\ p[3] = ":object"
  BY StoragePathsAre
<1>2. q = <<"storage", ":name", o>> /\ DOMAIN q = 1..3 /\ q[3] = o
  BY StoragePathsAre
<1>3. 3 \in 1..3 /\ ":object" \in Routing!Kinds /\ o \notin Routing!Kinds /\ o # "*"
  BY DEF Routing!Kinds
<1> HIDE DEF p, q
<1>4. k = 3
  BY <1>1, <1>3, Zenon DEF Only, p
<1>5. m = 1
  <2>1. m \in Nat /\ Len(at) = Len(p) + m - 1
    BY Zenon DEF Arrival, p
  <2>2. Len(p) = 3
    BY <1>1
  <2> QED
    BY <2>1, <2>2, OneMore, Zenon
<1>6. 3 \in Routing!Names(p)
  BY <1>1, <1>3, Zenon DEF Routing!Names
<1>7. Len(Routing!Meant(p[3], names[3])) = 1
  BY <1>1, <1>3, <1>4, <1>5, Zenon DEF Arrival, Sent, p
<1>8. at[3] = Sent(p, names, 3)[1]
  <2>1. DOMAIN p = 1..Len(p) /\ Arrival(p, names, 3, 1, at)
    BY <1>1, <1>4, <1>5, Zenon DEF p
  <2>2. 3 \in 1..(Len(p) + 1 - 1)
    <3>1. Len(p) = 3
      BY <1>1
    <3> QED
      BY <3>1
  <2> QED
    BY <2>1, <2>2, PlacesArrive
<1>9. Routing!Meant(p[3], names[3]) = <<o>>
  <2>1. Granted(p, names)
    BY DEF p
  <2>2. Routing!Meant(p[3], names[3]) = <<Sent(p, names, 3)[1]>>
    BY <1>6, <1>7, <2>1, NameArrives
  <2> QED
    BY <1>8, <2>2, Zenon
<1>10. /\ 3 \in DOMAIN Routing!Shape(Routing!transferStorage(o))
       /\ Routing!Shape(Routing!transferStorage(o))[3] = o
  BY <1>2, <1>3, Zenon DEF Routing!Shape, q
<1>11. Excused(p, names, Routing!Shape(Routing!transferStorage(o)))
  BY <1>3, <1>6, <1>9, <1>10, Zenon DEF Excused
<1> QED
  BY <1>11 DEF p

\* A transfer is preferred to an upload.
LEMMA TransferServed ==
  ASSUME NEW o \in {"move", "copy"}, NEW at, Len(at) = 3
  PROVE  /\ WordsFor(Routing!uploadStorageObject, at) \subseteq
              WordsFor(Routing!transferStorage(o), at)
         /\ ~(WordsFor(Routing!transferStorage(o), at) \subseteq
                WordsFor(Routing!uploadStorageObject, at))
<1> DEFINE p == <<"storage", ":name", ":object">>
           q == <<"storage", ":name", o>>
           z == Routing!Spread(p, 3)
<1>1. WordsFor(Routing!transferStorage(o), at) = Routing!Words(q)
  BY StoragePathsAre, ShortSpread, Zenon DEF WordsFor
<1>2. WordsFor(Routing!uploadStorageObject, at) = Routing!Words(z)
  BY StoragePathsAre, Zenon DEF WordsFor
<1>3. /\ Len(p) = 3 /\ p[1] = "storage" /\ p[2] = ":name" /\ p[3] = ":object"
      /\ Len(q) = 3 /\ q[1] = "storage" /\ q[2] = ":name" /\ q[3] = o
      /\ DOMAIN q = 1..3 /\ p \in Seq({"storage", ":name", ":object"})
  OBVIOUS
<1>4. /\ "storage" \notin Routing!Kinds /\ ":name" \in Routing!Kinds
      /\ ":object" \in Routing!Kinds /\ o \notin Routing!Kinds
  BY DEF Routing!Kinds
<1>5. Only(p, 3) /\ ObjectAt(p, 3)
  <2>1. \A i \in 1..3 : i # 3 => p[i] # ":object"
    OBVIOUS
  <2>2. 3 \in 1..3
    OBVIOUS
  <2> HIDE DEF p
  <2> QED
    BY <1>3, <2>1, <2>2, Zenon DEF Only, ObjectAt
<1> HIDE DEF p, q
<1>6. /\ DOMAIN z = 1..3 /\ z[1] = "storage" /\ z[2] = ":name" /\ z[3] = ":object"
  <2>1. Len(p) = 3
    BY <1>3, Zenon
  <2>2. 1 \in Nat /\ 1 >= 1 /\ 3 + 1 - 1 = 3
    OBVIOUS
  <2>3. /\ Routing!Spread(p, 3 + 1 - 1) \in Seq({"storage", ":name", ":object"})
        /\ SpreadAs(Routing!Spread(p, 3 + 1 - 1), p, 3, 3, 1)
    BY <1>3, <1>5, <2>1, <2>2, SpreadIs, Zenon
  <2>4. z \in Seq({"storage", ":name", ":object"}) /\ SpreadAs(z, p, 3, 3, 1)
    BY <2>2, <2>3, Zenon
  <2> HIDE DEF z
  <2>5. /\ Len(z) = 3
        /\ \A j \in 1..3 : (j < 3 => z[j] = p[j]) /\ (3 <= j /\ j < 4 => z[j] = ":object")
    BY <2>4 DEF SpreadAs
  <2>6. z[1] = p[1] /\ z[2] = p[2] /\ z[3] = ":object"
    BY <2>5
  <2>7. DOMAIN z = 1..3
    BY <2>4, <2>5
  <2> QED
    BY <1>3, <2>6, <2>7, Zenon
<1> HIDE DEF z
<1>7. \A i \in 1..3 : i = 1 \/ i = 2 \/ i = 3
  OBVIOUS
<1>8. Routing!Words(z) \subseteq {1} /\ 3 \notin {1}
  BY <1>4, <1>6, <1>7 DEF Routing!Words
<1>9. 1 \in Routing!Words(q) /\ 3 \in Routing!Words(q)
  <2>1. 1 \in 1..3 /\ 3 \in 1..3
    OBVIOUS
  <2> QED
    BY <1>3, <1>4, <2>1, Zenon DEF Routing!Words
<1> QED
  BY <1>1, <1>2, <1>8, <1>9, Zenon

\* What a request to storage is served as.
LEMMA StorageServed ==
  ASSUME NEW own \in Routing!StorageRoutes, NEW names, Granted(own.path, names),
         NEW k, Only(own.path, k), NEW m, NEW at, Arrival(own.path, names, k, m, at),
         own \in Routing!Matches(own.method, at), NEW r \in Best(own.method, at)
  PROVE  Routing!Shape(r) = Routing!Shape(own) \/ Excused(own.path, names, Routing!Shape(r))
<1>1. /\ r \in Routing!StorageRoutes /\ r.method = own.method /\ r.path[1] = own.path[1]
      /\ Len(r.path) <= Len(at) /\ Len(own.path) <= Len(at)
      /\ Routing!Fits(Routing!Spread(r.path, Len(at)), at)
      /\ Routing!Fits(Routing!Spread(own.path, Len(at)), at)
      /\ WordsFor(r, at) \subseteq WordsFor(own, at) =>
           WordsFor(own, at) \subseteq WordsFor(r, at)
  BY StorageKept
<1>2. CASE r = own
  BY <1>2
<1>3. CASE own.method \in {"DELETE", "PATCH", "PUT"}
  <2>1. own.method = "DELETE" \/ own.method = "PATCH" \/ own.method = "PUT"
    BY <1>3
  <2>2. r = own
    BY <1>1, <2>1, StorageByMethod, Zenon
  <2> QED
    BY <2>2
<1>4. CASE own.method = "GET" /\ own.path[1] = "public"
  <2>1. r = own
    BY <1>1, <1>4, StorageByMethod, Zenon
  <2> QED
    BY <2>1
<1>5. CASE own.method = "GET" /\ own.path[1] = "storage"
  <2>1. /\ own \in {Routing!downloadStorageObject, Routing!listStorage}
        /\ r \in {Routing!downloadStorageObject, Routing!listStorage}
    BY <1>1, <1>5, StorageByMethod, Zenon
  <2>2. ASSUME Routing!Fits(Routing!Spread(Routing!listStorage.path, Len(at)), at),
               Len(Routing!downloadStorageObject.path) <= Len(at)
        PROVE  FALSE
    <3>1. Routing!Fits(<<"storage", ":name">>, at)
      BY <2>2, StoragePathsAre, ShortSpread, Zenon
    <3>2. Len(<<"storage", ":name">>) = Len(at) /\ Len(<<"storage", ":name", ":object">>) <= Len(at)
      BY <2>2, <3>1, StoragePathsAre, Zenon DEF Routing!Fits
    <3>3. Len(<<"storage", ":name">>) = 2 /\ Len(<<"storage", ":name", ":object">>) = 3
      OBVIOUS
    <3>4. ~(3 <= 2)
      OBVIOUS
    <3> QED
      BY <3>2, <3>3, <3>4, Zenon
  <2> QED
    BY <1>1, <1>2, <2>1, <2>2, Zenon
<1>6. CASE own.method = "POST"
  <2>1. /\ \/ own = Routing!uploadStorageObject
           \/ \E o \in {"move", "copy"} : own = Routing!transferStorage(o)
        /\ \/ r = Routing!uploadStorageObject
           \/ \E o \in {"move", "copy"} : r = Routing!transferStorage(o)
    BY <1>1, <1>6, StorageByMethod, Zenon
  <2>2. CASE /\ own = Routing!uploadStorageObject
             /\ \E o \in {"move", "copy"} : r = Routing!transferStorage(o)
    <3>1. PICK o \in {"move", "copy"} : r = Routing!transferStorage(o)
      BY <2>2
    <3>2. Len(at) = 3 /\ at[3] = o
      BY <1>1, <3>1, TransferFits, Zenon
    <3> QED
      BY <2>2, <3>1, <3>2, UploadServed, Zenon
  <2>3. CASE /\ r = Routing!uploadStorageObject
             /\ \E o \in {"move", "copy"} : own = Routing!transferStorage(o)
    <3>1. PICK o \in {"move", "copy"} : own = Routing!transferStorage(o)
      BY <2>3
    <3>2. Len(at) = 3
      BY <1>1, <3>1, TransferFits, Zenon
    <3> QED
      BY <1>1, <2>3, <3>1, <3>2, TransferServed, Zenon
  <2>4. CASE /\ \E o \in {"move", "copy"} : own = Routing!transferStorage(o)
             /\ \E o \in {"move", "copy"} : r = Routing!transferStorage(o)
    <3>1. PICK o \in {"move", "copy"} : own = Routing!transferStorage(o)
      BY <2>4
    <3>2. PICK w \in {"move", "copy"} : r = Routing!transferStorage(w)
      BY <2>4
    <3>3. at[3] = o /\ at[3] = w
      BY <1>1, <3>1, <3>2, TransferFits, Zenon
    <3> QED
      BY <3>1, <3>2, <3>3, Zenon
  <2> QED
    BY <1>2, <2>1, <2>2, <2>3, <2>4, Zenon
<1>7. \/ own.method \in {"DELETE", "PATCH", "PUT"}
      \/ own.method = "GET" /\ own.path[1] \in {"public", "storage"}
      \/ own.method = "POST"
  BY StorageByMethod, Zenon
<1>8. \A x : x \in {"public", "storage"} => x = "public" \/ x = "storage"
  OBVIOUS
<1> QED
  BY <1>3, <1>4, <1>5, <1>6, <1>7, <1>8, Zenon

\* A request arrives as it was sent, and is served by its own route.
LEMMA RequestReaches ==
  ASSUME NEW own \in Routing!Routes, NEW names, Granted(own.path, names)
  PROVE  LET at == Routing!Received(Routing!Filled(own.path, names))
             served == Routing!Serves(own.method, at)
         IN /\ at = Routing!FlattenSeq(Routing!Filled(own.path, names))
            /\ at[1] = own.path[1]
            /\ served # {}
            /\ \A shape \in served :
                 shape = Routing!Shape(own) \/ Excused(own.path, names, shape)
<1> DEFINE p == own.path
           at == Routing!Received(Routing!Filled(p, names))
           served == Routing!Serves(own.method, at)
<1>1. Routed(p)
  BY AllRouted
<1>2. PICK k \in 1..Len(p) : Only(p, k) /\ (Ordinary(p) => k = 1)
  <2>1. CASE Ordinary(p)
    <3>1. Only(p, 1)
      BY <2>1, OrdinaryIsRouted
    <3> QED
      BY <3>1, Zenon DEF Only
  <2>2. CASE ~Ordinary(p)
    BY <2>2, AllRouted, Zenon
  <2> QED
    BY <2>1, <2>2
<1> DEFINE m == Len(Sent(p, names, k))
<1>3. /\ Routing!FlattenSeq(Routing!Filled(p, names)) = at
      /\ Arrival(p, names, k, m, at)
      /\ p[k] # ":object" => m = 1
  BY <1>1, <1>2, ArrivalIs
<1> HIDE DEF at, m
<1>4. /\ Len(p) <= Len(at) /\ p[1] = at[1]
      /\ Routing!Fits(Routing!Spread(p, Len(at)), at)
  <2> HIDE DEF p
  <2> QED
    BY <1>1, <1>2, <1>3, OwnFits
<1>5. own \in Routing!Matches(own.method, at)
  BY <1>4, Zenon DEF Routing!Matches
<1>6. Len(at) \in Nat
  <2>1. Len(p) \in Nat /\ m \in Nat /\ m >= 1 /\ Len(at) = Len(p) + m - 1
    BY <1>3, Zenon DEF Arrival
  <2> QED
    BY <2>1
<1>7. served = {Routing!Shape(r) : r \in Best(own.method, at)}
  BY ServesTheBest
<1>8. Best(own.method, at) # {}
  BY <1>5, <1>6, OneIsBest
<1>9. ASSUME NEW r \in Best(own.method, at)
      PROVE  Routing!Shape(r) = Routing!Shape(own) \/ Excused(p, names, Routing!Shape(r))
  <2>1. CASE own \in Routing!StorageRoutes
    BY <1>2, <1>3, <1>5, <2>1, StorageServed
  <2>2. CASE Ordinary(p)
    <3>1. k = 1 /\ p[k] # ":object"
      BY <1>2, <2>2, OrdinaryIsRouted, Zenon
    <3>2. Arrival(p, names, 1, 1, at)
      BY <1>3, <3>1, Zenon
    <3> QED
      BY <1>5, <2>2, <3>2, OrdinaryServed
  <2> QED
    BY <2>1, <2>2, RoutesAre, Zenon
<1> HIDE DEF served
<1>10. served # {}
  BY <1>7, <1>8
<1>11. \A shape \in served : shape = Routing!Shape(own) \/ Excused(p, names, shape)
  BY <1>7, <1>9
<1> QED
  BY <1>3, <1>4, <1>10, <1>11, Zenon DEF at, served

\* The project a request was given is the one in its path.
Respects(path, names, given) ==
  given # Routing!Undefined =>
    /\ path[1] = "projects" /\ 2 \in Routing!Names(path)
    /\ Routing!Trimmed(given) # <<"">> =>
         Routing!Meant(path[2], names[2]) = Routing!Trimmed(given)

\* The project that was given is the one of the path the request arrives at.
LEMMA ProjectArrives ==
  ASSUME NEW own \in Routing!Routes, NEW names, Granted(own.path, names), NEW given,
         Respects(own.path, names, given), given # Routing!Undefined
  PROVE  LET at == Routing!Received(Routing!Filled(own.path, names))
         IN /\ at[1] = "projects"
            /\ Routing!Trimmed(given) # <<"">> => at[2] = Routing!Trimmed(given)[1]
<1> DEFINE p == own.path
           at == Routing!Received(Routing!Filled(p, names))
           m == Len(Sent(p, names, 1))
<1>1. /\ p[1] = "projects" /\ 2 \in Routing!Names(p)
      /\ Routing!Trimmed(given) # <<"">> =>
           Routing!Meant(p[2], names[2]) = Routing!Trimmed(given)
  BY Zenon DEF Respects
<1>2. Ordinary(p)
  <2>1. "projects" \notin {"storage", "public"}
    OBVIOUS
  <2> QED
    BY <1>1, <2>1, RoutesAre, StorageRoutesAre, Zenon
<1>3. Routed(p) /\ Only(p, 1) /\ \A i \in 1..Len(p) : p[i] # ":object"
  BY <1>2, OrdinaryIsRouted
<1>4. DOMAIN p = 1..Len(p) /\ Len(p) \in Nat /\ 2 \in 1..Len(p)
  BY <1>1, <1>3, RoutedDomain, Zenon DEF Routing!Names
<1>5. 1 \in 1..Len(p)
  BY <1>4
<1>6. Arrival(p, names, 1, m, at) /\ m = 1
  <2>1. Arrival(p, names, 1, m, at) /\ (p[1] # ":object" => m = 1)
    BY <1>3, ArrivalIs
  <2> QED
    BY <1>3, <1>5, <2>1, Zenon
<1> HIDE DEF at, m
<1>7. at[2] = Sent(p, names, 2)[1]
  <2>1. Arrival(p, names, 1, 1, at)
    BY <1>6, Zenon
  <2> QED
    BY <1>4, <2>1, EachArrives
<1>8. Sent(p, names, 2) = Routing!Meant(p[2], names[2])
  BY <1>1, Zenon DEF Sent, Routing!Names
<1>9. at[1] = p[1]
  BY RequestReaches DEF at
<1> QED
  BY <1>1, <1>7, <1>8, <1>9, Zenon DEF at

\* A request that is sent is of a route, with names allowed there.
RoutesInv ==
  /\ DOMAIN wish = {"st", "given", "route", "names", "url", "at"}
  /\ wish.st \in {"sent", "arrived"} =>
       /\ wish.route \in Routing!Routes /\ Granted(wish.route.path, wish.names)
       /\ Respects(wish.route.path, wish.names, wish.given)
       /\ wish.url = Routing!Filled(wish.route.path, wish.names)
  /\ wish.st = "arrived" => wish.at = Routing!Received(wish.url)

LEMMA RoutesBegin ==
  ASSUME Routing!RoutesInit
  PROVE  RoutesInv
  BY DEF Routing!RoutesInit, Routing!NoWish, RoutesInv

\* What is given for a name is a name.
LEMMA ValuesAreNames ==
  /\ Values \subseteq Seq(Pieces) \ {<<>>}
  /\ \A v \in Values : Routing!Trimmed(v) \in Seq(Pieces) \ {<<>>}
<1>1. /\ Values \subseteq Seq(Pieces) \ {<<>>}
      /\ Trim \in [Pieces -> Pieces]
  BY NamesAssumption DEF Routing!NamesAre
<1>2. ASSUME NEW v \in Values PROVE Routing!Trimmed(v) \in Seq(Pieces) \ {<<>>}
  <2>1. v \in Seq(Pieces) /\ v # <<>>
    BY <1>1
  <2>2. CASE Len(v) = 1
    <3>1. v[1] \in Pieces
      BY <2>1, <2>2
    <3>2. Trim[v[1]] \in Pieces
      BY <1>1, <3>1, Zenon
    <3>3. <<Trim[v[1]]>> \in Seq(Pieces) /\ <<Trim[v[1]]>> # <<>>
      BY <3>2
    <3> QED
      BY <2>2, <3>3, Zenon DEF Routing!Trimmed
  <2>3. CASE Len(v) # 1
    BY <2>1, <2>3, Zenon DEF Routing!Trimmed
  <2> QED
    BY <2>2, <2>3
<1> QED
  BY <1>1, <1>2

\* To make a request of a route.
LEMMA WishesKeep ==
  ASSUME RoutesInv, NEW given, NEW route \in Routing!Routes, NEW names,
         \A i \in Routing!Names(route.path) : names[i] \in Seq(Pieces) \ {<<>>},
         Respects(route.path, names, given), wish.st = "idle",
         Routing!WishesFor(given, route, names)
  PROVE  RoutesInv'
<1> DEFINE w == [wish EXCEPT !.given = given, !.route = route, !.names = names]
<1>1. DOMAIN wish = {"st", "given", "route", "names", "url", "at"}
  BY Zenon DEF RoutesInv
<1>2. /\ w.given = given /\ w.route = route /\ w.names = names
      /\ DOMAIN w = {"st", "given", "route", "names", "url", "at"}
  BY <1>1
<1>3. wish' = IF \A i \in Routing!Names(route.path) : Routing!Allowed(route.path[i], names[i])
              THEN [w EXCEPT !.st = "sent", !.url = Routing!Filled(route.path, names)]
              ELSE [w EXCEPT !.st = "refused"]
  BY Zenon DEF Routing!WishesFor
<1> HIDE DEF w
<1>4. CASE \A i \in Routing!Names(route.path) : Routing!Allowed(route.path[i], names[i])
  <2>1. wish' = [w EXCEPT !.st = "sent", !.url = Routing!Filled(route.path, names)]
    BY <1>3, <1>4, Zenon
  <2>2. Granted(route.path, names)
    BY <1>4, Zenon DEF Granted
  <2>3. /\ wish'.st = "sent" /\ wish'.given = given /\ wish'.route = route
        /\ wish'.names = names /\ wish'.url = Routing!Filled(route.path, names)
        /\ DOMAIN wish' = {"st", "given", "route", "names", "url", "at"}
    BY <1>2, <2>1
  <2>4. "sent" # "arrived"
    OBVIOUS
  <2> QED
    BY <2>2, <2>3, <2>4, Zenon DEF RoutesInv
<1>5. CASE ~(\A i \in Routing!Names(route.path) : Routing!Allowed(route.path[i], names[i]))
  <2>1. wish' = [w EXCEPT !.st = "refused"]
    BY <1>3, <1>5, Zenon
  <2>2. wish'.st = "refused" /\ DOMAIN wish' = {"st", "given", "route", "names", "url", "at"}
    BY <1>2, <2>1
  <2>3. "refused" # "sent" /\ "refused" # "arrived"
    OBVIOUS
  <2> QED
    BY <2>2, <2>3 DEF RoutesInv
<1> QED
  BY <1>4, <1>5

\* To arrive changes nothing of a request but where it is.
LEMMA ArrivesKeeps ==
  ASSUME RoutesInv, Routing!Arrives
  PROVE  RoutesInv'
<1>1. wish.st = "sent" /\ wish' = [wish EXCEPT !.st = "arrived", !.at = Routing!Received(wish.url)]
  BY Zenon DEF Routing!Arrives
<1>2. DOMAIN wish = {"st", "given", "route", "names", "url", "at"}
  BY Zenon DEF RoutesInv
<1>3. /\ wish'.st = "arrived" /\ wish'.given = wish.given /\ wish'.route = wish.route
      /\ wish'.names = wish.names /\ wish'.url = wish.url
      /\ wish'.at = Routing!Received(wish.url)
      /\ DOMAIN wish' = {"st", "given", "route", "names", "url", "at"}
  BY <1>1, <1>2
<1>4. wish.st \in {"sent", "arrived"}
  BY <1>1
<1> QED
  BY <1>3, <1>4, Zenon DEF RoutesInv

\* The places of names in the paths that are made with a project.
LEMMA ProjectPaths ==
  /\ Routing!Names(Routing!Execution) = {2, 4}
  /\ LET p == Routing!Execution \o <<"messages">>
     IN Routing!Names(p) = {2, 4}
  /\ LET p == Routing!Project \o Routing!Execution \o <<"messages">>
     IN Routing!Names(p) = {2, 4, 6} /\ p[1] = "projects" /\ p[2] = ":durable"
  /\ LET p == Routing!hostedAuth.path
     IN Routing!Names(p) = {2} /\ p[1] = "projects" /\ p[2] = ":name"
<1>1. /\ "durable-functions" \notin Routing!Kinds /\ "executions" \notin Routing!Kinds
      /\ "messages" \notin Routing!Kinds /\ "projects" \notin Routing!Kinds
      /\ "auth" \notin Routing!Kinds /\ "hosted" \notin Routing!Kinds
      /\ ":durable" \in Routing!Kinds /\ ":name" \in Routing!Kinds
  BY DEF Routing!Kinds
<1> DEFINE p1 == Routing!Execution
           p2 == p1 \o <<"messages">>
           p3 == Routing!Project \o p1 \o <<"messages">>
           p4 == Routing!hostedAuth.path
<1>2. /\ DOMAIN p1 = 1..4 /\ p1[1] = "durable-functions" /\ p1[2] = ":durable"
      /\ p1[3] = "executions" /\ p1[4] = ":durable"
  BY DEF Routing!Execution, Routing!Executions
<1>3. /\ DOMAIN p2 = 1..5 /\ p2[1] = "durable-functions" /\ p2[2] = ":durable"
      /\ p2[3] = "executions" /\ p2[4] = ":durable" /\ p2[5] = "messages"
  BY DEF Routing!Execution, Routing!Executions
<1>4. /\ DOMAIN p3 = 1..7 /\ p3[1] = "projects" /\ p3[2] = ":durable"
      /\ p3[3] = "durable-functions" /\ p3[4] = ":durable"
      /\ p3[5] = "executions" /\ p3[6] = ":durable" /\ p3[7] = "messages"
  BY DEF Routing!Execution, Routing!Executions, Routing!Project
<1>5. /\ DOMAIN p4 = 1..4 /\ p4[1] = "projects" /\ p4[2] = ":name"
      /\ p4[3] = "auth" /\ p4[4] = "hosted"
  BY DEF Routing!hostedAuth, Routing!GET
<1> HIDE DEF p1, p2, p3, p4
<1>6. Routing!Names(p1) = {2, 4}
  BY <1>1, <1>2 DEF Routing!Names
<1>7. Routing!Names(p2) = {2, 4}
  BY <1>1, <1>3 DEF Routing!Names
<1>8. Routing!Names(p3) = {2, 4, 6}
  BY <1>1, <1>4 DEF Routing!Names
<1>9. Routing!Names(p4) = {2}
  BY <1>1, <1>5 DEF Routing!Names
<1> QED
  BY <1>4, <1>5, <1>6, <1>7, <1>8, <1>9 DEF p1, p2, p3, p4

\* The routes made with a project are routes.
LEMMA ProjectRoutes ==
  /\ {Routing!sendDurableMessageFromApplication, Routing!sendDurableMessage,
      Routing!listDurableMessagesFromApplication, Routing!listDurableMessages}
       \subseteq Routing!Routes
  /\ Routing!hostedAuth \in Routing!Routes
  /\ Routing!Called \subseteq Routing!Routes
  BY Zenon DEF Routing!Routes, Routing!DurableRoutes, Routing!AuthRoutes, Routing!Called

LEMMA MessagePaths ==
  /\ \A r \in {Routing!sendDurableMessageFromApplication,
               Routing!listDurableMessagesFromApplication} : Routing!Names(r.path) = {2, 4}
  /\ \A r \in {Routing!sendDurableMessage, Routing!listDurableMessages} :
       Routing!Names(r.path) = {2, 4, 6} /\ r.path[1] = "projects" /\ r.path[2] = ":durable"
<1> DEFINE p == Routing!Execution \o <<"messages">>
           q == Routing!Project \o Routing!Execution \o <<"messages">>
<1>1. /\ Routing!Names(p) = {2, 4} /\ Routing!Names(q) = {2, 4, 6}
      /\ q[1] = "projects" /\ q[2] = ":durable"
  BY ProjectPaths
<1>2. /\ Routing!sendDurableMessageFromApplication.path = p
      /\ Routing!listDurableMessagesFromApplication.path = p
  BY DEF p, Routing!sendDurableMessageFromApplication,
      Routing!listDurableMessagesFromApplication, Routing!GET, Routing!POST
<1>3. Routing!sendDurableMessage.path = q /\ Routing!listDurableMessages.path = q
  BY DEF q, Routing!sendDurableMessage, Routing!listDurableMessages, Routing!GET, Routing!POST
<1> HIDE DEF p, q
<1> QED
  BY <1>1, <1>2, <1>3

\* A message is sent for an execution of the project given, or of the application.
LEMMA AddressesKeep ==
  ASSUME RoutesInv, wish.st = "idle", NEW project \in Routing!Projects,
         NEW names \in [Routing!Names(Routing!Execution) -> Values],
         NEW send \in BOOLEAN, Routing!Addresses(project, names, send)
  PROVE  RoutesInv'
<1> DEFINE ofApplication == project = Routing!Undefined
           route == IF send
                    THEN IF ofApplication THEN Routing!sendDurableMessageFromApplication
                         ELSE Routing!sendDurableMessage
                    ELSE IF ofApplication THEN Routing!listDurableMessagesFromApplication
                         ELSE Routing!listDurableMessages
           own(i) == IF ofApplication THEN names[i] ELSE IF i = 2 THEN project ELSE names[i - 2]
           named == [i \in Routing!Names(route.path) |-> own(i)]
<1>1. Routing!WishesFor(project, route, named)
  BY Zenon DEF Routing!Addresses
<1>2. names[2] \in Values /\ names[4] \in Values
  BY ProjectPaths
<1>3. route \in Routing!Routes
  BY ProjectRoutes, Zenon
<1>4. CASE ofApplication
  <2>1. Routing!Names(route.path) = {2, 4}
    BY <1>4, MessagePaths, Zenon
  <2> HIDE DEF route
  <2>2. \A i \in Routing!Names(route.path) : named[i] \in Values
    BY <1>2, <1>4, <2>1
  <2>3. Respects(route.path, named, project)
    BY <1>4, Zenon DEF Respects
  <2> HIDE DEF named
  <2>4. \A i \in Routing!Names(route.path) : named[i] \in Seq(Pieces) \ {<<>>}
    BY <2>2, ValuesAreNames, Zenon
  <2> QED
    BY <1>1, <1>3, <2>3, <2>4, WishesKeep, Zenon
<1>5. CASE ~ofApplication
  <2>1. /\ Routing!Names(route.path) = {2, 4, 6}
        /\ route.path[1] = "projects" /\ route.path[2] = ":durable"
    BY <1>5, MessagePaths, Zenon
  <2>2. project \in Values
    BY <1>5, Zenon DEF Routing!Projects
  <2> HIDE DEF route
  <2>3. named[2] = project /\ named[4] = names[2] /\ named[6] = names[4]
    BY <1>5, <2>1
  <2> HIDE DEF named
  <2>4. \A i \in Routing!Names(route.path) : named[i] \in Values
    BY <1>2, <2>1, <2>2, <2>3
  <2>5. \A i \in Routing!Names(route.path) : named[i] \in Seq(Pieces) \ {<<>>}
    BY <2>4, ValuesAreNames, Zenon
  <2>6. Routing!Meant(":durable", named[2]) = Routing!Trimmed(project)
    BY <2>3, Zenon DEF Routing!Meant
  <2>7. 2 \in Routing!Names(route.path)
    BY <2>1
  <2>8. Respects(route.path, named, project)
    BY <2>1, <2>6, <2>7, Zenon DEF Respects
  <2> QED
    BY <1>1, <1>3, <2>5, <2>8, WishesKeep, Zenon
<1> QED
  BY <1>4, <1>5

\* Hosted sign-in is for the project given, or for the anon key's.
LEMMA HostsKeep ==
  ASSUME RoutesInv, wish.st = "idle", NEW project \in Routing!Projects, NEW claim \in Values,
         Routing!Hosts(project, claim)
  PROVE  RoutesInv'
<1> DEFINE path == Routing!hostedAuth.path
           v == Routing!HostedProject(project, claim)
           names == [i \in Routing!Names(path) |-> v]
<1>1. Routing!WishesFor(project, Routing!hostedAuth, names)
  BY Zenon DEF Routing!Hosts
<1>2. Routing!Names(path) = {2} /\ path[1] = "projects" /\ path[2] = ":name"
  BY ProjectPaths
<1>3. v \in Seq(Pieces) \ {<<>>}
  BY ValuesAreNames, Zenon DEF Routing!HostedProject, Routing!Claimed, Routing!Projects
<1>4. project # Routing!Undefined /\ Routing!Trimmed(project) # <<"">> =>
        v = Routing!Trimmed(project)
  BY Zenon DEF Routing!HostedProject
<1> HIDE DEF path, v
<1>5. names[2] = v
  BY <1>2
<1>6. \A i \in Routing!Names(path) : names[i] = v
  OBVIOUS
<1> HIDE DEF names
<1>7. Routing!Meant(path[2], names[2]) = v
  <2>1. ":name" \notin {":durable", ":label"} /\ ":name" # ":object"
    OBVIOUS
  <2> QED
    BY <1>2, <1>5, <2>1, Zenon DEF Routing!Meant
<1>8. 2 \in Routing!Names(path)
  BY <1>2
<1>9. Respects(path, names, project)
  BY <1>2, <1>4, <1>7, <1>8, Zenon DEF Respects
<1> QED
  BY <1>1, <1>3, <1>6, <1>9, ProjectRoutes, WishesKeep, Zenon DEF path

\* Any other request names its project itself, if it has one.
LEMMA WishOfRoute ==
  ASSUME RoutesInv, wish.st = "idle", NEW route \in Routing!Called,
         NEW names \in [Routing!Names(route.path) -> Values], Routing!Wishes(route, names)
  PROVE  RoutesInv'
<1>1. \A i \in Routing!Names(route.path) : names[i] \in Seq(Pieces) \ {<<>>}
  BY ValuesAreNames
<1>2. Respects(route.path, names, Routing!Undefined)
  BY Zenon DEF Respects
<1>3. Routing!WishesFor(Routing!Undefined, route, names)
  BY Zenon DEF Routing!Wishes
<1> QED
  BY <1>1, <1>2, <1>3, ProjectRoutes, WishesKeep, Zenon

\* A step of a request.
LEMMA RoutesNext ==
  ASSUME RoutesInv, Routing!RoutesStep \/ UNCHANGED wish
  PROVE  RoutesInv'
<1>1. CASE UNCHANGED wish
  BY <1>1, Zenon DEF RoutesInv
<1>2. CASE wish.st = "idle" /\ \E route \in Routing!Called :
         \E names \in [Routing!Names(route.path) -> Values] : Routing!Wishes(route, names)
  BY <1>2, WishOfRoute, Zenon
<1>3. CASE wish.st = "idle" /\ \E project \in Routing!Projects,
         names \in [Routing!Names(Routing!Execution) -> Values], send \in BOOLEAN :
           Routing!Addresses(project, names, send)
  BY <1>3, AddressesKeep, Zenon
<1>4. CASE wish.st = "idle" /\ \E project \in Routing!Projects, claim \in Values :
         Routing!Hosts(project, claim)
  BY <1>4, HostsKeep, Zenon
<1>5. CASE Routing!Arrives
  BY <1>5, ArrivesKeeps
<1> QED
  BY <1>1, <1>2, <1>3, <1>4, <1>5, Zenon DEF Routing!RoutesStep

\* The invariant is enough: a request arrives at the route it was made for.
LEMMA RoutesImply == ASSUME RoutesInv PROVE Routing!ReachesItsRoute
<1> SUFFICES ASSUME wish.st = "arrived" PROVE Routing!ReachesItsRoute
  BY Zenon DEF Routing!ReachesItsRoute
<1> DEFINE own == wish.route
           names == wish.names
           at == Routing!Received(Routing!Filled(own.path, names))
<1>1. /\ own \in Routing!Routes /\ Granted(own.path, names)
      /\ Respects(own.path, names, wish.given) /\ wish.at = at
  BY DEF RoutesInv
<1>2. /\ wish.at = Routing!FlattenSeq(Routing!Filled(own.path, names))
      /\ Routing!Serves(own.method, wish.at) # {}
      /\ \A shape \in Routing!Serves(own.method, wish.at) :
           shape = Routing!Shape(own) \/ Excused(own.path, names, shape)
  BY <1>1, RequestReaches, Zenon
<1>3. wish.given # Routing!Undefined =>
        /\ wish.at[1] = "projects"
        /\ Routing!Trimmed(wish.given) # <<"">> =>
             wish.at[2] = Routing!Trimmed(wish.given)[1]
  <2> SUFFICES ASSUME wish.given # Routing!Undefined
               PROVE  /\ wish.at[1] = "projects"
                      /\ Routing!Trimmed(wish.given) # <<"">> =>
                           wish.at[2] = Routing!Trimmed(wish.given)[1]
    OBVIOUS
  <2>1. /\ at[1] = "projects"
        /\ Routing!Trimmed(wish.given) # <<"">> => at[2] = Routing!Trimmed(wish.given)[1]
    BY <1>1, ProjectArrives
  <2> HIDE DEF at
  <2> QED
    BY <1>1, <2>1
<1> QED
  BY <1>2, <1>3, Zenon DEF Routing!ReachesItsRoute, Excused

-----------------------------------------------------------------------------
\* All parts together.

\* A part that is not the behaviour's own has what it began with; so no invocation
\* shares anything while other calls of the API use the session.
AtRest == (\A c \in Calls : call[c] = NoCall) /\ (\A k \in Contexts : inFlight[k] = Nobody)

FunctionsOK ==
  /\ IInv
  /\ part = "functions" => SInv
  /\ part # "functions" => AtRest

PartsInv ==
  /\ FunctionsOK /\ ApiInv /\ SandboxInv /\ FetchInv
  /\ ChannelsInv /\ ToldInv /\ RedirectInv /\ ShapesInv /\ RoutesInv

LEMMA PartsBegin == PartsInit => PartsInv
<1> SUFFICES ASSUME PartsInit PROVE PartsInv
  OBVIOUS
<1>1. Init /\ Api!ApiInit /\ Sandbox!SandboxInit /\ Fetch!FetchInit
  BY DEF PartsInit
<1>2. Redirect!RedirectInit /\ Shapes!CompleteInit /\ Channels!EventsInit
  BY DEF PartsInit
<1>3. AtRest
  BY <1>1 DEF Init, AtRest
<1>4. IInv /\ SInv
  BY <1>1, InitOK, SharesInit
<1>5. ApiInv /\ SandboxInv /\ FetchInv
  BY <1>1, ApiBegins, SandboxBegins, FetchBegins
<1>6. RedirectInv /\ ShapesInv /\ ChannelsInv /\ ToldInv
  BY <1>2, RedirectBegins, ShapesBegin, ChannelsBegin, ToldBegins
<1>7. RoutesInv
  <2>1. Routing!RoutesInit
    BY DEF PartsInit
  <2> QED
    BY <2>1, RoutesBegin
<1> QED
  BY <1>3, <1>4, <1>5, <1>6, <1>7 DEF PartsInv, FunctionsOK

\* The invocations, in their own part and in every other.
LEMMA FunctionsNext ==
  ASSUME FunctionsOK, UNCHANGED part,
         IF part = "functions" THEN [Next]_vars ELSE UNCHANGED ofFunctions
  PROVE  FunctionsOK'
<1>1. CASE part = "functions"
  <2>1. IInv /\ SInv /\ [Next]_vars
    BY <1>1 DEF FunctionsOK
  <2>2. IInv' /\ SInv'
    BY <2>1, NextOK, NextShares
  <2> QED
    BY <1>1, <2>2 DEF FunctionsOK
<1>2. CASE part # "functions"
  <2>1. IInv /\ AtRest /\ UNCHANGED <<call, ran, used>> /\ UNCHANGED inFlight
    BY <1>2 DEF FunctionsOK, ofFunctions, shared
  <2>2. IInv'
    BY <2>1, QuietOK
  <2>3. AtRest'
    BY <2>1 DEF AtRest
  <2> QED
    BY <1>2, <2>2, <2>3 DEF FunctionsOK
<1> QED
  BY <1>1, <1>2

\* Only in their own part do the invocations move.
LEMMA PartsMove ==
  ASSUME [PartsNext]_all
  PROVE  UNCHANGED part /\ IF part = "functions" THEN [Next]_vars ELSE UNCHANGED ofFunctions
BY DEF PartsNext, all, vars, ofSession, ofFunctions, ofCalls, OfFunctions, OfApi, OfSandbox,
   OfFetch, OfRoutes, OfChannels, OfRedirect, OfShapes

\* One part takes the step, and the others do not see it.
LEMMA PartsStep == ASSUME PartsInv, [PartsNext]_all PROVE PartsInv'
<1>1. UNCHANGED part /\ IF part = "functions" THEN [Next]_vars ELSE UNCHANGED ofFunctions
  BY PartsMove
<1>2. Api!ApiStep \/ UNCHANGED ofApi
  BY DEF PartsNext, all, ofCalls, OfFunctions, OfApi, OfSandbox, OfFetch, OfRoutes, OfChannels,
       OfRedirect, OfShapes
<1>3. [Sandbox!SandboxStep]_ofSandbox
  BY DEF PartsNext, all, ofCalls, OfFunctions, OfApi, OfSandbox, OfFetch, OfRoutes, OfChannels,
       OfRedirect, OfShapes
<1>4. [Fetch!FetchStep]_ofFetch
  BY DEF PartsNext, all, ofCalls, OfFunctions, OfApi, OfSandbox, OfFetch, OfRoutes, OfChannels,
       OfRedirect, OfShapes
<1>5. Channels!EventsStep \/ UNCHANGED ofChannels
  BY DEF PartsNext, all, OfFunctions, OfApi, OfSandbox, OfFetch, OfRoutes, OfChannels,
       OfRedirect, OfShapes
<1>6. [Redirect!RedirectStep]_ofRedirect
  BY DEF PartsNext, all, ofSignIn, OfFunctions, OfApi, OfSandbox, OfFetch, OfRoutes, OfChannels,
       OfRedirect, OfShapes
<1>7. [Shapes!CompleteStep]_ofShapes
  BY DEF PartsNext, all, ofSignIn, OfFunctions, OfApi, OfSandbox, OfFetch, OfRoutes, OfChannels,
       OfRedirect, OfShapes
<1>8. FunctionsOK'
  BY <1>1, FunctionsNext DEF PartsInv
<1>9. ApiInv'
  <2>1. ApiInv
    BY DEF PartsInv
  <2>2. UNCHANGED ofApi => UNCHANGED <<job, reqs, upload>>
    BY DEF ofApi
  <2> QED
    BY <1>2, <2>1, <2>2, ApiNext, ApiQuiet
<1>10. SandboxInv' /\ FetchInv'
  BY <1>3, <1>4, SandboxNext, FetchNext DEF PartsInv
<1>11. RedirectInv' /\ ShapesInv'
  BY <1>6, <1>7, RedirectNext, ShapesNext DEF PartsInv
<1>12. ChannelsInv' /\ ToldInv'
  <2>1. ChannelsInv /\ ToldInv
    BY DEF PartsInv
  <2>2. UNCHANGED ofChannels => /\ UNCHANGED <<open, opened, closed>>
                                /\ UNCHANGED <<opened, registered, telling, sure, heard>>
    BY DEF ofChannels
  <2> QED
    BY <1>5, <2>1, <2>2, ChannelsNext, ChannelsQuiet, ToldNext, ToldQuiet
<1>13. RoutesInv'
  <2>1. RoutesInv
    BY DEF PartsInv
  <2>2. Routing!RoutesStep \/ UNCHANGED wish
    BY DEF PartsNext, all, ofCalls, OfFunctions, OfApi, OfSandbox, OfFetch, OfRoutes, OfChannels,
         OfRedirect, OfShapes
  <2> QED
    BY <2>1, <2>2, RoutesNext
<1> QED
  BY <1>8, <1>9, <1>10, <1>11, <1>12, <1>13 DEF PartsInv

\* The invariants of the parts hold in every behaviour of them.
THEOREM PartsInvariance == PartsSpec => []PartsInv
<1> QED
  BY PartsBegin, PartsStep, PTL DEF PartsSpec

-----------------------------------------------------------------------------
\* The properties.

\* No retry of a request, no refresh and no new session makes a call's requests those
\* of two: of an invocation, or of any other call of the API.
THEOREM RequestsAreOfOneSession == PartsSpec => []SameSession
<1>1. PartsInv => SameSession
  BY OneIs, ApiImplies DEF PartsInv, FunctionsOK, SameSession
<1> QED
  BY <1>1, PartsInvariance, PTL

\* A shared request has an owner who waits for it, no step takes it away but its owner's
\* or that of a call told to forget it, and no call uses again what it was told is gone.
THEOREM AnswersAreShared == PartsSpec => SharedAsMeant
<1>1. SInv => NothingLeaks /\ FreshAfterClear
  <2>1. SInv => NothingLeaks
    BY DEF SInv, SharedOK, NothingLeaks
  <2>2. SInv => FreshAfterClear
    BY DEF SInv, Fine, RoundOK, HasId, FreshAfterClear
  <2> QED
    BY <2>1, <2>2
<1>2. AtRest => NothingLeaks /\ FreshAfterClear
  BY DEF AtRest, NoCall, NothingLeaks, FreshAfterClear
<1>3. PartsInv => NothingLeaks /\ FreshAfterClear
  BY <1>1, <1>2 DEF PartsInv, FunctionsOK
<1>4. PartsInv /\ [PartsNext]_all => [TakesNone]_vars
  <2> SUFFICES ASSUME PartsInv, [PartsNext]_all PROVE TakesNone
    OBVIOUS
  <2>1. IF part = "functions" THEN [Next]_vars ELSE UNCHANGED ofFunctions
    BY PartsMove
  <2>2. CASE part = "functions"
    BY <2>1, <2>2, NextTakesNone DEF PartsInv, FunctionsOK
  <2>3. CASE part # "functions"
    <3>1. inFlight' = inFlight
      BY <2>1, <2>3 DEF ofFunctions, shared
    <3> QED
      BY <3>1 DEF TakesNone
  <2> QED
    BY <2>2, <2>3
<1>5. PartsSpec => [](NothingLeaks /\ FreshAfterClear)
  BY <1>3, PartsInvariance, PTL
<1>6. PartsSpec => NothingTaken
  BY <1>4, PartsInvariance, PTL DEF PartsSpec, NothingTaken
<1> QED
  BY <1>5, <1>6 DEF SharedAsMeant

\* What is told of a request was done, and once; remove asks for the paths that were
\* checked; and a completed upload is the whole file, whatever size of parts the server
\* chose.
THEOREM RequestsPerformedAsTold == PartsSpec => []PerformedAsTold
<1>1. IInv => InvokedAsTold
  BY DEF IInv, CallOK, RanOnce, InvokedAsTold, Denials
<1>2. PartsInv => PerformedAsTold
  BY <1>1, ApiImplies DEF PartsInv, FunctionsOK, PerformedAsTold
<1> QED
  BY <1>2, PartsInvariance, PTL

\* An invocation runs its function once at most, beside whatever other calls do.
THEOREM InvocationsRunOnce == PartsSpec => []RunsOnce
<1>1. PartsInv => RunsOnce
  BY DEF PartsInv, FunctionsOK, IInv, CallOK, RanOnce, RunsOnce
<1> QED
  BY <1>1, PartsInvariance, PTL

\* After a dispose that was answered the session has ended, or is ending.
THEOREM DisposedSessionsEnd == PartsSpec => []DisposedIsEnding
<1>1. PartsInv => DisposedIsEnding
  BY SandboxImplies DEF PartsInv, DisposedIsEnding
<1> QED
  BY <1>1, PartsInvariance, PTL

\* A request that was aborted tells whether its timer did it or its caller, for as long
\* as they reach it: up to the end of a body that is read within fetchWithTimeout, and up
\* to the head of any other answer.
THEOREM RequestsTellWhy == PartsSpec => []TellsWhy
<1>1. PartsInv => TellsWhy
  BY FetchImplies DEF PartsInv, TellsWhy
<1> QED
  BY <1>1, PartsInvariance, PTL

\* A callback is accepted once and of the flow last started; what is stored is what the
\* client holds; and what it says of its session another client takes, unless it was
\* given a blank token that no answer has replaced.
THEOREM SignInIsHeld == PartsSpec => []SignInHolds
<1>1. PartsInv => SignInHolds
  BY RedirectImplies, ShapesImply DEF PartsInv, SignInHolds
<1> QED
  BY <1>1, PartsInvariance, PTL

\* A handler that was registered when an event came, and still is, hears it as often as
\* it is due, whoever comes and goes meanwhile; and a channel that nobody closed is the
\* one its name finds.
THEOREM HandlersHearOnce == PartsSpec => []ToldOnce
<1>1. PartsInv => ToldOnce
  BY ToldImplies, ChannelsImply DEF PartsInv, ToldOnce
<1> QED
  BY <1>1, PartsInvariance, PTL

\* A request arrives at its own route, with the project it was given, whatever names the
\* caller gave and however many parts a path of an object has; only a name that is a
\* word of another route leads there.
THEOREM RequestsReachTheirRoutes == PartsSpec => []ReachesItsRoute
<1>1. PartsInv => ReachesItsRoute
  <2>1. RoutesInv => Routing!ReachesItsRoute
    BY RoutesImply
  <2> QED
    BY <2>1, Zenon DEF PartsInv, ReachesItsRoute
<1> QED
  BY <1>1, PartsInvariance, PTL
================================================================================
