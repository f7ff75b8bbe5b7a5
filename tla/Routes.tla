--------------------------------- MODULE Routes ---------------------------------
(***************************************************************************)
(* Where the requests of the client go.  A path is made of words and of    *)
(* names the caller gives.  Each name is checked and encoded; then the URL *)
(* parser takes dot segments out of the path, and the platform routes on   *)
(* what it decodes, where an encoded slash separates again.                *)
(*                                                                         *)
(* A name is the sequence of its pieces between slashes.                   *)
(***************************************************************************)
EXTENDS Naturals, SequencesExt

CONSTANTS
  Pieces,   \* what there may be between slashes
  Values,   \* the names that are given
  Trim,     \* what trim leaves of such a piece
  Plains,   \* what may be a lock's key, a provider or a function's label
  Uuids     \* what may be an identifier of the platform's own

\* The keys and labels have neither dots alone nor slashes.
NamesAre ==
  /\ Values \subseteq Seq(Pieces) \ {<<>>} /\ "" \in Pieces
  /\ Trim \in [Pieces -> Pieces] /\ Trim[""] = ""
  /\ Plains \subseteq Pieces \ {"", ".", ".."} /\ Uuids \subseteq Plains

VARIABLE wish \* one request: its route, its names, its URL, the path it arrives at; and
              \* the project that was given for it, where it may be left out

-----------------------------------------------------------------------------
\* The routes.  What is checked of a name stands for the name.
Kinds == {":uuid", ":durable", ":name", ":object", ":key", ":provider", ":label", ":claim"}

GET(path) == [method |-> "GET", path |-> path]
POST(path) == [method |-> "POST", path |-> path]
PUT(path) == [method |-> "PUT", path |-> path]
PATCH(path) == [method |-> "PATCH", path |-> path]
DELETE(path) == [method |-> "DELETE", path |-> path]

listSandboxPresets == GET(<<"sandboxes", "presets">>)
Templates == <<"projects", ":uuid", "sandboxes">>
Template == Templates \o <<":uuid">>
listSandboxes == GET(Templates)
createSandbox == POST(Templates)
getSandbox == GET(Template)
deleteSandbox == DELETE(Template)
deploySandbox == POST(Template \o <<"deployments">>)
listSandboxDeployments == GET(Template \o <<"deployments">>)
getSandboxDeployment == GET(Template \o <<"deployments", ":uuid">>)
getSandboxDeploymentLogs == GET(Template \o <<"deployments", ":uuid", "logs">>)
getSandboxDeploymentSource == GET(Template \o <<"deployments", ":uuid", "source">>)
listSandboxSessions == GET(<<"projects", ":uuid", "sandbox-sessions">>)
createSandboxSession == POST(<<"projects", ":uuid", "sandbox-sessions">>)
executeSandbox == POST(<<"projects", ":uuid", "sandbox-executions">>)

Session == <<"sandbox-sessions", ":uuid">>
getSandboxSession == GET(Session)
terminateSandboxSession == DELETE(Session)
suspendSandboxSession == POST(Session \o <<"suspend">>)
resumeSandboxSession == POST(Session \o <<"resume">>)
executeSandboxSession == POST(Session \o <<"exec">>)
readSandboxSessionFile == POST(Session \o <<"files", "read">>)
writeSandboxSessionFile == POST(Session \o <<"files", "write">>)
grantSandboxSession == PUT(Session \o <<"grants", ":uuid">>)
revokeSandboxSession == DELETE(Session \o <<"grants", ":uuid">>)
createSandboxSessionAccess == POST(Session \o <<"access">>)

Executions == <<"durable-functions", ":durable", "executions">>
Execution == Executions \o <<":durable">>
Project == <<"projects", ":durable">>
startDurableExecutionFromApplication == POST(Executions)
getDurableExecutionFromApplication == GET(Execution)
stopDurableExecutionFromApplication == POST(Execution \o <<"stop">>)
sendDurableMessageFromApplication == POST(Execution \o <<"messages">>)
listDurableMessagesFromApplication == GET(Execution \o <<"messages">>)
listDurableExecutions == GET(Project \o Executions)
getDurableExecution == GET(Project \o Execution)
stopDurableExecution == POST(Project \o Execution \o <<"stop">>)
sendDurableMessage == POST(Project \o Execution \o <<"messages">>)
listDurableMessages == GET(Project \o Execution \o <<"messages">>)

Approvals == Project \o <<"durable-approvals">>
listDurableApprovals == GET(Approvals)
getDurableApprovalStats == GET(Approvals \o <<"stats">>)
getDurableApproval == GET(Approvals \o <<":durable">>)
approveDurableApproval == POST(Approvals \o <<":durable", "approve">>)
denyDurableApproval == POST(Approvals \o <<":durable", "deny">>)

queryDatabaseSelect == POST(<<"databases", ":name", "query", "select">>)
queryDatabase(operation) == POST(<<"databases", ":name", "query", operation>>)

acquireProjectLock == POST(<<"locks", ":key", "lease">>)
releaseProjectLock == DELETE(<<"locks", ":key", "lease">>)
renewLock == PATCH(<<"locks", ":key", "lease">>)
getLock == GET(<<"locks", ":key">>)
forceRelease == DELETE(<<"locks", ":key">>)

uploadStorageObject == POST(<<"storage", ":name", ":object">>)
downloadStorageObject == GET(<<"storage", ":name", ":object">>)
listStorage == GET(<<"storage", ":name">>)
transferStorage(operation) == POST(<<"storage", ":name", operation>>)
deletePath == DELETE(<<"storage", ":name", ":object">>)
updateVisibility == PATCH(<<"storage", ":name", ":object", "visibility">>)
uploadPart == PUT(<<"storage", ":name", ":object">>)
storagePublicUrl == GET(<<"public", ":name", ":name", ":object">>)

resolveFunction == GET(<<"functions", "resolve">>)
invokeFunction == POST(<<"functions", ":label", "invoke">>)
projectLogs(endpoint) == POST(<<"projects", ":name", "logs", endpoint>>)

authSignin == POST(<<"auth", "signin">>)
signUp == POST(<<"auth", "signup">>)
signInAnonymously == POST(<<"auth", "signup-anonymous">>)
signOut == POST(<<"auth", "logout">>)
refreshSession == POST(<<"auth", "refresh">>)
messages == {POST(<<"auth", word>>) : word \in
  {"confirm", "resend-confirmation", "forgot-password", "reset-password"}}
convertAnonymous == POST(<<"auth", "user", "convert-anonymous">>)
requestEmailChange == POST(<<"auth", "user", "change-email">>)
confirmEmailChange == POST(<<"auth", "user", "confirm-email-change">>)
cancelEmailChange == DELETE(<<"auth", "user", "cancel-email-change">>)
oauthExchange == POST(<<"auth", "oauth", "exchange">>)
user == GET(<<"auth", "user">>)
updateUser == PUT(<<"auth", "user">>)
userSessions == GET(<<"auth", "user", "sessions">>)
deleteSession == DELETE(<<"auth", "user", "sessions", ":name">>)
revokeAccessSession == DELETE(<<"auth", "user", "sessions", ":claim">>)
deleteAllOtherSessions == DELETE(<<"auth", "user", "sessions">>)
authorize == GET(<<"auth", "oauth", ":provider", "authorize">>)
linkedProviders == GET(<<"auth", "oauth", "providers">>)
linkProvider == POST(<<"auth", "oauth", ":provider", "link">>)
unlinkProvider == DELETE(<<"auth", "oauth", ":provider", "unlink">>)
providerToken == GET(<<"auth", "oauth", ":provider", "token">>)
refreshProviderToken == POST(<<"auth", "oauth", ":provider", "refresh-token">>)
callProvider == POST(<<"auth", "oauth", ":provider", "call-api">>)
hostedAuth == GET(<<"projects", ":name", "auth", "hosted">>)

\* What a durable execution tells the platform, of itself.
platformPosts == {POST(path) : path \in
  {<<"durable-messages", "waits">>, <<"durable-messages", "sessions">>,
   <<"durable-messages", "publish">>, <<"durable-callbacks">>, <<"durable-approvals">>}}

SandboxRoutes ==
  {listSandboxPresets, listSandboxes, createSandbox, getSandbox, deleteSandbox, deploySandbox,
   listSandboxDeployments, getSandboxDeployment, getSandboxDeploymentLogs,
   getSandboxDeploymentSource, listSandboxSessions, createSandboxSession, executeSandbox,
   getSandboxSession, terminateSandboxSession, suspendSandboxSession, resumeSandboxSession,
   executeSandboxSession, readSandboxSessionFile, writeSandboxSessionFile,
   grantSandboxSession, revokeSandboxSession, createSandboxSessionAccess}

DurableRoutes ==
  {startDurableExecutionFromApplication, getDurableExecutionFromApplication,
   stopDurableExecutionFromApplication, sendDurableMessageFromApplication,
   listDurableMessagesFromApplication, listDurableExecutions, getDurableExecution,
   stopDurableExecution, sendDurableMessage, listDurableMessages, listDurableApprovals,
   getDurableApprovalStats, getDurableApproval, approveDurableApproval, denyDurableApproval}
  \cup platformPosts

DataRoutes ==
  {queryDatabaseSelect, acquireProjectLock, releaseProjectLock, renewLock, getLock,
   forceRelease, resolveFunction, invokeFunction}
  \cup {queryDatabase(o) : o \in {"insert", "update", "delete"}}
  \cup {projectLogs(e) : e \in {"search", "activity"}}

StorageRoutes ==
  {uploadStorageObject, downloadStorageObject, listStorage, deletePath, updateVisibility,
   uploadPart, storagePublicUrl}
  \cup {transferStorage(o) : o \in {"move", "copy"}}

AuthRoutes ==
  {authSignin, signUp, signInAnonymously, signOut, refreshSession, convertAnonymous,
   requestEmailChange, confirmEmailChange, cancelEmailChange, oauthExchange, user, updateUser,
   userSessions, deleteSession, revokeAccessSession, deleteAllOtherSessions, authorize,
   linkedProviders, linkProvider, unlinkProvider, providerToken, refreshProviderToken,
   callProvider, hostedAuth}
  \cup messages

Routes == SandboxRoutes \cup DurableRoutes \cup DataRoutes \cup StorageRoutes \cup AuthRoutes

\* Four that nobody calls are there to be reached; where messages and hosted
\* sign-in go depends on the project.
Called == Routes \ {listSandboxes, createSandbox, getSandbox, listSandboxSessions,
  sendDurableMessage, sendDurableMessageFromApplication, listDurableMessages,
  listDurableMessagesFromApplication, hostedAuth}

\* The places of a path where there is a name.
Names(path) == {i \in DOMAIN path : path[i] \in Kinds}

-----------------------------------------------------------------------------
\* What a caller gives for a name, as it is split at slashes.
Undefined == <<>>

Dots == {".", ".."}

\* trim, of a name that has no slash: with one it is refused wherever it is trimmed.
Trimmed(v) == IF Len(v) = 1 THEN <<Trim[v[1]]>> ELSE v

\* isUnsafeName
UnsafeName(v) == Len(v) # 1 \/ v[1] \in Dots

\* pathSegment
PathSegment(v) == Trimmed(v) # <<"">> /\ ~UnsafeName(v)

\* hasUnsafeSegment
UnsafeSegment(v) == \E i \in DOMAIN v : v[i] \in Dots \cup {""}

BucketRelative(v) == IF v[1] = "" /\ Len(v) > 1 THEN Tail(v) ELSE v

\* What a lock's key, a provider and a function's label have to match.
Plain(v) == Len(v) = 1 /\ v[1] \in Plains

\* The platform's own identifiers, and the session's in a token: normalizedSessionId.
Uuid(v) == Len(v) = 1 /\ v[1] \in Uuids

\* Mutant: an identifier is checked as it was given, and then trimmed.
MutIdentifier(v) == v

\* durablePathSegments: what is checked, and sent.
Identifier(v) == Trimmed(v)

\* The name that is meant, and sent.
Meant(kind, v) ==
  IF kind \in {":durable", ":label"} THEN Trimmed(v)
  ELSE IF kind = ":object" THEN BucketRelative(v) ELSE v

Allowed(kind, v) ==
  CASE kind = ":durable" -> PathSegment(Identifier(v))
    [] kind = ":name" -> PathSegment(v)
    [] kind = ":object" -> ~UnsafeSegment(BucketRelative(v))
    [] kind = ":label" -> Plain(Trimmed(v))
    [] kind \in {":key", ":provider"} -> Plain(v)
    [] OTHER -> Uuid(v)

\* The URL: a sequence of segments, of which an encoded name is one whatever it
\* has inside; only the path of an object stays as many as it has.
Segments(kind, v) ==
  IF kind = ":object" THEN [i \in DOMAIN v |-> <<v[i]>>] ELSE <<v>>

Filled(path, names) ==
  FlattenSeq([i \in DOMAIN path |->
    IF path[i] \in Kinds THEN Segments(path[i], Meant(path[i], names[i]))
    ELSE <<<<path[i]>>>>])

\* The URL parser: "." is nothing, ".." takes away what is before it, and either
\* of them at the end leaves an empty segment.
Parsed(url) ==
  LET upTo[i \in 0..Len(url)] ==
        IF i = 0 THEN <<>>
        ELSE LET before == upTo[i - 1]
                 kept == IF url[i] = <<"..">> /\ before # <<>> THEN Front(before) ELSE before
             IN IF url[i] \notin {<<".">>, <<"..">>} THEN Append(before, url[i])
                ELSE IF i = Len(url) THEN Append(kept, <<"">>) ELSE kept
  IN upTo[Len(url)]

\* The platform decodes, and empty parts are as good as none.
Received(url) ==
  LET parts == FlattenSeq(Parsed(url))
  IN FlattenSeq([i \in DOMAIN parts |-> IF parts[i] = "" THEN <<>> ELSE <<parts[i]>>])

-----------------------------------------------------------------------------
NoWish ==
  [st |-> "idle", given |-> Undefined, route |-> listSandboxPresets, names |-> <<>>,
   url |-> <<>>, at |-> <<>>]

RoutesInit == wish = NoWish

WishesFor(project, route, names) ==
  LET w == [wish EXCEPT !.given = project, !.route = route, !.names = names]
  IN wish' = IF \A i \in Names(route.path) : Allowed(route.path[i], names[i])
             THEN [w EXCEPT !.st = "sent", !.url = Filled(route.path, names)]
             ELSE [w EXCEPT !.st = "refused"]

Wishes(route, names) == WishesFor(Undefined, route, names)

Arrives ==
  /\ wish.st = "sent"
  /\ wish' = [wish EXCEPT !.st = "arrived", !.at = Received(wish.url)]

\* sendTo and listTarget: a message is for an execution of the project that was
\* given, or else of the application.
Addresses(project, names, send) ==
  LET ofApplication == project = Undefined
      route == IF send
               THEN IF ofApplication THEN sendDurableMessageFromApplication ELSE sendDurableMessage
               ELSE IF ofApplication THEN listDurableMessagesFromApplication ELSE listDurableMessages
      own(i) == IF ofApplication THEN names[i] ELSE IF i = 2 THEN project ELSE names[i - 2]
  IN WishesFor(project, route, [i \in Names(route.path) |-> own(i)])

\* The project in the anon key: extractRequiredProjectIdFromToken.
Claimed(claim) == Trimmed(claim)

\* resolveProjectIdForHostedAuth: a project that is blank is as good as none.
HostedProject(project, claim) ==
  IF project = Undefined \/ Trimmed(project) = <<"">> THEN Claimed(claim) ELSE Trimmed(project)

Hosts(project, claim) ==
  WishesFor(project, hostedAuth, [i \in Names(hostedAuth.path) |-> HostedProject(project, claim)])

Projects == Values \cup {Undefined}

RoutesStep ==
  \/ /\ wish.st = "idle"
     /\ \/ \E route \in Called : \E names \in [Names(route.path) -> Values] : Wishes(route, names)
        \/ \E project \in Projects, names \in [Names(Execution) -> Values], send \in BOOLEAN :
             Addresses(project, names, send)
        \/ \E project \in Projects, claim \in Values : Hosts(project, claim)
  \/ Arrives
  \/ wish.st \in {"refused", "arrived"} /\ UNCHANGED wish

-----------------------------------------------------------------------------
\* The routes a path may be taken for: of those that match, the ones with words
\* where no other has more of them.
Spread(path, n) ==
  LET o == {i \in DOMAIN path : path[i] = ":object"}
  IN IF o = {} \/ n < Len(path) THEN path
     ELSE LET k == CHOOSE i \in o : TRUE
          IN SubSeq(path, 1, k - 1) \o [i \in 1..(n - Len(path) + 1) |-> ":object"]
             \o SubSeq(path, k + 1, Len(path))

Words(path) == {i \in DOMAIN path : path[i] \notin Kinds}

Fits(path, at) == Len(path) = Len(at) /\ \A i \in Words(path) : path[i] = at[i]

Matches(method, at) ==
  {r \in Routes : /\ r.method = method /\ r.path[1] = at[1]
                  /\ Len(r.path) <= Len(at) /\ Fits(Spread(r.path, Len(at)), at)}

Shape(r) == [i \in DOMAIN r.path |-> IF r.path[i] \in Kinds THEN "*" ELSE r.path[i]]

Serves(method, at) ==
  LET matching == Matches(method, at)
      words(r) == Words(Spread(r.path, Len(at)))
      best == {r \in matching :
                 \A s \in matching : words(r) \subseteq words(s) => words(s) \subseteq words(r)}
  IN {Shape(r) : r \in best}

\* A request arrives at its own route, each name where it belongs, whatever the
\* caller gave for them: of the project he named, though he may leave it out. Only
\* a name that is itself a word of another route, where that has it, leads there:
\* an approval "stats", an object "move".
ReachesItsRoute ==
  wish.st = "arrived" =>
    LET own == Shape(wish.route)
        path == wish.route.path
        served == Serves(wish.route.method, wish.at)
    IN /\ wish.given # Undefined => wish.at[1] = "projects"
       /\ wish.given # Undefined /\ Trimmed(wish.given) # <<"">> =>
            wish.at[2] = Trimmed(wish.given)[1]
       /\ wish.at = FlattenSeq(Filled(path, wish.names))
       /\ served # {}
       /\ \A shape \in served : shape = own \/
            \E i \in Names(path) : /\ i \in DOMAIN shape /\ shape[i] # "*"
                                   /\ Meant(path[i], wish.names[i]) = <<shape[i]>>
===============================================================================
