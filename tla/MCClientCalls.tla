----------------------------- MODULE MCClientCalls -----------------------------
(* Parts of a client's calls, one of them in each behaviour: invocations of   *)
(* functions, the other calls of the API with the client's session, the       *)
(* handle of a sandbox session, one request with its timer, the route of a    *)
(* request, the handlers of realtime channels, sign-in by redirect, and what  *)
(* an answer with a session has to look like.                                 *)
EXTENDS FunctionCalls, TLC

CONSTANTS Paths, BadPath, MaxSize, MaxList, Askers, MaxAsks,
  Handlers, MaxOpened, Pages, MaxFlows, MaxVisits, Pieces, Values, Trim, Plains, Uuids

ASSUME PartsAssumption == MaxSize \in Nat /\ MaxList \in Nat

VARIABLES
  part,
  job, reqs, upload, list,
  remote, handle, ask, asked,
  reader, caller, reason, timer, follows, signal, request, outcome,
  wish,
  open, opened, closed, registered, telling, sure, heard,
  flows, back, storage, store, address, behind, visits, client, who, accepted,
  holds, kept, saved, unchecked

Api == INSTANCE ApiCalls
Sandbox == INSTANCE SandboxHandle
Fetch == INSTANCE FetchLifecycle
Routing == INSTANCE Routes
Channels == INSTANCE RealtimeEvents
Redirect == INSTANCE HostedRedirect
Shapes == INSTANCE CompleteSession WITH stored <- kept

ASSUME NamesAssumption == Routing!NamesAre

CallSymmetry == Permutations(Calls)

\* Names with and without slashes, blanks and dots; two of them are words of routes.
SmallValues ==
  {<<p>> : p \in Pieces} \cup {<<"x", p>> : p \in {"x", "", ".", ".."}}
  \cup {<<p, "x">> : p \in {"", ".", ".."}} \cup {<<"", "move">>}
SmallTrim == [p \in Pieces |-> CASE p = " " -> "" [] p = " .. " -> ".." [] OTHER -> p]

ofSession == <<session, events>>
ofFunctions == <<platform, shared, call, ran, used>>
ofApi == <<job, reqs, upload, list>>
ofSandbox == <<remote, handle, ask, asked>>
ofFetch == <<reader, caller, reason, timer, follows, signal, request, outcome>>
ofChannels == <<open, opened, closed, registered, telling, sure, heard>>
ofRedirect == <<flows, back, storage, store, address, behind, visits, client, who, accepted>>
ofShapes == <<holds, kept, saved, unchecked>>
ofSignIn == <<ofRedirect, ofShapes>>
ofCalls == <<ofSession, ofFunctions, ofApi, ofSandbox, ofFetch, wish>>
all == <<part, ofCalls, ofChannels, ofSignIn>>

OfFunctions(A) ==
  part = "functions" /\ A
  /\ UNCHANGED <<part, ofApi, ofSandbox, ofFetch, wish, ofChannels, ofSignIn>>
OfApi(A) ==
  part = "api" /\ A
  /\ UNCHANGED <<part, ofFunctions, ofSandbox, ofFetch, wish, ofChannels, ofSignIn>>
OfSandbox(A) ==
  part = "sandbox" /\ A
  /\ UNCHANGED <<part, ofSession, ofFunctions, ofApi, ofFetch, wish, ofChannels, ofSignIn>>
OfFetch(A) ==
  part = "fetch" /\ A
  /\ UNCHANGED <<part, ofSession, ofFunctions, ofApi, ofSandbox, wish, ofChannels, ofSignIn>>
OfRoutes(A) ==
  part = "routes" /\ A
  /\ UNCHANGED <<part, ofSession, ofFunctions, ofApi, ofSandbox, ofFetch, ofChannels, ofSignIn>>
OfChannels(A) ==
  part = "channels" /\ A /\ UNCHANGED <<part, ofCalls, ofSignIn>>
OfRedirect(A) ==
  part = "redirect" /\ A /\ UNCHANGED <<part, ofCalls, ofChannels, ofShapes>>
OfShapes(A) ==
  part = "shapes" /\ A /\ UNCHANGED <<part, ofCalls, ofChannels, ofRedirect>>

\* What other parts have to begin with is of no account: one of them is enough.
PartsInit ==
  /\ part \in {"functions", "api", "sandbox", "fetch", "routes", "channels", "redirect", "shapes"}
  /\ Init /\ Api!ApiInit /\ Sandbox!SandboxInit /\ Fetch!FetchInit
  /\ Routing!RoutesInit /\ Redirect!RedirectInit /\ Shapes!CompleteInit
  /\ Channels!EventsInit
  /\ part \notin {"functions", "api"} => tok = 1 /\ ~exchange
  /\ part # "fetch" => reader = "consumer" /\ caller = "none" /\ reason = "caller"
  /\ part # "redirect" => storage /\ address.at = CHOOSE p \in Pages : TRUE
  /\ part # "shapes" => holds.access = "null" /\ saved

PartsNext ==
  \/ OfFunctions(Next) \/ OfApi(Api!ApiStep) \/ OfSandbox(Sandbox!SandboxStep)
  \/ OfFetch(Fetch!FetchStep) \/ OfRoutes(Routing!RoutesStep)
  \/ OfChannels(Channels!EventsStep)
  \/ OfRedirect(Redirect!RedirectStep) \/ OfShapes(Shapes!CompleteStep)

PartsSpec == PartsInit /\ [][PartsNext]_all

-----------------------------------------------------------------------------
\* The properties of the parts, as they are stated there.

\* A call's requests are all of one session: of an invocation, and of any other.
SameSession == OneIdentity /\ Api!SameSession

\* Requests and answers are shared between calls as long as they are good for all
\* of them: none is kept that has nobody working on it, none is taken away from who
\* shares it, and none that was forgotten is used by the call that forgot it.
SharedAsMeant == [](NothingLeaks /\ FreshAfterClear) /\ NothingTaken

\* What is told of a request is what was done, and nothing is done twice; an upload
\* is whole, and none is left open by a part that failed.
PerformedAsTold == Api!PerformedAsTold /\ Api!UploadEnds /\ InvokedAsTold

\* A scope that was left without an error leaves no sandbox running.
DisposedIsEnding == Sandbox!DisposedIsEnding

\* A request tells why it ended.
TellsWhy == Fetch!TellsWhy

\* A request arrives at the route it was meant for.
ReachesItsRoute == Routing!ReachesItsRoute

\* A handler of a channel hears each of its events once, and a channel stays open
\* until it is closed.
ToldOnce == Channels!ToldOnce /\ Channels!StaysOpen

\* A callback is accepted once, and of the flow last started; the session it brings
\* is stored as it is held, and what the client says of it another one takes.
SignInHolds == Redirect!TakenOnce /\ Shapes!StoredAsHeld /\ Shapes!TakesBack
================================================================================
