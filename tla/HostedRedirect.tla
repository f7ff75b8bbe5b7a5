---------------------------- MODULE HostedRedirect -----------------------------
(***************************************************************************)
(* Sign-in by redirect, in one tab.  A flow leaves a nonce, and the URL it *)
(* comes back to, in sessionStorage and goes to the hosted page or to a    *)
(* provider.  It comes back with tokens in the fragment, or with a code in *)
(* the query, to whatever page and client there is then: flows overtake    *)
(* each other, pages are reloaded and gone back to, and a URL may not let  *)
(* itself be cleaned.                                                      *)
(***************************************************************************)
EXTENDS Naturals, Sequences

CONSTANTS
  Pages,     \* where a flow may come back to
  MaxFlows,  \* bound of the model: flows started
  MaxVisits  \* bound of the model: pages loaded

VARIABLES
  flows,    \* those started: a nonce is the place of its flow
  back,     \* flows that came back
  storage,  \* sessionStorage works
  store,    \* what it has: the nonce and the redirect URL
  address,  \* of the page
  behind,   \* the addresses the user may go back to
  visits,
  client,   \* of the page: _urlSessionConsumed, _oauthExchangePromise
  who,      \* whose session it has, and localStorage: a flow's, or Other
  accepted  \* history: the callbacks that were

redirectVars ==
  <<flows, back, storage, store, address, behind, visits, client, who, accepted>>

NoPage == "none"
Other == MaxFlows + 1
Empty == [nonce |-> 0, url |-> NoPage]
Plain(at) == [at |-> at, kind |-> "none", flow |-> 0, error |-> FALSE, stuck |-> FALSE]
NoClient == [consumed |-> FALSE, exchange |-> 0, supplied |-> FALSE]

RedirectInit ==
  /\ flows = <<>> /\ back = {} /\ storage \in BOOLEAN /\ store = Empty
  /\ \E at \in Pages : address = Plain(at)
  /\ behind = {} /\ visits = 0 /\ client = NoClient /\ who = 0
  /\ accepted = <<>>

-----------------------------------------------------------------------------
\* getHostedAuthUrl and oauthRedirect, with storeAuthState.
StartsFlow(kind, at) ==
  /\ Len(flows) < MaxFlows
  /\ flows' = Append(flows, [kind |-> kind, at |-> at])
  /\ store' = IF storage
              THEN [nonce |-> Len(flows) + 1, url |-> IF kind = "oauth" THEN at ELSE NoPage]
              ELSE store
  /\ UNCHANGED <<back, storage, address, behind, visits, client, who, accepted>>

\* What a flow comes back with: tokens of the hosted page, a code or an error
\* of the provider.  A fragment that is the application's too is stuck, and so
\* is every URL when history is not available.
Responses(f) ==
  {[at |-> flows[f].at, kind |-> IF flows[f].kind = "oauth" THEN "code" ELSE "tokens",
    flow |-> f, error |-> e, stuck |-> s] :
     e \in {FALSE, flows[f].kind = "oauth"}, s \in BOOLEAN}

Cleaned(a) == IF a.stuck THEN a ELSE Plain(a.at)

\* Mutant: the nonce is looked at and left.
MutTaken == store

\* What takeAuthState and takeAuthRedirectUrl leave.
Taken == Empty

\* stateMatches: no nonce matches none.
Matches(a) == store.nonce # 0 /\ store.nonce = a.flow

Accepts(a) ==
  accepted' = Append(accepted, [flow |-> a.flow, latest |-> Len(flows), to |-> store.url])

\* consumeSessionFromUrl, at address a, by a client with session s.
ConsumeTokens(a, c, s) ==
  IF c.consumed \/ a.kind # "tokens"
  THEN client' = c /\ who' = s /\ address' = a /\ UNCHANGED <<store, accepted>>
  ELSE /\ store' = Taken
       /\ address' = Cleaned(a)
       /\ IF Matches(a)
          THEN client' = [c EXCEPT !.consumed = TRUE, !.exchange = 0] /\ who' = a.flow /\ Accepts(a)
          ELSE client' = [c EXCEPT !.consumed = TRUE] /\ who' = s /\ UNCHANGED accepted

\* hasOAuthCallbackInUrl
IsCallback(a) == a.kind = "code" /\ store.nonce # 0 /\ store.url = a.at

\* consumeOAuthCodeFromUrl up to its request.
ConsumeCode(a, c, s) ==
  /\ store' = Taken
  /\ address' = Cleaned(a)
  /\ who' = s
  /\ IF Matches(a)
     THEN /\ client' = IF a.error THEN c ELSE [c EXCEPT !.exchange = a.flow]
          /\ Accepts(a)
     ELSE client' = c /\ UNCHANGED accepted

\* A page is loaded and makes its client: initializeCredentials, then
\* beginOAuthCallback.  A supplied token is used instead of what is stored,
\* and the URL is left for getUser().
Visit(a) ==
  /\ visits < MaxVisits /\ visits' = visits + 1
  /\ behind' = behind \cup {address}
  /\ \/ /\ client' = [NoClient EXCEPT !.supplied = TRUE] /\ who' = Other /\ address' = a
        /\ UNCHANGED <<store, accepted>>
     \/ IF IsCallback(a) THEN ConsumeCode(a, NoClient, who) ELSE ConsumeTokens(a, NoClient, who)
  /\ UNCHANGED <<flows, storage>>

ComesBack(f) ==
  /\ f \notin back /\ back' = back \cup {f}
  /\ \E a \in Responses(f) : Visit(a)

Reloads == Visit(address) /\ UNCHANGED back
GoesBack == (\E a \in behind : Visit(a)) /\ UNCHANGED back

\* The hosted page comes back to a page that is still there: only the fragment
\* of its address changes.
FragmentComes(f) ==
  /\ f \notin back /\ flows[f].kind = "hosted" /\ flows[f].at = address.at
  /\ back' = back \cup {f} /\ address' \in Responses(f)
  /\ behind' = behind \cup {address}
  /\ UNCHANGED <<flows, storage, store, visits, client, who, accepted>>

\* getUser() looks at the URL again.
GetUser ==
  /\ ConsumeTokens(address, client, who)
  /\ UNCHANGED <<flows, back, storage, behind, visits>>

\* exchangeOAuthCode: a session that began meanwhile stays.
ExchangeEnds ==
  /\ client.exchange # 0 /\ client' = [client EXCEPT !.exchange = 0]
  /\ who' \in {who, client.exchange}
  /\ UNCHANGED <<flows, back, storage, store, address, behind, visits, accepted>>

\* The user signs in otherwise.
SignsIn ==
  /\ who' = Other /\ client' = [client EXCEPT !.exchange = 0]
  /\ UNCHANGED <<flows, back, storage, store, address, behind, visits, accepted>>

RedirectStep ==
  \/ \E kind \in {"hosted", "oauth"}, at \in Pages : StartsFlow(kind, at)
  \/ \E f \in 1..Len(flows) : ComesBack(f) \/ FragmentComes(f)
  \/ Reloads \/ GoesBack \/ GetUser \/ ExchangeEnds \/ SignsIn

-----------------------------------------------------------------------------
\* A callback is accepted once, however often its URL is loaded, only if its
\* flow was the last to start, and with the URL that flow was started with.
TakenOnce ==
  \A i \in DOMAIN accepted :
    LET x == accepted[i]
    IN /\ x.flow = x.latest
       /\ flows[x.flow].kind = "oauth" => x.to = flows[x.flow].at
       /\ \A j \in DOMAIN accepted : accepted[j].flow = x.flow => j = i
================================================================================
