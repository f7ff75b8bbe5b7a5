----------------------------- MODULE CompleteSession -----------------------------
(***************************************************************************)
(* What an answer has to look like for its session to become the client's, *)
(* what the client keeps of it, and what it says of itself.  Each way in   *)
(* asks for something else: a password's session may lack the refresh      *)
(* token, an anonymous one may not, one of a provider's need not say when  *)
(* it expires, and the address of the page says nothing of the user.       *)
(*                                                                         *)
(* A field of an answer is a text, one that is empty or blank, null or not *)
(* there; what is not text either fits its field or is odd.                *)
(***************************************************************************)
EXTENDS Naturals

VARIABLES
  holds,  \* the tokens and the user the client has
  stored, \* the tokens in storage
  saved,  \* history: the session was not set in memory only
  unchecked \* history: where the tokens are as the address or the constructor gave them

shapeVars == <<holds, stored, saved, unchecked>>

UserFields == {"id", "email", "status", "email_confirmed", "banned_until", "created_at", "user_metadata"}
Fields == UserFields \cup {"access_token", "refresh_token", "expires_in"}
Is == {"text", "empty", "blank", "null", "absent", "fits", "odd"}

\* Answers with a field that is not as the platform usually has it, and one that
\* is missing.
Usual ==
  [f \in Fields |->
    IF f \in {"access_token", "refresh_token", "id", "email"} THEN "text"
    ELSE IF f = "expires_in" THEN "fits" ELSE "absent"]
Answers ==
  {[Usual EXCEPT ![g] = "absent", ![f] = v] : f \in Fields, g \in Fields, v \in Is}

-----------------------------------------------------------------------------
\* The checks.

isNonEmptyString(v) == v = "text"
isString(v) == v \in {"text", "empty", "blank"}

optionalStatusError(user) == user["status"] \notin {"absent", "fits"}
optionalBooleanError(user) == user["email_confirmed"] \notin {"absent", "fits"}
optionalNullableStringError(user) == user["banned_until"] \notin {"absent", "null"} /\ ~isString(user["banned_until"])

\* created_at stands for five fields that are texts, user_metadata for two.
optionalStringError(user) == user["created_at"] # "absent" /\ ~isString(user["created_at"])
optionalMetadataError(user) == user["user_metadata"] \notin {"absent", "fits"}

validateAuthUser(user) ==
  /\ isNonEmptyString(user["id"]) /\ isString(user["email"])
  /\ ~optionalStatusError(user) /\ ~optionalBooleanError(user)
  /\ ~optionalNullableStringError(user) /\ ~optionalStringError(user)
  /\ ~optionalMetadataError(user)

validateCredentials(session) ==
  isNonEmptyString(session["access_token"]) /\ isNonEmptyString(session["refresh_token"])

isCompleteSession(session) == validateCredentials(session) /\ validateAuthUser(session)

\* assertOptionalRefreshToken
optionalRefreshToken(session) == session["refresh_token"] \in {"text", "absent"}

assertAuthTokenResponse(session) ==
  /\ isNonEmptyString(session["access_token"]) /\ optionalRefreshToken(session)
  /\ session["expires_in"] = "fits" /\ validateAuthUser(session)

validateOAuthSession(session) ==
  /\ isNonEmptyString(session["access_token"]) /\ optionalRefreshToken(session)
  /\ validateAuthUser(session)

-----------------------------------------------------------------------------
\* The session.

NobodyUser == [f \in UserFields |-> "null"]
UserFieldsOf(session) == [f \in UserFields |-> session[f]]
Nothing == [access |-> "null", refresh |-> "null", user |-> NobodyUser]
Tokens(h) == [access |-> h.access, refresh |-> h.refresh]

OrNull(v) == IF v = "absent" THEN "null" ELSE v
OfAnswer(session) ==
  [access |-> session["access_token"], refresh |-> OrNull(session["refresh_token"]),
   user |-> UserFieldsOf(session)]

Places == {"memory", "storage"}

\* A client begins with the tokens it is given, or with those in storage: either is
\* taken as it is, a blank one too.
CompleteInit ==
  /\ holds \in {Nothing} \cup [access : {"text", "blank"}, refresh : {"text", "blank", "null"},
                               user : {NobodyUser}]
  /\ stored \in {Tokens(holds), Tokens(Nothing)} /\ saved = (stored = Tokens(holds))
  /\ unchecked = Places

\* Storage is written and cleared with the tokens.
Stores(h) == Tokens(h)
Keeps(h, bare) == holds' = h /\ stored' = Stores(h) /\ saved' = TRUE /\ unchecked' = bare

signIn(answer) == assertAuthTokenResponse(answer) /\ Keeps(OfAnswer(answer), {})

signInAnonymously(answer) ==
  isCompleteSession(answer) /\ assertAuthTokenResponse(answer) /\ Keeps(OfAnswer(answer), {})

exchangeOAuthCode(answer) == validateOAuthSession(answer) /\ Keeps(OfAnswer(answer), {})

validateSuccessfulRefresh(answer) == assertAuthTokenResponse(answer) /\ isCompleteSession(answer)

refreshSession(answer) ==
  /\ holds.refresh # "null"
  /\ validateSuccessfulRefresh(answer) /\ Keeps(OfAnswer(answer), {})

\* The fragment of the address has an access token, and may have the other one; only
\* an empty one is none.
consumeSessionFromUrl(access, refresh) ==
  Keeps([access |-> access, refresh |-> IF refresh \in {"empty", "absent"} THEN "null" ELSE refresh,
         user |-> NobodyUser], Places)

setSession(session) ==
  /\ isCompleteSession(session)
  /\ holds' = OfAnswer(session) /\ saved' = FALSE /\ UNCHANGED stored
  /\ unchecked' = unchecked \ {"memory"}

\* getUser and the calls that change the profile.
adoptedUser(answer) ==
  /\ holds.access # "null" /\ validateAuthUser(answer)
  /\ holds' = [holds EXCEPT !.user = UserFieldsOf(answer)]
  /\ UNCHANGED <<stored, saved, unchecked>>

signOut == holds # Nothing /\ Keeps(Nothing, {})

\* The next client of the page begins with what is in storage.
initializeCredentials ==
  /\ holds' = [access |-> stored.access, refresh |-> stored.refresh, user |-> NobodyUser]
  /\ saved' = TRUE /\ UNCHANGED stored
  /\ unchecked' = IF "storage" \in unchecked THEN Places ELSE {}

CompleteStep ==
  \/ \E answer \in Answers :
       \/ signIn(answer) \/ signInAnonymously(answer) \/ exchangeOAuthCode(answer)
       \/ refreshSession(answer) \/ setSession(answer) \/ adoptedUser(answer)
  \/ \E access \in {"text", "blank"}, refresh \in {"text", "empty", "blank", "absent"} :
       consumeSessionFromUrl(access, refresh)
  \/ signOut \/ initializeCredentials

-----------------------------------------------------------------------------
\* getSession: of a user it gives a copy, once it has checked it.
getSession ==
  [f \in Fields |->
    CASE f = "access_token" -> holds.access
      [] f = "refresh_token" -> holds.refresh
      [] f \in UserFields -> holds.user[f]
      [] OTHER -> "absent"]

\* What getSession says of a session with its user and its refresh token another
\* client takes with setSession, whichever way the session came and whatever was
\* asked of its user since.  The exception is a blank token that came by the address
\* or the constructor and was never renewed: it is held and given out, but not taken.
TakesBack ==
  holds.user # NobodyUser =>
    /\ validateAuthUser(getSession)
    /\ holds.refresh # "null" =>
         \/ isCompleteSession(getSession)
         \/ "memory" \in unchecked /\ "blank" \in {holds.access, holds.refresh}

\* The next client of the page goes on with the session this one has: storage has
\* no token of another, also when an answer left the refresh token out.
StoredAsHeld == saved => stored = Tokens(holds)
==================================================================================
