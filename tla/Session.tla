------------------------------ MODULE Session ------------------------------
(***************************************************************************)
(* The signed-in session of the web frontend: the axios client of          *)
(* shared/lib/api-client.ts, the persisted store of shared/lib/            *)
(* auth-store.ts, the login page, the route guard and "Sign out".          *)
(*                                                                         *)
(* Browser tabs share localStorage and nothing else: each has its own      *)
(* isRefreshing flag, its own failedQueue and its own copy of the store.   *)
(* A tab is single threaded, so what runs between two awaits is one        *)
(* action; answers, other tabs and page loads come in between.             *)
(*                                                                         *)
(* The server's tokens are stateless: the pair number n is an access and a *)
(* refresh token, an earlier pair expires first, and a refresh revokes     *)
(* nothing.  No pair is 0.                                                 *)
(***************************************************************************)
EXTENDS Naturals, FiniteSets

CONSTANTS
    Tab,
    Request,       \* calls made through apiClient, each once
    TabOf,         \* TabOf[r]: the tab that makes r
    Kind,          \* Kind[r] \in {"api", "login", "mfa"}
    MaxToken,      \* bound on the token pairs issued
    MaxLeaves      \* bound on the sign-outs and the pages loaded by hand

ASSUME SessionAssumption ==
    /\ TabOf \in [Request -> Tab]
    /\ Kind \in [Request -> {"api", "login", "mfa"}]
    /\ MaxToken \in Nat \ {0} /\ MaxLeaves \in Nat

Token == 0..MaxToken
Live == {"sent", "answered", "waiting", "refreshing", "refreshed"}
Settled == {"ok", "failed", "dropped"}
Answers == {"none", "200", "mfa", "401", "403", "lost"}

VARIABLES
    access, refresh, \* localStorage: access_token and refresh_token
    stored,          \* localStorage: isAuthenticated of "auth-storage"
    auth,            \* auth[t]: isAuthenticated of the tab's own store
    path,            \* path[t]: the tab shows "login" or the "app"
    mfaToken,        \* mfaToken[t]: the login page asks for the MFA code
    leaving,         \* leaving[t]: window.location was set, the load is to come
    isRefreshing,    \* isRefreshing[t]
    req,             \* req[r]: the call's state, _retry, answer and token
    issued, deadAccess, deadRefresh, \* the server: pairs issued and expired
    signOuts, visits

storage == <<access, refresh, stored>>
server == <<issued, deadAccess, deadRefresh>>
page == <<auth, path, mfaToken, leaving>>
counts == <<signOuts, visits>>
vars == <<storage, server, page, isRefreshing, req, counts>>

TypeOK ==
    /\ access \in Token /\ refresh \in Token /\ stored \in BOOLEAN
    /\ auth \in [Tab -> BOOLEAN] /\ path \in [Tab -> {"login", "app"}]
    /\ mfaToken \in [Tab -> BOOLEAN] /\ leaving \in [Tab -> BOOLEAN]
    /\ isRefreshing \in [Tab -> BOOLEAN]
    /\ req \in [Request -> [st : {"new"} \cup Live \cup Settled, retry : BOOLEAN,
                            code : Answers, token : Token]]
    /\ issued \in Token /\ deadAccess \in 0..issued /\ deadRefresh \in 0..issued
    /\ signOuts \in 0..MaxLeaves /\ visits \in 0..MaxLeaves

\* A browser with nothing stored, or one that signed in earlier.
Init ==
    /\ issued \in {0, 1}
    /\ access = issued /\ refresh = issued /\ stored = (issued = 1)
    /\ auth = [t \in Tab |-> stored]
    /\ path = [t \in Tab |-> IF stored THEN "app" ELSE "login"]
    /\ mfaToken = [t \in Tab |-> FALSE] /\ leaving = [t \in Tab |-> FALSE]
    /\ isRefreshing = [t \in Tab |-> FALSE]
    /\ req = [r \in Request |-> [st |-> "new", retry |-> FALSE, code |-> "none", token |-> 0]]
    /\ deadAccess = 0 /\ deadRefresh = 0 /\ signOuts = 0 /\ visits = 0

Of(t, state) == {r \in Request : TabOf[r] = t /\ req[r].st \in state}

\* The request interceptor: the header carries what localStorage holds.
Sent(q, token) == [q EXCEPT !.st = "sent", !.code = "none", !.token = token]

-----------------------------------------------------------------------------
(* Calls and the server's answers.                                         *)

\* Pages call under the route guard; the submit buttons of the login page are
\* disabled while their own call is pending, and the code form needs mfaToken.
MaySend(r) ==
    LET t == TabOf[r] IN
    CASE Kind[r] = "api"   -> path[t] = "app" /\ auth[t]
      [] Kind[r] = "login" -> path[t] = "login" /\ ~mfaToken[t]
      [] Kind[r] = "mfa"   -> path[t] = "login" /\ mfaToken[t]

Send(r) ==
    /\ req[r].st = "new" /\ MaySend(r)
    /\ Kind[r] # "api" => \A q \in Of(TabOf[r], Live) : Kind[q] # Kind[r]
    /\ req' = [req EXCEPT ![r] = Sent(@, access)]
    /\ UNCHANGED <<storage, server, page, isRefreshing, counts>>

\* HTTPBearer answers 403 without a header and get_current_user 401 to an
\* expired token; a sign-in answers tokens, an MFA challenge, or 401.
ServerCodes(r) ==
    CASE Kind[r] = "login" -> {"200", "mfa", "401"}
      [] Kind[r] = "mfa" -> {"200", "401"}
      [] Kind[r] = "api" /\ req[r].token = 0 -> {"403"}
      [] Kind[r] = "api" /\ req[r].token \in 1..deadAccess -> {"401"}
      [] OTHER -> {"200"}

Answer(r) ==
    /\ req[r].st = "sent"
    /\ \E c \in ServerCodes(r) \cup {"lost"} :
         LET pair == Kind[r] # "api" /\ c = "200" IN
         /\ pair => issued < MaxToken
         /\ issued' = IF pair THEN issued + 1 ELSE issued
         /\ req' = [req EXCEPT ![r].st = "answered", ![r].code = c,
                               ![r].token = IF pair THEN issued + 1 ELSE @]
    /\ UNCHANGED <<storage, deadAccess, deadRefresh, page, isRefreshing, counts>>

Settle(r, st) == req' = [req EXCEPT ![r].st = st]

\* A page's call that succeeds.
ReceiveData(r) ==
    /\ req[r].st = "answered" /\ req[r].code = "200" /\ Kind[r] = "api"
    /\ Settle(r, "ok")
    /\ UNCHANGED <<storage, server, page, isRefreshing, counts>>

\* onSubmit: requires_mfa without a user asks for the code.
ReceiveChallenge(r) ==
    /\ req[r].st = "answered" /\ req[r].code = "mfa"
    /\ Settle(r, "ok")
    /\ mfaToken' = [mfaToken EXCEPT ![TabOf[r]] = TRUE]
    /\ UNCHANGED <<storage, server, auth, path, leaving, isRefreshing, counts>>

\* onSubmit and onMfaSubmit: storeLogin, navigate("/").  The code's answer
\* signs in even after "Back to login".
SignIn(r) ==
    LET t == TabOf[r] IN
    /\ req[r].st = "answered" /\ req[r].code = "200" /\ Kind[r] # "api"
    /\ Settle(r, "ok")
    /\ access' = req[r].token /\ refresh' = req[r].token /\ stored' = TRUE
    /\ auth' = [auth EXCEPT ![t] = TRUE]
    /\ path' = [path EXCEPT ![t] = "app"]
    /\ mfaToken' = [mfaToken EXCEPT ![t] = FALSE]
    /\ UNCHANGED <<server, leaving, isRefreshing, counts>>

BackToLogin(t) ==
    /\ path[t] = "login" /\ mfaToken[t]
    /\ mfaToken' = [mfaToken EXCEPT ![t] = FALSE]
    /\ UNCHANGED <<storage, server, auth, path, leaving, isRefreshing, req, counts>>

-----------------------------------------------------------------------------
(* The response interceptor.                                               *)

Expired(r) == req[r].st = "answered" /\ req[r].code = "401" /\ ~req[r].retry

\* Any other error, or a 401 to the replay of the call that led a refresh.
Reject(r) ==
    /\ req[r].st = "answered" /\ req[r].code \in {"401", "403", "lost"} /\ ~Expired(r)
    /\ Settle(r, "failed")
    /\ UNCHANGED <<storage, server, page, isRefreshing, counts>>

\* isRefreshing: the call joins failedQueue.
JoinQueue(r) ==
    /\ Expired(r) /\ isRefreshing[TabOf[r]]
    /\ Settle(r, "waiting")
    /\ UNCHANGED <<storage, server, page, isRefreshing, counts>>

\* No refresh_token is stored: back to the login page.
GiveUp(r) ==
    /\ Expired(r) /\ ~isRefreshing[TabOf[r]] /\ refresh = 0
    /\ req' = [req EXCEPT ![r].st = "failed", ![r].retry = TRUE]
    /\ access' = 0 /\ refresh' = 0
    /\ leaving' = [leaving EXCEPT ![TabOf[r]] = TRUE]
    /\ UNCHANGED <<stored, server, auth, path, mfaToken, isRefreshing, counts>>

\* Mutant: isRefreshing is not looked at.
LeadRefreshAlways(r) ==
    /\ Expired(r) /\ refresh # 0
    /\ req' = [req EXCEPT ![r].st = "refreshing", ![r].retry = TRUE, ![r].token = refresh]
    /\ isRefreshing' = [isRefreshing EXCEPT ![TabOf[r]] = TRUE]
    /\ UNCHANGED <<storage, server, page, counts>>

\* POST /auth/refresh with the stored token.
LeadRefresh(r) ==
    /\ Expired(r) /\ ~isRefreshing[TabOf[r]] /\ refresh # 0
    /\ req' = [req EXCEPT ![r].st = "refreshing", ![r].retry = TRUE, ![r].token = refresh]
    /\ isRefreshing' = [isRefreshing EXCEPT ![TabOf[r]] = TRUE]
    /\ UNCHANGED <<storage, server, page, counts>>

\* The server's refresh_token: a new pair for a token that has not expired.
AnswerRefresh(r) ==
    /\ req[r].st = "refreshing"
    /\ \/ /\ req[r].token > deadRefresh /\ issued < MaxToken
          /\ issued' = issued + 1
          /\ req' = [req EXCEPT ![r].st = "refreshed", ![r].code = "200",
                                ![r].token = issued + 1]
       \/ /\ \E c \in {"401", "lost"} :
               /\ c = "401" => req[r].token <= deadRefresh
               /\ req' = [req EXCEPT ![r].st = "refreshed", ![r].code = c]
          /\ UNCHANGED issued
    /\ UNCHANGED <<storage, deadAccess, deadRefresh, page, isRefreshing, counts>>

\* Mutant: the calls in failedQueue are not replayed.
RefreshedForgetsQueue(r) ==
    LET new == req[r].token IN
    /\ req[r].st = "refreshed" /\ req[r].code = "200"
    /\ access' = new /\ refresh' = new
    /\ req' = [req EXCEPT ![r] = Sent(@, new)]
    /\ isRefreshing' = [isRefreshing EXCEPT ![TabOf[r]] = FALSE]
    /\ UNCHANGED <<stored, server, page, counts>>

\* Mutant: the call is replayed with the header it had.
RefreshedOldHeader(r) ==
    LET t == TabOf[r]
        new == req[r].token
    IN
    /\ req[r].st = "refreshed" /\ req[r].code = "200"
    /\ access' = new /\ refresh' = new
    /\ req' = [q \in Request |-> IF q = r \/ q \in Of(t, {"waiting"})
                                 THEN Sent(req[q], new - 1) ELSE req[q]]
    /\ isRefreshing' = [isRefreshing EXCEPT ![t] = FALSE]
    /\ UNCHANGED <<stored, server, page, counts>>

\* The try block: the new pair is stored, the queue and the call are replayed
\* with it, and finally clears isRefreshing.
Refreshed(r) ==
    LET t == TabOf[r]
        new == req[r].token
    IN
    /\ req[r].st = "refreshed" /\ req[r].code = "200"
    /\ access' = new /\ refresh' = new
    /\ req' = [q \in Request |-> IF q = r \/ q \in Of(t, {"waiting"})
                                 THEN Sent(req[q], new) ELSE req[q]]
    /\ isRefreshing' = [isRefreshing EXCEPT ![t] = FALSE]
    /\ UNCHANGED <<stored, server, page, counts>>

\* The catch block: the queue and the call are rejected, the tokens removed.
RefreshFailed(r) ==
    LET t == TabOf[r] IN
    /\ req[r].st = "refreshed" /\ req[r].code # "200"
    /\ access' = 0 /\ refresh' = 0
    /\ req' = [q \in Request |-> IF q = r \/ q \in Of(t, {"waiting"})
                                 THEN [req[q] EXCEPT !.st = "failed"] ELSE req[q]]
    /\ leaving' = [leaving EXCEPT ![t] = TRUE]
    /\ isRefreshing' = [isRefreshing EXCEPT ![t] = FALSE]
    /\ UNCHANGED <<stored, server, auth, path, mfaToken, counts>>

-----------------------------------------------------------------------------
(* Leaving and loading pages.                                              *)

\* Layout's "Sign out": logout() and the load of /login.
SignOut(t) ==
    /\ path[t] = "app" /\ auth[t] /\ signOuts + visits < MaxLeaves
    /\ signOuts' = signOuts + 1
    /\ access' = 0 /\ refresh' = 0 /\ stored' = FALSE
    /\ auth' = [auth EXCEPT ![t] = FALSE]
    /\ path' = [path EXCEPT ![t] = "login"]
    /\ leaving' = [leaving EXCEPT ![t] = TRUE]
    /\ UNCHANGED <<server, mfaToken, isRefreshing, req, visits>>

\* A document loads: the scripts start again, the store is read from
\* auth-storage, and what the old document had under way is gone.
Load(t, to) ==
    /\ auth' = [auth EXCEPT ![t] = stored]
    /\ path' = [path EXCEPT ![t] = IF stored THEN to ELSE "login"]
    /\ mfaToken' = [mfaToken EXCEPT ![t] = FALSE]
    /\ leaving' = [leaving EXCEPT ![t] = FALSE]
    /\ isRefreshing' = [isRefreshing EXCEPT ![t] = FALSE]
    /\ req' = [r \in Request |-> IF r \in Of(t, Live)
                                 THEN [req[r] EXCEPT !.st = "dropped"] ELSE req[r]]
    /\ UNCHANGED <<storage, server, signOuts>>

LoadLogin(t) == leaving[t] /\ Load(t, "login") /\ UNCHANGED visits

\* The user opens a page by hand; /login does not turn a signed-in user away.
Visit(t, to) ==
    /\ signOuts + visits < MaxLeaves
    /\ visits' = visits + 1
    /\ Load(t, to)

\* A later pair of tokens outlives an earlier one; refresh tokens last longer.
ExpireAccess ==
    /\ deadAccess < issued
    /\ deadAccess' = deadAccess + 1
    /\ UNCHANGED <<storage, issued, deadRefresh, page, isRefreshing, req, counts>>

ExpireRefresh ==
    /\ deadRefresh < deadAccess
    /\ deadRefresh' = deadRefresh + 1
    /\ UNCHANGED <<storage, issued, deadAccess, page, isRefreshing, req, counts>>

-----------------------------------------------------------------------------
Handle(r) ==
    \/ ReceiveData(r) \/ ReceiveChallenge(r) \/ SignIn(r)
    \/ Reject(r) \/ JoinQueue(r) \/ GiveUp(r) \/ LeadRefresh(r)
    \/ Refreshed(r) \/ RefreshFailed(r)

Next ==
    \/ \E r \in Request : Send(r) \/ Answer(r) \/ AnswerRefresh(r) \/ Handle(r)
    \/ \E t \in Tab : BackToLogin(t) \/ SignOut(t) \/ LoadLogin(t)
                       \/ \E to \in {"login", "app"} : Visit(t, to)
    \/ ExpireAccess \/ ExpireRefresh

\* A call is answered or fails, the event loop runs the handler of an answer,
\* and a load that was asked for happens.  Users need not do anything.
Fairness ==
    /\ \A r \in Request : WF_vars(Answer(r) \/ AnswerRefresh(r)) /\ WF_vars(Handle(r))
    /\ \A t \in Tab : WF_vars(LoadLogin(t))

Spec == Init /\ [][Next]_vars /\ Fairness

-----------------------------------------------------------------------------
(* A tab has at most one refresh under way, isRefreshing says exactly      *)
(* whether it has, and nobody is left in failedQueue without one: the flag *)
(* and the queue of api-client.ts agree across awaits, failures and loads. *)
OneRefresh ==
    \A t \in Tab :
        /\ Cardinality(Of(t, {"refreshing", "refreshed"})) = IF isRefreshing[t] THEN 1 ELSE 0
        /\ Of(t, {"waiting"}) # {} => isRefreshing[t]

(* An expired access token is invisible to the pages: a call fails only    *)
(* after a lost answer, an expired refresh token, a sign-out somewhere, or *)
(* a second expiry before its replay is answered, whatever the other calls *)
(* and tabs that meet the same expired token do.                           *)
ExpiryInvisible ==
    \A r \in Request :
        (Kind[r] = "api" /\ req[r].st = "failed") =>
            \/ \E q \in Request : req[q].code = "lost"
            \/ deadRefresh > 0
            \/ signOuts > 0
            \/ req[r].retry /\ req[r].code = "401" /\ deadAccess > 1

(* Every call is answered to its caller, or its document is gone: no       *)
(* promise of failedQueue is left pending.                                 *)
EverySettles == \A r \in Request : (req[r].st \in Live) ~> (req[r].st \in Settled)
=============================================================================
