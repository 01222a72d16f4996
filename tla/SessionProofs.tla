---------------------------- MODULE SessionProofs ----------------------------
(***************************************************************************)
(* Proofs about Session, for any tabs and calls: the types, and that the   *)
(* flag and the queue of the token refresh agree.                          *)
(***************************************************************************)
EXTENDS Session, FiniteSetTheorems, TLAPS

(* A step of one call from a state of the queue to another, with its other *)
(* fields, is what most actions do.                                        *)
ReqType == [st : {"new"} \cup Live \cup Settled, retry : BOOLEAN, code : Answers, token : Token]

LEMMA InitTyped == Init => TypeOK
  BY SessionAssumption DEF Init, TypeOK, Token, Answers

-----------------------------------------------------------------------------
(* The types, action by action.                                            *)

LEMMA CallsTyped ==
  ASSUME TypeOK, NEW r \in Request, Send(r) \/ Answer(r) \/ AnswerRefresh(r)
  PROVE  TypeOK'
<1>1. CASE Send(r)
  <2>1. req'[r] \in ReqType /\ req' = [req EXCEPT ![r] = req'[r]]
    BY <1>1 DEF Send, Sent, TypeOK, ReqType, Live, Settled, Answers, Token
  <2>2. QED
    BY <1>1, <2>1 DEF Send, TypeOK, ReqType, storage, server, page, counts
<1>2. CASE Answer(r)
  <2>1. PICK c \in ServerCodes(r) \cup {"lost"} :
          LET pair == Kind[r] # "api" /\ c = "200" IN
          /\ pair => issued < MaxToken
          /\ issued' = IF pair THEN issued + 1 ELSE issued
          /\ req' = [req EXCEPT ![r].st = "answered", ![r].code = c,
                                ![r].token = IF pair THEN issued + 1 ELSE @]
    BY <1>2 DEF Answer
  <2>2. c \in Answers
    BY <2>1 DEF ServerCodes, Answers
  <2>3. issued \in Token /\ MaxToken \in Nat
    BY SessionAssumption DEF TypeOK
  <2>4. issued' \in Token /\ issued <= issued'
    BY <2>1, <2>3 DEF Token
  <2>5. req' \in [Request -> ReqType]
    <3>1. req[r] \in ReqType /\ req \in [Request -> ReqType]
      BY DEF TypeOK, ReqType
    <3>2. PICK n \in Token : req' = [req EXCEPT ![r].st = "answered", ![r].code = c, ![r].token = n]
      <4>1. CASE Kind[r] # "api" /\ c = "200"
        BY <2>1, <2>4, <4>1
      <4>2. CASE ~(Kind[r] # "api" /\ c = "200")
        BY <2>1, <3>1, <4>2 DEF ReqType
      <4>3. QED
        BY <4>1, <4>2
    <3>3. QED
      BY <2>2, <3>1, <3>2 DEF ReqType, Live
  <2>6. UNCHANGED <<storage, deadAccess, deadRefresh, page, isRefreshing, counts>>
    BY <1>2 DEF Answer
  <2>7. deadAccess' \in 0..issued' /\ deadRefresh' \in 0..issued'
    BY <2>3, <2>4, <2>6 DEF TypeOK, Token
  <2>8. QED
    BY <2>4, <2>5, <2>6, <2>7 DEF TypeOK, ReqType, storage, page, counts
<1>3. CASE AnswerRefresh(r)
  <2>1. issued' \in Token /\ issued <= issued'
    BY <1>3, SessionAssumption DEF AnswerRefresh, TypeOK, Token
  <2>2. req' \in [Request -> ReqType]
    BY <1>3, SessionAssumption DEF AnswerRefresh, TypeOK, ReqType, Live, Settled, Answers, Token
  <2>3. QED
    BY <1>3, <2>1, <2>2 DEF AnswerRefresh, TypeOK, ReqType, Token, storage, page, counts
<1>4. QED
  BY <1>1, <1>2, <1>3

LEMMA HandlersTyped ==
  ASSUME TypeOK, NEW r \in Request, Handle(r)
  PROVE  TypeOK'
<1> USE SessionAssumption
<1>1. TabOf[r] \in Tab /\ req[r] \in ReqType
  BY DEF TypeOK, ReqType
<1>2. ASSUME NEW st \in {"new"} \cup Live \cup Settled, Settle(r, st)
      PROVE  req' \in [Request -> ReqType]
  BY <1>2 DEF Settle, TypeOK, ReqType
<1>3. CASE ReceiveData(r) \/ Reject(r) \/ JoinQueue(r)
  <2>1. req' \in [Request -> ReqType]
    BY <1>2, <1>3 DEF ReceiveData, Reject, JoinQueue, Live, Settled
  <2>2. QED
    BY <1>3, <2>1 DEF ReceiveData, Reject, JoinQueue, TypeOK, ReqType, storage, server, page, counts
<1>4. CASE ReceiveChallenge(r)
  <2>1. req' \in [Request -> ReqType]
    BY <1>2, <1>4 DEF ReceiveChallenge, Settled
  <2>2. QED
    BY <1>1, <1>4, <2>1 DEF ReceiveChallenge, TypeOK, ReqType, storage, server, counts
<1>5. CASE SignIn(r)
  <2>1. req' \in [Request -> ReqType]
    BY <1>2, <1>5 DEF SignIn, Settled
  <2>2. QED
    BY <1>1, <1>5, <2>1 DEF SignIn, TypeOK, ReqType, server, counts
<1>6. CASE GiveUp(r) \/ LeadRefresh(r)
  <2>1. req' \in [Request -> ReqType]
    BY <1>6 DEF GiveUp, LeadRefresh, TypeOK, ReqType, Live, Settled
  <2>2. CASE GiveUp(r)
    <3>1. access' \in Token /\ refresh' \in Token
      BY <2>2 DEF GiveUp, Token
    <3>2. leaving' \in [Tab -> BOOLEAN]
      BY <1>1, <2>2 DEF GiveUp, TypeOK
    <3>3. UNCHANGED <<stored, server, auth, path, mfaToken, isRefreshing, counts>>
      BY <2>2 DEF GiveUp
    <3>4. QED
      BY <2>1, <3>1, <3>2, <3>3 DEF TypeOK, ReqType, server, counts
  <2>3. CASE LeadRefresh(r)
    BY <1>1, <2>1, <2>3 DEF LeadRefresh, TypeOK, ReqType, storage, server, page, counts
  <2>4. QED
    BY <1>6, <2>2, <2>3
<1>7. CASE Refreshed(r)
  <2>1. req' \in [Request -> ReqType]
    BY <1>1, <1>7 DEF Refreshed, Sent, TypeOK, ReqType, Live, Answers
  <2>2. QED
    BY <1>1, <1>7, <2>1 DEF Refreshed, TypeOK, ReqType, server, page, counts
<1>8. CASE RefreshFailed(r)
  <2>1. req' \in [Request -> ReqType]
    BY <1>8 DEF RefreshFailed, TypeOK, ReqType, Settled
  <2>2. QED
    BY <1>1, <1>8, <2>1 DEF RefreshFailed, TypeOK, ReqType, Token, server, counts
<1>9. QED
  BY <1>3, <1>4, <1>5, <1>6, <1>7, <1>8 DEF Handle

LEMMA LoadTyped ==
  ASSUME TypeOK, NEW t \in Tab, NEW to \in {"login", "app"}, Load(t, to), visits' \in 0..MaxLeaves
  PROVE  TypeOK'
<1>1. req' \in [Request -> ReqType]
  BY DEF Load, TypeOK, ReqType, Settled
<1>2. QED
  BY <1>1 DEF Load, TypeOK, ReqType, storage, server

LEMMA PagesTyped ==
  ASSUME TypeOK, NEW t \in Tab,
         \/ BackToLogin(t) \/ SignOut(t) \/ LoadLogin(t)
         \/ \E to \in {"login", "app"} : Visit(t, to)
  PROVE  TypeOK'
<1> USE SessionAssumption
<1>1. CASE BackToLogin(t)
  BY <1>1 DEF BackToLogin, TypeOK, storage, server, counts
<1>2. CASE SignOut(t)
  <2>1. signOuts' \in 0..MaxLeaves
    BY <1>2 DEF SignOut, TypeOK
  <2>2. access' \in Token /\ refresh' \in Token /\ stored' = FALSE
    BY <1>2 DEF SignOut, Token
  <2>3. /\ auth' \in [Tab -> BOOLEAN] /\ path' \in [Tab -> {"login", "app"}]
        /\ leaving' \in [Tab -> BOOLEAN]
    BY <1>2 DEF SignOut, TypeOK
  <2>4. UNCHANGED <<server, mfaToken, isRefreshing, req, visits>>
    BY <1>2 DEF SignOut
  <2>5. QED
    BY <2>1, <2>2, <2>3, <2>4 DEF TypeOK, server
<1>3. CASE LoadLogin(t)
  BY <1>3, LoadTyped DEF LoadLogin, TypeOK
<1>4. CASE \E to \in {"login", "app"} : Visit(t, to)
  BY <1>4, LoadTyped DEF Visit, TypeOK
<1>5. QED
  BY <1>1, <1>2, <1>3, <1>4

LEMMA StepTyped == TypeOK /\ [Next]_vars => TypeOK'
<1> SUFFICES ASSUME TypeOK, [Next]_vars PROVE TypeOK'
  OBVIOUS
<1>1. CASE ExpireAccess
  BY <1>1, SessionAssumption DEF ExpireAccess, TypeOK, Token, storage, page, counts
<1>2. CASE ExpireRefresh
  BY <1>2, SessionAssumption DEF ExpireRefresh, TypeOK, Token, storage, page, counts
<1>3. CASE UNCHANGED vars
  BY <1>3 DEF TypeOK, vars, storage, server, page, counts
<1>4. QED
  BY <1>1, <1>2, <1>3, CallsTyped, HandlersTyped, PagesTyped DEF Next

(* Storage, tabs and calls keep their types.                               *)
THEOREM TypeCorrect == Spec => []TypeOK
<1>1. QED
  BY InitTyped, StepTyped, PTL DEF Spec

-----------------------------------------------------------------------------
(* The refresh.  What the steps preserve says it without counting.         *)

Refreshing(t, r) == r \in Of(t, {"refreshing", "refreshed"})

LeadersOK(t) ==
    /\ \A q, r \in Request : Refreshing(t, q) /\ Refreshing(t, r) => q = r
    /\ isRefreshing[t] => \E r \in Request : Refreshing(t, r)
    /\ \A r \in Request : Refreshing(t, r) \/ r \in Of(t, {"waiting"}) => isRefreshing[t]

RefreshInv == \A t \in Tab : LeadersOK(t)

LEMMA InitRefresh == Init => RefreshInv
  BY DEF Init, RefreshInv, LeadersOK, Refreshing, Of

(* A call that neither joins nor leaves those that refresh or wait.        *)
LEMMA SameRefresh ==
  ASSUME RefreshInv, UNCHANGED isRefreshing,
         \A q \in Request : req'[q].st = req[q].st
                            \/ /\ req[q].st \notin {"refreshing", "refreshed", "waiting"}
                               /\ req'[q].st \notin {"refreshing", "refreshed", "waiting"}
                            \/ {req[q].st, req'[q].st} \subseteq {"refreshing", "refreshed"}
  PROVE  RefreshInv'
<1>1. \A t \in Tab : \A q \in Request : Refreshing(t, q)' = Refreshing(t, q)
  BY DEF Refreshing, Of
<1>2. \A t \in Tab : \A q \in Request : (q \in Of(t, {"waiting"}))' = (q \in Of(t, {"waiting"}))
  BY DEF Of
<1>3. QED
  BY <1>1, <1>2 DEF RefreshInv, LeadersOK

(* A tab in which nothing refreshes or waits any more; the others stay.    *)
LEMMA RefreshOver ==
  ASSUME TypeOK, RefreshInv, NEW t \in Tab,
         isRefreshing' = [isRefreshing EXCEPT ![t] = FALSE],
         \A q \in Request : IF TabOf[q] = t
             THEN req'[q].st \notin {"refreshing", "refreshed", "waiting"}
             ELSE req'[q] = req[q]
  PROVE  RefreshInv'
<1>1. isRefreshing'[t] = FALSE /\ \A u \in Tab \ {t} : isRefreshing'[u] = isRefreshing[u]
  BY DEF TypeOK
<1>2. \A q \in Request : ~Refreshing(t, q)' /\ ~(q \in Of(t, {"waiting"}))'
  BY DEF Refreshing, Of
<1>3. \A u \in Tab \ {t} : \A q \in Request :
         Refreshing(u, q)' = Refreshing(u, q) /\ (q \in Of(u, {"waiting"}))' = (q \in Of(u, {"waiting"}))
  BY DEF Refreshing, Of
<1>4. QED
  BY <1>1, <1>2, <1>3 DEF RefreshInv, LeadersOK

LEMMA CallsRefresh ==
  ASSUME TypeOK, RefreshInv, NEW r \in Request, Send(r) \/ Answer(r) \/ AnswerRefresh(r)
  PROVE  RefreshInv'
<1>1. UNCHANGED isRefreshing
  BY DEF Send, Answer, AnswerRefresh
<1>2. \A q \in Request \ {r} : req'[q] = req[q]
  BY DEF Send, Answer, AnswerRefresh, TypeOK
<1>3. \/ req[r].st = "new" /\ req'[r].st = "sent"
      \/ req[r].st = "sent" /\ req'[r].st = "answered"
      \/ req[r].st = "refreshing" /\ req'[r].st = "refreshed"
  <2>1. CASE Send(r)
    BY <2>1 DEF Send, Sent, TypeOK
  <2>2. CASE Answer(r)
    <3>1. \E c, n : req' = [req EXCEPT ![r].st = "answered", ![r].code = c, ![r].token = n]
      BY <2>2 DEF Answer
    <3>2. req[r].st = "sent"
      BY <2>2 DEF Answer
    <3>3. req'[r].st = "answered"
      BY <3>1 DEF TypeOK
    <3>4. QED
      BY <3>2, <3>3
  <2>3. CASE AnswerRefresh(r)
    BY <2>3 DEF AnswerRefresh, TypeOK
  <2>4. QED
    BY <2>1, <2>2, <2>3
<1>4. QED
  BY <1>1, <1>2, <1>3, SameRefresh

LEMMA HandlersRefresh ==
  ASSUME TypeOK, RefreshInv, NEW r \in Request, Handle(r)
  PROVE  RefreshInv'
<1> DEFINE t == TabOf[r]
<1>1. t \in Tab
  BY SessionAssumption
<1>2. LeadersOK(t)
  BY <1>1 DEF RefreshInv
<1>3. CASE ReceiveData(r) \/ ReceiveChallenge(r) \/ SignIn(r) \/ Reject(r) \/ GiveUp(r)
  <2>1. UNCHANGED isRefreshing /\ req[r].st = "answered"
    BY <1>3 DEF ReceiveData, ReceiveChallenge, SignIn, Reject, GiveUp, Expired
  <2>2. \A q \in Request \ {r} : req'[q] = req[q]
    BY <1>3 DEF ReceiveData, ReceiveChallenge, SignIn, Reject, GiveUp, Settle, TypeOK
  <2>3. req'[r].st \in {"ok", "failed"}
    BY <1>3 DEF ReceiveData, ReceiveChallenge, SignIn, Reject, GiveUp, Settle, TypeOK
  <2>4. QED
    BY <2>1, <2>2, <2>3, SameRefresh
<1>4. CASE JoinQueue(r)
  <2>1. UNCHANGED isRefreshing /\ isRefreshing[t] /\ req[r].st = "answered"
    BY <1>4 DEF JoinQueue, Expired
  <2>2. \A q \in Request \ {r} : req'[q] = req[q]
    BY <1>4 DEF JoinQueue, Settle, TypeOK
  <2>3. req'[r].st = "waiting"
    BY <1>4 DEF JoinQueue, Settle, TypeOK
  <2>4. \A u \in Tab : \A q \in Request : Refreshing(u, q)' = Refreshing(u, q)
    BY <2>1, <2>2, <2>3 DEF Refreshing, Of
  <2>5. \A u \in Tab : \A q \in Request :
           (q \in Of(u, {"waiting"}))' => q \in Of(u, {"waiting"}) \/ u = t
    BY <2>2, <2>3 DEF Of
  <2>6. QED
    BY <2>1, <2>4, <2>5 DEF RefreshInv, LeadersOK
<1>5. CASE LeadRefresh(r)
  <2>1. ~isRefreshing[t] /\ isRefreshing' = [isRefreshing EXCEPT ![t] = TRUE]
    BY <1>5 DEF LeadRefresh
  <2>2. isRefreshing'[t] /\ \A u \in Tab \ {t} : isRefreshing'[u] = isRefreshing[u]
    BY <1>1, <2>1 DEF TypeOK
  <2>3. req'[r].st = "refreshing" /\ \A q \in Request \ {r} : req'[q] = req[q]
    BY <1>5 DEF LeadRefresh, TypeOK
  <2>4. \A q \in Request : Refreshing(t, q)' <=> q = r
    BY <1>2, <2>1, <2>3 DEF LeadersOK, Refreshing, Of
  <2>5. \A u \in Tab \ {t} : \A q \in Request :
           Refreshing(u, q)' = Refreshing(u, q) /\ (q \in Of(u, {"waiting"}))' = (q \in Of(u, {"waiting"}))
    BY <2>3 DEF Refreshing, Of
  <2>6. QED
    BY <2>2, <2>4, <2>5 DEF RefreshInv, LeadersOK
<1>6. CASE Refreshed(r) \/ RefreshFailed(r)
  <2>1. isRefreshing' = [isRefreshing EXCEPT ![t] = FALSE] /\ req[r].st = "refreshed"
    BY <1>6 DEF Refreshed, RefreshFailed
  <2>2. \A q \in Request : IF q = r \/ q \in Of(t, {"waiting"})
           THEN req'[q].st \in {"sent", "failed"} ELSE req'[q] = req[q]
    <3>1. CASE Refreshed(r)
      BY <3>1 DEF Refreshed, Sent, TypeOK
    <3>2. CASE RefreshFailed(r)
      BY <3>2 DEF RefreshFailed, TypeOK
    <3>3. QED
      BY <1>6, <3>1, <3>2
  <2>3. \A q \in Request : TabOf[q] = t /\ req[q].st \in {"refreshing", "refreshed"} => q = r
    BY <1>2, <2>1 DEF LeadersOK, Refreshing, Of
  <2>4. \A q \in Request : IF TabOf[q] = t
           THEN req'[q].st \notin {"refreshing", "refreshed", "waiting"} ELSE req'[q] = req[q]
    BY <2>2, <2>3 DEF Of
  <2>5. QED
    BY <1>1, <2>1, <2>4, RefreshOver
<1>7. QED
  BY <1>3, <1>4, <1>5, <1>6 DEF Handle

LEMMA LoadRefresh ==
  ASSUME TypeOK, RefreshInv, NEW t \in Tab, NEW to, Load(t, to)
  PROVE  RefreshInv'
<1>1. isRefreshing' = [isRefreshing EXCEPT ![t] = FALSE]
  BY DEF Load
<1>2. \A q \in Request : IF TabOf[q] = t
         THEN req'[q].st \notin {"refreshing", "refreshed", "waiting"} ELSE req'[q] = req[q]
  BY DEF Load, Of, Live, TypeOK
<1>3. QED
  BY <1>1, <1>2, RefreshOver

LEMMA StepRefresh == TypeOK /\ RefreshInv /\ [Next]_vars => RefreshInv'
<1> SUFFICES ASSUME TypeOK, RefreshInv, [Next]_vars PROVE RefreshInv'
  OBVIOUS
<1>1. ASSUME UNCHANGED <<isRefreshing, req>>
      PROVE  RefreshInv'
  BY <1>1, SameRefresh
<1>2. ASSUME NEW t \in Tab, BackToLogin(t) \/ SignOut(t) \/ LoadLogin(t)
                            \/ \E to \in {"login", "app"} : Visit(t, to)
      PROVE  RefreshInv'
  <2>1. CASE BackToLogin(t) \/ SignOut(t)
    BY <1>1, <2>1 DEF BackToLogin, SignOut
  <2>2. CASE LoadLogin(t) \/ \E to \in {"login", "app"} : Visit(t, to)
    BY <2>2, LoadRefresh DEF LoadLogin, Visit
  <2>3. QED
    BY <1>2, <2>1, <2>2
<1>3. CASE ExpireAccess \/ ExpireRefresh \/ UNCHANGED vars
  BY <1>1, <1>3 DEF ExpireAccess, ExpireRefresh, vars
<1>4. QED
  BY <1>2, <1>3, CallsRefresh, HandlersRefresh DEF Next

(* Whatever calls of whichever tabs meet an expired token, and whenever    *)
(* pages load: a tab has one refresh under way or none, as isRefreshing    *)
(* says, and no call waits in failedQueue for a refresh that is over.      *)
THEOREM OneRefreshAlways == Spec => []OneRefresh
<1>1. RefreshInv => OneRefresh
  <2> SUFFICES ASSUME RefreshInv, NEW t \in Tab
               PROVE  /\ Cardinality(Of(t, {"refreshing", "refreshed"})) =
                            IF isRefreshing[t] THEN 1 ELSE 0
                      /\ Of(t, {"waiting"}) # {} => isRefreshing[t]
    BY DEF OneRefresh
  <2> DEFINE leaders == Of(t, {"refreshing", "refreshed"})
  <2>1. LeadersOK(t)
    BY DEF RefreshInv
  <2>2. CASE isRefreshing[t]
    <3>1. PICK r \in Request : leaders = {r}
      BY <2>1, <2>2 DEF LeadersOK, Refreshing, Of
    <3>2. QED
      BY <2>2, <3>1, FS_Singleton
  <2>3. CASE ~isRefreshing[t]
    <3>1. leaders = {} /\ Of(t, {"waiting"}) = {}
      BY <2>1, <2>3 DEF LeadersOK, Refreshing, Of
    <3>2. QED
      BY <2>3, <3>1, FS_EmptySet
  <2>4. QED
    BY <2>2, <2>3
<1>2. QED
  BY <1>1, InitTyped, StepTyped, InitRefresh, StepRefresh, PTL DEF Spec

-----------------------------------------------------------------------------
(* The failures a page sees.                                               *)

\* What excuses a failure: a lost answer, an expired refresh token, a sign-out.
Excused ==
    (\E q \in Request : req[q].code = "lost") \/ deadRefresh > 0 \/ signOuts > 0

\* Nobody has signed in in this browser, and no page has made a call.
NeverSignedIn ==
    /\ ~stored /\ \A t \in Tab : ~auth[t]
    /\ \A r \in Request : Kind[r] = "api" => req[r].st = "new"

\* The tokens of localStorage are one pair, and only an excuse removes it.
StoreOK ==
    /\ access = refresh /\ access <= issued
    /\ access = 0 => Excused \/ NeverSignedIn

\* The code and the token of a call in each state.
AnswerOK(q) ==
    /\ q.st \in {"new", "sent"} => q.code = "none"
    /\ q.st \in {"waiting", "refreshing"} => q.code = "401"
    /\ q.st = "refreshed" => q.code \in {"200", "401", "lost"}
    /\ q.token <= issued
    /\ q.st = "new" => ~q.retry
    /\ q.st = "refreshing" => q.token # 0
    /\ q.st = "refreshed" /\ q.code = "200" => q.token > 1
    /\ q.st = "refreshed" /\ q.code = "401" => deadRefresh > 0

\* The calls of pages: a replay has a token later than the first, and a token
\* that is refused has expired.
PageCallOK(q) ==
    /\ q.st \in {"sent", "answered"} /\ q.token = 0 => Excused
    /\ q.st \in {"sent", "answered"} /\ q.retry => q.token > 1
    /\ q.st = "answered" /\ q.code = "403" => Excused
    /\ q.st = "answered" /\ q.code = "401" => q.token \in 1..deadAccess
    /\ q.st = "failed" => Excused \/ (q.retry /\ q.code = "401" /\ deadAccess > 1)

SignInOK(q) == q.st = "answered" /\ q.code = "200" => q.token # 0

CallOK(r) ==
    /\ AnswerOK(req[r])
    /\ IF Kind[r] = "api" THEN PageCallOK(req[r]) ELSE SignInOK(req[r])

ExpiryInv == StoreOK /\ \A r \in Request : CallOK(r)

LEMMA InitExpiry == Init => ExpiryInv
<1> SUFFICES ASSUME Init PROVE ExpiryInv
  OBVIOUS
<1>1. issued \in {0, 1} /\ access = issued /\ refresh = issued
  BY DEF Init
<1>2. \A r \in Request : /\ req[r].st = "new" /\ req[r].retry = FALSE
                          /\ req[r].code = "none" /\ req[r].token = 0
  BY DEF Init
<1>3. ASSUME access = 0 PROVE NeverSignedIn
  <2>1. issued # 1
    BY <1>1, <1>3
  <2>2. ~stored
    BY <2>1, Zenon DEF Init
  <2>3. \A t \in Tab : ~auth[t]
    BY <2>2, Zenon DEF Init
  <2>4. QED
    BY <1>2, <2>2, <2>3 DEF NeverSignedIn
<1>4. StoreOK
  BY <1>1, <1>3 DEF StoreOK
<1>5. ASSUME NEW r \in Request PROVE CallOK(r)
  BY <1>1, <1>2 DEF CallOK, AnswerOK, PageCallOK, SignInOK
<1>6. QED
  BY <1>4, <1>5 DEF ExpiryInv

\* The server's counters only grow; an excuse stays one.
Onward ==
    /\ issued' \in Nat /\ deadAccess' \in Nat /\ deadRefresh' \in Nat
    /\ issued <= issued' /\ deadAccess <= deadAccess' /\ deadRefresh <= deadRefresh'
    /\ Excused => Excused'

LEMMA CallsStay ==
  ASSUME TypeOK, ExpiryInv, Onward, NEW r \in Request, req'[r] = req[r]
  PROVE  CallOK(r)'
<1>1. /\ issued \in Nat /\ deadAccess \in Nat /\ deadRefresh \in Nat
      /\ req[r].token \in Nat
  BY SessionAssumption DEF TypeOK, Token
<1>2. CallOK(r)
  BY DEF ExpiryInv
<1>3. AnswerOK(req[r])'
  BY <1>1, <1>2 DEF CallOK, AnswerOK, Onward
<1>4. PageCallOK(req[r]) => PageCallOK(req[r])'
  BY <1>1 DEF PageCallOK, Onward
<1>5. SignInOK(req[r]) => SignInOK(req[r])'
  BY DEF SignInOK
<1>6. QED
  BY <1>2, <1>3, <1>4, <1>5 DEF CallOK

LEMMA StoreStays ==
  ASSUME TypeOK, ExpiryInv, Onward, UNCHANGED <<access, refresh>>,
         NeverSignedIn => NeverSignedIn'
  PROVE  StoreOK'
  BY SessionAssumption DEF ExpiryInv, StoreOK, Onward, TypeOK, Token

LEMMA ExcuseStays ==
  ASSUME TypeOK, deadRefresh <= deadRefresh', signOuts <= signOuts',
         deadRefresh' \in Nat, signOuts' \in Nat,
         \A q \in Request : req[q].code = "lost" => req'[q].code = "lost"
  PROVE  Excused => Excused'
<1>1. deadRefresh \in Nat /\ signOuts \in Nat
  BY SessionAssumption DEF TypeOK, Token
<1>2. QED
  BY <1>1 DEF Excused

(* A step that changes one call, and the store only as StoreOK allows.     *)
LEMMA OneCall ==
  ASSUME TypeOK, ExpiryInv, Onward, NEW r \in Request, CallOK(r)', StoreOK',
         \A q \in Request \ {r} : req'[q] = req[q]
  PROVE  ExpiryInv'
  BY CallsStay DEF ExpiryInv

LEMMA SendExpiry ==
  ASSUME TypeOK, ExpiryInv, NEW r \in Request, Send(r)
  PROVE  ExpiryInv'
<1>1. /\ req[r].st = "new" /\ req[r].code = "none"
      /\ req'[r] = [req[r] EXCEPT !.st = "sent", !.code = "none", !.token = access]
      /\ \A q \in Request \ {r} : req'[q] = req[q]
      /\ UNCHANGED <<storage, server, page, counts>>
  BY DEF Send, Sent, TypeOK, ExpiryInv, CallOK, AnswerOK
<1>2. req[r] \in ReqType
  BY DEF TypeOK, ReqType
<1>3. Onward
  BY <1>1, <1>2, ExcuseStays, SessionAssumption DEF Onward, TypeOK, Token, server, counts, ReqType
<1>4. ASSUME Kind[r] = "api" PROVE ~NeverSignedIn
  BY <1>4, SessionAssumption DEF Send, MaySend, NeverSignedIn
<1>5. NeverSignedIn => NeverSignedIn'
  BY <1>1, <1>4 DEF NeverSignedIn, storage, page
<1>6. CallOK(r)'
  <2>1. /\ req'[r].st = "sent" /\ req'[r].code = "none" /\ req'[r].token = access
        /\ req'[r].retry = req[r].retry
    BY <1>1, <1>2 DEF ReqType
  <2>2. access <= issued' /\ (Kind[r] = "api" /\ access = 0 => Excused')
    BY <1>1, <1>3, <1>4 DEF ExpiryInv, StoreOK, Onward, server
  <2>3. ASSUME Kind[r] = "api" PROVE ~req[r].retry
    BY <1>1, <2>3 DEF ExpiryInv, CallOK, AnswerOK
  <2>4. QED
    BY <2>1, <2>2, <2>3 DEF CallOK, AnswerOK, PageCallOK, SignInOK
<1>7. QED
  BY <1>1, <1>3, <1>5, <1>6, StoreStays, OneCall DEF storage

LEMMA AnswerExpiry ==
  ASSUME TypeOK, ExpiryInv, NEW r \in Request, Answer(r)
  PROVE  ExpiryInv'
<1>1. PICK c \in ServerCodes(r) \cup {"lost"} :
        LET pair == Kind[r] # "api" /\ c = "200" IN
        /\ pair => issued < MaxToken
        /\ issued' = IF pair THEN issued + 1 ELSE issued
        /\ req' = [req EXCEPT ![r].st = "answered", ![r].code = c,
                              ![r].token = IF pair THEN issued + 1 ELSE @]
  BY DEF Answer
<1>2. req[r].st = "sent" /\ req[r].code = "none" /\ CallOK(r)
  BY DEF Answer, ExpiryInv, CallOK, AnswerOK
<1>3. req[r] \in ReqType /\ issued \in Nat /\ deadAccess \in Nat /\ deadRefresh \in Nat /\ signOuts \in Nat
  BY SessionAssumption DEF TypeOK, ReqType, Token
<1>4. req[r].token \in Nat
  BY <1>3, SessionAssumption DEF ReqType, Token
<1>5. /\ req'[r].st = "answered" /\ req'[r].code = c /\ req'[r].retry = req[r].retry
      /\ \A q \in Request \ {r} : req'[q] = req[q]
  BY <1>1 DEF TypeOK
<1>6. IF Kind[r] # "api" /\ c = "200"
      THEN req'[r].token = issued + 1 /\ issued' = issued + 1
      ELSE req'[r].token = req[r].token /\ issued' = issued
  BY <1>1, <1>3 DEF TypeOK, ReqType
<1>7. UNCHANGED <<storage, deadAccess, deadRefresh, page, counts>>
  BY DEF Answer
<1>8. Onward
  BY <1>2, <1>3, <1>5, <1>6, <1>7, ExcuseStays DEF Onward, counts
<1>9. CallOK(r)'
  <2>1. AnswerOK(req[r])'
    BY <1>2, <1>3, <1>4, <1>5, <1>6 DEF CallOK, AnswerOK
  <2>2. CASE Kind[r] = "api"
    <3>1. c = "403" => req[r].token = 0
      BY <1>1, <2>2 DEF ServerCodes
    <3>2. c = "401" => req[r].token \in 1..deadAccess
      BY <1>1, <2>2 DEF ServerCodes
    <3>3. PageCallOK(req[r])'
      BY <1>2, <1>5, <1>6, <1>7, <1>8, <2>2, <3>1, <3>2 DEF CallOK, PageCallOK, Onward
    <3>4. QED
      BY <2>1, <2>2, <3>3 DEF CallOK
  <2>3. CASE Kind[r] # "api"
    BY <1>3, <1>5, <1>6, <2>1, <2>3 DEF CallOK, SignInOK
  <2>4. QED
    BY <2>2, <2>3
<1>10. NeverSignedIn => NeverSignedIn'
  BY <1>2, <1>5, <1>7 DEF NeverSignedIn, storage, page
<1>11. QED
  BY <1>5, <1>7, <1>8, <1>9, <1>10, StoreStays, OneCall DEF storage

LEMMA AnswerRefreshExpiry ==
  ASSUME TypeOK, ExpiryInv, NEW r \in Request, AnswerRefresh(r)
  PROVE  ExpiryInv'
<1>1. req[r].st = "refreshing" /\ req[r].code = "401" /\ CallOK(r) /\ req[r].token # 0
  BY DEF AnswerRefresh, ExpiryInv, CallOK, AnswerOK
<1>2. req[r] \in ReqType /\ issued \in Nat /\ deadAccess \in Nat /\ deadRefresh \in Nat /\ signOuts \in Nat
  BY SessionAssumption DEF TypeOK, ReqType, Token
<1>3. req[r].token \in Nat /\ req[r].token <= issued
  BY <1>1, <1>2, SessionAssumption DEF ReqType, Token, CallOK, AnswerOK
<1>4. /\ req'[r].st = "refreshed" /\ \A q \in Request \ {r} : req'[q] = req[q]
      /\ \/ req'[r].code = "200" /\ issued' = issued + 1 /\ req'[r].token = issued + 1
         \/ /\ req'[r].code \in {"401", "lost"} /\ issued' = issued
            /\ req'[r].token = req[r].token
            /\ req'[r].code = "401" => req[r].token <= deadRefresh
  BY DEF AnswerRefresh, TypeOK
<1>5. UNCHANGED <<storage, deadAccess, deadRefresh, page, counts>>
  BY DEF AnswerRefresh
<1>6. Onward
  BY <1>1, <1>2, <1>4, <1>5, ExcuseStays DEF Onward, counts
<1>7. CallOK(r)'
  BY <1>1, <1>2, <1>3, <1>4, <1>5 DEF CallOK, AnswerOK, PageCallOK, SignInOK
<1>8. NeverSignedIn => NeverSignedIn'
  BY <1>1, <1>4, <1>5 DEF NeverSignedIn, storage, page
<1>9. QED
  BY <1>4, <1>5, <1>6, <1>7, <1>8, StoreStays, OneCall DEF storage

(* A handler that settles one call, or lets it wait, and leaves the store. *)
LEMMA SettleExpiry ==
  ASSUME TypeOK, ExpiryInv, NEW r \in Request,
         ReceiveData(r) \/ ReceiveChallenge(r) \/ Reject(r) \/ JoinQueue(r)
  PROVE  ExpiryInv'
<1>1. req[r].st = "answered" /\ CallOK(r)
  BY DEF ReceiveData, ReceiveChallenge, Reject, JoinQueue, Expired, ExpiryInv
<1>2. req[r] \in ReqType /\ issued \in Nat /\ deadAccess \in Nat /\ deadRefresh \in Nat /\ signOuts \in Nat
  BY SessionAssumption DEF TypeOK, ReqType, Token
<1>3. req[r].token \in Nat
  BY <1>2, SessionAssumption DEF ReqType, Token
<1>4. /\ req'[r].code = req[r].code /\ req'[r].retry = req[r].retry /\ req'[r].token = req[r].token
      /\ \A q \in Request \ {r} : req'[q] = req[q]
      /\ \/ req'[r].st = "ok"
         \/ req'[r].st = "failed" /\ Reject(r)
         \/ req'[r].st = "waiting" /\ req[r].code = "401"
  BY <1>2 DEF ReceiveData, ReceiveChallenge, Reject, JoinQueue, Expired, Settle, TypeOK, ReqType
<1>5. UNCHANGED <<storage, server, auth, counts>>
  BY DEF ReceiveData, ReceiveChallenge, Reject, JoinQueue, page
<1>6. Onward
  BY <1>1, <1>2, <1>4, <1>5, ExcuseStays DEF Onward, counts, server
<1>7. CallOK(r)'
  <2>1. ASSUME Reject(r), Kind[r] = "api"
        PROVE  Excused \/ (req[r].retry /\ req[r].code = "401" /\ deadAccess > 1)
    <3>1. CASE req[r].code = "lost"
      BY <3>1 DEF Excused
    <3>2. CASE req[r].code = "403"
      BY <1>1, <2>1, <3>2 DEF CallOK, PageCallOK
    <3>3. CASE req[r].code = "401"
      <4>1. req[r].retry /\ req[r].token > 1 /\ req[r].token \in 1..deadAccess
        BY <1>1, <2>1, <3>3 DEF Reject, Expired, CallOK, PageCallOK
      <4>2. QED
        BY <1>2, <3>3, <4>1
    <3>4. QED
      BY <2>1, <3>1, <3>2, <3>3 DEF Reject
  <2>2. QED
    BY <1>1, <1>2, <1>3, <1>4, <1>5, <1>6, <2>1 DEF CallOK, AnswerOK, PageCallOK, SignInOK, Onward, server
<1>8. NeverSignedIn => NeverSignedIn'
  BY <1>1, <1>4, <1>5 DEF NeverSignedIn, storage
<1>9. QED
  BY <1>4, <1>5, <1>6, <1>7, <1>8, StoreStays, OneCall DEF storage

LEMMA SignInExpiry ==
  ASSUME TypeOK, ExpiryInv, NEW r \in Request, SignIn(r)
  PROVE  ExpiryInv'
<1>1. req[r].st = "answered" /\ req[r].code = "200" /\ CallOK(r) /\ Kind[r] # "api"
  BY DEF SignIn, ExpiryInv
<1>2. req[r] \in ReqType /\ issued \in Nat /\ deadAccess \in Nat /\ deadRefresh \in Nat /\ signOuts \in Nat
  BY SessionAssumption DEF TypeOK, ReqType, Token
<1>3. /\ req'[r] = [req[r] EXCEPT !.st = "ok"]
      /\ \A q \in Request \ {r} : req'[q] = req[q]
      /\ access' = req[r].token /\ refresh' = req[r].token
      /\ UNCHANGED <<server, counts>>
  BY DEF SignIn, Settle, TypeOK
<1>4. Onward
  BY <1>1, <1>2, <1>3, ExcuseStays DEF Onward, counts, server
<1>5. CallOK(r)'
  BY <1>1, <1>2, <1>3 DEF CallOK, AnswerOK, SignInOK, ReqType, server
<1>6. StoreOK'
  BY <1>1, <1>3 DEF StoreOK, CallOK, AnswerOK, SignInOK, server
<1>7. QED
  BY <1>3, <1>4, <1>5, <1>6, OneCall

LEMMA GiveUpExpiry ==
  ASSUME TypeOK, ExpiryInv, NEW r \in Request, GiveUp(r) \/ LeadRefresh(r)
  PROVE  ExpiryInv'
<1>1. req[r].st = "answered" /\ req[r].code = "401" /\ CallOK(r) /\ StoreOK
  BY DEF GiveUp, LeadRefresh, Expired, ExpiryInv
<1>2. req[r] \in ReqType /\ issued \in Nat /\ deadAccess \in Nat /\ deadRefresh \in Nat /\ signOuts \in Nat
  BY SessionAssumption DEF TypeOK, ReqType, Token
<1>3. /\ req'[r].code = "401" /\ req'[r].retry
      /\ \A q \in Request \ {r} : req'[q] = req[q]
      /\ \/ /\ refresh = 0 /\ req'[r].st = "failed" /\ access' = 0 /\ refresh' = 0
            /\ req'[r].token = req[r].token
         \/ /\ refresh # 0 /\ req'[r].st = "refreshing" /\ req'[r].token = refresh
            /\ UNCHANGED storage
      /\ UNCHANGED <<stored, server, auth, counts>>
  BY <1>1, <1>2 DEF GiveUp, LeadRefresh, TypeOK, ReqType, storage, page
<1>4. Onward
  BY <1>1, <1>2, <1>3, ExcuseStays DEF Onward, counts, server
<1>5. access' = access /\ refresh' = refresh
  BY <1>1, <1>3 DEF StoreOK, storage
<1>6. NeverSignedIn => NeverSignedIn'
  BY <1>1, <1>3 DEF NeverSignedIn
<1>7. Kind[r] = "api" => ~NeverSignedIn
  BY <1>1 DEF NeverSignedIn
<1>8. CallOK(r)'
  BY <1>1, <1>2, <1>3, <1>4, <1>7 DEF CallOK, AnswerOK, PageCallOK, SignInOK, StoreOK, Onward, server
<1>9. QED
  BY <1>3, <1>4, <1>5, <1>6, <1>8, StoreStays, OneCall

LEMMA RefreshedExpiry ==
  ASSUME TypeOK, ExpiryInv, NEW r \in Request, Refreshed(r)
  PROVE  ExpiryInv'
<1> DEFINE new == req[r].token
           replayed == {r} \cup Of(TabOf[r], {"waiting"})
<1>1. new > 1 /\ new <= issued
  BY DEF Refreshed, ExpiryInv, CallOK, AnswerOK
<1>2. issued \in Nat /\ deadAccess \in Nat /\ deadRefresh \in Nat /\ signOuts \in Nat /\ new \in Nat
  BY SessionAssumption DEF TypeOK, ReqType, Token
<1>3. /\ \A q \in Request : IF q \in replayed
           THEN req'[q] = [req[q] EXCEPT !.st = "sent", !.code = "none", !.token = new]
           ELSE req'[q] = req[q]
  BY DEF Refreshed, Sent, TypeOK
<1>4. /\ access' = new /\ refresh' = new
      /\ UNCHANGED <<issued, deadAccess, deadRefresh, signOuts, visits>>
  BY DEF Refreshed, server, counts
<1>5. \A q \in replayed : q \in Request /\ req[q].code # "lost"
  BY DEF Of, Refreshed, ExpiryInv, CallOK, AnswerOK
<1>6. Onward
  <2>1. \A q \in Request : req[q].code = "lost" => req'[q].code = "lost"
    BY <1>3, <1>5
  <2>2. Excused => Excused'
    BY <1>2, <1>4, <2>1, ExcuseStays
  <2>3. QED
    BY <1>2, <1>4, <2>2 DEF Onward
<1>7. ASSUME NEW q \in replayed PROVE CallOK(q)'
  <2>1. q \in Request /\ req[q] \in ReqType
    BY <1>5 DEF TypeOK, ReqType
  <2>2. req'[q].st = "sent" /\ req'[q].code = "none" /\ req'[q].token = new
    BY <1>3, <2>1 DEF ReqType
  <2>3. QED
    BY <1>1, <1>2, <1>4, <2>1, <2>2 DEF CallOK, AnswerOK, PageCallOK, SignInOK
<1>8. StoreOK'
  BY <1>1, <1>2, <1>4 DEF StoreOK
<1>9. QED
  BY <1>3, <1>6, <1>7, <1>8, CallsStay DEF ExpiryInv

LEMMA RefreshFailedExpiry ==
  ASSUME TypeOK, ExpiryInv, NEW r \in Request, RefreshFailed(r)
  PROVE  ExpiryInv'
<1> DEFINE rejected == {r} \cup Of(TabOf[r], {"waiting"})
<1>1. issued \in Nat /\ deadAccess \in Nat /\ deadRefresh \in Nat /\ signOuts \in Nat
  BY SessionAssumption DEF TypeOK, Token
<1>2. /\ \A q \in Request : IF q \in rejected
           THEN req'[q] = [req[q] EXCEPT !.st = "failed"] ELSE req'[q] = req[q]
      /\ access' = 0 /\ refresh' = 0 /\ UNCHANGED <<server, counts>>
  BY DEF RefreshFailed, TypeOK
<1>3. \A q \in rejected : q \in Request /\ CallOK(q)
  BY DEF Of, ExpiryInv
<1>4. Excused
  <2>1. req[r].code = "lost" \/ (req[r].code = "401" /\ deadRefresh > 0)
    BY <1>3 DEF RefreshFailed, CallOK, AnswerOK
  <2>2. QED
    BY <2>1 DEF Excused
<1>5. \A q \in Request : req'[q].code = req[q].code
  BY <1>2 DEF TypeOK, ReqType
<1>6. Onward
  BY <1>1, <1>2, <1>5, ExcuseStays DEF Onward, counts, server
<1>7. ASSUME NEW q \in rejected PROVE CallOK(q)'
  <2>1. q \in Request /\ req[q] \in ReqType /\ CallOK(q)
    BY <1>3 DEF TypeOK, ReqType
  <2>2. /\ req'[q].st = "failed" /\ req'[q].code = req[q].code
        /\ req'[q].token = req[q].token
    BY <1>2, <2>1 DEF ReqType
  <2>3. QED
    BY <1>2, <1>4, <1>6, <2>1, <2>2 DEF CallOK, AnswerOK, PageCallOK, SignInOK, Onward, server
<1>8. StoreOK'
  BY <1>1, <1>2, <1>4, <1>6 DEF StoreOK, server, Onward
<1>9. QED
  BY <1>2, <1>6, <1>7, <1>8, CallsStay DEF ExpiryInv

LEMMA HandlersExpiry ==
  ASSUME TypeOK, ExpiryInv, NEW r \in Request, Handle(r)
  PROVE  ExpiryInv'
  BY SettleExpiry, SignInExpiry, GiveUpExpiry, RefreshedExpiry, RefreshFailedExpiry DEF Handle

LEMMA LoadExpiry ==
  ASSUME TypeOK, ExpiryInv, NEW t \in Tab, NEW to, Load(t, to)
  PROVE  ExpiryInv'
<1>1. issued \in Nat /\ deadAccess \in Nat /\ deadRefresh \in Nat /\ signOuts \in Nat
  BY SessionAssumption DEF TypeOK, Token
<1>2. /\ \A q \in Request : req'[q] = [req[q] EXCEPT !.st = "dropped"] \/ req'[q] = req[q]
      /\ \A q \in Request : req[q].st = "new" => req'[q] = req[q]
      /\ UNCHANGED <<storage, server, signOuts>>
  BY DEF Load, TypeOK, Of, Live
<1>3. \A q \in Request : req'[q].code = req[q].code
  BY <1>2 DEF TypeOK, ReqType
<1>4. Onward
  BY <1>1, <1>2, <1>3, ExcuseStays DEF Onward, server
<1>5. NeverSignedIn => NeverSignedIn'
  BY <1>2 DEF NeverSignedIn, Load, TypeOK, storage
<1>6. ASSUME NEW q \in Request, req'[q] = [req[q] EXCEPT !.st = "dropped"]
      PROVE  CallOK(q)'
  <2>1. req[q] \in ReqType /\ CallOK(q)
    BY DEF TypeOK, ReqType, ExpiryInv
  <2>2. req'[q].st = "dropped" /\ req'[q].token = req[q].token
    BY <1>6, <2>1 DEF ReqType
  <2>3. QED
    BY <1>2, <2>1, <2>2 DEF CallOK, AnswerOK, PageCallOK, SignInOK, server
<1>7. QED
  BY <1>2, <1>4, <1>5, <1>6, CallsStay, StoreStays DEF ExpiryInv, storage

LEMMA PagesExpiry ==
  ASSUME TypeOK, ExpiryInv, NEW t \in Tab,
         \/ BackToLogin(t) \/ SignOut(t) \/ LoadLogin(t)
         \/ \E to \in {"login", "app"} : Visit(t, to)
  PROVE  ExpiryInv'
<1>1. issued \in Nat /\ deadAccess \in Nat /\ deadRefresh \in Nat /\ signOuts \in Nat
  BY SessionAssumption DEF TypeOK, Token
<1>2. CASE BackToLogin(t)
  <2>1. UNCHANGED <<access, refresh, stored, server, auth, req, signOuts>>
    BY <1>2 DEF BackToLogin, storage, counts
  <2>2. Onward
    BY <1>1, <2>1, ExcuseStays DEF Onward, server
  <2>3. NeverSignedIn => NeverSignedIn'
    BY <2>1 DEF NeverSignedIn
  <2>4. QED
    BY <2>1, <2>2, <2>3, CallsStay, StoreStays DEF ExpiryInv
<1>3. CASE SignOut(t)
  <2>1. /\ UNCHANGED <<server, req>> /\ access' = 0 /\ refresh' = 0
        /\ signOuts' = signOuts + 1
    BY <1>3 DEF SignOut
  <2>2. Excused' /\ Onward
    BY <1>1, <2>1 DEF Onward, server, Excused
  <2>3. StoreOK'
    BY <1>1, <2>1, <2>2 DEF StoreOK, server
  <2>4. QED
    BY <2>1, <2>2, <2>3, CallsStay DEF ExpiryInv
<1>4. CASE LoadLogin(t) \/ \E to \in {"login", "app"} : Visit(t, to)
  BY <1>4, LoadExpiry DEF LoadLogin, Visit
<1>5. QED
  BY <1>2, <1>3, <1>4

LEMMA StepExpiry == TypeOK /\ ExpiryInv /\ [Next]_vars => ExpiryInv'
<1> SUFFICES ASSUME TypeOK, ExpiryInv, [Next]_vars PROVE ExpiryInv'
  OBVIOUS
<1>1. issued \in Nat /\ deadAccess \in Nat /\ deadRefresh \in Nat /\ signOuts \in Nat
  BY SessionAssumption DEF TypeOK, Token
<1>2. CASE ExpireAccess \/ ExpireRefresh \/ UNCHANGED vars
  <2>1. UNCHANGED <<access, refresh, stored, issued, auth, req, signOuts>>
    BY <1>2 DEF ExpireAccess, ExpireRefresh, vars, storage, server, page, counts
  <2>2. /\ deadAccess' \in {deadAccess, deadAccess + 1}
        /\ deadRefresh' \in {deadRefresh, deadRefresh + 1}
    BY <1>2 DEF ExpireAccess, ExpireRefresh, vars, server
  <2>3. Onward
    BY <1>1, <2>1, <2>2, ExcuseStays DEF Onward
  <2>4. NeverSignedIn => NeverSignedIn'
    BY <2>1 DEF NeverSignedIn
  <2>5. QED
    BY <2>1, <2>3, <2>4, CallsStay, StoreStays DEF ExpiryInv
<1>3. QED
  BY <1>2, SendExpiry, AnswerExpiry, AnswerRefreshExpiry, HandlersExpiry, PagesExpiry DEF Next

(* An expired access token is invisible to the pages.  Tokens are removed  *)
(* only with an excuse, and a replay carries a later token than the first, *)
(* so it is refused only after a second expiry.                            *)
THEOREM ExpiryIsInvisible == Spec => []ExpiryInvisible
<1>1. ExpiryInv => ExpiryInvisible
  BY DEF ExpiryInv, CallOK, PageCallOK, Excused, ExpiryInvisible
<1>2. QED
  BY <1>1, InitTyped, StepTyped, InitExpiry, StepExpiry, PTL DEF Spec
=============================================================================
