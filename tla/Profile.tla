------------------------------ MODULE Profile ------------------------------
(***************************************************************************)
(* ProfilePage, open in several windows of one user, and the endpoints of  *)
(* auth.py it calls: name, password and MFA.  A tab of the page that is    *)
(* left drops its state; what follows an await still runs, and what it     *)
(* sets on a tab that is gone is lost, what it sets in the store is not.   *)
(*                                                                         *)
(* A request reads the row of the user, decides, and writes the columns    *)
(* that it changed.  A code is known by the secret it was computed from;   *)
(* api-client.ts repeats a refused one once, with the same outcome.        *)
(***************************************************************************)
EXTENDS Naturals, FiniteSets, Sequences

CONSTANTS
    Window,
    MaxOrders,      \* bound on the requests
    MaxVisits,      \* bound on the tabs that are mounted, in all windows
    MaxOrdersLost   \* bound on the requests and answers that are lost

ASSUME ProfileAssumption ==
    /\ IsFiniteSet(Window) /\ MaxVisits \in Nat \ {0}
    /\ {MaxOrders, MaxOrdersLost} \subseteq Nat

NoSecret == 0

VARIABLES
    account,    \* the row: secret, on (mfa_enabled), enforced, name, password
    scanned,    \* the secrets in the user's authenticator
    wins,       \* of a window: tab, visits, setup data, its cached user
    orders,     \* the requests, by the number that names what each sets
    undone      \* a secret was changed while MFA was on or being switched on

profileVars == <<account, scanned, wins, orders, undone>>

Tab == {"profile", "password", "mfa"}
Kind == {"profile", "password", "setup", "enable", "disable"}

ProfileInit ==
    /\ account \in [secret : {NoSecret}, on : {FALSE}, enforced : BOOLEAN, name : {0}, password : {0}]
    /\ scanned = {} /\ orders = <<>> /\ undone = FALSE
    /\ wins = [w \in Window |-> [tab |-> "profile", visit |-> 1, setup |-> NoSecret, on |-> FALSE,
                                 name |-> 0]]

Under(i) == orders[i].st # "over"
Here(i) == orders[i].visit = wins[orders[i].win].visit
OfVisit(w, kind) == {i \in DOMAIN orders : orders[i].win = w /\ Here(i) /\ orders[i].kind = kind}
OrderPending(w, kind) == \E i \in OfVisit(w, kind) : Under(i)

-----------------------------------------------------------------------------
(* The page.                                                               *)

Visits == Cardinality({v \in Window \X (1 .. MaxVisits) : v[2] <= wins[v[1]].visit})

\* Mutant: the setup of a tab outlives it.
OpenTabKeepsSetup(w, tab) ==
    /\ wins[w].tab # tab /\ Visits < MaxVisits
    /\ wins' = [wins EXCEPT ![w].tab = tab, ![w].visit = @ + 1]
    /\ UNCHANGED <<account, scanned, orders, undone>>

OpenTab(w, tab) ==
    /\ wins[w].tab # tab /\ Visits < MaxVisits
    /\ wins' = [wins EXCEPT ![w].tab = tab, ![w].visit = @ + 1, ![w].setup = NoSecret]
    /\ UNCHANGED <<account, scanned, orders, undone>>

\* useCurrentUser: on focus, on a mount, or invalidated.
RefetchUser(w) ==
    /\ wins' = [wins EXCEPT ![w].on = account.on]
    /\ UNCHANGED <<account, scanned, orders, undone>>

\* "alone": nothing of the same kind is under way in any window.
Order(w, kind, arg) ==
    /\ Len(orders) < MaxOrders
    /\ orders' = Append(orders, [kind |-> kind, win |-> w, visit |-> wins[w].visit, arg |-> arg,
                                 st |-> "sent", ok |-> FALSE, saw |-> FALSE, lost |-> FALSE,
                                 alone |-> \A i \in DOMAIN orders : Under(i) => orders[i].kind # kind])
    /\ UNCHANGED <<account, scanned, undone>>

\* handleSave of the account information
SaveName(w) ==
    /\ wins[w].tab = "profile" /\ ~OrderPending(w, "profile")
    /\ Order(w, "profile", 0) /\ UNCHANGED wins

\* onSubmit: the button is never disabled, and the password may be mistyped.
PressPassword(w, typedRight) ==
    /\ wins[w].tab = "password"
    /\ Order(w, "password", IF typedRight THEN account.password ELSE MaxOrders + 1)
    /\ UNCHANGED wins

MaySetup(w) == wins[w].tab = "mfa" /\ wins[w].setup = NoSecret /\ ~wins[w].on
MayEnable(w) == wins[w].tab = "mfa" /\ wins[w].setup # NoSecret
MayDisable(w) ==
    wins[w].tab = "mfa" /\ wins[w].setup = NoSecret /\ wins[w].on /\ ~account.enforced

PressSetup(w) ==
    /\ MaySetup(w) /\ ~OrderPending(w, "setup")
    /\ Order(w, "setup", 0) /\ UNCHANGED wins

\* The QR code of the answer.
Scan(w) ==
    /\ MayEnable(w) /\ scanned' = scanned \cup {wins[w].setup}
    /\ UNCHANGED <<account, wins, orders, undone>>

\* It is not disabled while a code is verified.
CancelSetup(w) ==
    /\ MayEnable(w) /\ wins' = [wins EXCEPT ![w].setup = NoSecret]
    /\ UNCHANGED <<account, scanned, orders, undone>>

\* A code of any entry of the authenticator.
PressEnable(w, secret) ==
    /\ MayEnable(w) /\ ~OrderPending(w, "enable")
    /\ Order(w, "enable", secret) /\ UNCHANGED wins

PressDisable(w, secret) ==
    /\ MayDisable(w) /\ ~OrderPending(w, "disable")
    /\ Order(w, "disable", secret) /\ UNCHANGED wins

-----------------------------------------------------------------------------
(* The endpoints.                                                          *)

Codes(o) == account.secret # NoSecret /\ o.arg = account.secret

\* A new address that another user has is refused.
Accepts(o) ==
    CASE o.kind = "setup" -> {TRUE}
      [] o.kind = "enable" -> {Codes(o)}
      [] o.kind = "disable" -> {account.on /\ Codes(o)}
      [] o.kind = "password" -> {o.arg = account.password}
      [] o.kind = "profile" -> BOOLEAN

ReadAccount(i) ==
    /\ orders[i].st = "sent"
    /\ \E ok \in Accepts(orders[i]) :
          orders' = [orders EXCEPT ![i].st = IF ok THEN "read" ELSE "answered", ![i].ok = ok,
                                   ![i].saw = account.on]
    /\ UNCHANGED <<account, scanned, wins, undone>>

\* Mutant: switching MFA on makes another secret.
NewAccountNewSecret(i) ==
    LET o == orders[i] IN
    CASE o.kind = "setup" -> [account EXCEPT !.secret = i]
      [] o.kind = "enable" -> [account EXCEPT !.on = TRUE, !.secret = i]
      [] o.kind = "disable" -> [account EXCEPT !.on = FALSE, !.secret = NoSecret]
      [] o.kind = "password" -> [account EXCEPT !.password = i]
      [] o.kind = "profile" -> [account EXCEPT !.name = i]

\* MFA that was found on is not written again.
NewAccount(i) ==
    LET o == orders[i] IN
    CASE o.kind = "setup" -> [account EXCEPT !.secret = i]
      [] o.kind = "enable" -> [account EXCEPT !.on = @ \/ ~o.saw]
      [] o.kind = "disable" -> [account EXCEPT !.on = FALSE, !.secret = NoSecret]
      [] o.kind = "password" -> [account EXCEPT !.password = i]
      [] o.kind = "profile" -> [account EXCEPT !.name = i]

BeingSwitchedOn == \E i \in DOMAIN orders : orders[i].kind = "enable" /\ orders[i].st = "read"

CommitOrder(i) ==
    /\ orders[i].st = "read"
    /\ orders' = [orders EXCEPT ![i].st = "answered"] /\ account' = NewAccount(i)
    /\ undone' = (undone \/ /\ orders[i].kind \in {"setup", "disable"}
                            /\ account'.on \/ BeingSwitchedOn)
    /\ UNCHANGED <<scanned, wins>>

-----------------------------------------------------------------------------
(* The answers.                                                            *)

\* Mutant: the answer is forgotten with the tab.
StoredHere(window, i) ==
    IF orders[i].kind = "profile" /\ orders[i].ok /\ Here(i)
    THEN [window EXCEPT !.name = i, !.on = orders[i].saw] ELSE window

\* The store and the query cache get the user that a save returns.
Stored(window, i) ==
    IF orders[i].kind = "profile" /\ orders[i].ok
    THEN [window EXCEPT !.name = i, !.on = orders[i].saw] ELSE window

\* What the rest of a handler sets on its tab; a failed one only shows why.
OnTab(window, i) ==
    CASE Here(i) /\ orders[i].ok /\ orders[i].kind = "setup" -> [window EXCEPT !.setup = i]
      [] Here(i) /\ orders[i].ok /\ orders[i].kind = "enable" -> [window EXCEPT !.setup = NoSecret]
      [] OTHER -> window

AnswerOrder(i) ==
    /\ orders[i].st = "answered"
    /\ orders' = [orders EXCEPT ![i].st = "over"]
    /\ wins' = [wins EXCEPT ![orders[i].win] = OnTab(Stored(@, i), i)]
    /\ UNCHANGED <<account, scanned, undone>>

LoseOrder(i) ==
    /\ orders[i].st \in {"sent", "answered"}
    /\ Cardinality({j \in DOMAIN orders : orders[j].lost}) < MaxOrdersLost
    /\ orders' = [orders EXCEPT ![i].st = "over", ![i].lost = TRUE]
    /\ UNCHANGED <<account, scanned, wins, undone>>

ProfileNext ==
    \/ \E w \in Window :
          \/ \E tab \in Tab : OpenTab(w, tab)
          \/ RefetchUser(w) \/ SaveName(w)
          \/ \E right \in BOOLEAN : PressPassword(w, right)
          \/ PressSetup(w) \/ Scan(w) \/ CancelSetup(w)
          \/ \E secret \in scanned : PressEnable(w, secret) \/ PressDisable(w, secret)
    \/ \E i \in DOMAIN orders : ReadAccount(i) \/ CommitOrder(i) \/ AnswerOrder(i) \/ LoseOrder(i)

ProfileSpec == ProfileInit /\ [][ProfileNext]_profileVars

-----------------------------------------------------------------------------
ProfileTypeOK ==
    /\ account.secret \in {NoSecret} \cup DOMAIN orders /\ {account.on, undone} \subseteq BOOLEAN
    /\ scanned \subseteq DOMAIN orders
    /\ \A w \in Window : /\ wins[w].tab \in Tab /\ wins[w].visit \in 1 .. MaxVisits
                         /\ wins[w].setup # NoSecret => wins[w].tab = "mfa"
    /\ \A i \in DOMAIN orders : /\ orders[i].kind \in Kind
                                /\ orders[i].st \in {"sent", "read", "answered", "over"}

(* MFA that is on has the secret of an entry of the user's authenticator,  *)
(* so the user can log in again: whatever is scanned, cancelled, retried   *)
(* or answered late, and in whichever windows.  What breaks it is setup,   *)
(* or a disabling, that commits while MFA is on or being switched on: the  *)
(* setup endpoint overwrites the secret without asking.                    *)
NotLockedOut == account.on /\ ~undone => account.secret \in scanned

(* The name on the page is the server's once nothing is being saved, also  *)
(* when the tab was left before the answer; but for saves that overlapped, *)
(* an answer that was lost and the saves of other windows.                 *)
ProfileShown ==
    \A w \in Window :
        (\A i \in DOMAIN orders : orders[i].kind = "profile" =>
             orders[i].win = w /\ ~Under(i) /\ ~orders[i].lost /\ orders[i].alone)
        => wins[w].name = account.name
=============================================================================
