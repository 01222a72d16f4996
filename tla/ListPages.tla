------------------------------ MODULE ListPages ------------------------------
(***************************************************************************)
(* A page with a list: the rows it fetched, the table that shows them page *)
(* by page, the dialogs that write and the calls those make.               *)
(*                                                                         *)
(* The rows of the server, other users and the answers of calls move on    *)
(* while a dialog is open or has been closed.  A call's onSuccess closes   *)
(* the dialog of its verb, whatever row that is about by then.             *)
(***************************************************************************)
EXTENDS Pages, Integers, FiniteSets, FiniteSetsExt

CONSTANTS
    ListedPage,   \* the pages looked at
    Row,          \* rows, natural numbers in the order the server lists them
    ListLimit,    \* the limit of an endpoint that is not given one, 50 in the code
    PageSize,     \* the choices of "Show ... entries"
    MaxOpened,    \* bound on the dialogs opened
    MaxPressed,   \* bound on the calls of a button under way at once
    MaxSteps      \* bound on the writes of others and on the failures

ASSUME ListPagesAssumption ==
    /\ ListedPage \subseteq Page /\ PageSize \subseteq Nat \ {0}
    /\ Row \subseteq Nat /\ IsFiniteSet(Row) /\ ListLimit \in Nat \ {0}
    /\ {MaxOpened, MaxPressed, MaxSteps} \subseteq Nat

VARIABLES
    listPage,     \* the page
    table,        \* the server's rows
    rows,         \* the rows of the last fetch
    wanted,       \* the rows the narrowing inputs let through
    pageIndex, pageSize,
    dialog,       \* the open dialog: its verb and its row, 0 for a new one
    calls,        \* calls[v]: sent, committed, the row, and whether its dialog was left
    opened, created, lost, others

listVars == <<listPage, table, rows, wanted, pageIndex, pageSize, dialog, calls,
              opened, created, lost, others>>
server == <<table, others>>
view == <<rows, wanted, pageIndex, pageSize>>

Closed == [verb |-> "none", row |-> 0]
NoCall == [sent |-> 0, committed |-> 0, row |-> 0, left |-> FALSE]
IsPending(v) == calls[v].sent + calls[v].committed > 0

\* What the endpoint lists: the rows the call asks for, up to the limit.
Asked == IF listPage.asks = {} THEN table ELSE table \cap wanted
PastTheLimit(r) ==
    listPage.limited /\ Cardinality({q \in Asked : q < r}) >= ListLimit

Listed == {r \in Asked : ~PastTheLimit(r)}

\* A page mounts with what is cached and the size persisted in localStorage.
ListInit ==
    /\ listPage \in ListedPage
    /\ table \in SUBSET Row /\ wanted = Row /\ rows = Listed
    /\ pageIndex = 0 /\ pageSize \in PageSize
    /\ dialog = Closed /\ calls = [v \in Verbs(listPage) |-> NoCall]
    /\ opened = 0 /\ created = 0 /\ lost = 0 /\ others = 0

-----------------------------------------------------------------------------
(* The table.                                                              *)

Filtered == rows \cap wanted
CeilDiv(n, k) == (n + k - 1) \div k
PageCount == Max({1, CeilDiv(Cardinality(Filtered), pageSize)})
\* Mutant: the page number is not clamped.
UnclampedPageIndex == pageIndex

SafePageIndex == Min({pageIndex, PageCount - 1})

\* filtered.slice: the rows of page i.
Slice(i) ==
    {r \in Filtered : Cardinality({q \in Filtered : q < r}) \in i * pageSize .. (i + 1) * pageSize - 1}

ShownRows == Slice(SafePageIndex)

\* A search, a select or a tab, whose rows are still to be fetched.
Narrow(input, rs) ==
    /\ input \in listPage.narrows /\ dialog = Closed
    /\ wanted' = rs
    /\ rows' = IF input \in listPage.asks THEN {} ELSE rows
    /\ pageIndex' = IF input \in listPage.resets THEN 0 ELSE pageIndex
    /\ UNCHANGED <<listPage, server, pageSize, dialog, calls, opened, created, lost>>

\* The arrows and the numbers, of which a long list shows some.
GoToPage(i) ==
    /\ ShownRows # {} /\ PageCount > 1 /\ i < PageCount /\ dialog = Closed
    /\ pageIndex' = i
    /\ UNCHANGED <<listPage, server, rows, wanted, pageSize, dialog, calls, opened, created, lost>>

SetPageSize(n) ==
    /\ ShownRows # {} /\ dialog = Closed
    /\ pageIndex' = 0 /\ pageSize' = n
    /\ UNCHANGED <<listPage, server, rows, wanted, dialog, calls, opened, created, lost>>

\* After an invalidation, a focus, a poll or "Refresh".
Refetch ==
    /\ rows' = Listed
    /\ UNCHANGED <<listPage, server, wanted, pageIndex, pageSize, dialog, calls,
                   opened, created, lost>>

-----------------------------------------------------------------------------
(* Dialogs.                                                                *)

NewRow(v) == v \in {"create", "allocate"}

OpenDialog(v, r) ==
    /\ dialog = Closed /\ opened < MaxOpened
    /\ v \in Verbs(listPage) \ listPage.atOnce
    /\ IF NewRow(v) THEN r = 0 ELSE r \in ShownRows
    /\ dialog' = [verb |-> v, row |-> r] /\ opened' = opened + 1
    /\ UNCHANGED <<listPage, server, view, calls, created, lost>>

\* Cancel, and the cross of the Modal, while a call is under way too.
CancelDialog ==
    /\ dialog # Closed
    /\ dialog' = Closed
    /\ calls' = [calls EXCEPT ![dialog.verb].left = IsPending(dialog.verb)]
    /\ UNCHANGED <<listPage, server, view, opened, created, lost>>

\* One more call of a verb, about row r.
OneMoreCall(v, r) ==
    [calls EXCEPT ![v] = [sent |-> calls[v].sent + 1, committed |-> calls[v].committed,
                          row |-> r, left |-> FALSE]]

\* Mutant: the button is not disabled.
SubmitAgain ==
    LET v == dialog.verb IN
    /\ dialog # Closed /\ calls[v].sent + calls[v].committed <= MaxPressed
    /\ calls' = OneMoreCall(v, dialog.row)
    /\ UNCHANGED <<listPage, server, view, dialog, opened, created, lost>>

\* The button of the dialog is disabled while its mutation is pending.
SubmitDialog ==
    LET v == dialog.verb IN
    /\ dialog # Closed /\ ~IsPending(v)
    /\ calls' = OneMoreCall(v, dialog.row)
    /\ UNCHANGED <<listPage, server, view, dialog, opened, created, lost>>

\* "Run Now" and "Cancel" of a scan: neither a dialog nor a disabled button.
PressAtOnce(v, r) ==
    /\ v \in listPage.atOnce /\ r \in ShownRows /\ dialog = Closed
    /\ calls[v].sent + calls[v].committed < MaxPressed
    /\ calls' = OneMoreCall(v, r)
    /\ UNCHANGED <<listPage, server, view, dialog, opened, created, lost>>

-----------------------------------------------------------------------------
(* The server, and the answers.                                            *)

\* What remains of the calls of a verb.
Ended(v, sent, committed) ==
    [calls EXCEPT ![v] = [sent |-> sent, committed |-> committed,
                          row |-> IF sent + committed = 0 THEN 0 ELSE calls[v].row,
                          left |-> FALSE]]

EndedSent(v) == Ended(v, calls[v].sent - 1, calls[v].committed)
EndedCommitted(v) == Ended(v, calls[v].sent, calls[v].committed - 1)

\* Whether or not its answer arrives, a button without a dialog does no more.
\* A deleted row is not found; a creation adds a row.
CommitCall(v) ==
    LET c == calls[v] IN
    /\ c.sent > 0 /\ (NewRow(v) \/ c.row \in table)
    /\ calls' = IF v \in listPage.atOnce THEN EndedSent(v)
                ELSE [calls EXCEPT ![v] = [sent |-> c.sent - 1, committed |-> c.committed + 1,
                                           row |-> c.row, left |-> c.left]]
    /\ \E r \in IF NewRow(v) THEN Row \ table ELSE {c.row} :
           table' = CASE NewRow(v) -> table \cup {r}
                      [] v = "delete" -> table \ {r}
                      [] OTHER -> table
    /\ created' = IF NewRow(v) THEN created + 1 ELSE created
    /\ UNCHANGED <<listPage, others, view, dialog, opened, lost>>

\* Mutant: an answer closes whatever dialog is open.
SucceedClosesAny(v) ==
    /\ calls[v].committed > 0
    /\ calls' = EndedCommitted(v) /\ dialog' = Closed
    /\ UNCHANGED <<listPage, server, view, opened, created, lost>>

\* onSuccess: setCreateOpen(false), setEditItem(null), setDecision(null).  The
\* last also leaves the dialog of the other verb.
SucceedCall(v) ==
    /\ calls[v].committed > 0
    /\ calls' = [w \in DOMAIN calls |->
                    IF w = dialog.verb /\ w # v /\ listPage.oneDialog
                    THEN [calls[w] EXCEPT !.left = IsPending(w)]
                    ELSE EndedCommitted(v)[w]]
    /\ dialog' = IF dialog.verb = v \/ listPage.oneDialog THEN Closed ELSE dialog
    /\ UNCHANGED <<listPage, server, view, opened, created, lost>>

\* The server refuses, or an answer is lost: the dialog stays for a retry.
RefuseCall(v) ==
    /\ calls[v].sent > 0 /\ others < MaxSteps
    /\ calls' = EndedSent(v)
    /\ others' = others + 1
    /\ UNCHANGED <<listPage, table, view, dialog, opened, created, lost>>

LoseAnswer(v) ==
    /\ calls[v].committed > 0 /\ others < MaxSteps
    /\ calls' = EndedCommitted(v)
    /\ lost' = lost + 1 /\ others' = others + 1
    /\ UNCHANGED <<listPage, table, view, dialog, opened, created>>

\* Other users.
OtherChanges(r) ==
    /\ others < MaxSteps
    /\ table' = IF r \in table THEN table \ {r} ELSE table \cup {r}
    /\ others' = others + 1
    /\ UNCHANGED <<listPage, view, dialog, calls, opened, created, lost>>

-----------------------------------------------------------------------------
ListNext ==
    \/ \E input \in listPage.narrows : \E rs \in SUBSET Row : Narrow(input, rs)
    \/ \E i \in 0 .. PageCount - 1 : GoToPage(i)
    \/ \E n \in PageSize : SetPageSize(n)
    \/ Refetch
    \/ \E v \in Verbs(listPage) : \E r \in rows \cup {0} : OpenDialog(v, r) \/ PressAtOnce(v, r)
    \/ CancelDialog \/ SubmitDialog
    \/ \E v \in Verbs(listPage) :
           CommitCall(v) \/ SucceedCall(v) \/ RefuseCall(v) \/ LoseAnswer(v)
    \/ \E r \in Row : OtherChanges(r)

ListSpec == ListInit /\ [][ListNext]_listVars

ListTypeOK ==
    /\ listPage \in ListedPage /\ table \subseteq Row /\ rows \subseteq Row /\ wanted \subseteq Row
    /\ pageIndex \in Nat /\ pageSize \in PageSize
    /\ dialog \in [verb : Verbs(listPage) \cup {"none"}, row : Row \cup {0}]
    /\ \A v \in Verbs(listPage) :
           /\ calls[v] \in [sent : Nat, committed : Nat, row : Row \cup {0}, left : BOOLEAN]
           /\ calls[v].sent + calls[v].committed <= IF v \in listPage.atOnce THEN MaxPressed ELSE 1
    /\ opened \in 0 .. MaxOpened /\ others \in 0 .. MaxSteps
    /\ created \in Nat /\ lost \in 0 .. MaxSteps

Reachable == UNION {Slice(i) : i \in 0 .. PageCount - 1}

(* No page number, however stale after a deletion, a search or a change of *)
(* tab, hides the rows that were fetched, and the pages one can go to show *)
(* each of them: the clamp of safePageIndex makes up for what is not       *)
(* reset.  Of the rows of the server only those past the limit are on no   *)
(* page when a fetch brought what there is.                                *)
RowsAreShown ==
    /\ Filtered # {} => ShownRows # {}
    /\ Filtered = Reachable
    /\ rows = Listed => \A r \in table \cap wanted : r \in Reachable \/ PastTheLimit(r)

(* A dialog creates at most one row, unless an answer was lost and it was  *)
(* submitted again: double clicks, cancelled and reopened dialogs included. *)
CreatedOnce == created <= opened + lost

(* An answer closes the dialog it answers and no other, unless its dialog  *)
(* was left while the call was under way: then it may close the dialog of  *)
(* another row, but only for the same verb (of either verb on the page     *)
(* that holds both in one state).                                          *)
AnswersCloseTheirOwn ==
    \A v \in Verbs(listPage) :
        dialog # Closed /\ dialog' = Closed /\ calls[v].committed > calls'[v].committed
            => \/ dialog = [verb |-> v, row |-> calls[v].row]
               \/ calls[v].left /\ (dialog.verb = v \/ listPage.oneDialog)

ClosedByItsOwnCall == [][AnswersCloseTheirOwn]_listVars
=============================================================================
