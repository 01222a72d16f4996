----------------------------- MODULE SearchViews -----------------------------
(***************************************************************************)
(* The views whose rows the server narrows and pages: the assets, the two  *)
(* logs, the history of an address and the global search.                  *)
(*                                                                         *)
(* What is typed is applied at once, after a pause or on submit.  Answers  *)
(* come late and out of order, and each belongs to the key it was asked    *)
(* with; a page number belongs to the rows it was chosen among.            *)
(***************************************************************************)
EXTENDS Integers, FiniteSets, FiniteSetsExt

CONSTANTS
    Searched,     \* the views looked at
    Words,        \* what can be typed, with nothing and with "x", which is short
    Options,      \* the options of the selects, with "all"
    LogRow,       \* rows, natural numbers in the order of the server
    Hits,         \* Hits[w, c]: the rows a word and an option let through
    Length,       \* page sizes
    MaxTyped,     \* bound on the inputs changed and the pages turned
    MaxShrinks    \* bound on the changes of the rows by others

NoWord == ""

\* applies: when the typed text reaches the key; least: the shortest text that is
\* asked for; selects and paged: whether there are selects, and pages.
View(applies, least, selects, paged) ==
    [applies |-> applies, least |-> least, selects |-> selects, paged |-> paged]

AssetsPage == View("after a pause", 0, TRUE, TRUE)
SystemLogsView == View("at once", 0, TRUE, TRUE)
UserActionsView == View("never", 0, TRUE, TRUE)
AuditPage == View("on submit", 1, FALSE, FALSE)
GlobalSearch == View("after a pause", 2, FALSE, FALSE)

ASSUME SearchViewsAssumption ==
    /\ Searched \subseteq {AssetsPage, SystemLogsView, UserActionsView, AuditPage, GlobalSearch}
    /\ {NoWord, "x"} \subseteq Words /\ "all" \in Options /\ Length \subseteq Nat \ {0}
    /\ LogRow \subseteq Nat /\ IsFiniteSet(LogRow)
    /\ Hits \in [Words \X Options -> SUBSET LogRow]
    /\ Hits[NoWord, "all"] = LogRow

VARIABLES
    searchView,   \* the view
    typed,        \* the text of the input
    timer,        \* the debounce is running
    applied,      \* the text of the key
    choice, pageNo, pageLen,
    logRows,      \* the rows the server has
    answers,      \* the cache: the answers by key
    asked,        \* the keys that were asked for
    shrunk,       \* rows went away
    typedCount, shrinks

searchVars == <<searchView, typed, timer, applied, choice, pageNo, pageLen, logRows, answers,
                asked, shrunk, typedCount, shrinks>>

-----------------------------------------------------------------------------
Size(w) == CASE w = NoWord -> 0 [] w = "x" -> 1 [] OTHER -> 2

\* The queryKey, and "enabled".

\* Mutant: the select is missing from the key.
KeyWithoutChoice(w, c, p, n) == [word |-> w, choice |-> "all", page |-> p, len |-> n]

Key(w, c, p, n) == [word |-> w, choice |-> c, page |-> p, len |-> n]
CurrentKey == Key(applied, choice, pageNo, pageLen)
Enabled(k) == Size(k.word) >= searchView.least

PageOf(rs, p, n) ==
    IF searchView.paged THEN {r \in rs : Cardinality({q \in rs : q < r}) \in p * n .. (p + 1) * n - 1}
    ELSE rs

\* The server's answer for a key: offset and limit of the rows that match.
Result(k) ==
    LET found == logRows \cap Hits[k.word, k.choice] IN
    [rows |-> PageOf(found, k.page, k.len), total |-> Cardinality(found)]

\* data of useQuery: of the current key, or none.
Answered == CurrentKey \in DOMAIN answers
Data == IF Answered THEN answers[CurrentKey] ELSE [rows |-> {}, total |-> 0]
TotalPages == Max({1, (Data.total + pageLen - 1) \div pageLen})

\* A view that has just been mounted.
SearchInit ==
    /\ searchView \in Searched
    /\ typed = NoWord /\ timer = FALSE /\ applied = NoWord /\ choice = "all"
    /\ pageNo = 0 /\ pageLen \in Length
    /\ logRows \in SUBSET LogRow /\ answers = << >>
    /\ asked = {k \in {CurrentKey} : Enabled(k)}
    /\ shrunk = FALSE /\ typedCount = 0 /\ shrinks = 0

-----------------------------------------------------------------------------
(* The inputs.                                                             *)

Use == typedCount < MaxTyped /\ typedCount' = typedCount + 1

\* A render with this key asks for it.
ShowKey(w, c, p, n) ==
    /\ applied' = w /\ choice' = c /\ pageNo' = p /\ pageLen' = n
    /\ asked' = asked \cup {k \in {Key(w, c, p, n)} : Enabled(k)}
    /\ UNCHANGED <<searchView, logRows, answers, shrunk, shrinks>>

\* A change clears the timer and starts it again.
Type(w) ==
    /\ Use /\ w # typed /\ searchView.applies # "never"
    /\ typed' = w
    /\ timer' = (searchView.applies = "after a pause")
    /\ IF searchView.applies = "at once" THEN ShowKey(w, choice, 0, pageLen)
       ELSE ShowKey(applied, choice, pageNo, pageLen)

\* The timer, and the button of the form.
Apply ==
    /\ \/ timer
       \/ searchView.applies = "on submit" /\ typed # applied
    /\ timer' = FALSE
    /\ ShowKey(typed, choice, 0, pageLen)
    /\ UNCHANGED <<typed, typedCount>>

\* Mutant: a select keeps the page number.
ChooseKeepsPage(c) ==
    /\ Use /\ c # choice /\ searchView.selects
    /\ ShowKey(applied, c, pageNo, pageLen)
    /\ UNCHANGED <<typed, timer>>

Choose(c) ==
    /\ Use /\ c # choice /\ searchView.selects
    /\ ShowKey(applied, c, 0, pageLen)
    /\ UNCHANGED <<typed, timer>>

\* The arrows: DataTable shows them under rows, the logs under any page.
TurnPage(p) ==
    /\ Use /\ searchView.paged
    /\ TotalPages > 1 /\ p \in {pageNo - 1, pageNo + 1} /\ p \in 0 .. TotalPages - 1
    /\ searchView = AssetsPage => Data.rows # {}
    /\ ShowKey(applied, choice, p, pageLen)
    /\ UNCHANGED <<typed, timer>>

SetLength(n) ==
    /\ Use /\ searchView = AssetsPage /\ n # pageLen /\ Data.rows # {}
    /\ ShowKey(applied, choice, 0, n)
    /\ UNCHANGED <<typed, timer>>

-----------------------------------------------------------------------------
(* The answers, and the rows.                                              *)

\* Of any key that was asked for, the current one or an earlier one.
AnswerKey(k) ==
    /\ answers' = [q \in DOMAIN answers \cup {k} |-> IF q = k THEN Result(k) ELSE answers[q]]
    /\ UNCHANGED <<searchView, typed, timer, applied, choice, pageNo, pageLen, logRows, asked,
                   shrunk, typedCount, shrinks>>

\* Scans, cleanups and other users.
ChangeRows(rs) ==
    /\ shrinks < MaxShrinks /\ shrinks' = shrinks + 1
    /\ logRows' = rs
    /\ shrunk' = (shrunk \/ ~(logRows \subseteq rs))
    /\ UNCHANGED <<searchView, typed, timer, applied, choice, pageNo, pageLen, answers, asked,
                   typedCount>>

SearchNext ==
    \/ \E w \in Words : Type(w)
    \/ Apply
    \/ \E c \in Options : Choose(c)
    \/ \E p \in 0 .. Cardinality(LogRow) : TurnPage(p)
    \/ \E n \in Length : SetLength(n)
    \/ \E k \in asked : AnswerKey(k)
    \/ \E rs \in SUBSET LogRow : ChangeRows(rs)

SearchSpec == SearchInit /\ [][SearchNext]_searchVars

SearchTypeOK ==
    /\ searchView \in Searched /\ {typed, applied} \subseteq Words /\ timer \in BOOLEAN
    /\ choice \in Options /\ pageNo \in Nat /\ pageLen \in Length /\ logRows \subseteq LogRow
    /\ asked \subseteq [word : Words, choice : Options, page : Nat, len : Length]
    /\ DOMAIN answers \subseteq asked

(* Once the pause is over, or the form submitted, the rows shown are rows  *)
(* that match what is typed and selected: no late answer of an earlier     *)
(* search, filter or page is shown for them.                               *)
ShownMatches ==
    ~timer /\ (searchView.applies \notin {"on submit", "never"} \/ typed = applied)
        => Data.rows \subseteq Hits[IF searchView.applies = "never" THEN NoWord ELSE typed, choice]

(* No search, filter or page size leaves the view on a page beyond the     *)
(* last, where it shows "No results" and no way back: only rows that went  *)
(* away do.                                                                *)
PageHasRows == Answered /\ Data.total > 0 /\ ~shrunk => Data.rows # {}
=============================================================================
