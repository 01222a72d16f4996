---------------------------- MODULE PagesProofs ----------------------------
(***************************************************************************)
(* Proofs about the parts of a page: the list and its dialogs, and the     *)
(* others that keep state of their own.                                    *)
(***************************************************************************)
EXTENDS ListPages, BulkEdits, Imports, SearchViews, AdminTabs, SelfUpdate, Permissions, QueryCache,
        Profile, FiniteSetTheorems, TLAPS

(* The pages of Pages.                                                     *)
Shaped(p) == /\ Verbs(p) \subseteq {"create", "update", "delete", "allocate", "run", "cancel",
                                    "approve", "reject"}
             /\ p.atOnce \subseteq {"run", "cancel"}
             /\ p.oneDialog \in BOOLEAN

LEMMA ListPageShape ==
  ASSUME NEW entity, NEW root, NEW joins
  PROVE  /\ DOMAIN ListPage(entity, root, joins).writes = {"create", "update", "delete"}
         /\ ListPage(entity, root, joins).atOnce = {}
         /\ ListPage(entity, root, joins).oneDialog = FALSE
  BY DEF ListPage, CrudDialogs

LEMMA PageShapes == ASSUME NEW p \in Page PROVE Shaped(p)
<1>1. ASSUME NEW q, q.atOnce = {}, q.oneDialog = FALSE,
             DOMAIN q.writes \subseteq {"create", "update", "delete", "allocate"}
      PROVE  Shaped(q)
  BY <1>1 DEF Shaped, Verbs
<1>2. ASSUME NEW entity, NEW root, NEW joins PROVE Shaped(ListPage(entity, root, joins))
  BY <1>1, ListPageShape
<1>3. CASE p \in CrudPages
  BY <1>2, <1>3 DEF CrudPages, TagsPage, VrfsPage, RirsPage, AggregatesPage, IpRangesPage,
     AsnsPage, CustomFieldsPage, ValidationRulesPage, WebhooksPage
<1>4. CASE p \in {SitesPage, VlansPage, SubnetsPage, VirtualIpsPage}
  BY <1>2, <1>4 DEF SitesPage, VlansPage, SubnetsPage, VirtualIpsPage
<1>5. CASE p \in {SnmpProfilesPage, WinrmProfilesPage, UsersTab}
  <2>1. /\ p.writes \in {CrudDialogs("snmp"), CrudDialogs("winrm"), CrudDialogs("user")}
        /\ p.atOnce = {} /\ p.oneDialog = FALSE
    BY <1>5 DEF SnmpProfilesPage, WinrmProfilesPage, UsersTab, ListPage
  <2>2. QED
    BY <1>1, <2>1 DEF CrudDialogs
<1>6. CASE p = IpsPage
  <2>1. /\ p.writes = [v \in {"create", "update", "delete", "allocate"} |-> <<v, "ip">>]
        /\ p.atOnce = {} /\ p.oneDialog = FALSE
    BY <1>6 DEF IpsPage, ListPage
  <2>2. QED
    BY <1>1, <2>1
<1>7. CASE p = IpamRecordsPage
  <2>1. /\ p.writes = [v \in {"update"} |-> <<v, "ip">>]
        /\ p.atOnce = {} /\ p.oneDialog = FALSE
    BY <1>7 DEF IpamRecordsPage, ListPage
  <2>2. QED
    BY <1>1, <2>1
<1>8. CASE p = DiscoveryPage
  <2>1. /\ p.writes = [v \in {"create", "delete", "run", "cancel"} |-> <<v, "scan">>]
        /\ p.atOnce = {"run", "cancel"} /\ p.oneDialog = FALSE
    BY <1>8 DEF DiscoveryPage, ScanWrites, ListPage
  <2>2. QED
    BY <2>1 DEF Shaped, Verbs
<1>9. CASE p = ApprovalsPage
  <2>1. p.writes = DecisionModal /\ p.atOnce = {} /\ p.oneDialog = TRUE
    BY <1>9 DEF ApprovalsPage, ListPage
  <2>2. QED
    BY <2>1 DEF DecisionModal, Shaped, Verbs
<1>10. QED
  BY <1>3, <1>4, <1>5, <1>6, <1>7, <1>8, <1>9 DEF Page

-----------------------------------------------------------------------------
(* Rows in the order of the server, page by page.                          *)

Below(S, r) == {q \in S : q < r}

LEMMA Ranks ==
  ASSUME NEW S \in SUBSET Nat, IsFiniteSet(S)
  PROVE  /\ Cardinality(S) \in Nat
         /\ \A r \in S : Cardinality(Below(S, r)) \in 0 .. Cardinality(S) - 1
         /\ \A r, t \in S : r < t => Cardinality(Below(S, r)) < Cardinality(Below(S, t))
<1>1. Cardinality(S) \in Nat
  BY FS_CardinalityType
<1>2. ASSUME NEW r \in S, NEW T \in SUBSET S, Below(S, r) \subseteq T \ {r}, r \in T
      PROVE  /\ Cardinality(Below(S, r)) \in Nat /\ Cardinality(T) \in Nat
             /\ Cardinality(Below(S, r)) < Cardinality(T)
  <2>1. IsFiniteSet(T) /\ IsFiniteSet(T \ {r}) /\ Cardinality(T \ {r}) = Cardinality(T) - 1
    BY <1>2, FS_Subset, FS_RemoveElement
  <2>2. IsFiniteSet(Below(S, r)) /\ Cardinality(Below(S, r)) <= Cardinality(T \ {r})
    BY <1>2, <2>1, FS_Subset
  <2>3. Cardinality(T) \in Nat /\ Cardinality(Below(S, r)) \in Nat
    BY <2>1, <2>2, FS_CardinalityType
  <2>4. QED
    BY <2>1, <2>2, <2>3
<1>3. ASSUME NEW r \in S PROVE Cardinality(Below(S, r)) \in 0 .. Cardinality(S) - 1
  <2>1. Below(S, r) \subseteq S \ {r}
    BY DEF Below
  <2>2. QED
    BY <1>1, <1>2, <2>1
<1>4. ASSUME NEW r \in S, NEW t \in S, r < t
      PROVE  Cardinality(Below(S, r)) < Cardinality(Below(S, t))
  <2>1. ASSUME NEW q \in Below(S, r) PROVE q \in Below(S, t) /\ q # r
    <3>1. q \in Nat /\ r \in Nat /\ t \in Nat /\ q \in S /\ q < r
      BY DEF Below
    <3>2. q < t /\ q # r
      BY <1>4, <3>1
    <3>3. QED
      BY <3>1, <3>2 DEF Below
  <2>2. r \in Below(S, t) /\ Below(S, t) \in SUBSET S
    BY <1>4 DEF Below
  <2>3. Below(S, r) \subseteq Below(S, t) \ {r}
    BY <2>1
  <2>4. QED
    BY <1>2, <2>2, <2>3
<1>5. QED
  BY <1>1, <1>3, <1>4

\* Ranks are as many as rows, and no two rows share one, so none is missing.
LEMMA RanksAreTaken ==
  ASSUME NEW S \in SUBSET Nat, IsFiniteSet(S), NEW k \in 0 .. Cardinality(S) - 1
  PROVE  \E r \in S : Cardinality(Below(S, r)) = k
<1> DEFINE T == 0 .. Cardinality(S) - 1
           rank == [r \in S |-> Cardinality(Below(S, r))]
<1>1. Cardinality(S) \in Nat /\ IsFiniteSet(T) /\ Cardinality(T) = Cardinality(S)
  <2>1. Cardinality(S) \in Nat
    BY Ranks
  <2>2. QED
    BY <2>1, FS_Interval
<1>2. rank \in [S -> T]
  BY Ranks
<1>3. ASSUME NEW r \in S, NEW t \in S, rank[r] = rank[t] PROVE r = t
  <2>1. rank[r] \in Nat /\ rank[t] \in Nat
    BY <1>1, <1>2
  <2>2. r \in Nat /\ t \in Nat
    OBVIOUS
  <2>3. ~(r < t) /\ ~(t < r)
    BY <1>3, <2>1, Ranks
  <2>4. QED
    BY <2>2, <2>3
<1>4. rank \in Injection(S, T)
  BY <1>2, <1>3 DEF Injection, IsInjective
<1>5. rank \in Surjection(S, T)
  BY <1>1, <1>4, FS_Injection
<1>6. QED
  BY <1>5 DEF Surjection

\* The pages of n rows, k of them on each.
LEMMA PagesOfRows ==
  ASSUME NEW n \in Nat, NEW k \in Nat \ {0}
  PROVE  /\ (n + k - 1) \div k \in Nat
         /\ n <= k * ((n + k - 1) \div k)
         /\ \A i \in Nat : i < (n + k - 1) \div k => i * k < n
<1> DEFINE q == (n + k - 1) \div k
<1>1. q \in Int /\ k * q <= n + k - 1 /\ n + k - 1 < k * q + k
  OBVIOUS
<1>2. q \in Nat
  OBVIOUS
<1> HIDE DEF q
<1>3. n <= k * q
  BY <1>1, <1>2
<1>4. ASSUME NEW i \in Nat, i < q PROVE i * k < n
  <2>1. k * (i + 1) <= k * q
    BY <1>2, <1>4
  <2>2. k * (i + 1) = i * k + k
    OBVIOUS
  <2>3. QED
    BY <1>1, <1>2, <2>1, <2>2
<1>5. QED
  BY <1>2, <1>3, <1>4 DEF q

\* The rows of page i.
OnPage(S, i, k) == {r \in S : Cardinality(Below(S, r)) \in i * k .. (i + 1) * k - 1}

LEMMA PageOfRows ==
  ASSUME NEW S \in SUBSET Nat, IsFiniteSet(S), NEW i \in Nat, NEW k \in Nat \ {0},
         i * k < Cardinality(S)
  PROVE  OnPage(S, i, k) # {}
<1>1. Cardinality(S) \in Nat /\ i * k \in Nat /\ (i + 1) * k = i * k + k
  BY Ranks
<1>2. PICK r \in S : Cardinality(Below(S, r)) = i * k
  BY <1>1, RanksAreTaken
<1>3. QED
  BY <1>1, <1>2 DEF OnPage

LEMMA RowsOnPages ==
  ASSUME NEW S \in SUBSET Nat, IsFiniteSet(S), NEW k \in Nat \ {0}, NEW r \in S
  PROVE  \E i \in 0 .. (Cardinality(S) + k - 1) \div k - 1 : r \in OnPage(S, i, k)
<1> DEFINE n == Cardinality(S)
           rank == Cardinality(Below(S, r))
           i == rank \div k
<1>1. n \in Nat /\ rank \in Nat /\ rank < n
  <2>1. n \in Nat /\ rank \in 0 .. n - 1
    BY Ranks
  <2>2. QED
    BY <2>1
<1>2. i \in Nat /\ k * i <= rank /\ rank < k * i + k
  <2> HIDE DEF rank
  <2>1. QED
    BY <1>1
<1> HIDE DEF i, n
<1>3. r \in OnPage(S, i, k)
  <2>1. i * k = k * i /\ (i + 1) * k = k * i + k /\ k * i \in Nat
    BY <1>2
  <2>2. rank \in i * k .. (i + 1) * k - 1
    BY <1>1, <1>2, <2>1
  <2>3. QED
    BY <2>2 DEF OnPage
<1>4. i < (n + k - 1) \div k
  <2> DEFINE q == (n + k - 1) \div k
  <2>1. q \in Nat /\ n <= k * q
    BY <1>1, PagesOfRows
  <2>2. k * i < k * q
    BY <1>1, <1>2, <2>1
  <2> HIDE DEF q
  <2>3. ASSUME q <= i PROVE FALSE
    <3>1. k * q <= k * i
      BY <1>2, <2>1, <2>3
    <3>2. QED
      BY <1>2, <2>1, <2>2, <3>1
  <2>4. QED
    BY <1>2, <2>1, <2>3 DEF q
<1>5. (n + k - 1) \div k \in Nat
  BY <1>1, PagesOfRows
<1>6. QED
  BY <1>2, <1>3, <1>4, <1>5 DEF n

-----------------------------------------------------------------------------
(* Lists and their dialogs.                                                *)

DialogVerbs == Verbs(listPage) \ listPage.atOnce

IsCall(v) == calls[v] = [sent |-> calls[v].sent, committed |-> calls[v].committed,
                         row |-> calls[v].row, left |-> calls[v].left]

CallsTyped ==
    /\ calls = [v \in Verbs(listPage) |-> calls[v]]
    /\ \A v \in Verbs(listPage) :
           /\ IsCall(v)
           /\ calls[v].sent \in Nat /\ calls[v].committed \in Nat /\ calls[v].left \in BOOLEAN
           /\ v \in listPage.atOnce => calls[v].committed = 0

\* One call of a dialog at a time, and its dialog is open unless it was left.
HasItsDialog(v) ==
    /\ calls[v].sent + calls[v].committed <= 1
    /\ IF IsPending(v) THEN calls[v].left \/ dialog = [verb |-> v, row |-> calls[v].row]
                       ELSE ~calls[v].left

CallsOK == CallsTyped /\ \A v \in DialogVerbs : HasItsDialog(v)

\* What a verb may still create: a call under way, and a dialog that can still
\* be submitted.
Due(v) ==
    IF v \notin Verbs(listPage) THEN 0
    ELSE calls[v].sent
         + IF dialog.verb = v /\ (calls[v].left \/ ~IsPending(v)) THEN 1 ELSE 0

IsDialog(d) == d = [verb |-> d.verb, row |-> d.row]

ListInv ==
    /\ listPage \in Page
    /\ dialog = Closed \/ (dialog.verb \in DialogVerbs /\ IsDialog(dialog))
    /\ CallsOK
    /\ opened \in Nat /\ created \in Nat /\ lost \in Nat
    /\ created + Due("create") + Due("allocate") <= opened + lost

LEMMA InitList == ListInit => ListInv
<1> SUFFICES ASSUME ListInit PROVE ListInv
  OBVIOUS
<1>1. /\ listPage \in Page /\ calls = [v \in Verbs(listPage) |-> NoCall] /\ dialog = Closed
      /\ opened = 0 /\ created = 0 /\ lost = 0
  BY ListPagesAssumption DEF ListInit
<1>2. CallsOK
  <2>1. \A v \in Verbs(listPage) : calls[v] = NoCall
    BY <1>1
  <2>2. /\ NoCall = [sent |-> NoCall.sent, committed |-> NoCall.committed, row |-> NoCall.row,
                     left |-> NoCall.left]
        /\ NoCall.sent = 0 /\ NoCall.committed = 0 /\ NoCall.left = FALSE
    BY DEF NoCall
  <2>3. calls = [v \in Verbs(listPage) |-> calls[v]]
    BY <1>1
  <2> HIDE DEF NoCall
  <2>4. \A v \in Verbs(listPage) : IsCall(v)
    BY <2>1, <2>2 DEF IsCall
  <2>5. \A v \in Verbs(listPage) :
           /\ calls[v].sent = 0 /\ calls[v].committed = 0
           /\ calls[v].left = FALSE /\ calls[v].left \in BOOLEAN
    BY <2>1, <2>2
  <2>6. CallsTyped
    <3>1. \A v \in Verbs(listPage) :
             /\ calls[v].sent \in Nat /\ calls[v].committed \in Nat /\ calls[v].left \in BOOLEAN
             /\ v \in listPage.atOnce => calls[v].committed = 0
      BY <2>5
    <3>2. QED
      BY <2>3, <2>4, <3>1, Zenon DEF CallsTyped
  <2>7. \A v \in DialogVerbs : HasItsDialog(v)
    BY <2>5 DEF HasItsDialog, IsPending, DialogVerbs
  <2>8. QED
    BY <2>6, <2>7 DEF CallsOK
<1>3. Due("create") = 0 /\ Due("allocate") = 0
  BY <1>1 DEF Due, NoCall, Closed
<1>4. QED
  BY <1>1, <1>2, <1>3 DEF ListInv, Closed

\* A step about one verb leaves the others no more to create, and is paid for.
LEMMA Balanced ==
  ASSUME ListInv, CallsOK', opened' \in Nat, created' \in Nat, lost' \in Nat, NEW v,
         Due(v) \in Nat, Due(v)' \in Nat,
         \A w : w # v => Due(w)' <= Due(w),
         IF NewRow(v) THEN created' + Due(v)' + opened + lost <= created + Due(v) + opened' + lost'
                      ELSE created' + opened + lost <= created + opened' + lost'
  PROVE  created' + Due("create")' + Due("allocate")' <= opened' + lost'
<1>1. Due("create") \in Nat /\ Due("allocate") \in Nat
  BY DEF ListInv, CallsOK, CallsTyped, Due
<1>2. Due("create")' \in Nat /\ Due("allocate")' \in Nat
  BY DEF CallsOK, CallsTyped, Due
<1>3. CASE v = "create"
  BY <1>1, <1>2, <1>3 DEF ListInv, NewRow
<1>4. CASE v = "allocate"
  BY <1>1, <1>2, <1>4 DEF ListInv, NewRow
<1>5. CASE ~NewRow(v)
  <2>1. Due("create")' <= Due("create") /\ Due("allocate")' <= Due("allocate")
    BY <1>5 DEF NewRow
  <2>2. created' + opened + lost <= created + opened' + lost'
    BY <1>5
  <2>3. /\ opened \in Nat /\ created \in Nat /\ lost \in Nat
        /\ created + Due("create") + Due("allocate") <= opened + lost
    BY DEF ListInv
  <2>4. QED
    BY <1>1, <1>2, <2>1, <2>2, <2>3
<1>6. QED
  BY <1>3, <1>4, <1>5 DEF NewRow

\* The verbs that create have dialogs.
LEMMA NewRowsHaveDialogs ==
  ASSUME listPage \in Page, NEW v \in Verbs(listPage), NewRow(v) PROVE v \in DialogVerbs
  BY PageShapes DEF Shaped, NewRow, DialogVerbs

LEMMA OpenList ==
  ASSUME ListInv, NEW v \in Verbs(listPage), NEW r, OpenDialog(v, r)
  PROVE  ListInv'
<1>1. /\ v \in DialogVerbs /\ dialog = Closed /\ dialog' = [verb |-> v, row |-> r]
      /\ opened' = opened + 1 /\ UNCHANGED <<listPage, calls, created, lost>>
  BY DEF OpenDialog, DialogVerbs
<1>2. "none" \notin Verbs(listPage)
  BY PageShapes DEF ListInv, Shaped
<1>3. \A w \in DialogVerbs : IsPending(w) => calls[w].left
  BY <1>1, <1>2 DEF ListInv, CallsOK, HasItsDialog, DialogVerbs, Closed
<1>4. CallsOK'
  <2>1. CallsTyped'
    BY <1>1 DEF ListInv, CallsOK, CallsTyped, IsCall
  <2>2. \A w \in DialogVerbs : HasItsDialog(w)'
    BY <1>1, <1>3 DEF ListInv, CallsOK, HasItsDialog, IsPending
  <2>3. QED
    BY <1>1, <2>1, <2>2 DEF CallsOK, DialogVerbs
<1>5. /\ \A w : w # v => Due(w)' = Due(w)
      /\ Due(v)' <= Due(v) + 1
  BY <1>1, <1>2 DEF Due, ListInv, CallsOK, CallsTyped, Closed, IsPending
<1>6. Due(v) \in Nat /\ Due(v)' \in Nat
  BY <1>4 DEF ListInv, CallsOK, CallsTyped, Due
<1>7. \A w : w # v => Due(w)' <= Due(w)
  BY <1>1 DEF Due, ListInv, CallsOK, CallsTyped, Closed, IsPending
<1>8. created' + Due("create")' + Due("allocate")' <= opened' + lost'
  BY <1>1, <1>4, <1>5, <1>6, <1>7, Balanced DEF ListInv
<1>9. QED
  BY <1>1, <1>4, <1>8 DEF ListInv, DialogVerbs, IsDialog

\* What changes one call leaves the others.
IsCallRecord(c) ==
    /\ c = [sent |-> c.sent, committed |-> c.committed, row |-> c.row, left |-> c.left]
    /\ c.sent \in Nat /\ c.committed \in Nat /\ c.left \in BOOLEAN

LEMMA OneCallChanges ==
  ASSUME CallsTyped, UNCHANGED listPage, NEW v \in Verbs(listPage), NEW c, IsCallRecord(c),
         v \in listPage.atOnce => c.committed = 0, calls' = [calls EXCEPT ![v] = c]
  PROVE  /\ CallsTyped' /\ calls'[v] = c
         /\ \A w \in Verbs(listPage) : w # v => calls'[w] = calls[w]
<1>1. /\ calls' = [w \in Verbs(listPage) |-> calls'[w]] /\ calls'[v] = c
      /\ \A w \in Verbs(listPage) : w # v => calls'[w] = calls[w]
  BY DEF CallsTyped
<1>2. \A w \in Verbs(listPage) :
         /\ IsCall(w)'
         /\ calls'[w].sent \in Nat /\ calls'[w].committed \in Nat /\ calls'[w].left \in BOOLEAN
         /\ w \in listPage.atOnce => calls'[w].committed = 0
  BY <1>1 DEF CallsTyped, IsCall, IsCallRecord
<1>3. CallsTyped'
  BY <1>1, <1>2, Zenon DEF CallsTyped
<1>4. QED
  BY <1>1, <1>3

LEMMA CancelList ==
  ASSUME ListInv, CancelDialog
  PROVE  ListInv'
<1>1. PICK v : v = dialog.verb
  OBVIOUS
<1>2. "none" \notin Verbs(listPage)
  BY PageShapes DEF ListInv, Shaped
<1>3. v \in DialogVerbs /\ v \in Verbs(listPage) /\ v \notin listPage.atOnce
  BY <1>1 DEF CancelDialog, ListInv, DialogVerbs
<1>4. dialog' = Closed /\ UNCHANGED <<listPage, opened, created, lost>>
  BY DEF CancelDialog
<1>5. PICK c : c = [calls[v] EXCEPT !.left = IsPending(v)]
  OBVIOUS
<1>6. /\ CallsTyped'
      /\ calls'[v].sent = calls[v].sent /\ calls'[v].committed = calls[v].committed
      /\ calls'[v].left = IsPending(v)
      /\ \A w \in Verbs(listPage) : w # v => calls'[w] = calls[w]
  <2>1. /\ IsCallRecord(c) /\ c.sent = calls[v].sent /\ c.committed = calls[v].committed
        /\ c.left = IsPending(v)
    BY <1>3, <1>5 DEF ListInv, CallsOK, CallsTyped, IsCall, IsCallRecord, IsPending
  <2>2. calls' = [calls EXCEPT ![v] = c]
    BY <1>1, <1>3, <1>5 DEF CancelDialog, ListInv, CallsOK, CallsTyped
  <2>3. CallsTyped /\ UNCHANGED listPage
    BY <1>4 DEF ListInv, CallsOK
  <2>4. CallsTyped' /\ calls'[v] = c
        /\ \A w \in Verbs(listPage) : w # v => calls'[w] = calls[w]
    BY <1>3, <2>1, <2>2, <2>3, OneCallChanges
  <2>5. QED
    BY <2>1, <2>4
<1>7. \A w \in DialogVerbs : HasItsDialog(w)'
  <2>1. HasItsDialog(v)'
    BY <1>3, <1>6 DEF ListInv, CallsOK, HasItsDialog, IsPending
  <2>2. ASSUME NEW w \in DialogVerbs, w # v PROVE HasItsDialog(w)'
    <3>1. calls'[w] = calls[w] /\ HasItsDialog(w) /\ dialog.verb # w
      BY <1>1, <1>6, <2>2 DEF ListInv, CallsOK, DialogVerbs
    <3>2. QED
      BY <3>1 DEF HasItsDialog, IsPending
  <2>3. QED
    BY <2>1, <2>2
<1>8. CallsOK'
  BY <1>4, <1>6, <1>7 DEF CallsOK, DialogVerbs
<1>9. \A w : Due(w)' <= Due(w)
  BY <1>1, <1>2, <1>3, <1>4, <1>6 DEF Due, ListInv, CallsOK, CallsTyped, Closed, IsPending
<1>10. created' + Due("create")' + Due("allocate")' <= opened' + lost'
  <2>1. Due(v) \in Nat /\ Due(v)' \in Nat
    BY <1>8 DEF ListInv, CallsOK, CallsTyped, Due
  <2>2. QED
    BY <1>4, <1>8, <1>9, <2>1, Balanced DEF ListInv
<1>11. QED
  BY <1>4, <1>8, <1>10 DEF ListInv

LEMMA SubmitList ==
  ASSUME ListInv, SubmitDialog
  PROVE  ListInv'
<1>1. PICK v : v = dialog.verb
  OBVIOUS
<1>2. /\ v \in DialogVerbs /\ v \in Verbs(listPage) /\ v \notin listPage.atOnce
      /\ IsDialog(dialog) /\ ~IsPending(v)
  BY <1>1 DEF SubmitDialog, ListInv, DialogVerbs
<1>3. UNCHANGED <<listPage, dialog, opened, created, lost>>
  BY DEF SubmitDialog
<1>4. PICK c : c = [sent |-> 1, committed |-> 0, row |-> dialog.row, left |-> FALSE]
  OBVIOUS
<1>5. IsCallRecord(c) /\ c.sent = 1 /\ c.committed = 0 /\ c.row = dialog.row /\ c.left = FALSE
  BY <1>4 DEF IsCallRecord
<1>6. calls[v].sent = 0 /\ calls[v].committed = 0
  BY <1>2 DEF IsPending, ListInv, CallsOK, CallsTyped
<1>7. /\ CallsTyped' /\ calls'[v] = c
      /\ \A w \in Verbs(listPage) : w # v => calls'[w] = calls[w]
  <2>1. calls' = [calls EXCEPT ![v] = c]
    BY <1>1, <1>4, <1>6 DEF SubmitDialog, OneMoreCall
  <2>2. CallsTyped /\ UNCHANGED listPage
    BY <1>3 DEF ListInv, CallsOK
  <2>3. QED
    BY <1>2, <1>5, <2>1, <2>2, OneCallChanges
<1>8. \A w \in DialogVerbs : HasItsDialog(w)'
  <2>1. HasItsDialog(v)'
    BY <1>1, <1>2, <1>3, <1>5, <1>7 DEF HasItsDialog, IsPending, IsDialog
  <2>2. ASSUME NEW w \in DialogVerbs, w # v PROVE HasItsDialog(w)'
    <3>1. calls'[w] = calls[w] /\ HasItsDialog(w)
      BY <1>7, <2>2 DEF ListInv, CallsOK, DialogVerbs
    <3>2. QED
      BY <1>3, <3>1 DEF HasItsDialog, IsPending
  <2>3. QED
    BY <2>1, <2>2
<1>9. CallsOK'
  BY <1>3, <1>7, <1>8 DEF CallsOK, DialogVerbs
<1>10. /\ \A w : w # v => Due(w)' = Due(w)
       /\ Due(v)' = Due(v) /\ Due(v) \in Nat
  BY <1>1, <1>2, <1>3, <1>5, <1>6, <1>7 DEF Due, IsPending
<1>11. \A w : w # v => Due(w)' <= Due(w)
  BY <1>1, <1>3, <1>7 DEF Due, ListInv, CallsOK, CallsTyped, IsPending
<1>12. created' + Due("create")' + Due("allocate")' <= opened' + lost'
  BY <1>3, <1>9, <1>10, <1>11, Balanced DEF ListInv
<1>13. QED
  BY <1>3, <1>9, <1>12 DEF ListInv, DialogVerbs

LEMMA PressList ==
  ASSUME ListInv, NEW v \in Verbs(listPage), NEW r, PressAtOnce(v, r)
  PROVE  ListInv'
<1>1. /\ v \in listPage.atOnce /\ v \notin DialogVerbs /\ ~NewRow(v)
      /\ UNCHANGED <<listPage, dialog, opened, created, lost>>
  BY PageShapes DEF PressAtOnce, ListInv, Shaped, NewRow, DialogVerbs
<1>2. PICK c : c = [sent |-> calls[v].sent + 1, committed |-> calls[v].committed,
                    row |-> r, left |-> FALSE]
  OBVIOUS
<1>3. /\ CallsTyped' /\ calls'[v] = c
      /\ \A w \in Verbs(listPage) : w # v => calls'[w] = calls[w]
  <2>1. IsCallRecord(c) /\ c.committed = 0
    BY <1>1, <1>2 DEF ListInv, CallsOK, CallsTyped, IsCallRecord
  <2>2. calls' = [calls EXCEPT ![v] = c]
    BY <1>2 DEF PressAtOnce, OneMoreCall
  <2>3. CallsTyped /\ UNCHANGED listPage
    BY <1>1 DEF ListInv, CallsOK
  <2>4. QED
    BY <2>1, <2>2, <2>3, OneCallChanges
<1>4. \A w \in DialogVerbs : HasItsDialog(w)'
  <2>1. SUFFICES ASSUME NEW w \in DialogVerbs PROVE HasItsDialog(w)'
    OBVIOUS
  <2>2. calls'[w] = calls[w] /\ HasItsDialog(w)
    BY <1>1, <1>3 DEF ListInv, CallsOK, DialogVerbs
  <2>3. QED
    BY <1>1, <2>2 DEF HasItsDialog, IsPending
<1>5. CallsOK'
  BY <1>1, <1>3, <1>4 DEF CallsOK, DialogVerbs
<1>6. \A w : w # v => Due(w)' <= Due(w)
  BY <1>1, <1>3 DEF Due, ListInv, CallsOK, CallsTyped, IsPending
<1>7. created' + Due("create")' + Due("allocate")' <= opened' + lost'
  <2>1. Due(v) \in Nat /\ Due(v)' \in Nat
    BY <1>5 DEF ListInv, CallsOK, CallsTyped, Due
  <2>2. QED
    BY <1>1, <1>5, <1>6, <2>1, Balanced DEF ListInv
<1>8. QED
  BY <1>1, <1>5, <1>7 DEF ListInv, DialogVerbs

\* A call that has ended: refused, lost, or committed by a button without a dialog.
LEMMA EndedCalls ==
  ASSUME CallsTyped, UNCHANGED listPage, NEW v \in Verbs(listPage),
         NEW sent \in Nat, NEW committed \in Nat, v \in listPage.atOnce => committed = 0,
         calls' = Ended(v, sent, committed)
  PROVE  /\ CallsTyped'
         /\ calls'[v].sent = sent /\ calls'[v].committed = committed /\ calls'[v].left = FALSE
         /\ \A w \in Verbs(listPage) : w # v => calls'[w] = calls[w]
<1>1. PICK c : c = [sent |-> sent, committed |-> committed,
                    row |-> IF sent + committed = 0 THEN 0 ELSE calls[v].row, left |-> FALSE]
  OBVIOUS
<1>2. IsCallRecord(c) /\ c.sent = sent /\ c.committed = committed /\ c.left = FALSE
  BY <1>1 DEF IsCallRecord
<1>3. calls' = [calls EXCEPT ![v] = c]
  BY <1>1 DEF Ended
<1>4. QED
  BY <1>2, <1>3, OneCallChanges

LEMMA CommitList ==
  ASSUME ListInv, NEW v \in Verbs(listPage), CommitCall(v)
  PROVE  ListInv'
<1>1. /\ created' = (IF NewRow(v) THEN created + 1 ELSE created)
      /\ UNCHANGED <<listPage, dialog, opened, lost>> /\ calls[v].sent > 0
  BY DEF CommitCall
<1>2. CASE v \in listPage.atOnce
  <2>1. v \notin DialogVerbs /\ ~NewRow(v)
    BY <1>2, PageShapes DEF ListInv, Shaped, NewRow, DialogVerbs
  <2>2. /\ CallsTyped'
        /\ \A w \in Verbs(listPage) : w # v => calls'[w] = calls[w]
    <3>1. /\ calls[v].sent - 1 \in Nat /\ calls[v].committed = 0
          /\ CallsTyped /\ UNCHANGED listPage
      BY <1>1, <1>2 DEF ListInv, CallsOK, CallsTyped
    <3>2. PICK sent \in Nat : sent = calls[v].sent - 1
      BY <3>1
    <3>3. calls' = Ended(v, sent, 0)
      BY <1>2, <3>1, <3>2 DEF CommitCall, EndedSent
    <3>4. CallsTyped /\ UNCHANGED listPage /\ 0 \in Nat
      BY <3>1
    <3>5. QED
      BY <1>2, <3>2, <3>3, <3>4, EndedCalls
  <2>3. \A w \in DialogVerbs : HasItsDialog(w)'
    <3>1. SUFFICES ASSUME NEW w \in DialogVerbs PROVE HasItsDialog(w)'
      OBVIOUS
    <3>2. calls'[w] = calls[w] /\ HasItsDialog(w)
      BY <2>1, <2>2 DEF ListInv, CallsOK, DialogVerbs
    <3>3. QED
      BY <1>1, <3>2 DEF HasItsDialog, IsPending
  <2>4. CallsOK'
    BY <1>1, <2>2, <2>3 DEF CallsOK, DialogVerbs
  <2>5. \A w : w # v => Due(w)' <= Due(w)
    BY <1>1, <2>2 DEF Due, ListInv, CallsOK, CallsTyped, IsPending
  <2>6. created' + Due("create")' + Due("allocate")' <= opened' + lost'
    <3>1. Due(v) \in Nat /\ Due(v)' \in Nat
      BY <2>4 DEF ListInv, CallsOK, CallsTyped, Due
    <3>2. QED
      BY <1>1, <2>1, <2>4, <2>5, <3>1, Balanced DEF ListInv
  <2>7. QED
    BY <1>1, <2>1, <2>4, <2>6 DEF ListInv, DialogVerbs
<1>3. CASE v \notin listPage.atOnce
  <2>1. v \in DialogVerbs
    BY <1>3 DEF DialogVerbs
  <2>2. calls[v].sent = 1 /\ calls[v].committed = 0
    BY <1>1, <2>1 DEF ListInv, CallsOK, CallsTyped, HasItsDialog
  <2>3. PICK c : c = [sent |-> 0, committed |-> 1, row |-> calls[v].row, left |-> calls[v].left]
    OBVIOUS
  <2>4. IsCallRecord(c) /\ c.sent = 0 /\ c.committed = 1 /\ c.row = calls[v].row
        /\ c.left = calls[v].left
    BY <2>3 DEF IsCallRecord, ListInv, CallsOK, CallsTyped
  <2>5. calls' = [calls EXCEPT ![v] = c]
    BY <1>3, <2>2, <2>3 DEF CommitCall
  <2>6. /\ CallsTyped' /\ calls'[v] = c
        /\ \A w \in Verbs(listPage) : w # v => calls'[w] = calls[w]
    BY <1>1, <1>3, <2>4, <2>5, OneCallChanges DEF ListInv, CallsOK
  <2>7. \A w \in DialogVerbs : HasItsDialog(w)'
    <3>1. HasItsDialog(v)'
      BY <1>1, <2>1, <2>2, <2>4, <2>6 DEF ListInv, CallsOK, HasItsDialog, IsPending
    <3>2. ASSUME NEW w \in DialogVerbs, w # v PROVE HasItsDialog(w)'
      <4>1. calls'[w] = calls[w] /\ HasItsDialog(w)
        BY <2>6, <3>2 DEF ListInv, CallsOK, DialogVerbs
      <4>2. QED
        BY <1>1, <4>1 DEF HasItsDialog, IsPending
    <3>3. QED
      BY <3>1, <3>2
  <2>8. CallsOK'
    BY <1>1, <2>6, <2>7 DEF CallsOK, DialogVerbs
  <2>9. \A w : w # v => Due(w)' <= Due(w)
    BY <1>1, <2>6 DEF Due, ListInv, CallsOK, CallsTyped, IsPending
  <2>10. Due(v)' + 1 = Due(v) /\ Due(v) \in Nat /\ Due(v)' \in Nat
    BY <1>1, <2>2, <2>4, <2>6 DEF Due, IsPending
  <2>11. created' + Due("create")' + Due("allocate")' <= opened' + lost'
    BY <1>1, <2>8, <2>9, <2>10, Balanced DEF ListInv
  <2>12. QED
    BY <1>1, <2>8, <2>11 DEF ListInv, DialogVerbs
<1>4. QED
  BY <1>2, <1>3

\* Without an answer the dialog stays; what was committed and lost may be sent again.
LEMMA NoAnswerList ==
  ASSUME ListInv, NEW v \in Verbs(listPage), RefuseCall(v) \/ LoseAnswer(v)
  PROVE  ListInv'
<1>1. UNCHANGED <<listPage, dialog, opened, created>>
  BY DEF RefuseCall, LoseAnswer, ListInv
<1>2. calls[v].sent \in Nat /\ calls[v].committed \in Nat /\ CallsTyped /\ UNCHANGED listPage
  BY <1>1 DEF ListInv, CallsOK, CallsTyped
<1>3. PICK sent \in Nat, committed \in Nat :
         /\ calls' = Ended(v, sent, committed)
         /\ \/ lost' = lost /\ sent + 1 = calls[v].sent /\ committed = calls[v].committed
            \/ lost' = lost + 1 /\ sent = calls[v].sent /\ committed + 1 = calls[v].committed
  <2>1. CASE RefuseCall(v)
    <3>1. /\ calls[v].sent - 1 \in Nat
          /\ calls' = Ended(v, calls[v].sent - 1, calls[v].committed) /\ lost' = lost
      BY <1>2, <2>1 DEF RefuseCall, EndedSent
    <3>2. QED
      BY <1>2, <3>1
  <2>2. CASE LoseAnswer(v)
    <3>1. /\ calls[v].committed - 1 \in Nat
          /\ calls' = Ended(v, calls[v].sent, calls[v].committed - 1) /\ lost' = lost + 1
      BY <1>2, <2>2 DEF LoseAnswer, EndedCommitted
    <3>2. QED
      BY <1>2, <3>1
  <2>3. QED
    BY <2>1, <2>2
<1>4. v \in listPage.atOnce => committed = 0
  BY <1>3 DEF ListInv, CallsOK, CallsTyped
<1>5. /\ CallsTyped'
      /\ calls'[v].sent = sent /\ calls'[v].committed = committed /\ calls'[v].left = FALSE
      /\ \A w \in Verbs(listPage) : w # v => calls'[w] = calls[w]
  BY <1>2, <1>3, <1>4, EndedCalls
<1>6. v \in DialogVerbs => sent = 0 /\ committed = 0
  <2>1. v \in DialogVerbs => calls[v].sent + calls[v].committed <= 1
    BY DEF ListInv, CallsOK, HasItsDialog
  <2>2. QED
    BY <1>2, <1>3, <2>1
<1>7. \A w \in DialogVerbs : HasItsDialog(w)'
  <2>1. v \in DialogVerbs => HasItsDialog(v)'
    BY <1>1, <1>5, <1>6 DEF HasItsDialog, IsPending
  <2>2. ASSUME NEW w \in DialogVerbs, w # v PROVE HasItsDialog(w)'
    <3>1. calls'[w] = calls[w] /\ HasItsDialog(w)
      BY <1>5, <2>2 DEF ListInv, CallsOK, DialogVerbs
    <3>2. QED
      BY <1>1, <3>1 DEF HasItsDialog, IsPending
  <2>3. QED
    BY <2>1, <2>2
<1>8. CallsOK'
  BY <1>1, <1>5, <1>7 DEF CallsOK, DialogVerbs
<1>9. \A w : w # v => Due(w)' <= Due(w)
  BY <1>1, <1>5 DEF Due, ListInv, CallsOK, CallsTyped, IsPending
<1>10. Due(v) \in Nat /\ Due(v)' \in Nat
  BY <1>8 DEF ListInv, CallsOK, CallsTyped, Due
<1>11. CASE v \in DialogVerbs
  <2>1. Due(v)' + lost <= Due(v) + lost'
    <3>1. HasItsDialog(v)
      BY <1>11 DEF ListInv, CallsOK
    <3>2. Due(v)' <= 1 /\ (dialog.verb # v => Due(v)' = 0)
      BY <1>1, <1>5, <1>6, <1>11 DEF Due, IsPending
    <3>3. lost' = lost /\ dialog.verb = v => Due(v) >= 1
      BY <1>3, <3>1 DEF Due, ListInv
    <3>4. QED
      BY <1>3, <1>10, <3>2, <3>3 DEF ListInv
  <2>2. created' + Due("create")' + Due("allocate")' <= opened' + lost'
    <3>1. opened \in Nat /\ created \in Nat /\ lost \in Nat /\ lost' \in Nat /\ lost <= lost'
      BY <1>3 DEF ListInv
    <3>2. created' + Due(v)' + opened + lost <= created + Due(v) + opened' + lost'
      BY <1>1, <1>10, <2>1, <3>1
    <3>3. created' = created /\ opened' = opened /\ created' \in Nat /\ opened' \in Nat
      BY <1>1, <3>1
    <3>4. created' + opened + lost <= created + opened' + lost'
      <4>1. PICK n \in Nat : n = created + opened
        BY <3>1
      <4>2. created' + opened = n /\ created + opened' = n
        BY <3>3, <4>1
      <4>3. QED
        BY <3>1, <4>2
    <3>5. QED
      BY <1>8, <1>9, <1>10, <3>1, <3>2, <3>3, <3>4, Balanced
  <2>3. QED
    BY <1>1, <1>3, <1>8, <2>2 DEF ListInv, DialogVerbs
<1>12. CASE v \notin DialogVerbs
  <2>1. ~NewRow(v)
    BY <1>12, NewRowsHaveDialogs DEF ListInv
  <2>2. created' + Due("create")' + Due("allocate")' <= opened' + lost'
    BY <1>1, <1>3, <1>8, <1>9, <1>10, <2>1, Balanced DEF ListInv
  <2>3. QED
    BY <1>1, <1>3, <1>8, <2>2 DEF ListInv, DialogVerbs
<1>13. QED
  BY <1>11, <1>12

\* The calls after an answer: that of v has ended, and the call whose dialog it
\* closes on a page with one dialog is left.
LEMMA SucceededCalls ==
  ASSUME ListInv, NEW v \in Verbs(listPage), SucceedCall(v)
  PROVE  /\ v \in DialogVerbs
         /\ CallsTyped'
         /\ calls'[v].sent = 0 /\ calls'[v].committed = 0 /\ calls'[v].left = FALSE
         /\ \A w \in Verbs(listPage) : w # v =>
               IF w = dialog.verb /\ listPage.oneDialog
               THEN /\ calls'[w].sent = calls[w].sent /\ calls'[w].committed = calls[w].committed
                    /\ calls'[w].row = calls[w].row /\ calls'[w].left = IsPending(w)
               ELSE calls'[w] = calls[w]
<1>1. v \in DialogVerbs
  BY DEF SucceedCall, ListInv, CallsOK, CallsTyped, DialogVerbs
<1>2. calls[v].sent = 0 /\ calls[v].committed = 1
  <2>1. calls[v].sent \in Nat /\ calls[v].committed \in Nat /\ calls[v].committed > 0
        /\ calls[v].sent + calls[v].committed <= 1
    BY <1>1 DEF SucceedCall, ListInv, CallsOK, CallsTyped, HasItsDialog
  <2>2. QED
    BY <2>1
<1>3. PICK end : end = EndedCommitted(v)
  OBVIOUS
<1>4. /\ end[v] = [sent |-> 0, committed |-> 0, row |-> 0, left |-> FALSE]
      /\ \A w \in Verbs(listPage) : w # v => end[w] = calls[w]
  BY <1>2, <1>3 DEF EndedCommitted, Ended, ListInv, CallsOK, CallsTyped
<1>5. calls' = [w \in Verbs(listPage) |->
                  IF w = dialog.verb /\ w # v /\ listPage.oneDialog
                  THEN [calls[w] EXCEPT !.left = IsPending(w)] ELSE end[w]]
  <2>1. DOMAIN calls = Verbs(listPage)
    BY DEF ListInv, CallsOK, CallsTyped
  <2>2. calls' = [w \in DOMAIN calls |->
                    IF w = dialog.verb /\ w # v /\ listPage.oneDialog
                    THEN [calls[w] EXCEPT !.left = IsPending(w)] ELSE EndedCommitted(v)[w]]
    BY DEF SucceedCall
  <2>3. QED
    BY <1>3, <2>1, <2>2
<1>6. listPage' = listPage
  BY DEF SucceedCall
<1>7. \A w \in Verbs(listPage) : IsCallRecord(calls[w])
  BY DEF ListInv, CallsOK, CallsTyped, IsCall, IsCallRecord
<1>8. calls'[v] = [sent |-> 0, committed |-> 0, row |-> 0, left |-> FALSE]
  BY <1>4, <1>5
<1>9. ASSUME NEW w \in Verbs(listPage), w # v
      PROVE  /\ IsCallRecord(calls'[w])
             /\ calls'[w].sent = calls[w].sent /\ calls'[w].committed = calls[w].committed
             /\ IF w = dialog.verb /\ listPage.oneDialog
                THEN calls'[w].row = calls[w].row /\ calls'[w].left = IsPending(w)
                ELSE calls'[w] = calls[w]
  <2>1. CASE w = dialog.verb /\ listPage.oneDialog
    <3>1. calls'[w] = [calls[w] EXCEPT !.left = IsPending(w)] /\ IsPending(w) \in BOOLEAN
      BY <1>5, <1>9, <2>1 DEF IsPending
    <3>2. calls[w] = [sent |-> calls[w].sent, committed |-> calls[w].committed,
                      row |-> calls[w].row, left |-> calls[w].left]
      BY <1>7 DEF IsCallRecord
    <3>3. calls'[w] = [sent |-> calls[w].sent, committed |-> calls[w].committed,
                       row |-> calls[w].row, left |-> IsPending(w)]
      BY <3>1, <3>2
    <3>4. /\ calls'[w].sent = calls[w].sent /\ calls'[w].committed = calls[w].committed
          /\ calls'[w].row = calls[w].row /\ calls'[w].left = IsPending(w)
      BY <3>3
    <3>5. calls[w].sent \in Nat /\ calls[w].committed \in Nat
      BY <1>7 DEF IsCallRecord
    <3>6. IsCallRecord(calls'[w])
      BY <3>1, <3>3, <3>4, <3>5 DEF IsCallRecord
    <3>7. QED
      BY <2>1, <3>4, <3>6
  <2>2. CASE ~(w = dialog.verb /\ listPage.oneDialog)
    <3>1. calls'[w] = calls[w]
      BY <1>4, <1>5, <1>9, <2>2
    <3>2. QED
      BY <1>7, <2>2, <3>1
  <2>3. QED
    BY <2>1, <2>2
<1>10. CallsTyped'
  <2>1. calls' = [w \in Verbs(listPage)' |-> calls'[w]]
    BY <1>5, <1>6
  <2>2. ASSUME NEW w \in Verbs(listPage)
        PROVE  /\ IsCall(w)'
               /\ calls'[w].sent \in Nat /\ calls'[w].committed \in Nat
               /\ calls'[w].left \in BOOLEAN
               /\ w \in listPage.atOnce => calls'[w].committed = 0
    <3>1. CASE w = v
      <4>1. /\ calls'[v].sent = 0 /\ calls'[v].committed = 0 /\ calls'[v].row = 0
            /\ calls'[v].left = FALSE /\ calls'[v].left \in BOOLEAN
        BY <1>8
      <4>2. IsCall(v)'
        BY <1>8, <4>1 DEF IsCall
      <4>3. QED
        BY <3>1, <4>1, <4>2
    <3>2. CASE w # v
      BY <1>9, <3>2 DEF IsCall, IsCallRecord, ListInv, CallsOK, CallsTyped
    <3>3. QED
      BY <3>1, <3>2
  <2>3. QED
    BY <1>6, <2>1, <2>2, Zenon DEF CallsTyped
<1>11. QED
  BY <1>1, <1>8, <1>9, <1>10

LEMMA SucceedList ==
  ASSUME ListInv, NEW v \in Verbs(listPage), SucceedCall(v)
  PROVE  ListInv'
<1> DEFINE Kept(w) == w # v =>
             IF w = dialog.verb /\ listPage.oneDialog
             THEN /\ calls'[w].sent = calls[w].sent /\ calls'[w].committed = calls[w].committed
                  /\ calls'[w].row = calls[w].row /\ calls'[w].left = IsPending(w)
             ELSE calls'[w] = calls[w]
<1>0. /\ CallsTyped' /\ calls'[v].sent = 0 /\ calls'[v].committed = 0 /\ calls'[v].left = FALSE
      /\ \A w \in Verbs(listPage) : Kept(w)
  BY SucceededCalls
<1>1. UNCHANGED <<listPage, opened, created, lost>>
  BY DEF SucceedCall
<1>2. dialog' = IF dialog.verb = v \/ listPage.oneDialog THEN Closed ELSE dialog
  BY DEF SucceedCall
<1>3. \A w \in DialogVerbs : HasItsDialog(w)'
  <2>1. HasItsDialog(v)'
    BY <1>0 DEF HasItsDialog, IsPending
  <2>2. ASSUME NEW w \in DialogVerbs, w # v PROVE HasItsDialog(w)'
    <3>1. HasItsDialog(w) /\ w \in Verbs(listPage) /\ listPage.oneDialog \in BOOLEAN
      BY PageShapes DEF ListInv, CallsOK, DialogVerbs, Shaped
    <3>2. CASE listPage.oneDialog
      <4>1. CASE w = dialog.verb
        BY <2>2, <3>1, <3>2, <4>1, <1>0 DEF HasItsDialog, IsPending
      <4>2. CASE w # dialog.verb
        <5>1. calls'[w] = calls[w]
          BY <2>2, <3>1, <4>2, <1>0
        <5>2. IsPending(w) => calls[w].left
          BY <3>1, <4>2 DEF HasItsDialog
        <5>3. QED
          BY <3>1, <5>1, <5>2 DEF HasItsDialog, IsPending
      <4>3. QED
        BY <4>1, <4>2
    <3>3. CASE ~listPage.oneDialog
      <4>1. calls'[w] = calls[w]
        BY <2>2, <3>1, <3>3, <1>0
      <4>2. IsPending(w) => calls[w].left \/ dialog' = [verb |-> w, row |-> calls[w].row]
        <5>1. dialog = [verb |-> w, row |-> calls[w].row] => dialog.verb # v
          BY <2>2
        <5>2. QED
          BY <1>2, <3>1, <3>3, <5>1 DEF HasItsDialog
      <4>3. QED
        BY <3>1, <4>1, <4>2 DEF HasItsDialog, IsPending
    <3>4. QED
      BY <3>1, <3>2, <3>3
  <2>3. QED
    BY <2>1, <2>2
<1>4. CallsOK'
  BY <1>1, <1>3, <1>0 DEF CallsOK, DialogVerbs
<1>5. \A w : Due(w)' <= Due(w)
  <2>1. SUFFICES ASSUME NEW w PROVE Due(w)' <= Due(w)
    OBVIOUS
  <2>2. "none" \notin Verbs(listPage) /\ listPage.oneDialog \in BOOLEAN
    BY PageShapes DEF ListInv, Shaped
  <2>3. Due(w) \in Nat
    BY DEF ListInv, CallsOK, CallsTyped, Due
  <2>4. CASE w \notin Verbs(listPage)
    BY <1>1, <2>4 DEF Due
  <2>5. CASE w = v
    <3>1. dialog'.verb # v
      BY <1>2, <2>2 DEF Closed
    <3>2. Due(w)' = 0
      BY <1>1, <2>5, <3>1, <1>0 DEF Due
    <3>3. QED
      BY <2>3, <3>2
  <2>6. CASE w \in Verbs(listPage) /\ w # v
    <3>1. calls'[w].sent = calls[w].sent /\ calls[w].sent \in Nat
      BY <2>6, <1>0 DEF ListInv, CallsOK, CallsTyped
    <3>2. CASE w = dialog.verb /\ listPage.oneDialog
      <4>1. dialog'.verb # w
        BY <1>2, <2>2, <2>6, <3>2 DEF Closed
      <4>2. Due(w)' = calls[w].sent
        BY <1>1, <2>6, <3>1, <4>1 DEF Due
      <4>3. QED
        BY <2>6, <3>1, <4>2 DEF Due
    <3>3. CASE ~(w = dialog.verb /\ listPage.oneDialog)
      <4>1. calls'[w] = calls[w]
        BY <2>6, <3>3, <1>0
      <4>2. dialog'.verb = w => dialog.verb = w
        BY <1>2, <2>2, <2>6 DEF Closed
      <4>3. QED
        BY <1>1, <2>6, <3>1, <4>1, <4>2 DEF Due, IsPending
    <3>4. QED
      BY <3>2, <3>3
  <2>7. QED
    BY <2>4, <2>5, <2>6
<1>6. created' + Due("create")' + Due("allocate")' <= opened' + lost'
  <2>1. Due(v) \in Nat /\ Due(v)' \in Nat
    BY <1>4 DEF ListInv, CallsOK, CallsTyped, Due
  <2>2. QED
    BY <1>1, <1>4, <1>5, <2>1, Balanced DEF ListInv
<1>7. QED
  BY <1>1, <1>2, <1>4, <1>6 DEF ListInv, DialogVerbs

LEMMA StepList == ListInv /\ [ListNext]_listVars => ListInv'
<1> SUFFICES ASSUME ListInv, [ListNext]_listVars PROVE ListInv'
  OBVIOUS
<1>1. ASSUME UNCHANGED <<listPage, dialog, calls, opened, created, lost>> PROVE ListInv'
  <2>1. CallsTyped' /\ \A w \in DialogVerbs : HasItsDialog(w)'
    BY <1>1 DEF ListInv, CallsOK, CallsTyped, IsCall, HasItsDialog, IsPending
  <2>2. \A w : Due(w)' = Due(w)
    BY <1>1 DEF Due, IsPending
  <2>3. CallsOK' /\ DialogVerbs' = DialogVerbs
    BY <1>1, <2>1 DEF CallsOK, DialogVerbs
  <2>4. Due("create")' = Due("create") /\ Due("allocate")' = Due("allocate")
    BY <2>2
  <2>5. (created + Due("create") + Due("allocate") <= opened + lost)'
    BY <1>1, <2>4 DEF ListInv
  <2>6. QED
    BY <1>1, <2>3, <2>5 DEF ListInv, IsDialog
<1>2. CASE UNCHANGED listVars
  BY <1>1, <1>2 DEF listVars
<1>3. CASE \/ \E input \in listPage.narrows : \E rs \in SUBSET Row : Narrow(input, rs)
           \/ \E i \in 0 .. PageCount - 1 : GoToPage(i)
           \/ \E n \in PageSize : SetPageSize(n)
           \/ Refetch
           \/ \E r \in Row : OtherChanges(r)
  BY <1>1, <1>3 DEF Narrow, GoToPage, SetPageSize, Refetch, OtherChanges
<1>4. ASSUME NEW v \in Verbs(listPage), NEW r, OpenDialog(v, r) \/ PressAtOnce(v, r)
      PROVE  ListInv'
  BY <1>4, OpenList, PressList
<1>5. CASE CancelDialog \/ SubmitDialog
  BY <1>5, CancelList, SubmitList
<1>6. ASSUME NEW v \in Verbs(listPage),
             CommitCall(v) \/ SucceedCall(v) \/ RefuseCall(v) \/ LoseAnswer(v)
      PROVE  ListInv'
  BY <1>6, CommitList, SucceedList, NoAnswerList
<1>7. QED
  BY <1>2, <1>3, <1>4, <1>5, <1>6 DEF ListNext

LEMMA SpecListInv == ListSpec => []ListInv
  BY InitList, StepList, PTL DEF ListSpec

\* On any page, with any number of rows, dialogs and calls, a dialog creates at
\* most one row, but for those submitted again after an answer was lost.
THEOREM DialogsCreateOnce == ListSpec => []CreatedOnce
<1>1. ListInv => CreatedOnce
  BY DEF ListInv, CallsOK, CallsTyped, Due, CreatedOnce
<1>2. QED
  BY <1>1, SpecListInv, PTL

\* An answer closes the dialog it answers, unless that was left before.
THEOREM AnswersKnowTheirDialog == ListSpec => ClosedByItsOwnCall
<1>1. ListInv /\ [ListNext]_listVars => [AnswersCloseTheirOwn]_listVars
  <2> SUFFICES ASSUME ListInv, ListNext, NEW v \in Verbs(listPage),
                      dialog # Closed, dialog' = Closed, calls[v].committed > calls'[v].committed
               PROVE  \/ dialog = [verb |-> v, row |-> calls[v].row]
                      \/ calls[v].left /\ (dialog.verb = v \/ listPage.oneDialog)
    BY DEF AnswersCloseTheirOwn
  <2>1. ASSUME NEW w \in Verbs(listPage), SucceedCall(w)
        PROVE  \/ dialog = [verb |-> v, row |-> calls[v].row]
               \/ calls[v].left /\ (dialog.verb = v \/ listPage.oneDialog)
    <3>1. v = w
      <4>1. v # w => calls'[v] = calls[v] \/ calls'[v].committed = calls[v].committed
        BY <2>1, SucceededCalls
      <4>2. calls[v].committed \in Nat
        BY DEF ListInv, CallsOK, CallsTyped
      <4>3. QED
        BY <4>1, <4>2
    <3>2. v \in DialogVerbs /\ IsPending(v)
      <4>1. v \in DialogVerbs
        BY <2>1, <3>1, SucceededCalls
      <4>2. IsPending(v)
        BY <2>1, <3>1 DEF SucceedCall, ListInv, CallsOK, CallsTyped, IsPending
      <4>3. QED
        BY <4>1, <4>2
    <3>3. dialog.verb = v \/ listPage.oneDialog
      BY <2>1, <3>1 DEF SucceedCall
    <3>4. calls[v].left \/ dialog = [verb |-> v, row |-> calls[v].row]
      BY <3>2 DEF ListInv, CallsOK, HasItsDialog
    <3>5. QED
      BY <3>3, <3>4
  <2>2. CASE CancelDialog
    <3>1. calls'[v].committed = calls[v].committed
      BY <2>2 DEF CancelDialog, ListInv, CallsOK, CallsTyped
    <3>2. QED
      BY <3>1 DEF ListInv, CallsOK, CallsTyped
  <2>3. CASE UNCHANGED dialog
    BY <2>3
  <2>4. ASSUME NEW w, NEW r, OpenDialog(w, r) PROVE FALSE
    BY <2>4 DEF OpenDialog
  <2>5. QED
    BY <2>1, <2>2, <2>3, <2>4 DEF ListNext, Narrow, GoToPage, SetPageSize, Refetch, PressAtOnce,
       SubmitDialog, CommitCall, RefuseCall, LoseAnswer, OtherChanges
<1>2. QED
  BY <1>1, SpecListInv, PTL DEF ListSpec, ClosedByItsOwnCall

-----------------------------------------------------------------------------
(* Tables: every row that was fetched is on a page.                        *)

TableInv ==
    /\ table \subseteq Row /\ rows \subseteq Row /\ wanted \subseteq Row
    /\ pageIndex \in Nat /\ pageSize \in PageSize

LEMMA ListedRows == table \subseteq Row /\ wanted \subseteq Row => Listed \subseteq Row
  BY DEF Listed, Asked

LEMMA InitTable == ListInit => TableInv
  BY ListedRows DEF ListInit, TableInv

LEMMA StepTable == TableInv /\ [ListNext]_listVars => TableInv'
<1> SUFFICES ASSUME TableInv, [ListNext]_listVars PROVE TableInv'
  OBVIOUS
<1>1. CASE UNCHANGED listVars
  BY <1>1 DEF listVars, TableInv
<1>2. ASSUME NEW input \in listPage.narrows, NEW rs \in SUBSET Row, Narrow(input, rs)
      PROVE  TableInv'
  BY <1>2 DEF Narrow, TableInv, server
<1>3. ASSUME NEW i \in 0 .. PageCount - 1, GoToPage(i) PROVE TableInv'
  <2>1. i \in Nat
    OBVIOUS
  <2>2. QED
    BY <1>3, <2>1 DEF GoToPage, TableInv, server
<1>4. ASSUME NEW n \in PageSize, SetPageSize(n) PROVE TableInv'
  BY <1>4 DEF SetPageSize, TableInv, server
<1>5. CASE Refetch
  BY <1>5, ListedRows DEF Refetch, TableInv, server
<1>6. ASSUME UNCHANGED view, table' \subseteq Row PROVE TableInv'
  BY <1>6 DEF TableInv, view
<1>7. ASSUME UNCHANGED view, UNCHANGED table PROVE TableInv'
  BY <1>6, <1>7 DEF TableInv
<1>8. ASSUME NEW v \in Verbs(listPage), NEW r, OpenDialog(v, r) \/ PressAtOnce(v, r)
      PROVE  TableInv'
  BY <1>7, <1>8 DEF OpenDialog, PressAtOnce, server
<1>9. CASE CancelDialog \/ SubmitDialog
  BY <1>7, <1>9 DEF CancelDialog, SubmitDialog, server
<1>10. ASSUME NEW v \in Verbs(listPage), CommitCall(v) PROVE TableInv'
  <2>1. PICK r \in IF NewRow(v) THEN Row \ table ELSE {calls[v].row} :
            table' = CASE NewRow(v) -> table \cup {r}
                       [] v = "delete" -> table \ {r}
                       [] OTHER -> table
    BY <1>10 DEF CommitCall
  <2>2. table' \subseteq Row
    <3>1. CASE NewRow(v)
      BY <2>1, <3>1 DEF TableInv
    <3>2. CASE ~NewRow(v)
      BY <2>1, <3>2 DEF TableInv
    <3>3. QED
      BY <3>1, <3>2
  <2>3. UNCHANGED view
    BY <1>10 DEF CommitCall
  <2>4. QED
    BY <1>6, <2>2, <2>3
<1>11. ASSUME NEW v \in Verbs(listPage), SucceedCall(v) \/ RefuseCall(v) \/ LoseAnswer(v)
       PROVE  TableInv'
  BY <1>7, <1>11 DEF SucceedCall, RefuseCall, LoseAnswer, server
<1>12. ASSUME NEW r \in Row, OtherChanges(r) PROVE TableInv'
  BY <1>6, <1>12 DEF OtherChanges, TableInv
<1>13. QED
  BY <1>1, <1>2, <1>3, <1>4, <1>5, <1>8, <1>9, <1>10, <1>11, <1>12 DEF ListNext

\* Whatever page number is left over, the pages there are hold every row.
LEMMA TableShowsRows == TableInv => RowsAreShown
<1> SUFFICES ASSUME TableInv PROVE RowsAreShown
  OBVIOUS
<1> DEFINE n == Cardinality(Filtered)
           k == pageSize
           q == (n + k - 1) \div k
<1>1. Filtered \in SUBSET Nat /\ IsFiniteSet(Filtered) /\ k \in Nat \ {0} /\ pageIndex \in Nat
  <2>1. Filtered \in SUBSET Row /\ Row \subseteq Nat /\ IsFiniteSet(Row)
    BY ListPagesAssumption DEF TableInv, Filtered
  <2>2. IsFiniteSet(Filtered)
    BY <2>1, FS_Subset
  <2>3. QED
    BY <2>1, <2>2, ListPagesAssumption DEF TableInv
<1>2. n \in Nat
  BY <1>1, Ranks
<1>3. q \in Nat /\ \A i \in Nat : i < q => i * k < n
  <2> HIDE DEF n, k
  <2>1. QED
    BY <1>1, <1>2, PagesOfRows
<1>4. \A i : Slice(i) = OnPage(Filtered, i, k)
  BY DEF Slice, OnPage, Below
<1>5. PageCount = IF q < 1 THEN 1 ELSE q
  <2>1. PageCount = Max({1, q})
    BY DEF PageCount, CeilDiv
  <2> HIDE DEF q
  <2>2. QED
    BY <1>3, <2>1 DEF Max
<1> HIDE DEF n, k, q
<1>6. SafePageIndex \in 0 .. PageCount - 1
  <2>1. PageCount - 1 \in Nat
    BY <1>3, <1>5
  <2>2. QED
    BY <1>1, <2>1 DEF SafePageIndex, Min
<1>7. ASSUME Filtered # {} PROVE ShownRows # {}
  <2>1. n > 0
    BY <1>1, <1>2, <1>7, FS_EmptySet DEF n
  <2>2. SafePageIndex \in Nat /\ SafePageIndex * k < n
    <3>1. CASE q < 1
      <4>1. SafePageIndex = 0
        BY <1>5, <1>6, <3>1
      <4>2. QED
        BY <1>1, <2>1, <4>1
    <3>2. CASE ~(q < 1)
      BY <1>3, <1>5, <1>6, <3>2
    <3>3. QED
      BY <3>1, <3>2
  <2>3. QED
    BY <1>1, <1>4, <2>2, PageOfRows DEF ShownRows, n
<1>8. ASSUME NEW r \in Filtered PROVE r \in Reachable
  <2>1. PICK i \in 0 .. q - 1 : r \in Slice(i)
    BY <1>1, <1>4, RowsOnPages DEF q, n
  <2>2. i \in 0 .. PageCount - 1
    BY <1>3, <1>5
  <2>3. QED
    BY <2>1, <2>2 DEF Reachable
<1>9. Filtered = Reachable
  BY <1>8 DEF Reachable, Slice
\* What is listed and wanted was fetched.
<1>10. ASSUME rows = Listed, NEW r \in table \cap wanted, ~PastTheLimit(r) PROVE r \in Filtered
  BY <1>10 DEF Filtered, Listed, Asked
<1>11. QED
  BY <1>7, <1>9, <1>10 DEF RowsAreShown

(* However stale the page number is after a deletion, a search or a change *)
(* of page size, some of the fetched rows are shown, and each of them is   *)
(* on a page one can go to; when a fetch brought what there is, the other  *)
(* rows of the server are past the limit of its endpoint.                  *)
THEOREM TablesShowTheirRows == ListSpec => []RowsAreShown
  BY InitTable, StepTable, TableShowsRows, PTL DEF ListSpec

-----------------------------------------------------------------------------
(* Bulk edits: rows that are done with, and whose dialog is open.          *)

TableRow == [tags : SUBSET Slug, ver : Nat]

RunType == [mode : TagModes, tags : SUBSET Slug, all : SUBSET IpRow, todo : SUBSET IpRow,
            read : {<<>>} \cup {<<r>> : r \in TableRow},
            failed : SUBSET {Min(rs) : rs \in SUBSET IpRow}, left : BOOLEAN,
            st : {"running", "done"}]

DoneAreUpdated ==
    \A i \in DOMAIN runs : \A r \in runs[i].all :
        r \in runs[i].todo \cup runs[i].failed \/ ipStatus[r] = "after"

\* As long as no dialog was left, one run at most goes on, in its own dialog.
AttendedRuns ==
    \/ \E j \in DOMAIN runs : runs[j].left
    \/ \A i \in DOMAIN runs : runs[i].st = "running" =>
           /\ bulkDialog = "saving" /\ selected = runs[i].all
           /\ \A j \in DOMAIN runs : runs[j].st = "running" => j = i

\* The row that a run has read is the one of the table, or that is newer.
ReadIsOfRow ==
    \A i \in DOMAIN runs :
        Len(runs) <= 1 /\ Going(i) /\ runs[i].read # <<>> /\ RowOf(i) \in DOMAIN ipTable =>
            \/ runs[i].read[1] = ipTable[RowOf(i)]
            \/ runs[i].read[1].ver < ipTable[RowOf(i)].ver

BulkInv ==
    /\ runs \in Seq(RunType) /\ DOMAIN ipTable \subseteq IpRow /\ selected \in SUBSET IpRow
    /\ \A r \in DOMAIN ipTable : ipTable[r] \in TableRow
    /\ DOMAIN ipStatus = IpRow /\ bulkDialog \in {"closed", "open", "saving"}
    /\ DoneAreUpdated /\ AttendedRuns /\ ReadIsOfRow

LEMMA InitBulk == BulkInit => BulkInv
<1> SUFFICES ASSUME BulkInit PROVE BulkInv
  OBVIOUS
<1>1. runs = <<>> /\ selected \in SUBSET IpRow /\ bulkDialog = "closed"
  BY DEF BulkInit
<1>2. PICK tags \in SUBSET Slug : ipTable = [r \in IpRow |-> [tags |-> tags, ver |-> 0]]
  BY DEF BulkInit
<1>3. DOMAIN ipTable = IpRow /\ \A r \in IpRow : ipTable[r] \in TableRow
  BY <1>2 DEF TableRow
<1>4. DOMAIN ipStatus = IpRow
  BY DEF BulkInit
<1>5. runs \in Seq(RunType) /\ DOMAIN runs = {}
  BY <1>1
<1>6. QED
  BY <1>1, <1>3, <1>4, <1>5 DEF BulkInv, DoneAreUpdated, AttendedRuns, ReadIsOfRow

(* The rows and the selection, while the runs stay as they are.            *)
LEMMA RunsStay ==
  ASSUME BulkInv, UNCHANGED <<runs, ipStatus>>, selected' \in SUBSET IpRow,
         bulkDialog' \in {"closed", "open", "saving"},
         UNCHANGED <<selected, bulkDialog>> \/ bulkDialog = "closed",
         DOMAIN ipTable' \subseteq DOMAIN ipTable,
         \A r \in DOMAIN ipTable' :
             ipTable'[r] = ipTable[r] \/ (ipTable'[r] \in TableRow /\ ipTable'[r].ver > ipTable[r].ver)
  PROVE  BulkInv'
<1>1. \A r \in DOMAIN ipTable' : ipTable'[r] \in TableRow
  BY DEF BulkInv
<1>2. DoneAreUpdated'
  BY DEF BulkInv, DoneAreUpdated
<1>3. AttendedRuns'
  BY DEF BulkInv, AttendedRuns
<1>4. ReadIsOfRow'
  <2> SUFFICES ASSUME NEW i \in DOMAIN runs, Len(runs) <= 1, Going(i), runs[i].read # <<>>,
                      RowOf(i) \in DOMAIN ipTable'
               PROVE  \/ runs[i].read[1] = ipTable'[RowOf(i)]
                      \/ runs[i].read[1].ver < ipTable'[RowOf(i)].ver
    BY DEF ReadIsOfRow, Going, RowOf
  <2>1. \/ runs[i].read[1] = ipTable[RowOf(i)]
        \/ runs[i].read[1].ver < ipTable[RowOf(i)].ver
    BY DEF BulkInv, ReadIsOfRow
  <2>2. ipTable[RowOf(i)].ver \in Nat /\ ipTable'[RowOf(i)].ver \in Nat
    BY <1>1 DEF BulkInv, TableRow
  <2>3. runs[i].read[1].ver \in Nat
    <3>1. runs[i] \in RunType
      BY DEF BulkInv
    <3>2. PICK r \in TableRow : runs[i].read = <<r>>
      BY <3>1 DEF RunType
    <3>3. QED
      BY <3>2 DEF TableRow
  <2>4. QED
    BY <2>1, <2>2, <2>3
<1>5. QED
  BY <1>1, <1>2, <1>3, <1>4 DEF BulkInv

LEMMA SelectionBulk ==
  ASSUME BulkInv, NEW r \in IpRow, NEW ids \in SUBSET IpRow, NEW tags \in SUBSET Slug,
         \/ ToggleRow(r) \/ SelectAll(ids) \/ OthersTouch(r, tags) \/ OthersDelete(r) \/ OpenBulk
  PROVE  BulkInv'
<1>1. selected \in SUBSET IpRow /\ bulkDialog \in {"closed", "open", "saving"}
  BY DEF BulkInv
<1>2. CASE ToggleRow(r) \/ SelectAll(ids)
  BY <1>1, <1>2, RunsStay DEF ToggleRow, SelectAll, Touch
<1>3. CASE OthersTouch(r, tags)
  <2> DEFINE row == [tags |-> tags, ver |-> ipTable[r].ver + 1]
  <2>1. ipTable[r].ver \in Nat
    BY <1>3 DEF OthersTouch, BulkInv, TableRow
  <2>2. row \in TableRow /\ row.ver > ipTable[r].ver
    BY <2>1 DEF TableRow
  <2>3. ipTable' = [ipTable EXCEPT ![r] = row] /\ r \in DOMAIN ipTable
        /\ UNCHANGED <<runs, ipStatus, selected, bulkDialog>>
    BY <1>3 DEF OthersTouch
  <2> HIDE DEF row
  <2>4. DOMAIN ipTable' = DOMAIN ipTable
        /\ \A q \in DOMAIN ipTable : ipTable'[q] = IF q = r THEN row ELSE ipTable[q]
    BY <2>3
  <2>5. QED
    BY <1>1, <2>2, <2>3, <2>4, RunsStay
<1>4. CASE OthersDelete(r)
  <2>1. /\ UNCHANGED <<runs, ipStatus, selected, bulkDialog>>
        /\ DOMAIN ipTable' = DOMAIN ipTable \ {r}
        /\ \A q \in DOMAIN ipTable' : ipTable'[q] = ipTable[q]
    BY <1>4 DEF OthersDelete
  <2>2. QED
    BY <1>1, <2>1, RunsStay
<1>5. CASE OpenBulk
  BY <1>1, <1>5, RunsStay DEF OpenBulk
<1>6. QED
  BY <1>2, <1>3, <1>4, <1>5

LEMMA ApplyStarts ==
  ASSUME BulkInv, NEW mode \in TagModes, NEW tags \in SUBSET Slug, ApplyBulk(mode, tags)
  PROVE  BulkInv'
<1> DEFINE n == NewRun(mode, tags, selected)
<1>1. /\ n \in RunType /\ n.all = selected /\ n.todo = selected /\ n.read = <<>>
      /\ n.left = FALSE
  BY DEF NewRun, RunType, BulkInv
<1>2. /\ runs' = Append(runs, n) /\ UNCHANGED <<ipTable, ipStatus, selected>>
      /\ bulkDialog = "open" /\ bulkDialog' = "saving" /\ runs \in Seq(RunType)
  BY DEF ApplyBulk, BulkInv
<1> HIDE DEF n
<1>3. /\ runs' \in Seq(RunType) /\ DOMAIN runs' = DOMAIN runs \cup {Len(runs) + 1}
      /\ \A i \in DOMAIN runs : runs'[i] = runs[i]
      /\ runs'[Len(runs) + 1] = n /\ Len(runs') = Len(runs) + 1 /\ Len(runs) \in Nat
      /\ DOMAIN runs = 1 .. Len(runs)
  BY <1>1, <1>2
<1>4. DoneAreUpdated'
  BY <1>1, <1>2, <1>3 DEF BulkInv, DoneAreUpdated
<1>5. AttendedRuns'
  <2>1. CASE \E j \in DOMAIN runs : runs[j].left
    BY <1>3, <2>1 DEF AttendedRuns
  <2>2. CASE ~\E j \in DOMAIN runs : runs[j].left
    <3>1. \A i \in DOMAIN runs : runs[i].st # "running"
      BY <1>2, <2>2 DEF BulkInv, AttendedRuns
    <3>2. \A i \in DOMAIN runs' : runs'[i].st = "running" => i = Len(runs) + 1
      BY <1>3, <3>1
    <3>3. selected' = n.all
      BY <1>1, <1>2
    <3>4. QED
      BY <1>2, <1>3, <3>2, <3>3 DEF AttendedRuns
  <2>3. QED
    BY <2>1, <2>2
<1>6. ReadIsOfRow'
  <2> SUFFICES ASSUME NEW i \in DOMAIN runs', Len(runs') <= 1, runs'[i].read # <<>>
               PROVE  FALSE
    BY DEF ReadIsOfRow
  <2>1. i = Len(runs) + 1
    BY <1>3
  <2>2. QED
    BY <1>1, <1>3, <2>1
<1>7. QED
  BY <1>2, <1>3, <1>4, <1>5, <1>6 DEF BulkInv

LEMMA LeaveMarks == ASSUME BulkInv, LeaveBulk PROVE BulkInv'
<1>1. /\ UNCHANGED <<ipTable, ipStatus, selected>> /\ bulkDialog' = "closed"
      /\ runs' = [i \in DOMAIN runs |->
                    [runs[i] EXCEPT !.left = runs[i].left \/ runs[i].st = "running"]]
      /\ runs \in Seq(RunType)
  BY DEF LeaveBulk, BulkInv
<1>2. ASSUME NEW i \in DOMAIN runs
      PROVE  /\ runs'[i] \in RunType /\ runs'[i].all = runs[i].all /\ runs'[i].todo = runs[i].todo
             /\ runs'[i].failed = runs[i].failed /\ runs'[i].read = runs[i].read
             /\ runs'[i].st = runs[i].st
  <2>1. runs'[i] = [runs[i] EXCEPT !.left = runs[i].left \/ runs[i].st = "running"]
    BY <1>1
  <2>2. runs[i] \in RunType /\ (runs[i].left \/ runs[i].st = "running") \in BOOLEAN
    BY <1>1
  <2>3. QED
    BY <2>1, <2>2 DEF RunType
<1>3. ASSUME NEW i \in DOMAIN runs, runs[i].st = "running" PROVE runs'[i].left
  <2>1. runs'[i] = [runs[i] EXCEPT !.left = runs[i].left \/ runs[i].st = "running"]
    BY <1>1
  <2>2. runs[i] \in RunType
    BY <1>1
  <2>3. runs'[i].left = (runs[i].left \/ runs[i].st = "running")
    BY <2>1, <2>2 DEF RunType
  <2>4. QED
    BY <1>3, <2>3
<1>4. ASSUME NEW i \in DOMAIN runs, runs[i].left PROVE runs'[i].left
  <2>1. runs'[i] = [runs[i] EXCEPT !.left = runs[i].left \/ runs[i].st = "running"]
    BY <1>1
  <2>2. runs[i] \in RunType
    BY <1>1
  <2>3. runs'[i].left = (runs[i].left \/ runs[i].st = "running")
    BY <2>1, <2>2 DEF RunType
  <2>4. QED
    BY <1>4, <2>3
<1>5. DOMAIN runs' = DOMAIN runs /\ DOMAIN runs = 1 .. Len(runs) /\ Len(runs) \in Nat
  BY <1>1
<1>6. runs' \in Seq(RunType) /\ Len(runs') = Len(runs)
  <2>1. runs' \in [1 .. Len(runs) -> RunType]
    BY <1>1, <1>2, <1>5
  <2>2. QED
    BY <1>5, <2>1
<1>7. DoneAreUpdated'
  BY <1>1, <1>2, <1>5 DEF BulkInv, DoneAreUpdated
<1>8. AttendedRuns'
  <2>1. CASE \E j \in DOMAIN runs : runs[j].left \/ runs[j].st = "running"
    BY <1>3, <1>4, <1>5, <2>1 DEF AttendedRuns
  <2>2. CASE ~\E j \in DOMAIN runs : runs[j].left \/ runs[j].st = "running"
    BY <1>2, <1>5, <2>2 DEF AttendedRuns
  <2>3. QED
    BY <2>1, <2>2
<1>9. ReadIsOfRow'
  BY <1>1, <1>2, <1>5, <1>6 DEF BulkInv, ReadIsOfRow, Going, RowOf
<1>10. QED
  BY <1>1, <1>6, <1>7, <1>8, <1>9 DEF BulkInv

(* A run that goes on to its next row, or reads the row.                   *)
LEMMA RunGoesOn ==
  ASSUME BulkInv, NEW i \in DOMAIN runs, NEW n \in RunType, Going(i),
         runs' = [runs EXCEPT ![i] = n],
         n.all = runs[i].all /\ n.left = runs[i].left /\ n.st = runs[i].st,
         runs[i].todo \cup runs[i].failed \subseteq
             n.todo \cup n.failed \cup {r \in IpRow : ipStatus'[r] = "after"},
         n.read = <<>> \/ (n.todo = runs[i].todo /\ RowOf(i) \in DOMAIN ipTable'
                           /\ n.read = <<ipTable'[RowOf(i)]>>),
         UNCHANGED <<selected, bulkDialog>>, DOMAIN ipTable' \subseteq IpRow,
         \A r \in DOMAIN ipTable' : ipTable'[r] \in TableRow,
         DOMAIN ipStatus' = IpRow,
         \A r \in IpRow : ipStatus[r] = "after" => ipStatus'[r] = "after"
  PROVE  BulkInv'
<1>1. runs \in Seq(RunType)
  BY DEF BulkInv
<1>2. /\ runs' \in Seq(RunType) /\ DOMAIN runs' = DOMAIN runs /\ Len(runs') = Len(runs)
      /\ \A j \in DOMAIN runs : runs'[j] = IF j = i THEN n ELSE runs[j]
  BY <1>1
<1>3. ASSUME NEW j \in DOMAIN runs
      PROVE  runs[j].all \subseteq IpRow
  <2>1. runs[j] \in RunType
    BY <1>1
  <2>2. QED
    BY <2>1 DEF RunType
<1>4. DoneAreUpdated'
  <2> SUFFICES ASSUME NEW j \in DOMAIN runs, NEW r \in runs'[j].all
               PROVE  r \in runs'[j].todo \cup runs'[j].failed \/ ipStatus'[r] = "after"
    BY <1>2 DEF DoneAreUpdated
  <2>1. r \in runs[j].all /\ r \in IpRow
    BY <1>2, <1>3
  <2>2. r \in runs[j].todo \cup runs[j].failed \/ ipStatus[r] = "after"
    BY <2>1 DEF BulkInv, DoneAreUpdated
  <2>3. CASE j = i
    BY <1>2, <2>1, <2>2, <2>3
  <2>4. CASE j # i
    BY <1>2, <2>1, <2>2, <2>4
  <2>5. QED
    BY <2>3, <2>4
<1>5. AttendedRuns'
  <2>1. \A j \in DOMAIN runs : runs'[j].left = runs[j].left /\ runs'[j].st = runs[j].st
                               /\ runs'[j].all = runs[j].all
    BY <1>2
  <2>2. QED
    BY <1>2, <2>1 DEF BulkInv, AttendedRuns
<1>6. ReadIsOfRow'
  <2> SUFFICES ASSUME NEW j \in DOMAIN runs, Len(runs) <= 1, runs'[j].read # <<>>
               PROVE  runs'[j].read[1] = ipTable'[Min(runs'[j].todo)]
    BY <1>2 DEF ReadIsOfRow, RowOf
  <2>1. j = i
    BY <1>1
  <2>2. n.read = <<ipTable'[RowOf(i)]>> /\ n.todo = runs[i].todo
    BY <1>2, <2>1
  <2>3. n.read[1] = ipTable'[RowOf(i)]
    BY <2>2
  <2>4. runs'[i] = n
    BY <1>2
  <2>5. QED
    BY <2>1, <2>2, <2>3, <2>4 DEF RowOf
<1>7. QED
  BY <1>2, <1>4, <1>5, <1>6 DEF BulkInv

LEMMA PastRun ==
  ASSUME NEW m \in RunType
  PROVE  /\ Past(m) \in RunType /\ Past(m).all = m.all /\ Past(m).left = m.left
         /\ Past(m).st = m.st /\ Past(m).todo = m.todo \ {Min(m.todo)} /\ Past(m).read = <<>>
         /\ Past(m).failed = m.failed
<1>1. m.todo \ {Min(m.todo)} \in SUBSET IpRow /\ <<>> \in {<<>>} \cup {<<r>> : r \in TableRow}
  BY DEF RunType
<1>2. QED
  BY <1>1 DEF Past, RunType

LEMMA RunAnswers ==
  ASSUME BulkInv, NEW i \in DOMAIN runs, FailRow(i) \/ ReadTags(i) \/ PutRow(i) PROVE BulkInv'
<1> DEFINE m == runs[i]
<1>1. /\ runs \in Seq(RunType) /\ m \in RunType /\ DOMAIN ipTable \subseteq IpRow
      /\ \A r \in DOMAIN ipTable : ipTable[r] \in TableRow
      /\ DOMAIN ipStatus = IpRow
  BY DEF BulkInv
<1>2. m.todo \in SUBSET IpRow /\ RowOf(i) = Min(m.todo) /\ m.tags \in SUBSET Slug
      /\ m.failed \in SUBSET {Min(rs) : rs \in SUBSET IpRow}
  BY <1>1 DEF RunType, RowOf
<1>3. CASE FailRow(i)
  <2> DEFINE failed == m.failed \cup {RowOf(i)}
             n == [Past(m) EXCEPT !.failed = failed]
  <2>1. failed \in SUBSET {Min(rs) : rs \in SUBSET IpRow}
    BY <1>2
  <2> HIDE DEF failed
  <2>2. /\ n \in RunType /\ n.all = m.all /\ n.left = m.left /\ n.st = m.st
        /\ n.todo = m.todo \ {Min(m.todo)} /\ n.read = <<>> /\ n.failed = failed
    BY <1>1, <2>1, PastRun DEF RunType
  <2>3. runs' = [runs EXCEPT ![i] = n]
    BY <1>3 DEF FailRow, failed
  <2>4. Going(i) /\ UNCHANGED <<ipTable, ipStatus, selected, bulkDialog>>
    BY <1>3 DEF FailRow
  <2>5. m.todo \cup m.failed \subseteq n.todo \cup n.failed
    BY <1>2, <2>2 DEF failed
  <2> HIDE DEF n
  <2>6. QED
    BY <1>1, <2>2, <2>3, <2>4, <2>5, RunGoesOn
<1>4. CASE ReadTags(i)
  <2> DEFINE n == [m EXCEPT !.read = <<ipTable[RowOf(i)]>>]
  <2>1. /\ Going(i) /\ RowOf(i) \in DOMAIN ipTable /\ runs' = [runs EXCEPT ![i] = n]
        /\ UNCHANGED <<ipTable, ipStatus, selected, bulkDialog>>
    BY <1>4 DEF ReadTags
  <2>2. <<ipTable[RowOf(i)]>> \in {<<r>> : r \in TableRow}
    BY <1>1, <2>1
  <2>3. /\ n \in RunType /\ n.all = m.all /\ n.left = m.left /\ n.st = m.st
        /\ n.todo = m.todo /\ n.failed = m.failed /\ n.read = <<ipTable[RowOf(i)]>>
    BY <1>1, <2>2 DEF RunType
  <2> HIDE DEF n
  <2>4. QED
    BY <1>1, <2>1, <2>3, RunGoesOn
<1>5. CASE PutRow(i)
  <2> DEFINE n == Past(m)
  <2>1. /\ Going(i) /\ RowOf(i) \in DOMAIN ipTable /\ runs' = [runs EXCEPT ![i] = n]
        /\ UNCHANGED <<selected, bulkDialog>>
        /\ ipStatus' = [ipStatus EXCEPT ![RowOf(i)] = "after"]
    BY <1>5 DEF PutRow
  <2>2. /\ n \in RunType /\ n.all = m.all /\ n.left = m.left /\ n.st = m.st
        /\ n.todo = m.todo \ {RowOf(i)} /\ n.read = <<>> /\ n.failed = m.failed
    BY <1>1, <1>2, PastRun
  <2> HIDE DEF n
  <2>3. RowOf(i) \in IpRow
    BY <1>1, <2>1
  <2>4. /\ DOMAIN ipStatus' = IpRow /\ ipStatus'[RowOf(i)] = "after"
        /\ \A r \in IpRow : ipStatus[r] = "after" => ipStatus'[r] = "after"
    BY <1>1, <2>1, <2>3
  <2>5. DOMAIN ipTable' \subseteq IpRow /\ \A r \in DOMAIN ipTable' : ipTable'[r] \in TableRow
    <3>1. CASE m.mode = "none"
      BY <1>1, <1>5, <3>1 DEF PutRow
    <3>2. CASE m.mode # "none"
      <4>1. TagsToSend(m) \in SUBSET Slug
        <5>1. m.mode \in {"add", "replace", "remove"}
          BY <1>1, <3>2 DEF RunType, TagModes
        <5>2. PICK r \in TableRow : m.read = <<r>>
          BY <1>1, <1>5, <3>2 DEF PutRow, Reads1, RunType
        <5>3. m.read[1].tags \in SUBSET Slug
          BY <5>2 DEF TableRow
        <5>4. QED
          BY <1>2, <5>1, <5>3 DEF TagsToSend
      <4>2. PICK tags \in SUBSET Slug : tags = TagsToSend(m)
        BY <4>1
      <4> DEFINE row == [ipTable[RowOf(i)] EXCEPT !.tags = tags]
      <4>3. ipTable' = [ipTable EXCEPT ![RowOf(i)] = row]
        BY <1>5, <3>2, <4>2 DEF PutRow
      <4>4. row \in TableRow
        BY <1>1, <2>1 DEF TableRow
      <4> HIDE DEF row
      <4>5. QED
        BY <1>1, <4>3, <4>4
    <3>3. QED
      BY <3>1, <3>2
  <2>6. m.todo \cup m.failed \subseteq n.todo \cup n.failed \cup {r \in IpRow : ipStatus'[r] = "after"}
    BY <1>2, <2>2, <2>3, <2>4
  <2>7. QED
    BY <2>1, <2>2, <2>4, <2>5, <2>6, RunGoesOn
<1>6. QED
  BY <1>3, <1>4, <1>5

LEMMA RunCompletes == ASSUME BulkInv, NEW i \in DOMAIN runs, CompleteBulk(i) PROVE BulkInv'
<1>1. runs \in Seq(RunType) /\ runs[i] \in RunType
  BY DEF BulkInv
<1> DEFINE n == [runs[i] EXCEPT !.st = "done"]
<1>2. /\ runs' = [runs EXCEPT ![i] = n] /\ bulkDialog' = "closed" /\ selected' = {}
      /\ UNCHANGED <<ipTable, ipStatus>> /\ runs[i].st = "running" /\ runs[i].todo = {}
  BY DEF CompleteBulk
<1>3. /\ n \in RunType /\ n.all = runs[i].all /\ n.left = runs[i].left /\ n.st = "done"
      /\ n.todo = runs[i].todo /\ n.failed = runs[i].failed
  BY <1>1 DEF RunType
<1> HIDE DEF n
<1>4. /\ runs' \in Seq(RunType) /\ DOMAIN runs' = DOMAIN runs /\ Len(runs') = Len(runs)
      /\ \A j \in DOMAIN runs : runs'[j] = IF j = i THEN n ELSE runs[j]
  BY <1>1, <1>2, <1>3
<1>5. DoneAreUpdated'
  BY <1>2, <1>3, <1>4 DEF BulkInv, DoneAreUpdated
<1>6. AttendedRuns'
  <2>1. CASE \E j \in DOMAIN runs : runs[j].left
    BY <1>3, <1>4, <2>1 DEF AttendedRuns
  <2>2. CASE ~\E j \in DOMAIN runs : runs[j].left
    <3>1. \A j \in DOMAIN runs : runs[j].st = "running" => j = i
      BY <1>2, <2>2 DEF BulkInv, AttendedRuns
    <3>2. \A j \in DOMAIN runs' : runs'[j].st # "running"
      BY <1>3, <1>4, <3>1
    <3>3. QED
      BY <3>2 DEF AttendedRuns
  <2>3. QED
    BY <2>1, <2>2
<1>7. ReadIsOfRow'
  BY <1>2, <1>3, <1>4 DEF BulkInv, ReadIsOfRow, Going, RowOf
<1>8. QED
  BY <1>2, <1>4, <1>5, <1>6, <1>7 DEF BulkInv

LEMMA StepBulk == BulkInv /\ [BulkNext]_bulkVars => BulkInv'
<1> SUFFICES ASSUME BulkInv, [BulkNext]_bulkVars PROVE BulkInv'
  OBVIOUS
<1>1. CASE UNCHANGED bulkVars
  <2>1. selected \in SUBSET IpRow /\ bulkDialog \in {"closed", "open", "saving"}
    BY DEF BulkInv
  <2>2. QED
    BY <1>1, <2>1, RunsStay DEF bulkVars
<1>2. {} \in SUBSET IpRow /\ {} \in SUBSET Slug
  OBVIOUS
<1>3. ASSUME NEW r \in IpRow, ToggleRow(r) \/ OthersDelete(r) PROVE BulkInv'
  BY <1>2, <1>3, SelectionBulk
<1>4. ASSUME NEW r \in IpRow, NEW tags \in SUBSET Slug, OthersTouch(r, tags) PROVE BulkInv'
  BY <1>2, <1>4, SelectionBulk
<1>5. ASSUME NEW ids \in SUBSET IpRow, SelectAll(ids) PROVE BulkInv'
  <2>1. selected' \in SUBSET IpRow /\ bulkDialog \in {"closed", "open", "saving"}
    BY <1>5 DEF SelectAll, BulkInv
  <2>2. QED
    BY <1>5, <2>1, RunsStay DEF SelectAll, Touch
<1>6. CASE OpenBulk
  <2>1. selected \in SUBSET IpRow
    BY DEF BulkInv
  <2>2. QED
    BY <1>6, <2>1, RunsStay DEF OpenBulk
<1>7. QED
  BY <1>1, <1>3, <1>4, <1>5, <1>6, LeaveMarks, ApplyStarts, RunAnswers, RunCompletes
     DEF BulkNext, StepRun

(* The steps that take a run's row: it failed, or it was sent.             *)
LEMMA RowsTaken ==
  ASSUME BulkInv, [BulkNext]_bulkVars, NEW i \in DOMAIN runs, runs'[i].todo # runs[i].todo
  PROVE  FailRow(i) \/ PutRow(i)
<1>1. runs \in Seq(RunType)
  BY DEF BulkInv
<1>2. CASE UNCHANGED runs
  BY <1>2
<1>3. ASSUME NEW mode, NEW tags, ApplyBulk(mode, tags) PROVE FALSE
  <2>1. PICK n : n = NewRun(mode, tags, selected)
    OBVIOUS
  <2>2. runs' = Append(runs, n)
    BY <1>3, <2>1 DEF ApplyBulk
  <2>3. QED
    BY <1>1, <2>2
<1>4. CASE LeaveBulk
  <2>1. runs'[i] = [runs[i] EXCEPT !.left = runs[i].left \/ runs[i].st = "running"]
    BY <1>4 DEF LeaveBulk
  <2>2. QED
    BY <1>1, <2>1 DEF RunType
<1>5. ASSUME NEW j \in DOMAIN runs, ReadTags(j) \/ CompleteBulk(j) PROVE FALSE
  <2>1. runs[j] \in RunType
    BY <1>1
  <2>2. CASE ReadTags(j)
    BY <1>1, <2>1, <2>2 DEF ReadTags, RunType
  <2>3. CASE CompleteBulk(j)
    BY <1>1, <2>1, <2>3 DEF CompleteBulk, RunType
  <2>4. QED
    BY <1>5, <2>2, <2>3
<1>6. ASSUME NEW j \in DOMAIN runs, FailRow(j) \/ PutRow(j) PROVE j = i
  <2>1. PICK n : runs' = [runs EXCEPT ![j] = n]
    BY <1>6 DEF FailRow, PutRow
  <2>2. QED
    BY <2>1
<1>7. CASE UNCHANGED bulkVars
  BY <1>2, <1>7 DEF bulkVars
<1>8. CASE OpenBulk
  BY <1>2, <1>8 DEF OpenBulk
<1>9. CASE (\E r \in IpRow : ToggleRow(r) \/ OthersDelete(r)
                 \/ \E tags \in SUBSET Slug : OthersTouch(r, tags))
            \/ \E ids \in SUBSET IpRow : SelectAll(ids)
  <2>1. UNCHANGED runs
    BY <1>9 DEF ToggleRow, OthersDelete, OthersTouch, SelectAll
  <2>2. QED
    BY <1>2, <2>1
<1>10. QED
  BY <1>3, <1>4, <1>5, <1>6, <1>7, <1>8, <1>9 DEF BulkNext, StepRun

LEMMA StepKeepsTags == BulkInv /\ [BulkNext]_bulkVars => TagsAreKept
<1> SUFFICES ASSUME BulkInv, [BulkNext]_bulkVars,
                    NEW i \in DOMAIN runs, NEW r \in DOMAIN ipTable \cap DOMAIN ipTable',
                    Going(i), runs'[i].todo # runs[i].todo, RowOf(i) = r,
                    runs[i].mode \in {"add", "remove"}, ~(Len(runs) > 1)
             PROVE  \/ runs[i].mode = "add" /\ ipTable[r].tags \subseteq ipTable'[r].tags
                    \/ runs[i].mode = "remove" /\ ipTable'[r].tags \subseteq ipTable[r].tags
                    \/ runs[i].read # <<>> /\ runs[i].read[1].ver # ipTable[r].ver
  BY DEF TagsAreKept
<1>1. FailRow(i) \/ PutRow(i)
  BY RowsTaken
<1>2. CASE FailRow(i)
  BY <1>2 DEF FailRow
<1>3. CASE PutRow(i)
  <2>1. runs[i] \in RunType /\ ipTable[r] \in TableRow /\ runs \in Seq(RunType)
    BY DEF BulkInv
  <2>2. runs[i].read # <<>>
    BY <1>3 DEF PutRow, Reads1
  <2>3. PICK row \in TableRow : runs[i].read = <<row>>
    BY <2>1, <2>2 DEF RunType
  <2>4. runs[i].read[1] = row
    BY <2>3
  <2>5. Len(runs) <= 1
    BY <2>1
  <2>6. row = ipTable[r] \/ row.ver < ipTable[r].ver
    BY <2>2, <2>4, <2>5 DEF BulkInv, ReadIsOfRow
  <2>7. CASE row.ver < ipTable[r].ver
    BY <2>1, <2>2, <2>4, <2>7 DEF TableRow
  <2>8. CASE row = ipTable[r]
    <3>1. PICK tags : tags = TagsToSend(runs[i])
      OBVIOUS
    <3>2. ipTable' = [ipTable EXCEPT ![r].tags = tags]
      BY <1>3, <3>1 DEF PutRow
    <3>3. ipTable'[r].tags = tags
      BY <2>1, <3>2 DEF TableRow
    <3>4. CASE runs[i].mode = "add"
      <4>1. tags = ipTable[r].tags \cup runs[i].tags
        BY <2>4, <2>8, <3>1, <3>4 DEF TagsToSend
      <4>2. QED
        BY <3>3, <3>4, <4>1
    <3>5. CASE runs[i].mode = "remove"
      <4>1. tags = ipTable[r].tags \ runs[i].tags
        BY <2>4, <2>8, <3>1, <3>5 DEF TagsToSend
      <4>2. QED
        BY <3>3, <3>5, <4>1
    <3>6. QED
      BY <3>4, <3>5
  <2>9. QED
    BY <2>6, <2>7, <2>8
<1>4. QED
  BY <1>1, <1>2, <1>3

(* No bulk edit undoes a change of tags that it had seen: what is lost is  *)
(* what another user, or another run, changed between its GET and its PUT. *)
THEOREM EditsLoseTagsInARaceOnly == BulkSpec => TagsLostOnlyInARace
<1>1. BulkInv /\ [BulkNext]_bulkVars => [TagsAreKept]_bulkVars
  BY StepKeepsTags
<1>2. QED
  BY <1>1, InitBulk, StepBulk, PTL DEF BulkSpec, TagsLostOnlyInARace

(* The steps that end a run: only its own completion.                      *)
LEMMA RunsEnd ==
  ASSUME BulkInv, [BulkNext]_bulkVars, NEW i \in DOMAIN runs,
         runs[i].st = "running", runs'[i].st = "done"
  PROVE  CompleteBulk(i)
<1>1. runs \in Seq(RunType) /\ \A j \in DOMAIN runs : runs[j] \in RunType
  BY DEF BulkInv
<1>2. CASE UNCHANGED runs
  BY <1>2
<1>3. ASSUME NEW mode, NEW tags, ApplyBulk(mode, tags) PROVE FALSE
  <2>1. PICK n : n = NewRun(mode, tags, selected)
    OBVIOUS
  <2>2. runs' = Append(runs, n)
    BY <1>3, <2>1 DEF ApplyBulk
  <2>3. QED
    BY <1>1, <2>2
<1>4. CASE LeaveBulk
  <2>1. runs'[i] = [runs[i] EXCEPT !.left = runs[i].left \/ runs[i].st = "running"]
    BY <1>4 DEF LeaveBulk
  <2>2. QED
    BY <1>1, <2>1 DEF RunType
<1>5. ASSUME NEW j \in DOMAIN runs, FailRow(j) \/ ReadTags(j) \/ PutRow(j) PROVE FALSE
  <2>1. PICK n : runs' = [runs EXCEPT ![j] = n] /\ n.st = runs[j].st
    <3>1. CASE ReadTags(j)
      <4>1. [runs[j] EXCEPT !.read = <<ipTable[RowOf(j)]>>].st = runs[j].st
        BY <1>1 DEF RunType
      <4>2. QED
        BY <3>1, <4>1 DEF ReadTags
    <3>2. Past(runs[j]).st = runs[j].st /\ Past(runs[j]) \in RunType
      BY <1>1, PastRun
    <3>3. CASE PutRow(j)
      BY <3>2, <3>3 DEF PutRow
    <3>4. CASE FailRow(j)
      <4>1. PICK p \in RunType : p = Past(runs[j]) /\ p.st = runs[j].st
        BY <3>2
      <4>2. [p EXCEPT !.failed = runs[j].failed \cup {RowOf(j)}].st = runs[j].st
        BY <4>1 DEF RunType
      <4>3. QED
        BY <3>4, <4>1, <4>2 DEF FailRow
    <3>5. QED
      BY <1>5, <3>1, <3>3, <3>4
  <2>2. QED
    BY <2>1
<1>6. ASSUME NEW j \in DOMAIN runs, CompleteBulk(j) PROVE j = i
  BY <1>6 DEF CompleteBulk
<1>7. CASE UNCHANGED bulkVars
  BY <1>2, <1>7 DEF bulkVars
<1>8. CASE OpenBulk
  BY <1>2, <1>8 DEF OpenBulk
<1>9. CASE (\E r \in IpRow : ToggleRow(r) \/ OthersDelete(r)
                \/ \E tags \in SUBSET Slug : OthersTouch(r, tags))
           \/ \E ids \in SUBSET IpRow : SelectAll(ids)
  <2>1. UNCHANGED runs
    BY <1>9 DEF ToggleRow, OthersDelete, OthersTouch, SelectAll
  <2>2. QED
    BY <1>2, <2>1
<1>10. QED
  BY <1>3, <1>4, <1>5, <1>6, <1>7, <1>8, <1>9 DEF BulkNext, StepRun

(* A run that ends has done its own work, and closes its own dialog.       *)
THEOREM EditsEndTheirOwnWork == BulkSpec => EndsItsOwnWork
<1>1. BulkInv /\ [BulkNext]_bulkVars => [RunsEndTheirOwn]_bulkVars
  <2> SUFFICES ASSUME BulkInv, [BulkNext]_bulkVars, NEW i \in DOMAIN runs,
                      runs[i].st = "running", runs'[i].st = "done"
               PROVE  /\ \A r \in runs[i].all : r \in runs[i].failed \/ ipStatus[r] = "after"
                      /\ \/ \E j \in DOMAIN runs : runs[j].left
                         \/ bulkDialog = "saving" /\ selected = runs[i].all
    BY DEF RunsEndTheirOwn
  <2>1. runs[i].todo = {}
    BY RunsEnd DEF CompleteBulk
  <2>2. QED
    BY <2>1 DEF BulkInv, DoneAreUpdated, AttendedRuns
<1>2. QED
  BY <1>1, InitBulk, StepBulk, PTL DEF BulkSpec, EndsItsOwnWork

-----------------------------------------------------------------------------
(* Imports: a host that is done with was created, or its call failed.      *)

ImportType == [net : Net, mount : Nat, all : SUBSET Address, todo : SUBSET Address,
               st : {"sent", "created", "refused"}, failed : SUBSET {Min(as) : as \in SUBSET Address}]

\* The host of the call that is under way exists once the call created it.
CreatedExist ==
    \A i \in DOMAIN imports :
        imports[i].st = "created" =>
            imports[i].todo # {} /\ <<imports[i].net, Min(imports[i].todo)>> \in registered

DoneAreRegistered ==
    \A i \in DOMAIN imports : \A a \in imports[i].all :
        a \in imports[i].todo \cup imports[i].failed \/ <<imports[i].net, a>> \in registered

ImportedAreRegistered ==
    \A a \in imported : \E i \in DOMAIN imports : <<imports[i].net, a>> \in registered

ImportInv ==
    /\ imports \in Seq(ImportType) /\ shownNet \in Net /\ mounts \in Nat
    /\ hosts \in [Net -> SUBSET Address]
    /\ CreatedExist /\ DoneAreRegistered /\ ImportedAreRegistered

LEMMA InitImports == ImportsInit => ImportInv
<1> SUFFICES ASSUME ImportsInit PROVE ImportInv
  OBVIOUS
<1>1. imports = <<>> /\ imported = {} /\ shownNet \in Net /\ hosts \in [Net -> SUBSET Address] /\ mounts = 1
  BY DEF ImportsInit
<1>2. imports \in Seq(ImportType) /\ DOMAIN imports = {}
  BY <1>1
<1>3. QED
  BY <1>1, <1>2 DEF ImportInv, CreatedExist, DoneAreRegistered, ImportedAreRegistered

(* Imports stay as they are, while rows may be added.                      *)
LEMMA ImportsStay ==
  ASSUME ImportInv, UNCHANGED imports, registered \subseteq registered',
         imported' \subseteq imported, shownNet' \in Net, mounts' \in Nat,
         hosts' \in [Net -> SUBSET Address]
  PROVE  ImportInv'
<1>1. CreatedExist'
  BY DEF ImportInv, CreatedExist
<1>2. DoneAreRegistered'
  BY DEF ImportInv, DoneAreRegistered
<1>3. ImportedAreRegistered'
  BY DEF ImportInv, ImportedAreRegistered
<1>4. QED
  BY <1>1, <1>2, <1>3 DEF ImportInv

LEMMA ImportStarts ==
  ASSUME ImportInv, NEW as \in SUBSET Address, StartImport(as)
  PROVE  ImportInv'
<1> DEFINE m == NewImport(as)
<1>1. m \in ImportType /\ m.st = "sent" /\ m.all = as /\ m.todo = as
  BY DEF NewImport, ImportType, ImportInv
<1>2. /\ imports' = Append(imports, m) /\ UNCHANGED <<shownNet, hosts, registered, imported, mounts>>
      /\ imports \in Seq(ImportType)
  BY DEF StartImport, ImportInv
<1> HIDE DEF m
<1>3. /\ imports' \in Seq(ImportType) /\ DOMAIN imports \subseteq DOMAIN imports'
      /\ \A i \in DOMAIN imports : imports'[i] = imports[i]
      /\ \A i \in DOMAIN imports' : i \in DOMAIN imports \/ imports'[i] = m
  BY <1>1, <1>2
<1>4. CreatedExist'
  BY <1>1, <1>2, <1>3 DEF ImportInv, CreatedExist
<1>5. DoneAreRegistered'
  BY <1>1, <1>2, <1>3 DEF ImportInv, DoneAreRegistered
<1>6. ImportedAreRegistered'
  BY <1>2, <1>3 DEF ImportInv, ImportedAreRegistered
<1>7. QED
  BY <1>2, <1>3, <1>4, <1>5, <1>6 DEF ImportInv

(* One import changes: its state, or its next host.                        *)
LEMMA ImportGoesOn ==
  ASSUME ImportInv, NEW i \in DOMAIN imports, NEW m \in ImportType,
         m.net = imports[i].net, m.all = imports[i].all, imports' = [imports EXCEPT ![i] = m],
         UNCHANGED <<shownNet, hosts, mounts>>, registered \subseteq registered',
         m.st = "created" => m.todo # {} /\ <<m.net, Min(m.todo)>> \in registered',
         \A a \in imports[i].todo \cup imports[i].failed :
             a \in m.todo \cup m.failed \/ <<m.net, a>> \in registered',
         \A a \in imported' \ imported : <<imports[i].net, a>> \in registered'
  PROVE  ImportInv'
<1>1. imports \in Seq(ImportType)
  BY DEF ImportInv
<1>2. /\ imports' \in Seq(ImportType) /\ DOMAIN imports' = DOMAIN imports
      /\ \A j \in DOMAIN imports : imports'[j] = IF j = i THEN m ELSE imports[j]
  BY <1>1
<1>3. \A j \in DOMAIN imports : imports'[j].net = imports[j].net
  BY <1>2
<1>4. CreatedExist'
  BY <1>2 DEF ImportInv, CreatedExist
<1>5. DoneAreRegistered'
  <2> SUFFICES ASSUME NEW j \in DOMAIN imports, NEW a \in imports'[j].all
               PROVE  \/ a \in imports'[j].todo \cup imports'[j].failed
                      \/ <<imports'[j].net, a>> \in registered'
    BY <1>2 DEF DoneAreRegistered
  <2>1. CASE j = i
    <3>1. a \in imports[i].all
      BY <1>2, <2>1
    <3>2. a \in imports[i].todo \cup imports[i].failed \/ <<imports[i].net, a>> \in registered
      BY <3>1 DEF ImportInv, DoneAreRegistered
    <3>3. a \in m.todo \cup m.failed \/ <<m.net, a>> \in registered'
      BY <3>2
    <3>4. QED
      BY <1>2, <2>1, <3>3
  <2>2. CASE j # i
    BY <1>2, <2>2 DEF ImportInv, DoneAreRegistered
  <2>3. QED
    BY <2>1, <2>2
<1>6. ImportedAreRegistered'
  <2> SUFFICES ASSUME NEW a \in imported'
               PROVE  \E j \in DOMAIN imports' : <<imports'[j].net, a>> \in registered'
    BY DEF ImportedAreRegistered
  <2>1. CASE a \in imported
    BY <1>2, <1>3, <2>1 DEF ImportInv, ImportedAreRegistered
  <2>2. CASE a \notin imported
    BY <1>2, <1>3, <2>2
  <2>3. QED
    BY <2>1, <2>2
<1>7. QED
  BY <1>2, <1>4, <1>5, <1>6 DEF ImportInv

LEMMA ImportAnswers ==
  ASSUME ImportInv, NEW i \in DOMAIN imports, CommitImport(i) \/ LoseImport(i) \/ NextImport(i)
  PROVE  ImportInv'
<1> DEFINE m == imports[i]
<1>1. imports \in Seq(ImportType) /\ m \in ImportType
  BY DEF ImportInv
<1>2. /\ m.todo \in SUBSET Address /\ m.st \in {"sent", "created", "refused"}
      /\ m.failed \in SUBSET {Min(as) : as \in SUBSET Address}
  BY <1>1 DEF ImportType
\* Only the state of the call.
<1>3. ASSUME NEW st \in {"created", "refused"}, imports' = [imports EXCEPT ![i].st = st],
             UNCHANGED <<shownNet, hosts, mounts, imported>>, registered \subseteq registered',
             st = "created" => m.todo # {} /\ <<m.net, Min(m.todo)>> \in registered'
      PROVE  ImportInv'
  <2> DEFINE n == [m EXCEPT !.st = st]
  <2>1. /\ n \in ImportType /\ n.net = m.net /\ n.all = m.all /\ n.st = st
        /\ n.todo = m.todo /\ n.failed = m.failed
    BY <1>1 DEF ImportType
  <2>2. imports' = [imports EXCEPT ![i] = n]
    BY <1>3
  <2> HIDE DEF n
  <2>3. QED
    BY <1>3, <2>1, <2>2, ImportGoesOn
<1>4. CASE CommitImport(i)
  <2>1. UNCHANGED <<shownNet, hosts, mounts, imported>> /\ m.todo # {}
    BY <1>4 DEF CommitImport, UnderWay
  <2>2. CASE imports' = [imports EXCEPT ![i].st = "refused"] /\ UNCHANGED registered
    BY <1>3, <2>1, <2>2
  <2>3. CASE imports' = [imports EXCEPT ![i].st = "created"] /\ registered' = registered \cup {Hand(i)}
    BY <1>3, <2>1, <2>3 DEF Hand
  <2>4. QED
    BY <1>4, <2>2, <2>3 DEF CommitImport
<1>5. CASE LoseImport(i)
  BY <1>3, <1>5 DEF LoseImport
\* The host is done with: it was created, or it failed.
<1>6. CASE NextImport(i)
  <2> DEFINE host == Min(m.todo)
             rest == m.todo \ {host}
             failed == IF m.st = "refused" THEN m.failed \cup {host} ELSE m.failed
  <2>1. /\ imports' = [imports EXCEPT ![i].todo = rest, ![i].st = "sent", ![i].failed = failed]
        /\ m.st # "sent" /\ UNCHANGED <<shownNet, hosts, registered, mounts>>
        /\ imported' = IF m.mount = mounts /\ m.st = "created" THEN imported \cup {host} ELSE imported
    BY <1>6 DEF NextImport
  <2>2. rest \in SUBSET Address /\ failed \in SUBSET {Min(as) : as \in SUBSET Address}
    BY <1>2
  <2>3. m.st = "created" => <<m.net, host>> \in registered
    BY DEF ImportInv, CreatedExist
  <2>4. \A a \in m.todo \cup m.failed : a \in rest \cup failed \/ <<m.net, a>> \in registered'
    BY <1>2, <2>1, <2>3
  <2>5. \A a \in imported' \ imported : <<m.net, a>> \in registered'
    BY <2>1, <2>3
  <2> HIDE DEF rest, failed
  <2> DEFINE n == [[[m EXCEPT !.todo = rest] EXCEPT !.st = "sent"] EXCEPT !.failed = failed]
  <2>6. /\ n \in ImportType /\ n.net = m.net /\ n.all = m.all /\ n.st = "sent"
        /\ n.todo = rest /\ n.failed = failed
    BY <1>1, <2>2 DEF ImportType
  <2>7. imports' = [imports EXCEPT ![i] = n]
    BY <1>1, <2>1
  <2> HIDE DEF n
  <2>8. QED
    BY <2>1, <2>4, <2>5, <2>6, <2>7, ImportGoesOn
<1>7. QED
  BY <1>4, <1>5, <1>6

LEMMA StepImports == ImportInv /\ [ImportsNext]_importVars => ImportInv'
<1> SUFFICES ASSUME ImportInv, [ImportsNext]_importVars PROVE ImportInv'
  OBVIOUS
<1>1. /\ shownNet \in Net /\ mounts \in Nat /\ hosts \in [Net -> SUBSET Address]
      /\ \A n \in Net : hosts[n] \subseteq Address
  BY DEF ImportInv
<1>2. CASE UNCHANGED importVars
  BY <1>1, <1>2, ImportsStay DEF importVars
<1>3. ASSUME NEW n \in Net, ChooseNet(n) PROVE ImportInv'
  BY <1>1, <1>3, ImportsStay DEF ChooseNet
<1>4. ASSUME NEW n \in Net, NEW a \in Address, OthersRegister(n, a) PROVE ImportInv'
  BY <1>1, <1>4, ImportsStay DEF OthersRegister
<1>5. CASE LeaveView
  BY <1>1, <1>5, ImportsStay DEF LeaveView
<1>6. ASSUME NEW as \in SUBSET Address, Rescan(as) PROVE ImportInv'
  BY <1>1, <1>6, ImportsStay DEF Rescan
<1>7. CASE ImportAll
  BY <1>1, <1>7, ImportStarts DEF ImportAll, Unimported
<1>8. ASSUME NEW a \in Address, ImportHost(a) PROVE ImportInv'
  BY <1>8, ImportStarts DEF ImportHost
<1>9. QED
  BY <1>2, <1>3, <1>4, <1>5, <1>6, <1>7, <1>8, ImportAnswers DEF ImportsNext

(* An import that is over has created every host it was started for, in    *)
(* the subnet it was started for, but for those whose call failed; and a   *)
(* host is shown as imported only where an import created it.              *)
THEOREM ImportsAreRegistered == ImportsSpec => []ImportsRegister
<1>1. ImportInv => ImportsRegister
  BY DEF ImportInv, DoneAreRegistered, ImportedAreRegistered, ImportsRegister
<1>2. QED
  BY <1>1, InitImports, StepImports, PTL DEF ImportsSpec

-----------------------------------------------------------------------------
(* Searches: an answer is shown for the key it was asked with.             *)

SearchInv ==
    /\ searchView \in Searched /\ timer \in BOOLEAN
    /\ timer => searchView.applies = "after a pause"
    /\ searchView.applies = "never" => typed = NoWord /\ applied = NoWord
    /\ searchView.applies = "at once" => applied = typed
    /\ searchView.applies = "after a pause" => timer \/ applied = typed
    /\ \A k \in DOMAIN answers : answers[k].rows \subseteq Hits[k.word, k.choice]

LEMMA Applies ==
  ASSUME NEW v \in Searched
  PROVE  v.applies \in {"after a pause", "at once", "never", "on submit"}
<1>1. \A applies, least, selects, paged : View(applies, least, selects, paged).applies = applies
  BY DEF View
<1>2. v \in {AssetsPage, SystemLogsView, UserActionsView, AuditPage, GlobalSearch}
  BY SearchViewsAssumption
<1>3. /\ AssetsPage.applies = "after a pause" /\ SystemLogsView.applies = "at once"
      /\ UserActionsView.applies = "never" /\ AuditPage.applies = "on submit"
      /\ GlobalSearch.applies = "after a pause"
  BY <1>1 DEF AssetsPage, SystemLogsView, UserActionsView, AuditPage, GlobalSearch
<1>4. QED
  BY <1>2, <1>3

LEMMA ResultMatches ==
  ASSUME NEW k PROVE Result(k).rows \subseteq Hits[k.word, k.choice]
<1>1. ASSUME NEW rs, NEW p, NEW n PROVE PageOf(rs, p, n) \subseteq rs
  BY DEF PageOf
<1>2. PICK rs : rs = logRows \cap Hits[k.word, k.choice]
  OBVIOUS
<1>3. Result(k).rows = PageOf(rs, k.page, k.len)
  BY <1>2 DEF Result
<1>4. PageOf(rs, k.page, k.len) \subseteq rs
  BY <1>1
<1>5. QED
  BY <1>2, <1>3, <1>4

LEMMA InitSearch == SearchInit => SearchInv
<1> SUFFICES ASSUME SearchInit PROVE SearchInv
  OBVIOUS
<1>1. searchView \in Searched /\ typed = NoWord /\ applied = NoWord /\ DOMAIN answers = {}
  BY DEF SearchInit
<1>2. timer \in BOOLEAN /\ ~timer
  BY DEF SearchInit
<1>3. QED
  BY <1>1, <1>2 DEF SearchInv

LEMMA StepSearch == SearchInv /\ [SearchNext]_searchVars => SearchInv'
<1> SUFFICES ASSUME SearchInv, [SearchNext]_searchVars PROVE SearchInv'
  OBVIOUS
<1>1. CASE UNCHANGED searchVars
  BY <1>1 DEF searchVars, SearchInv
<1>2. ASSUME NEW w \in Words, Type(w) PROVE SearchInv'
  <2>1. /\ searchView.applies # "never" /\ typed' = w
        /\ applied' = IF searchView.applies = "at once" THEN w ELSE applied
        /\ UNCHANGED <<searchView, answers>>
    BY <1>2 DEF Type, ShowKey
  <2>2. timer' \in BOOLEAN /\ (timer' <=> searchView.applies = "after a pause")
    BY <1>2, Zenon DEF Type
  <2>3. QED
    BY <2>1, <2>2 DEF SearchInv
<1>3. CASE Apply
  <2>1. /\ applied' = typed /\ typed' = typed /\ UNCHANGED <<searchView, answers>>
        /\ searchView.applies # "never"
    BY <1>3 DEF Apply, ShowKey, SearchInv
  <2>2. timer' \in BOOLEAN /\ ~timer'
    BY <1>3 DEF Apply
  <2>3. QED
    BY <2>1, <2>2 DEF SearchInv
<1>4. ASSUME NEW c \in Options, Choose(c) PROVE SearchInv'
  BY <1>4 DEF Choose, ShowKey, SearchInv
<1>5. ASSUME NEW p \in 0 .. Cardinality(LogRow), TurnPage(p) PROVE SearchInv'
  BY <1>5 DEF TurnPage, ShowKey, SearchInv
<1>6. ASSUME NEW n \in Length, SetLength(n) PROVE SearchInv'
  BY <1>6 DEF SetLength, ShowKey, SearchInv
<1>7. ASSUME NEW k \in asked, AnswerKey(k) PROVE SearchInv'
  <2>1. \A q \in DOMAIN answers' :
           answers'[q].rows \subseteq Hits[q.word, q.choice]
    <3> SUFFICES ASSUME NEW q \in DOMAIN answers'
                 PROVE  answers'[q].rows \subseteq Hits[q.word, q.choice]
      OBVIOUS
    <3>1. answers' = [r \in DOMAIN answers \cup {k} |-> IF r = k THEN Result(k) ELSE answers[r]]
      BY <1>7 DEF AnswerKey
    <3>2. CASE q = k
      BY <3>1, <3>2, ResultMatches
    <3>3. CASE q # k
      BY <3>1, <3>3 DEF SearchInv
    <3>4. QED
      BY <3>2, <3>3
  <2>2. QED
    BY <1>7, <2>1 DEF AnswerKey, SearchInv
<1>8. ASSUME NEW rs \in SUBSET LogRow, ChangeRows(rs) PROVE SearchInv'
  BY <1>8 DEF ChangeRows, SearchInv
<1>9. QED
  BY <1>1, <1>2, <1>3, <1>4, <1>5, <1>6, <1>7, <1>8 DEF SearchNext

(* However late and in whatever order answers come, what is shown matches  *)
(* what is typed and selected.                                             *)
THEOREM SearchesMatch == SearchSpec => []ShownMatches
<1>1. SearchInv => ShownMatches
  <2> SUFFICES ASSUME SearchInv, ~timer,
                      searchView.applies \notin {"on submit", "never"} \/ typed = applied
               PROVE  Data.rows \subseteq
                          Hits[IF searchView.applies = "never" THEN NoWord ELSE typed, choice]
    BY DEF ShownMatches
  <2>1. applied = IF searchView.applies = "never" THEN NoWord ELSE typed
    BY Applies DEF SearchInv
  <2>2. CurrentKey.word = applied /\ CurrentKey.choice = choice
    BY DEF CurrentKey, Key
  <2>3. CASE Answered
    <3>1. answers[CurrentKey].rows \subseteq Hits[CurrentKey.word, CurrentKey.choice]
      BY <2>3 DEF Answered, SearchInv
    <3>2. Data.rows = answers[CurrentKey].rows
      BY <2>3 DEF Data
    <3>3. QED
      BY <2>1, <2>2, <3>1, <3>2
  <2>4. CASE ~Answered
    BY <2>4 DEF Data
  <2>5. QED
    BY <2>3, <2>4
<1>2. QED
  BY <1>1, InitSearch, StepSearch, PTL DEF SearchSpec

-----------------------------------------------------------------------------
(* Searches: a page number is one of the rows it was chosen among.         *)

Found(k) == logRows \cap Hits[k.word, k.choice]

InReach(k) == k.page = 0 \/ k.page * k.len < Cardinality(Found(k))

\* As rows only come, no answer claims more rows than there are.
AnswerOK(k) ==
    /\ answers[k].total \in Nat /\ answers[k].total <= Cardinality(Found(k))
    /\ answers[k].total > 0 => answers[k].rows # {}

PageInv ==
    /\ logRows \subseteq LogRow /\ pageNo \in Nat /\ pageLen \in Length /\ shrunk \in BOOLEAN
    /\ \A k \in asked : k.page \in Nat /\ k.len \in Length
    /\ DOMAIN answers \subseteq asked
    /\ Enabled(CurrentKey) => CurrentKey \in asked
    /\ ~shrunk => /\ \A k \in asked : InReach(k)
                  /\ \A k \in DOMAIN answers : AnswerOK(k)

LEMMA KeyFields ==
  ASSUME NEW w, NEW c, NEW p, NEW n
  PROVE  /\ Key(w, c, p, n).word = w /\ Key(w, c, p, n).choice = c
         /\ Key(w, c, p, n).page = p /\ Key(w, c, p, n).len = n
  BY DEF Key

LEMMA FoundIsFinite ==
  ASSUME logRows \subseteq LogRow, NEW k
  PROVE  Found(k) \in SUBSET Nat /\ IsFiniteSet(Found(k)) /\ Cardinality(Found(k)) \in Nat
<1>1. Found(k) \in SUBSET LogRow
  BY DEF Found
<1>2. Found(k) \in SUBSET Nat /\ IsFiniteSet(Found(k))
  BY <1>1, SearchViewsAssumption, FS_Subset
<1>3. QED
  BY <1>2, FS_CardinalityType

LEMMA InitPage == SearchInit => PageInv
<1> SUFFICES ASSUME SearchInit PROVE PageInv
  OBVIOUS
<1>1. /\ logRows \subseteq LogRow /\ pageNo = 0 /\ pageLen \in Length /\ shrunk = FALSE
      /\ DOMAIN answers = {} /\ asked = {k \in {CurrentKey} : Enabled(k)}
  BY DEF SearchInit
<1>2. CurrentKey.page = 0 /\ CurrentKey.len = pageLen
  BY <1>1, KeyFields DEF CurrentKey
<1>3. \A k \in asked : k = CurrentKey
  BY <1>1
<1>4. Enabled(CurrentKey) => CurrentKey \in asked
  BY <1>1
<1>5. shrunk \in BOOLEAN
  BY <1>1
<1>6. QED
  BY <1>1, <1>2, <1>3, <1>4, <1>5 DEF PageInv, InReach

\* A key that is shown, if it is in reach.
LEMMA ShowPage ==
  ASSUME PageInv, NEW w, NEW c, NEW p \in Nat, NEW n \in Length, ShowKey(w, c, p, n),
         Enabled(Key(w, c, p, n)) /\ ~shrunk => InReach(Key(w, c, p, n))
  PROVE  PageInv'
<1> DEFINE key == Key(w, c, p, n)
<1>1. /\ pageNo' = p /\ pageLen' = n /\ UNCHANGED <<searchView, logRows, answers, shrunk>>
      /\ asked' = asked \cup {k \in {key} : Enabled(k)} /\ CurrentKey' = key
  BY DEF ShowKey, CurrentKey
<1>2. \A k : Enabled(k)' = Enabled(k) /\ InReach(k)' = InReach(k) /\ AnswerOK(k)' = AnswerOK(k)
  BY <1>1 DEF Enabled, InReach, AnswerOK, Found
<1>3. key.page = p /\ key.len = n
  BY KeyFields
<1> HIDE DEF key
<1>4. \A k \in asked' : k \in asked \/ (k = key /\ Enabled(key))
  BY <1>1
<1>5. Enabled(CurrentKey)' => CurrentKey' \in asked'
  <2>1. Enabled(CurrentKey)' => Enabled(key)
    BY <1>1 DEF Enabled
  <2>2. QED
    BY <1>1, <2>1
<1>6. \A k \in asked' : k.page \in Nat /\ k.len \in Length
  BY <1>3, <1>4 DEF PageInv
<1>7. ~shrunk => \A k \in asked' : InReach(k)
  BY <1>4 DEF PageInv, key
<1>8. ~shrunk' => (\A k \in asked' : InReach(k)') /\ (\A k \in DOMAIN answers' : AnswerOK(k)')
  BY <1>1, <1>2, <1>7 DEF PageInv
<1>9. DOMAIN answers' \subseteq asked' /\ logRows' \subseteq LogRow /\ shrunk' \in BOOLEAN
  BY <1>1 DEF PageInv
<1>10. QED
  BY <1>1, <1>5, <1>6, <1>8, <1>9 DEF PageInv

\* The first page is in reach.
LEMMA ShowFirst ==
  ASSUME PageInv, NEW w, NEW c, NEW n \in Length, ShowKey(w, c, 0, n)
  PROVE  PageInv'
<1>1. InReach(Key(w, c, 0, n))
  BY KeyFields DEF InReach
<1>2. QED
  BY <1>1, ShowPage

LEMMA ShowSame ==
  ASSUME PageInv, ShowKey(applied, choice, pageNo, pageLen)
  PROVE  PageInv'
<1>1. Enabled(CurrentKey) /\ ~shrunk => InReach(CurrentKey)
  BY DEF PageInv
<1>2. QED
  BY <1>1, ShowPage DEF CurrentKey, PageInv

\* The last page that the arrows offer has rows, as the answer on show says.
LEMMA TurnPageInv ==
  ASSUME PageInv, NEW p, TurnPage(p)
  PROVE  PageInv'
<1>1. TotalPages > 1 /\ p \in 0 .. TotalPages - 1 /\ ShowKey(applied, choice, p, pageLen)
  BY DEF TurnPage
<1>2. pageLen \in Nat \ {0} /\ pageLen \in Length
  BY SearchViewsAssumption DEF PageInv
<1> DEFINE q == (Data.total + pageLen - 1) \div pageLen
<1>3. TotalPages = Max({1, q})
  BY DEF TotalPages
<1>4. ASSUME ~shrunk PROVE InReach(Key(applied, choice, p, pageLen))
  <2>1. Data.total \in Nat
    BY <1>4 DEF Data, PageInv, AnswerOK, Answered
  <2>2. q \in Nat /\ \A i \in Nat : i < q => i * pageLen < Data.total
    BY <1>2, <2>1, PagesOfRows
  <2> HIDE DEF q
  <2>3. TotalPages = IF q < 1 THEN 1 ELSE q
    BY <1>3, <2>2 DEF Max
  <2>4. p \in Nat /\ p < q
    BY <1>1, <2>2, <2>3
  <2>5. p * pageLen < Data.total
    BY <2>2, <2>4
  <2>6. CASE Answered
    <3>1. Data.total <= Cardinality(Found(CurrentKey))
      BY <1>4, <2>6 DEF Data, PageInv, AnswerOK, Answered
    <3>2. Found(Key(applied, choice, p, pageLen)) = Found(CurrentKey)
      BY DEF Found, CurrentKey, Key
    <3>3. Cardinality(Found(CurrentKey)) \in Nat
      BY FoundIsFinite DEF PageInv
    <3>4. p * pageLen \in Nat
      BY <1>2, <2>4
    <3>5. p * pageLen < Cardinality(Found(CurrentKey))
      BY <2>1, <2>5, <3>1, <3>3, <3>4
    <3>6. QED
      BY <3>2, <3>5, KeyFields DEF InReach
  <2>7. CASE ~Answered
    <3>1. Data.total = 0
      BY <2>7 DEF Data
    <3>2. p * pageLen \in Nat
      BY <1>2, <2>4
    <3>3. QED
      BY <2>5, <3>1, <3>2
  <2>8. QED
    BY <2>6, <2>7
<1>5. p \in Nat
  <2>1. p \in 0 .. TotalPages - 1
    BY <1>1
  <2>2. QED
    BY <2>1
<1>6. QED
  BY <1>1, <1>2, <1>4, <1>5, ShowPage

\* The answer of a key in reach has rows, if any match at all.
LEMMA AnswerPage ==
  ASSUME PageInv, NEW k \in asked, AnswerKey(k)
  PROVE  PageInv'
<1>1. UNCHANGED <<searchView, applied, choice, pageNo, pageLen, logRows, asked, shrunk>>
  BY DEF AnswerKey
<1>2. answers' = [q \in DOMAIN answers \cup {k} |-> IF q = k THEN Result(k) ELSE answers[q]]
  BY DEF AnswerKey
<1>3. Found(k) \in SUBSET Nat /\ IsFiniteSet(Found(k)) /\ Cardinality(Found(k)) \in Nat
  BY FoundIsFinite DEF PageInv
<1>4. Result(k).total = Cardinality(Found(k)) /\ Result(k).rows = PageOf(Found(k), k.page, k.len)
  BY DEF Result, Found
<1>5. k.page \in Nat /\ k.len \in Nat \ {0}
  BY SearchViewsAssumption DEF PageInv
<1>6. ASSUME ~shrunk, Cardinality(Found(k)) > 0 PROVE PageOf(Found(k), k.page, k.len) # {}
  <2>1. k.page * k.len < Cardinality(Found(k))
    BY <1>3, <1>5, <1>6 DEF PageInv, InReach
  <2>2. OnPage(Found(k), k.page, k.len) # {}
    BY <1>3, <1>5, <2>1, PageOfRows
  <2>3. Found(k) # {}
    BY <2>2 DEF OnPage
  <2>4. QED
    BY <2>2, <2>3 DEF PageOf, OnPage, Below
<1>7. ASSUME ~shrunk, NEW j \in DOMAIN answers' PROVE AnswerOK(j)'
  <2>1. CASE j = k
    <3>1. answers'[j] = Result(k)
      BY <1>2, <2>1
    <3>2. Found(j)' = Found(k)
      BY <1>1, <2>1 DEF Found
    <3>3. QED
      BY <1>3, <1>4, <1>6, <1>7, <3>1, <3>2 DEF AnswerOK
  <2>2. CASE j # k
    <3>1. answers'[j] = answers[j] /\ j \in DOMAIN answers
      BY <1>2, <1>7, <2>2
    <3>2. Found(j)' = Found(j) /\ AnswerOK(j)
      BY <1>1, <1>7, <3>1 DEF Found, PageInv
    <3>3. QED
      BY <3>1, <3>2 DEF AnswerOK
  <2>3. QED
    BY <2>1, <2>2
<1>8. CurrentKey' = CurrentKey /\ \A j : Enabled(j)' = Enabled(j) /\ InReach(j)' = InReach(j)
  BY <1>1 DEF CurrentKey, Enabled, InReach, Found
<1>9. Enabled(CurrentKey)' => CurrentKey' \in asked'
  <2>1. Enabled(CurrentKey)' = Enabled(CurrentKey)
    BY <1>1 DEF Enabled, CurrentKey
  <2>2. QED
    BY <1>1, <1>8, <2>1 DEF PageInv
<1>10. DOMAIN answers' \subseteq asked'
  BY <1>1, <1>2 DEF PageInv
<1>11. ~shrunk' => (\A j \in asked' : InReach(j)') /\ (\A j \in DOMAIN answers' : AnswerOK(j)')
  BY <1>1, <1>7, <1>8 DEF PageInv
<1>12. QED
  BY <1>1, <1>9, <1>10, <1>11 DEF PageInv

\* Rows that come leave what was in reach in reach.
LEMMA ChangePage ==
  ASSUME PageInv, NEW rs \in SUBSET LogRow, ChangeRows(rs)
  PROVE  PageInv'
<1>1. /\ UNCHANGED <<searchView, applied, choice, pageNo, pageLen, answers, asked>>
      /\ logRows' = rs /\ shrunk' = (shrunk \/ ~(logRows \subseteq rs))
  BY DEF ChangeRows
<1>2. ASSUME ~shrunk', NEW k
      PROVE  /\ Cardinality(Found(k)) \in Nat /\ Cardinality(Found(k)') \in Nat
             /\ Cardinality(Found(k)) <= Cardinality(Found(k)')
  <2>1. Found(k) \subseteq Found(k)' /\ Found(k)' \subseteq LogRow
    BY <1>1, <1>2 DEF Found
  <2>2. IsFiniteSet(Found(k)')
    BY <2>1, SearchViewsAssumption, FS_Subset
  <2>3. QED
    BY <2>1, <2>2, FS_Subset, FS_CardinalityType
<1>3. ASSUME ~shrunk'
      PROVE  (\A k \in asked' : InReach(k)') /\ (\A k \in DOMAIN answers' : AnswerOK(k)')
  <2>1. ~shrunk /\ (\A k \in asked : InReach(k)) /\ (\A k \in DOMAIN answers : AnswerOK(k))
    BY <1>1, <1>3 DEF PageInv
  <2>2. ASSUME NEW k \in asked PROVE InReach(k)'
    <3>1. k.page \in Nat /\ k.len \in Nat
      BY SearchViewsAssumption DEF PageInv
    <3>2. k.page * k.len \in Nat
      BY <3>1
    <3>3. InReach(k)
      BY <2>1
    <3>4. QED
      BY <1>2, <1>3, <3>2, <3>3 DEF InReach
  <2>3. ASSUME NEW k \in DOMAIN answers PROVE AnswerOK(k)'
    BY <1>1, <1>2, <1>3, <2>1 DEF AnswerOK
  <2>4. QED
    BY <1>1, <2>2, <2>3
<1>4. CurrentKey' = CurrentKey
  BY <1>1 DEF CurrentKey
<1>5. Enabled(CurrentKey)' => CurrentKey' \in asked'
  <2>1. Enabled(CurrentKey)' = Enabled(CurrentKey)
    BY <1>1 DEF Enabled, CurrentKey
  <2>2. QED
    BY <1>1, <1>4, <2>1 DEF PageInv
<1>6. shrunk' \in BOOLEAN
  BY <1>1 DEF PageInv
<1>7. QED
  BY <1>1, <1>3, <1>5, <1>6 DEF PageInv

LEMMA StepPage == PageInv /\ [SearchNext]_searchVars => PageInv'
<1> SUFFICES ASSUME PageInv, [SearchNext]_searchVars PROVE PageInv'
  OBVIOUS
<1>1. CASE UNCHANGED searchVars
  <2>1. UNCHANGED <<searchView, applied, choice, pageNo, pageLen, logRows, answers, asked, shrunk>>
    BY <1>1 DEF searchVars
  <2>2. CurrentKey' = CurrentKey /\ Enabled(CurrentKey)' = Enabled(CurrentKey)
    BY <2>1 DEF CurrentKey, Enabled
  <2>3. \A k : InReach(k)' = InReach(k) /\ AnswerOK(k)' = AnswerOK(k)
    BY <2>1 DEF InReach, AnswerOK, Found
  <2>4. QED
    BY <2>1, <2>2, <2>3 DEF PageInv
<1>2. ASSUME NEW w \in Words, Type(w) PROVE PageInv'
  BY <1>2, ShowFirst, ShowSame DEF Type, PageInv
<1>3. CASE Apply
  BY <1>3, ShowFirst DEF Apply, PageInv
<1>4. ASSUME NEW c \in Options, Choose(c) PROVE PageInv'
  BY <1>4, ShowFirst DEF Choose, PageInv
<1>5. ASSUME NEW p, TurnPage(p) PROVE PageInv'
  BY <1>5, TurnPageInv
<1>6. ASSUME NEW n \in Length, SetLength(n) PROVE PageInv'
  BY <1>6, ShowFirst DEF SetLength
<1>7. ASSUME NEW k \in asked, AnswerKey(k) PROVE PageInv'
  BY <1>7, AnswerPage
<1>8. ASSUME NEW rs \in SUBSET LogRow, ChangeRows(rs) PROVE PageInv'
  BY <1>8, ChangePage
<1>9. QED
  BY <1>1, <1>2, <1>3, <1>4, <1>5, <1>6, <1>7, <1>8 DEF SearchNext

(* No search, filter or turn of a page leaves a view on a page without     *)
(* rows while rows match, however late the answers come, unless rows went  *)
(* away.                                                                   *)
THEOREM PagesHaveRows == SearchSpec => []PageHasRows
<1>1. PageInv => PageHasRows
  BY DEF PageInv, PageHasRows, Answered, Data, AnswerOK
<1>2. QED
  BY <1>1, InitPage, StepPage, PTL DEF SearchSpec

-----------------------------------------------------------------------------
(* Restores: a CONFIRM serves one restore.                                 *)

Archive == File \cup {NoFile}
RestoreType == [file : File, visit : Nat, confirm : Nat, meant : Archive,
                st : {"sent", "queued", "done", "failed"}]

\* No CONFIRM is younger than the last.  While that stands in the dialog, what
\* was pressed under it belongs to this visit and did not succeed.
RestoreInv ==
    /\ restores \in Seq(RestoreType) /\ restoreFile \in Archive /\ meant \in Archive
    /\ visit \in Nat /\ confirmed \in Nat
    /\ \A i \in DOMAIN restores :
           /\ restores[i].confirm <= confirmed
           /\ confirmText = "CONFIRM" /\ restores[i].confirm = confirmed
                  => restores[i].visit = visit /\ restores[i].st # "done"
    /\ ConfirmServesOnce

LEMMA NoConfirm == NoText # "CONFIRM"
  BY Zenon DEF NoText

LEMMA InitRestores == AdminInit => RestoreInv
<1> SUFFICES ASSUME AdminInit PROVE RestoreInv
  OBVIOUS
<1>1. restores = <<>> /\ restoreFile = NoFile /\ meant = NoFile /\ visit = 1 /\ confirmed = 0
  BY DEF AdminInit
<1>2. restores \in Seq(RestoreType) /\ DOMAIN restores = {}
  BY <1>1
<1>3. QED
  BY <1>1, <1>2 DEF RestoreInv, ConfirmServesOnce, Archive

(* A restore that goes on, or ends, is of the visit and the CONFIRM it was *)
(* pressed under.                                                          *)
LEMMA OneRestore ==
  ASSUME RestoreInv, NEW i \in DOMAIN restores, NEW st \in {"queued", "done", "failed"},
         restores' = [restores EXCEPT ![i].st = st], restores[i].st # "failed"
  PROVE  /\ restores' \in Seq(RestoreType) /\ DOMAIN restores' = DOMAIN restores
         /\ \A j \in DOMAIN restores :
                /\ restores'[j].visit = restores[j].visit
                /\ restores'[j].confirm = restores[j].confirm
                /\ restores'[j].st = IF j = i THEN st ELSE restores[j].st
         /\ ConfirmServesOnce'
<1>1. restores \in Seq(RestoreType) /\ restores[i] \in RestoreType
  BY DEF RestoreInv
<1> DEFINE r == [restores[i] EXCEPT !.st = st]
<1>2. r \in RestoreType /\ r.st = st /\ r.visit = restores[i].visit /\ r.confirm = restores[i].confirm
  BY <1>1 DEF RestoreType
<1>3. restores' = [restores EXCEPT ![i] = r]
  OBVIOUS
<1> HIDE DEF r
<1>4. /\ restores' \in Seq(RestoreType) /\ DOMAIN restores' = DOMAIN restores
      /\ \A j \in DOMAIN restores : restores'[j] = IF j = i THEN r ELSE restores[j]
  BY <1>1, <1>2, <1>3
<1>5. DOMAIN restores \subseteq Int
  BY <1>1
<1>6. ConfirmServesOnce'
  <2> SUFFICES ASSUME NEW j \in DOMAIN restores', NEW k \in DOMAIN restores', j < k,
                      restores'[j].confirm = restores'[k].confirm
               PROVE  restores'[j].st = "failed"
    BY DEF ConfirmServesOnce
  <2>1. restores[j].st = "failed"
    BY <1>2, <1>4 DEF RestoreInv, ConfirmServesOnce
  <2>2. QED
    BY <1>4, <2>1
<1>7. QED
  BY <1>2, <1>4, <1>6

LEMMA StepRestores == RestoreInv /\ [AdminNext]_adminVars => RestoreInv'
<1> SUFFICES ASSUME RestoreInv, [AdminNext]_adminVars PROVE RestoreInv'
  OBVIOUS
<1>1. /\ restores \in Seq(RestoreType) /\ DOMAIN restores = 1 .. Len(restores)
      /\ Len(restores) \in Nat /\ confirmed \in Nat /\ visit \in Nat
  BY DEF RestoreInv
\* What leaves the restores alone brings no CONFIRM, or a new one.
<1>2. ASSUME UNCHANGED <<restores, visit, confirmText, confirmed, meant>>, restoreFile' \in Archive
      PROVE  RestoreInv'
  BY <1>2 DEF RestoreInv, ConfirmServesOnce
<1>3. CASE UNCHANGED adminVars
  BY <1>2, <1>3 DEF adminVars, backupTab, RestoreInv
<1>4. ASSUME NEW aTab \in {"backups", "integrations"}, GoToTab(aTab) PROVE RestoreInv'
  BY <1>4, NoConfirm DEF GoToTab, RestoreInv, ConfirmServesOnce, Archive
<1>5. ASSUME NEW f \in Archive, ChooseFile(f) PROVE RestoreInv'
  BY <1>2, <1>5 DEF ChooseFile
<1>6. ASSUME NEW open \in BOOLEAN, ShowConfirm(open) PROVE RestoreInv'
  BY <1>2, <1>6 DEF ShowConfirm, RestoreInv
<1>7. CASE TypeConfirm
  <2>1. /\ confirmed' = confirmed + 1 /\ meant' = restoreFile
        /\ UNCHANGED <<restores, visit, restoreFile>>
    BY <1>7 DEF TypeConfirm
  <2>2. \A i \in DOMAIN restores : restores[i].confirm \in Nat /\ restores[i].confirm <= confirmed
    <3>1. \A i \in DOMAIN restores : restores[i] \in RestoreType
      BY <1>1
    <3>2. QED
      BY <3>1 DEF RestoreInv, RestoreType
  <2>3. QED
    BY <1>1, <2>1, <2>2 DEF RestoreInv, ConfirmServesOnce
\* What was pressed under the same CONFIRM has failed.
<1>8. CASE PressRestore
  <2> DEFINE r == [file |-> restoreFile, visit |-> visit, confirm |-> confirmed,
                   meant |-> meant, st |-> "sent"]
  <2> DEFINE n == Len(restores) + 1
  <2>1. r \in RestoreType
    BY <1>8 DEF PressRestore, ConfirmShown, RestoreInv, RestoreType, Archive
  <2>2. /\ r.visit = visit /\ r.confirm = confirmed /\ r.st = "sent"
        /\ restores' = Append(restores, r) /\ confirmText = "CONFIRM" /\ ~RestorePending
        /\ UNCHANGED <<visit, restoreFile, confirmText, confirmed, meant>>
    BY <1>8 DEF PressRestore
  <2> HIDE DEF r
  <2>3. /\ restores' \in Seq(RestoreType) /\ DOMAIN restores' = 1 .. n
        /\ restores'[n] = r /\ \A j \in DOMAIN restores : restores'[j] = restores[j]
        /\ \A j \in 1 .. n : j \in DOMAIN restores \/ j = n
    BY <1>1, <2>1, <2>2
  <2>4. \A j \in DOMAIN restores : restores[j].confirm = confirmed => restores[j].st = "failed"
    BY <2>2 DEF RestoreInv, RestorePending, RestoreEnded
  <2>5. ConfirmServesOnce'
    <3> SUFFICES ASSUME NEW j \in DOMAIN restores', NEW k \in DOMAIN restores', j < k,
                        restores'[j].confirm = restores'[k].confirm
                 PROVE  restores'[j].st = "failed"
      BY DEF ConfirmServesOnce
    <3>1. j \in DOMAIN restores
      BY <1>1, <2>3
    <3>2. CASE k = n
      BY <2>2, <2>3, <2>4, <3>1, <3>2
    <3>3. CASE k \in DOMAIN restores
      BY <2>3, <3>1, <3>3 DEF RestoreInv, ConfirmServesOnce
    <3>4. QED
      BY <2>3, <3>2, <3>3
  <2>6. \A j \in DOMAIN restores' :
            /\ restores'[j].confirm <= confirmed
            /\ restores'[j].confirm = confirmed
                   => restores'[j].visit = visit /\ restores'[j].st # "done"
    <3> SUFFICES ASSUME NEW j \in DOMAIN restores'
                 PROVE  /\ restores'[j].confirm <= confirmed
                        /\ restores'[j].confirm = confirmed
                               => restores'[j].visit = visit /\ restores'[j].st # "done"
      OBVIOUS
    <3>1. CASE j = n
      BY <1>1, <2>2, <2>3, <3>1
    <3>2. CASE j \in DOMAIN restores
      BY <2>2, <2>3, <3>2 DEF RestoreInv
    <3>3. QED
      BY <2>3, <3>1, <3>2
  <2>7. QED
    BY <2>2, <2>3, <2>5, <2>6 DEF RestoreInv
<1>9. ASSUME NEW i \in DOMAIN restores, NEW st \in {"queued", "failed"},
             restores' = [restores EXCEPT ![i].st = st], restores[i].st # "failed",
             UNCHANGED <<visit, restoreFile, confirmText, confirmed, meant>>
      PROVE  RestoreInv'
  <2>1. /\ restores' \in Seq(RestoreType) /\ DOMAIN restores' = DOMAIN restores
        /\ \A j \in DOMAIN restores :
               /\ restores'[j].visit = restores[j].visit
               /\ restores'[j].confirm = restores[j].confirm
               /\ restores'[j].st = IF j = i THEN st ELSE restores[j].st
        /\ ConfirmServesOnce'
    <3>1. st \in {"queued", "done", "failed"}
      OBVIOUS
    <3>2. QED
      BY <1>9, <3>1, OneRestore
  <2>2. QED
    BY <1>9, <2>1 DEF RestoreInv
<1>10. ASSUME NEW i \in DOMAIN restores, QueueRestore(i) PROVE RestoreInv'
  BY <1>9, <1>10 DEF QueueRestore
\* A restore that succeeds takes the CONFIRM with it, unless the tab was left.
<1>11. ASSUME NEW i \in DOMAIN restores, SucceedRestore(i) PROVE RestoreInv'
  <2>1. /\ restores' = [restores EXCEPT ![i].st = "done"] /\ restores[i].st # "failed"
        /\ UNCHANGED <<visit, confirmed, meant>>
        /\ restoreFile' \in {restoreFile, NoFile}
        /\ confirmText' = IF restores[i].visit = visit THEN NoText ELSE confirmText
    BY <1>11 DEF SucceedRestore
  <2>2. /\ restores' \in Seq(RestoreType) /\ DOMAIN restores' = DOMAIN restores
        /\ \A j \in DOMAIN restores :
               /\ restores'[j].visit = restores[j].visit
               /\ restores'[j].confirm = restores[j].confirm
               /\ restores'[j].st = IF j = i THEN "done" ELSE restores[j].st
        /\ ConfirmServesOnce'
    BY <2>1, OneRestore
  <2>3. \A j \in DOMAIN restores :
            confirmText' = "CONFIRM" /\ restores[j].confirm = confirmed
                => /\ restores[j].visit = visit /\ restores[j].st # "done" /\ j # i
    BY <2>1, NoConfirm DEF RestoreInv
  <2>4. restoreFile' \in Archive
    BY <2>1 DEF RestoreInv, Archive
  <2>5. QED
    BY <2>1, <2>2, <2>3, <2>4 DEF RestoreInv
\* One that fails leaves it for another try.
<1>12. ASSUME NEW i \in DOMAIN restores, FailRestore(i) PROVE RestoreInv'
  BY <1>9, <1>12 DEF FailRestore, RestoreEnded
<1>13. CASE (\E s \in Section : \E value \in 0 .. 1 : EditSection(s, value)) \/ PressSave
            \/ FinishSave \/ ForgetSaved
  BY <1>2, <1>13 DEF EditSection, PressSave, FinishSave, ForgetSaved, backupTab, RestoreInv
<1>14. QED
  BY <1>3, <1>4, <1>5, <1>6, <1>7, <1>8, <1>10, <1>11, <1>12, <1>13 DEF AdminNext, Archive

(* No two restores are pressed under one CONFIRM unless the first failed   *)
(* or its answer was lost, however tabs, files and dialogs change while    *)
(* answers are under way.                                                  *)
THEOREM RestoresAreConfirmed == AdminSpec => []ConfirmServesOnce
<1>1. RestoreInv => ConfirmServesOnce
  BY DEF RestoreInv
<1>2. QED
  BY <1>1, InitRestores, StepRestores, PTL DEF AdminSpec

-----------------------------------------------------------------------------
(* The self update: a reload of the page is due to a success of its own.   *)

\* An answer under way read this status.
PollRead(status) == \E i \in DOMAIN polls : polls[i] = status

Reloads == reloads + (IF reloading THEN 1 ELSE 0)

\* Who saw an update running, or is about to, will see the success of that
\* update or of a later one; who is about to see a success has seen that.
ReloadsAreDue ==
    /\ Reloads <= successes
    /\ sawRunning \/ PollRead("running") => Reloads < successes \/ updState # "success"
    /\ sawRunning /\ PollRead("success") => Reloads < successes
    /\ PollRead("none") => statusData = "none" /\ liveState = "none"

\* Before the first update there is nothing to see.
NoneBefore ==
    updState = "none" =>
        statusData = "none" /\ liveState = "none" /\ \A i \in DOMAIN polls : polls[i] \in {"sent", "none"}

UpdateInv ==
    /\ updState \in Status /\ liveState \in Status /\ statusData \in Status
    /\ polls \in Seq(Status \cup {"sent"})
    /\ reloads \in Nat /\ successes \in Nat
    /\ reloading \in BOOLEAN /\ sawRunning \in BOOLEAN /\ overtaken \in BOOLEAN
    /\ NoneBefore
    /\ overtaken \/ ReloadsAreDue

LEMMA ReloadsAre ==
  ASSUME UpdateInv
  PROVE  /\ Reloads \in Nat
         /\ reloading => Reloads = reloads + 1
         /\ ~reloading => Reloads = reloads
  BY DEF UpdateInv, Reloads

LEMMA LaterOne ==
  ASSUME NEW S, NEW a \in Seq(S), NEW b \in Seq(S),
         NEW j \in Nat, j > Len(a), j <= Len(a) + Len(b)
  PROVE  (a \o b)[j] = b[j - Len(a)]
  OBVIOUS

LEMMA RemovedAt ==
  ASSUME NEW S, NEW s \in Seq(S), NEW i \in DOMAIN s
  PROVE  /\ RemoveAt(s, i) \in Seq(S)
         /\ \A j \in DOMAIN RemoveAt(s, i) : \E k \in DOMAIN s \ {i} : RemoveAt(s, i)[j] = s[k]
<1>1. i \in 1 .. Len(s) /\ Len(s) \in Nat
  OBVIOUS
<1> DEFINE a == SubSeq(s, 1, i - 1)
           b == SubSeq(s, i + 1, Len(s))
<1>2. a \in Seq(S) /\ Len(a) = i - 1 /\ \A j \in 1 .. i - 1 : a[j] = s[j]
  BY <1>1
<1>3. b \in Seq(S) /\ Len(b) = Len(s) - i /\ \A j \in 1 .. Len(s) - i : b[j] = s[i + j]
  BY <1>1
<1>4. RemoveAt(s, i) = a \o b
  BY DEF RemoveAt
<1> HIDE DEF a, b
<1>5. a \o b \in Seq(S) /\ Len(a \o b) = Len(s) - 1
  BY <1>1, <1>2, <1>3
<1>6. ASSUME NEW j \in 1 .. Len(s) - 1 PROVE \E k \in DOMAIN s \ {i} : (a \o b)[j] = s[k]
  <2>1. CASE j <= i - 1
    <3>1. (a \o b)[j] = s[j] /\ j \in DOMAIN s \ {i}
      BY <1>1, <1>2, <1>3, <2>1
    <3>2. QED
      BY <3>1
  <2>2. CASE j > i - 1
    <3>1. (a \o b)[j] = b[j - (i - 1)]
      <4>1. j \in Nat /\ i \in Nat /\ Len(a) \in Nat /\ Len(b) \in Nat
            /\ j > Len(a) /\ j <= Len(a) + Len(b) /\ Len(a) = i - 1
        BY <1>1, <1>2, <1>3, <2>2
      <4>2. (a \o b)[j] = b[j - Len(a)]
        BY <1>2, <1>3, <4>1, LaterOne
      <4>3. QED
        BY <4>1, <4>2
    <3>2. b[j - (i - 1)] = s[j + 1] /\ j + 1 \in DOMAIN s \ {i}
      BY <1>1, <1>3, <2>2
    <3>3. QED
      BY <3>1, <3>2
  <2>3. j <= i - 1 \/ j > i - 1
    BY <1>1
  <2>4. QED
    BY <2>1, <2>2, <2>3, Zenon
<1>7. QED
  BY <1>4, <1>5, <1>6

(* What a render does to the reloads that are due.                         *)
LEMMA RenderDue ==
  ASSUME UpdateInv, ReloadsAreDue, NEW live \in Status, NEW data \in Status, NEW status,
         status = StatusShown(live, data), Render(live, data),
         UNCHANGED <<reloads, successes, updState>>,
         \/ status = State
         \/ status \notin {"running", "success"}
         \/ status = "running" /\ (Reloads < successes \/ updState # "success")
         \/ status = "success" /\ (sawRunning => Reloads < successes)
  PROVE  /\ Reloads' <= successes'
         /\ sawRunning' => Reloads' < successes' \/ updState' # "success"
<1>1. CASE status = State \/ status \notin {"running", "success"}
  <2>1. sawRunning' = sawRunning /\ reloading' = reloading
    <3>1. sawRunning' = sawRunning
      BY <1>1 DEF Render
    <3>2. (reloading' <=> reloading) /\ reloading' \in BOOLEAN /\ reloading \in BOOLEAN
      BY <1>1, Zenon DEF Render, UpdateInv
    <3>3. QED
      BY <3>1, <3>2
  <2>2. Reloads' = Reloads
    BY <2>1 DEF Reloads
  <2>3. QED
    BY <2>1, <2>2 DEF ReloadsAreDue
<1>2. CASE status # State /\ status = "running"
  <2>1. (reloading' <=> reloading) /\ reloading' \in BOOLEAN /\ reloading \in BOOLEAN
    <3>1. status # "success"
      BY <1>2
    <3>2. QED
      BY <3>1, Zenon DEF Render, UpdateInv
  <2>2. Reloads' = Reloads
    BY <2>1 DEF Reloads
  <2>3. QED
    BY <1>2, <2>2 DEF ReloadsAreDue
<1>3. CASE status # State /\ status = "success"
  <2>1. sawRunning' = FALSE
    BY <1>3 DEF Render
  <2>2. (reloading' <=> reloading \/ sawRunning) /\ reloading' \in BOOLEAN /\ reloading \in BOOLEAN
    BY <1>3, Zenon DEF Render, UpdateInv
  <2>3. Reloads \in Nat /\ successes \in Nat /\ Reloads <= successes
    BY ReloadsAre DEF UpdateInv, ReloadsAreDue
  <2>4. CASE sawRunning
    <3>1. Reloads' <= Reloads + 1
      BY <2>2, <2>4 DEF Reloads, UpdateInv
    <3>2. Reloads' \in Nat
      BY <2>2 DEF Reloads, UpdateInv
    <3>3. QED
      BY <1>3, <2>1, <2>3, <2>4, <3>1, <3>2
  <2>5. CASE ~sawRunning
    <3>1. Reloads' = Reloads
      BY <2>2, <2>5 DEF Reloads
    <3>2. QED
      BY <2>1, <2>3, <3>1
  <2>6. QED
    BY <2>4, <2>5
<1>4. QED
  BY <1>1, <1>2, <1>3

LEMMA RenderTypes ==
  ASSUME UpdateInv, NEW live \in Status, NEW data \in Status, Render(live, data)
  PROVE  /\ liveState' \in Status /\ statusData' \in Status
         /\ reloading' \in BOOLEAN /\ sawRunning' \in BOOLEAN
<1>1. liveState' \in Status /\ statusData' \in Status
  BY DEF Render
<1>2. reloading' \in BOOLEAN
  BY Zenon DEF Render
<1>3. sawRunning' \in BOOLEAN
  <2>1. sawRunning \in BOOLEAN
    BY DEF UpdateInv
  <2>2. sawRunning' \in {TRUE, FALSE, sawRunning}
    BY DEF Render
  <2>3. QED
    BY <2>1, <2>2
<1>4. QED
  BY <1>1, <1>2, <1>3

LEMMA InitUpdate == UpdateInit => UpdateInv
<1> SUFFICES ASSUME UpdateInit PROVE UpdateInv
  OBVIOUS
<1>1. /\ polls = <<>> /\ liveState = "none" /\ statusData = "none" /\ reloads = 0 /\ successes = 0
      /\ updState \in {"none"} \cup Ends
  BY DEF UpdateInit
<1>2. reloading = FALSE /\ sawRunning = FALSE /\ overtaken = FALSE
  BY DEF UpdateInit
<1>3. /\ updState \in Status /\ liveState \in Status /\ statusData \in Status
      /\ polls \in Seq(Status \cup {"sent"}) /\ reloads \in Nat /\ successes \in Nat
  BY <1>1 DEF Status, Ends
<1>4. reloading \in BOOLEAN /\ sawRunning \in BOOLEAN /\ overtaken \in BOOLEAN
  BY <1>2
<1>5. NoneBefore
  BY <1>1 DEF NoneBefore
<1>6. ReloadsAreDue
  <2>1. Reloads = 0
    BY <1>1, <1>2 DEF Reloads
  <2>2. \A status : ~PollRead(status)
    BY <1>1 DEF PollRead
  <2>3. QED
    BY <1>1, <1>2, <2>1, <2>2 DEF ReloadsAreDue
<1>7. QED
  BY <1>3, <1>4, <1>5, <1>6 DEF UpdateInv

(* A step that neither shows nor reads a status keeps what is due.         *)
LEMMA DueKept ==
  ASSUME UpdateInv, UNCHANGED <<updState, liveState, statusData, reloads, successes>>,
         UNCHANGED <<reloading, sawRunning, overtaken>>,
         polls' \in Seq(Status \cup {"sent"}),
         \A i \in DOMAIN polls' : polls'[i] = "sent" \/ \E k \in DOMAIN polls : polls'[i] = polls[k]
  PROVE  UpdateInv'
<1>1. ASSUME NEW status, status # "sent", PollRead(status)' PROVE PollRead(status)
  BY <1>1 DEF PollRead
<1>2. Reloads' = Reloads
  BY DEF Reloads
<1>3. ReloadsAreDue => ReloadsAreDue'
  <2>1. /\ PollRead("running")' => PollRead("running")
        /\ PollRead("success")' => PollRead("success")
        /\ PollRead("none")' => PollRead("none")
    BY <1>1
  <2>2. QED
    BY <1>2, <2>1 DEF ReloadsAreDue
<1>4. NoneBefore'
  BY DEF UpdateInv, NoneBefore
<1>5. QED
  BY <1>3, <1>4 DEF UpdateInv

(* The updater.                                                            *)
LEMMA UpdaterDue ==
  ASSUME UpdateInv, Advance \/ FailUpdate \/ SucceedUpdate
  PROVE  UpdateInv'
<1>1. UNCHANGED <<liveState, statusData, reloads, polls>> /\ UNCHANGED <<reloading, sawRunning, overtaken>>
  BY DEF Advance, FailUpdate, SucceedUpdate, tab
<1>2. /\ updState' \in {"running", "failed", "success"}
      /\ updState' = "success" => successes' = successes + 1
      /\ updState' # "success" => successes' = successes
  BY DEF Advance, FailUpdate, SucceedUpdate
<1>3. Reloads' = Reloads /\ Reloads \in Nat
  BY <1>1, ReloadsAre DEF Reloads
<1>4. PollRead("none")' <=> PollRead("none")
  BY <1>1 DEF PollRead
<1>5. successes' \in Nat /\ successes' >= successes /\ successes \in Nat
  BY <1>2 DEF UpdateInv
<1>6. ReloadsAreDue => ReloadsAreDue'
  <2> SUFFICES ASSUME ReloadsAreDue PROVE ReloadsAreDue'
    OBVIOUS
  <2>1. Reloads' <= successes' /\ (Reloads < successes => Reloads' < successes')
    BY <1>3, <1>5 DEF ReloadsAreDue
  <2>2. updState' = "success" => Reloads' < successes'
    BY <1>2, <1>3, <1>5 DEF ReloadsAreDue
  <2>3. sawRunning' /\ PollRead("success")' => Reloads < successes
    BY <1>1 DEF ReloadsAreDue, PollRead
  <2>4. QED
    BY <1>1, <1>4, <2>1, <2>2, <2>3 DEF ReloadsAreDue
<1>7. NoneBefore' /\ updState' \in Status
  BY <1>2 DEF NoneBefore, Status
<1>8. QED
  BY <1>1, <1>5, <1>6, <1>7 DEF UpdateInv

LEMMA FetchDue == ASSUME UpdateInv, FetchStatus PROVE UpdateInv'
<1>1. /\ UNCHANGED <<updState, successes, reloads, polls>>
      /\ Render(liveState, updState) /\ liveState \in Status /\ updState \in Status
  BY DEF FetchStatus, updater, UpdateInv
<1>2. /\ liveState' \in Status /\ statusData' \in Status
      /\ reloading' \in BOOLEAN /\ sawRunning' \in BOOLEAN
  BY <1>1, RenderTypes
<1>3. /\ overtaken' \in BOOLEAN
      /\ ~overtaken' => ~overtaken /\ \A i \in DOMAIN polls : polls[i] = "sent"
  BY Zenon DEF FetchStatus, UpdateInv
<1>4. liveState' = liveState /\ statusData' = updState
  BY <1>1 DEF Render
<1>5. NoneBefore'
  BY <1>1, <1>4 DEF UpdateInv, NoneBefore
<1>6. ASSUME ~overtaken' PROVE ReloadsAreDue'
  <2>1. ReloadsAreDue
    BY <1>3, <1>6 DEF UpdateInv
  <2>2. PICK status : status = StatusShown(liveState, updState)
    OBVIOUS
  <2>3. status = State \/ status = updState
    BY <2>2 DEF StatusShown, State
  <2>4. /\ updState = "running" => Reloads < successes \/ updState # "success"
        /\ updState = "success" => (sawRunning => Reloads < successes)
    BY <2>1 DEF ReloadsAreDue
  <2>5. \/ status = State
        \/ status \notin {"running", "success"}
        \/ status = "running" /\ (Reloads < successes \/ updState # "success")
        \/ status = "success" /\ (sawRunning => Reloads < successes)
    BY <2>3, <2>4
  <2>6. UNCHANGED <<reloads, successes, updState>>
    BY <1>1
  <2>7. /\ Reloads' <= successes'
        /\ sawRunning' => Reloads' < successes' \/ updState' # "success"
    BY <1>1, <2>1, <2>2, <2>5, <2>6, RenderDue
  <2>8. \A st \in Status : ~PollRead(st)'
    BY <1>1, <1>3, <1>6 DEF PollRead, Status
  <2>9. QED
    BY <2>7, <2>8 DEF ReloadsAreDue, Status
<1>7. QED
  BY <1>1, <1>2, <1>3, <1>5, <1>6 DEF UpdateInv

(* The polls.                                                              *)
LEMMA AnswerDue == ASSUME UpdateInv, NEW i \in DOMAIN polls, AnswerPoll(i) PROVE UpdateInv'
<1>1. /\ polls' = [polls EXCEPT ![i] = updState]
      /\ UNCHANGED <<updState, liveState, statusData, reloads, successes>>
      /\ UNCHANGED <<reloading, sawRunning, overtaken>>
  BY DEF AnswerPoll, updater
<1>2. polls \in Seq(Status \cup {"sent"}) /\ updState \in Status
  BY DEF UpdateInv
<1>3. /\ polls' \in Seq(Status \cup {"sent"}) /\ DOMAIN polls' = DOMAIN polls
      /\ \A j \in DOMAIN polls : polls'[j] = IF j = i THEN updState ELSE polls[j]
  BY <1>1, <1>2
<1>4. ASSUME NEW st, PollRead(st)' PROVE PollRead(st) \/ updState = st
  BY <1>3, <1>4 DEF PollRead
<1>5. Reloads' = Reloads
  BY <1>1 DEF Reloads
<1>6. NoneBefore'
  BY <1>1, <1>3 DEF UpdateInv, NoneBefore
<1>7. ASSUME ReloadsAreDue PROVE ReloadsAreDue'
  <2>1. /\ PollRead("running")' => PollRead("running") \/ updState = "running"
        /\ PollRead("success")' => PollRead("success") \/ updState = "success"
        /\ PollRead("none")' => PollRead("none") \/ updState = "none"
    BY <1>4
  <2>2. updState = "none" => statusData = "none" /\ liveState = "none"
    BY DEF UpdateInv, NoneBefore
  <2>3. QED
    BY <1>1, <1>5, <1>7, <2>1, <2>2 DEF ReloadsAreDue
<1>8. QED
  BY <1>1, <1>3, <1>6, <1>7 DEF UpdateInv

LEMMA ApplyDue == ASSUME UpdateInv, NEW i \in DOMAIN polls, ApplyPoll(i) PROVE UpdateInv'
<1>1. /\ UNCHANGED <<updState, successes, reloads>> /\ polls[i] # "sent"
      /\ Render(polls[i], statusData)
      /\ polls' = <<>> \/ polls' = RemoveAt(polls, i)
  BY DEF ApplyPoll, updater
<1>2. polls \in Seq(Status \cup {"sent"}) /\ statusData \in Status /\ polls[i] \in Status
  BY <1>1 DEF UpdateInv
<1>3. /\ liveState' \in Status /\ statusData' \in Status
      /\ reloading' \in BOOLEAN /\ sawRunning' \in BOOLEAN
  BY <1>1, <1>2, RenderTypes
<1>4. /\ polls' \in Seq(Status \cup {"sent"})
      /\ \A j \in DOMAIN polls' : \E k \in DOMAIN polls \ {i} : polls'[j] = polls[k]
  <2>1. CASE polls' = <<>>
    BY <2>1
  <2>2. CASE polls' = RemoveAt(polls, i)
    BY <1>2, <2>2, RemovedAt
  <2>3. QED
    BY <1>1, <2>1, <2>2
<1>5. /\ overtaken' \in BOOLEAN
      /\ ~overtaken' => ~overtaken /\ \A j \in DOMAIN polls \ {i} : polls[j] = "sent"
  BY Zenon DEF ApplyPoll, UpdateInv
<1>6. liveState' = polls[i] /\ statusData' = statusData
  BY <1>1 DEF Render
<1>7. NoneBefore'
  <2> SUFFICES ASSUME updState = "none"
               PROVE  /\ statusData' = "none" /\ liveState' = "none"
                      /\ \A j \in DOMAIN polls' : polls'[j] \in {"sent", "none"}
    BY <1>1 DEF NoneBefore
  <2>1. statusData = "none" /\ \A j \in DOMAIN polls : polls[j] \in {"sent", "none"}
    BY DEF UpdateInv, NoneBefore
  <2>2. QED
    BY <1>1, <1>4, <1>6, <2>1
<1>8. ASSUME ~overtaken' PROVE ReloadsAreDue'
  <2>1. ReloadsAreDue
    BY <1>5, <1>8 DEF UpdateInv
  <2>2. PICK status : status = StatusShown(polls[i], statusData)
    OBVIOUS
  <2>3. status = State \/ (status = polls[i] /\ polls[i] # "none")
    <3>1. CASE polls[i] = "none"
      <4>1. PollRead("none")
        BY <3>1 DEF PollRead
      <4>2. statusData = "none" /\ liveState = "none"
        BY <2>1, <4>1 DEF ReloadsAreDue
      <4>3. QED
        BY <2>2, <3>1, <4>2 DEF StatusShown, State
    <3>2. CASE polls[i] # "none"
      BY <2>2, <3>2 DEF StatusShown
    <3>3. QED
      BY <3>1, <3>2
  <2>4. PollRead(polls[i])
    BY DEF PollRead
  <2>5. /\ polls[i] = "running" => Reloads < successes \/ updState # "success"
        /\ polls[i] = "success" => (sawRunning => Reloads < successes)
    BY <2>1, <2>4 DEF ReloadsAreDue
  <2>6. \/ status = State
        \/ status \notin {"running", "success"}
        \/ status = "running" /\ (Reloads < successes \/ updState # "success")
        \/ status = "success" /\ (sawRunning => Reloads < successes)
    BY <2>3, <2>5
  <2>7. UNCHANGED <<reloads, successes, updState>>
    BY <1>1
  <2>8. /\ Reloads' <= successes'
        /\ sawRunning' => Reloads' < successes' \/ updState' # "success"
    BY <1>1, <1>2, <2>1, <2>2, <2>6, <2>7, RenderDue
  <2>9. \A st \in Status : ~PollRead(st)'
    BY <1>4, <1>5, <1>8 DEF PollRead, Status
  <2>10. QED
    BY <2>8, <2>9 DEF ReloadsAreDue, Status
<1>9. QED
  BY <1>1, <1>2, <1>3, <1>4, <1>5, <1>7, <1>8 DEF UpdateInv

LEMMA ReloadDue == ASSUME UpdateInv, Reload PROVE UpdateInv'
<1>1. /\ UNCHANGED <<updState, successes>> /\ polls' = <<>> /\ liveState' = "none"
      /\ statusData' = "none" /\ reloads' = reloads + 1
  BY DEF Reload, updater
<1>2. reloading /\ reloading' = FALSE /\ sawRunning' = FALSE /\ overtaken' = overtaken
  BY DEF Reload
<1>3. Reloads' = Reloads /\ reloads' \in Nat
  BY <1>1, <1>2, ReloadsAre DEF UpdateInv, Reloads
<1>4. \A st : ~PollRead(st)'
  BY <1>1 DEF PollRead
<1>5. NoneBefore'
  BY <1>1 DEF NoneBefore
<1>6. ReloadsAreDue => ReloadsAreDue'
  BY <1>1, <1>2, <1>3, <1>4 DEF ReloadsAreDue
<1>7. polls' \in Seq(Status \cup {"sent"}) /\ liveState' \in Status /\ statusData' \in Status
  BY <1>1 DEF Status
<1>8. reloading' \in BOOLEAN /\ sawRunning' \in BOOLEAN
  BY <1>2
<1>9. QED
  BY <1>1, <1>2, <1>3, <1>5, <1>6, <1>7, <1>8 DEF UpdateInv

LEMMA StepUpdate == UpdateInv /\ [UpdateNext]_updateVars => UpdateInv'
<1> SUFFICES ASSUME UpdateInv, [UpdateNext]_updateVars PROVE UpdateInv'
  OBVIOUS
<1>1. polls \in Seq(Status \cup {"sent"})
  BY DEF UpdateInv
\* Nothing is read or shown.
<1>2. ASSUME UNCHANGED <<updState, liveState, statusData, reloads, successes, polls>>,
             UNCHANGED <<reloading, sawRunning, overtaken>>
      PROVE  UpdateInv'
  BY <1>1, <1>2, DueKept
<1>3. CASE UNCHANGED updateVars
  BY <1>2, <1>3 DEF updateVars, updater, tab
<1>4. CASE TakeTrigger \/ OthersTrigger \/ PressUpdate
  BY <1>2, <1>4 DEF TakeTrigger, OthersTrigger, PressUpdate, updater, tab
<1>5. ASSUME NEW i \in DOMAIN runPosts, AnswerRun(i) PROVE UpdateInv'
  BY <1>2, <1>5 DEF AnswerRun, tab
<1>6. ASSUME NEW i \in DOMAIN runPosts, RunAccepted(i) PROVE UpdateInv'
  <2>1. /\ UNCHANGED <<updState, liveState, statusData, reloads, successes>>
        /\ UNCHANGED <<reloading, sawRunning, overtaken>>
        /\ polls' = polls \/ polls' = <<"sent">>
    BY <1>6 DEF RunAccepted, updater
  <2>2. /\ polls' \in Seq(Status \cup {"sent"})
        /\ \A j \in DOMAIN polls' : polls'[j] = "sent" \/ \E k \in DOMAIN polls : polls'[j] = polls[k]
    <3>1. CASE polls' = polls
      BY <1>1, <3>1
    <3>2. CASE polls' = <<"sent">>
      BY <3>2
    <3>3. QED
      BY <2>1, <3>1, <3>2
  <2>3. QED
    BY <2>1, <2>2, DueKept
<1>7. CASE SendPoll
  <2>1. /\ UNCHANGED <<updState, liveState, statusData, reloads, successes>>
        /\ UNCHANGED <<reloading, sawRunning, overtaken>>
        /\ polls' = Append(polls, "sent")
    BY <1>7 DEF SendPoll, updater
  <2>2. /\ polls' \in Seq(Status \cup {"sent"})
        /\ \A j \in DOMAIN polls' : polls'[j] = "sent" \/ \E k \in DOMAIN polls : polls'[j] = polls[k]
    BY <1>1, <2>1
  <2>3. QED
    BY <2>1, <2>2, DueKept
<1>8. ASSUME NEW i \in DOMAIN polls, LosePoll(i) PROVE UpdateInv'
  <2>1. /\ UNCHANGED <<updState, liveState, statusData, reloads, successes>>
        /\ UNCHANGED <<reloading, sawRunning, overtaken>>
        /\ polls' = RemoveAt(polls, i)
    BY <1>8 DEF LosePoll, updater
  <2>2. /\ polls' \in Seq(Status \cup {"sent"})
        /\ \A j \in DOMAIN polls' : \E k \in DOMAIN polls \ {i} : polls'[j] = polls[k]
    BY <1>1, <2>1, RemovedAt
  <2>3. QED
    BY <2>1, <2>2, DueKept
<1>9. QED
  BY <1>3, <1>4, <1>5, <1>6, <1>7, <1>8, UpdaterDue, FetchDue, AnswerDue, ApplyDue, ReloadDue
     DEF UpdateNext, Updater

(* The page is reloaded at most once for an update that succeeds: whatever *)
(* polls are lost, late or answered with the end of the update before, and *)
(* whoever else starts updates.                                            *)
THEOREM ReloadsHaveASuccess == UpdateSpec => []OneReloadPerSuccess
<1>1. UpdateInv => OneReloadPerSuccess
  BY DEF UpdateInv, ReloadsAreDue, Reloads, OneReloadPerSuccess
<1>2. QED
  BY <1>1, InitUpdate, StepUpdate, PTL DEF UpdateSpec

-----------------------------------------------------------------------------
(* Roles: windows, local storage and answers hold roles the user has had.  *)

RolesInv ==
    /\ roles \in Seq(Role) /\ Len(roles) \in 1 .. MaxRoles
    /\ shownAt \in [Browser -> 0 .. Len(roles)] /\ heardAt \in [Browser -> 0 .. Len(roles)]
    /\ keptAt \in 0 .. Len(roles)

LEMMA InitRoles == RolesInit => RolesInv
<1> SUFFICES ASSUME RolesInit PROVE RolesInv
  OBVIOUS
<1>1. roles \in Seq(Role) /\ Len(roles) = 1
  <2>1. roles \in [1 .. 1 -> Role]
    BY DEF RolesInit
  <2>2. roles = <<roles[1]>> /\ roles[1] \in Role
    BY <2>1
  <2> HIDE DEF Role
  <2>3. <<roles[1]>> \in Seq(Role) /\ Len(<<roles[1]>>) = 1
    BY <2>2
  <2>4. QED
    BY <2>2, <2>3
<1>2. /\ shownAt = [w \in Browser |-> 0] /\ heardAt = [w \in Browser |-> 0]
      /\ keptAt = 0
  BY DEF RolesInit
<1>3. Len(roles) \in 1 .. MaxRoles
  BY <1>1, PermissionsAssumption
<1>4. QED
  BY <1>1, <1>2, <1>3 DEF RolesInv

LEMMA StepRoles == RolesInv /\ [RolesNext]_roleVars => RolesInv'
<1> SUFFICES ASSUME RolesInv, [RolesNext]_roleVars PROVE RolesInv'
  OBVIOUS
<1> USE DEF RolesInv
<1>1. CASE UNCHANGED roleVars
  BY <1>1 DEF roleVars
<1>2. ASSUME NEW r \in Role, ChangeRole(r) PROVE RolesInv'
  <2>1. roles' \in Seq(Role) /\ Len(roles') = Len(roles) + 1
    BY <1>2 DEF ChangeRole
  <2>2. Len(roles') \in 1 .. MaxRoles /\ 0 .. Len(roles) \subseteq 0 .. Len(roles')
    BY <1>2, <2>1, PermissionsAssumption DEF ChangeRole
  <2>3. UNCHANGED <<shownAt, heardAt, keptAt>>
    BY <1>2 DEF ChangeRole
  <2>4. QED
    BY <2>1, <2>2, <2>3
<1>3. ASSUME NEW w \in Browser, AnswerUser(w) PROVE RolesInv'
  BY <1>3 DEF AnswerUser
<1>4. ASSUME NEW w \in Browser, StoreUser(w) PROVE RolesInv'
  BY <1>4 DEF StoreUser
<1>5. ASSUME NEW w \in Browser, LoadStore(w) PROVE RolesInv'
  BY <1>5 DEF LoadStore
<1>6. ASSUME NEW w \in Browser, SignOff(w) PROVE RolesInv'
  BY <1>6 DEF SignOff
<1>7. QED
  BY <1>1, <1>2, <1>3, <1>4, <1>5, <1>6 DEF RolesNext

-----------------------------------------------------------------------------
(* Roles: what the pages offer.                                            *)

OwnEntity ==
    {"subnet", "site", "vlan", "vrf", "asn", "rir", "aggregate", "ip_range", "ip_address", "tag",
     "custom_field", "validation_rule", "webhook", "user", "snmp_credential", "winrm_credential"}

OtherNeed == UNION {OtherNeeds[p] : p \in DOMAIN OtherNeeds}

LEMMA EntityOfPage == ASSUME NEW p \in DOMAIN EntityPage PROVE EntityPage[p] \in OwnEntity
  BY DEF EntityPage, OwnEntity

LEMMA NeedOfPage ==
  ASSUME NEW p \in DOMAIN Needs, NEW n \in Needs[p]
  PROVE  n \in OwnEntity \X Writing \/ n \in OtherNeed
<1>1. CASE p \in DOMAIN EntityPage
  BY <1>1, EntityOfPage DEF Needs
<1>2. CASE p \notin DOMAIN EntityPage
  BY <1>2 DEF Needs, OtherNeed
<1>3. QED
  BY <1>1, <1>2

LEMMA OtherNeedIs ==
  OtherNeed = {<<"ip_address", "update">>, <<"ip_address", "delete">>, <<"ip_address", "approve">>,
               <<"discovery", "run">>, <<"discovery", "create">>, <<"discovery", "manage">>,
               <<"discovery", "delete">>, <<"snmp_credential", "read">>, <<"audit", "read">>,
               <<"backup", "create">>, <<"backup", "restore">>, <<"backup", "delete">>,
               <<"release", "run">>}
  BY DEF OtherNeed, OtherNeeds

LEMMA Permitted ==
  ASSUME NEW need
  PROVE  /\ has_permission("admin", need)
         /\ need[2] = "read" => has_permission("viewer", need)
         /\ has_permission("viewer", need) => need[2] = "read"
         /\ need \in BASE_PERMISSION_MATRIX.operator =>
              has_permission("operator", need) /\ has_permission("engineer", need)
         /\ need \in BASE_PERMISSION_MATRIX.engineer => has_permission("engineer", need)
<1>1. ROLE_ORDER[1] = "viewer" /\ ROLE_ORDER[2] = "operator" /\ ROLE_ORDER[3] = "engineer"
      /\ Len(ROLE_ORDER) = 4
  BY DEF ROLE_ORDER
<1>2. has_permission("admin", need)
  BY DEF has_permission
<1>3. need[2] = "read" => has_permission("viewer", need)
  BY DEF has_permission
<1>4. ASSUME need \in BASE_PERMISSION_MATRIX.operator, NEW role \in {"operator", "engineer"}
      PROVE  has_permission(role, need)
  <2>1. \E j \in 2 .. 3 : ROLE_ORDER[j] = role
    BY <1>1, <1>4
  <2>2. need \in BASE_PERMISSION_MATRIX[ROLE_ORDER[2]]
    BY <1>1, <1>4
  <2>3. QED
    BY <1>1, <2>1, <2>2 DEF has_permission
<1>5. ASSUME need \in BASE_PERMISSION_MATRIX.engineer PROVE has_permission("engineer", need)
  <2>1. need \in BASE_PERMISSION_MATRIX[ROLE_ORDER[3]]
    BY <1>1, <1>5
  <2>2. QED
    BY <1>1, <2>1 DEF has_permission
<1>6. ASSUME has_permission("viewer", need) PROVE need[2] = "read"
  <2>1. ASSUME NEW i \in 1 .. 3, NEW j \in i .. 3, ROLE_ORDER[j] = "viewer",
               need \in BASE_PERMISSION_MATRIX[ROLE_ORDER[i]]
        PROVE  FALSE
    <3>1. i = 1
      BY <1>1, <2>1
    <3>2. BASE_PERMISSION_MATRIX["viewer"] = {}
      BY DEF BASE_PERMISSION_MATRIX
    <3>3. QED
      BY <1>1, <2>1, <3>1, <3>2
  <2>2. QED
    BY <1>1, <1>6, <2>1 DEF has_permission
<1>7. QED
  BY <1>2, <1>3, <1>4, <1>5, <1>6

\* A page offers to roles that write all it needs.
LEMMA OfferedToWriters ==
  ASSUME NEW role, canWrite(role)
  PROVE  Offered(role) = UNION {Needs[p] : p \in DOMAIN Needs}
<1>1. visibleSections(role) = DOMAIN Needs
  BY DEF visibleSections
<1>2. QED
  BY <1>1 DEF Offered

LEMMA OfferedIsNeeded ==
  ASSUME NEW role, NEW n \in Offered(role)
  PROVE  /\ n \in OwnEntity \X Writing \/ n \in OtherNeed
         /\ n[2] = "read" \/ canWrite(role)
<1>1. PICK p \in DOMAIN Needs : n \in Needs[p] /\ (n[2] = "read" \/ canWrite(role))
  BY DEF Offered, visibleSections
<1>2. QED
  BY <1>1, NeedOfPage

LEMMA Writes == "read" \notin Writing /\ Writing = {"create", "update", "delete"}
  BY DEF Writing

\* What no guard but the matrix decides.
LEMMA AllowedBy ==
  ASSUME NEW n, NEW role
  PROVE  /\ n[1] \notin AdminOnly => (Allows(role, n) <=> has_permission(role, n))
         /\ n[1] \in AdminOnly => (Allows(role, n) <=> role = "admin")
  BY DEF Allows

LEMMA ToViewers == \A n \in Offered("viewer") : Allows("viewer", n) \/ n \in AskedAnyway
<1> SUFFICES ASSUME NEW n \in Offered("viewer"), ~Allows("viewer", n) PROVE n \in AskedAnyway
  OBVIOUS
<1>1. n[2] = "read"
  BY OfferedIsNeeded DEF canWrite, READ_ONLY_ROLES
<1>2. n \in OtherNeed
  BY <1>1, OfferedIsNeeded, Writes
<1>3. QED
  BY <1>1, <1>2, OtherNeedIs DEF AskedAnyway

LEMMA ToOperators ==
  \A n \in Offered("operator") :
      Allows("operator", n) \/ n \in AskedAnyway \cup OverOffered("operator")
<1> SUFFICES ASSUME NEW n \in Offered("operator"), n \notin AskedAnyway,
                    n \notin OverOffered("operator")
             PROVE  Allows("operator", n)
  OBVIOUS
<1>1. n \in OwnEntity \X Writing \/ n \in OtherNeed
  BY OfferedIsNeeded
<1>2. n \in BASE_PERMISSION_MATRIX.operator => has_permission("operator", n)
  BY Permitted
<1>3. CASE n \in OwnEntity \X Writing
  <2>1. n[1] \notin {"snmp_credential", "winrm_credential", "user", "aggregate", "rir", "custom_field",
                     "validation_rule", "webhook"}
    BY <1>3 DEF OverOffered
  <2>2. n[1] \in {"subnet", "site", "vlan", "vrf", "asn", "ip_range", "ip_address", "tag"}
    BY <1>3, <2>1 DEF OwnEntity
  <2>3. n[1] \notin AdminOnly
    BY <2>2 DEF AdminOnly
  <2>4. n \in BASE_PERMISSION_MATRIX.operator
    BY <1>3, <2>2, Writes DEF OverOffered, BASE_PERMISSION_MATRIX
  <2>5. QED
    BY <1>2, <2>3, <2>4, AllowedBy
<1>4. CASE n \in OtherNeed
  <2>1. n \in {<<"ip_address", "update">>, <<"ip_address", "delete">>, <<"discovery", "run">>}
    BY <1>4, OtherNeedIs DEF OverOffered, AskedAnyway
  <2>2. n \in BASE_PERMISSION_MATRIX.operator
    BY <2>1 DEF BASE_PERMISSION_MATRIX
  <2>3. n[1] \notin AdminOnly
    BY <2>1 DEF AdminOnly
  <2>4. QED
    BY <1>2, <2>2, <2>3, AllowedBy
<1>5. QED
  BY <1>1, <1>3, <1>4

LEMMA ToEngineers ==
  \A n \in Offered("engineer") :
      Allows("engineer", n) \/ n \in AskedAnyway \cup OverOffered("engineer")
<1> SUFFICES ASSUME NEW n \in Offered("engineer"), n \notin AskedAnyway,
                    n \notin OverOffered("engineer")
             PROVE  Allows("engineer", n)
  OBVIOUS
<1>1. n \in OwnEntity \X Writing \/ n \in OtherNeed
  BY OfferedIsNeeded
<1>2. n \in BASE_PERMISSION_MATRIX.engineer => has_permission("engineer", n)
  BY Permitted
<1>3. CASE n \in OwnEntity \X Writing
  <2>1. n[1] \notin {"snmp_credential", "winrm_credential", "user"}
    BY <1>3 DEF OverOffered
  <2>2. n[1] \in OwnEntity \ {"snmp_credential", "winrm_credential", "user"}
    BY <1>3, <2>1
  <2>3. n[1] \notin AdminOnly
    BY <2>2 DEF AdminOnly, OwnEntity
  <2>4. n \in BASE_PERMISSION_MATRIX.engineer
    <3>1. CASE n[1] = "site"
      BY <1>3, <3>1, Writes DEF OverOffered, BASE_PERMISSION_MATRIX
    <3>2. CASE n[1] # "site"
      BY <1>3, <2>2, <3>2 DEF OwnEntity, BASE_PERMISSION_MATRIX
    <3>3. QED
      BY <3>1, <3>2
  <2>5. QED
    BY <1>2, <2>3, <2>4, AllowedBy
<1>4. CASE n \in OtherNeed
  <2>1. n \in {<<"ip_address", "update">>, <<"ip_address", "delete">>, <<"ip_address", "approve">>,
               <<"discovery", "run">>, <<"discovery", "manage">>}
    BY <1>4, OtherNeedIs DEF OverOffered, AskedAnyway
  <2>2. n \in BASE_PERMISSION_MATRIX.engineer
    BY <2>1 DEF BASE_PERMISSION_MATRIX, Writing
  <2>3. n[1] \notin AdminOnly
    BY <2>1 DEF AdminOnly
  <2>4. QED
    BY <1>2, <2>2, <2>3, AllowedBy
<1>5. QED
  BY <1>1, <1>3, <1>4

\* No role is denied a button for what it may do.
LEMMA NothingIsHidden ==
  ASSUME NEW role \in Role, NEW p \in DOMAIN Needs, NEW n \in Needs[p], n[2] # "read",
         Allows(role, n)
  PROVE  n \in Offered(role)
<1>1. CASE canWrite(role)
  BY <1>1, OfferedToWriters
<1>2. CASE ~canWrite(role)
  <2>1. role = "viewer"
    BY <1>2 DEF canWrite, READ_ONLY_ROLES, Role, ROLE_ORDER
  <2>2. QED
    BY <2>1, Permitted, AllowedBy
<1>3. QED
  BY <1>1, <1>2

LEMMA OfferedMatches ==
  ASSUME NEW role \in Role
  PROVE  /\ \A p \in DOMAIN Needs : \A n \in Needs[p] :
                n[2] # "read" /\ Allows(role, n) => n \in Offered(role)
         /\ {n \in Offered(role) : ~Allows(role, n)} \subseteq AskedAnyway \cup OverOffered(role)
<1>1. role \in {"viewer", "operator", "engineer", "admin"}
  BY DEF Role, ROLE_ORDER
<1>2. \A n : Allows("admin", n)
  BY Permitted DEF Allows
<1>3. {n \in Offered(role) : ~Allows(role, n)} \subseteq AskedAnyway \cup OverOffered(role)
  BY <1>1, <1>2, ToViewers, ToOperators, ToEngineers
<1>4. QED
  BY <1>3, NothingIsHidden

(* A window that knows the role of its user hides no write the role may do *)
(* and offers nothing the API refuses, but for what is named above: for    *)
(* any windows, and however often the role is changed.                     *)
THEOREM OffersAreAllowed == RolesSpec => []OfferedAsAllowed
<1>1. RolesInv => OfferedAsAllowed
  <2>1. SUFFICES ASSUME RolesInv, NEW w \in Browser, UpToDate(w)
                 PROVE  LET role == roles[shownAt[w]] IN
                        /\ \A p \in DOMAIN Needs : \A n \in Needs[p] :
                               n[2] # "read" /\ Allows(role, n) => n \in Offered(role)
                        /\ {n \in Offered(role) : ~Allows(role, n)}
                               \subseteq AskedAnyway \cup OverOffered(role)
    BY DEF OfferedAsAllowed
  <2>2. roles[shownAt[w]] \in Role
    BY <2>1 DEF RolesInv, UpToDate
  <2>3. QED
    BY <2>2, OfferedMatches
<1>2. QED
  BY <1>1, InitRoles, StepRoles, PTL DEF RolesSpec

-----------------------------------------------------------------------------
(* The hooks: every query and every mutation by its own definition, and    *)
(* which lists the onSuccess of a mutation is about.                       *)

\* The queries that read a table, but for those of the reports.
ReadFrom(t, q) ==
    \/ q[1] \in Reports
    \/ t = "sites" /\ q[1] = "sites"
    \/ t = "vlans" /\ q[1] = "vlans"
    \/ t = "subnets" /\ q[1] \in {"subnets", "ip-addresses", "aggregates"}
    \/ t = "ips" /\ q[1] = "ip-addresses"
    \/ t = "vrfs" /\ q[1] \in {"vrfs", "ip-addresses"}
    \/ t = "scans" /\ q[1] = "discovery"
    \/ t = "users" /\ q \in {<<"auth", "user">>, <<"admin", "users">>}
    \/ t = "update" /\ q = <<"admin", "update", "status">>
    \/ t = "snmp" /\ q[1] = "snmp-credentials"
    \/ t = "winrm" /\ q[1] = "winrm-credentials"
    \/ t = "rules" /\ q[1] = "validation-rules"
    \/ t = "customFields" /\ q[1] = "custom-fields"
    \/ t = "ranges" /\ q[1] = "ip-ranges"
    \/ t = "audit" /\ q[1] = "audit"
    \/ t = "logs" /\ q[1] = "system-logs"
    \/ t \in {"backups", "assets", "rirs", "aggregates", "asns", "tags", "approvals", "webhooks"}
       /\ q[1] = t

IsKey(q) == Len(q) \in Nat /\ Len(q) >= 1
IsReading(r) == IsKey(r.key) /\ \A t \in r.tables : ReadFrom(t, r.key)

LEMMA QueriesRead == \A r \in Readings : IsReading(r)
<1> SUFFICES ASSUME NEW h \in Hooks, NEW r \in h.reads PROVE IsReading(r)
  BY DEF Readings
<1> USE DEF ListOf, Reading, IsReading, IsKey, ReadFrom
<1>1. CASE h = IpHooks
  <2>1. \/ r \in {Reading(<<"ip-addresses", k>>, {"ips"}) : k \in {"list", "detail", "by-address"}}
        \/ r = Reading(<<"ip-addresses", "records">>, {"ips", "subnets", "vrfs"})
        \/ r = Reading(<<"ip-addresses", "usage">>, {"ips", "subnets"})
    BY <1>1, Zenon DEF IpHooks
  <2>2. QED
    BY <2>1
<1>2. CASE h = CredentialHooks
  BY <1>2 DEF CredentialHooks
<1>3. CASE h = AggregateHooks
  BY <1>3 DEF AggregateHooks
<1>4. CASE h = SiteHooks
  BY <1>4 DEF SiteHooks
<1>5. CASE h = VlanHooks
  BY <1>5 DEF VlanHooks
<1>6. CASE h = VrfHooks
  BY <1>6 DEF VrfHooks
<1>7. CASE h = RirHooks
  BY <1>7 DEF RirHooks
<1>8. CASE h = IpRangeHooks
  BY <1>8 DEF IpRangeHooks
<1>9. CASE h = AsnHooks
  BY <1>9 DEF AsnHooks
<1>10. CASE h = TagHooks
  BY <1>10 DEF TagHooks
<1>11. CASE h = CustomFieldHooks
  BY <1>11 DEF CustomFieldHooks
<1>12. CASE h = ValidationRuleHooks
  BY <1>12 DEF ValidationRuleHooks
<1>13. CASE h = ApprovalHooks
  BY <1>13 DEF ApprovalHooks
<1>14. CASE h = WebhookHooks
  BY <1>14 DEF WebhookHooks
<1>15. CASE h = AuthHooks
  BY <1>15 DEF AuthHooks
<1>16. CASE h = SubnetHooks
  BY <1>16 DEF SubnetHooks
<1>17. CASE h = DiscoveryHooks
  BY <1>17 DEF DiscoveryHooks
<1>18. CASE h = ReportHooks
  BY <1>18 DEF ReportHooks, Reports
<1>19. CASE h = AdminHooks
  BY <1>19 DEF AdminHooks
<1>20. CASE h = AuditHooks
  BY <1>20 DEF AuditHooks, Reports
<1>21. CASE h = BackupHooks
  BY <1>21 DEF BackupHooks
<1>22. CASE h = LogHooks
  BY <1>22 DEF LogHooks
<1>23. CASE h = AssetHooks
  BY <1>23 DEF AssetHooks
<1>24. CASE h = SearchHooks
  BY <1>24 DEF SearchHooks, Reports
<1>25. QED
  BY <1>1, <1>2, <1>3, <1>4, <1>5, <1>6, <1>7, <1>8, <1>9, <1>10, <1>11, <1>12, <1>13, <1>14, <1>15, <1>16, <1>17, <1>18, <1>19, <1>20, <1>21, <1>22, <1>23, <1>24 DEF Hooks

\* What onSuccess invalidates or sets: all queries of a page, or this one.
About(d, q) == <<q[1]>> \in d.invalidates \/ q \in d.invalidates \/ q \in d.sets

\* The queries of the tables that a mutation writes are told, but for those
\* that no mutation tells and those it is known to overlook.
Told(d) ==
    \A t \in d.writes : \A q :
        IsKey(q) /\ ReadFrom(t, q) =>
            q[1] \in Reports \/ About(d, q) \/ <<d.key, q[1]>> \in Overlooked

LEMMA CrudTells ==
  ASSUME NEW entity, NEW base, NEW root, NEW cascade,
         \A q : \A v \in {"create", "update", "delete"} :
             ReadFrom(base, q) =>
                 q[1] \in Reports \/ q[1] = root \/ <<<<v, entity>>, q[1]>> \in Overlooked,
         \A t \in cascade : \A q :
             ReadFrom(t, q) =>
                 q[1] \in Reports \/ q[1] = root \/ <<<<"delete", entity>>, q[1]>> \in Overlooked,
         NEW d \in Crud(entity, base, root, cascade)
  PROVE  Told(d)
<1>1. /\ d.key \in {<<v, entity>> : v \in {"create", "update", "delete"}}
      /\ d.writes = {base} \/ (d.key = <<"delete", entity>> /\ d.writes = {base} \cup cascade)
      /\ d.invalidates = {<<root>>}
  BY DEF Crud, Mutation
<1>2. ASSUME NEW t \in d.writes, NEW q, ReadFrom(t, q)
      PROVE  q[1] \in Reports \/ q[1] = root \/ <<d.key, q[1]>> \in Overlooked
  BY <1>1, <1>2, Zenon
<1>3. QED
  BY <1>1, <1>2, Zenon DEF Told, About

LEMMA AreOverlooked ==
  /\ \A r \in {"vlans", "subnets", "asns", "ip-addresses", "aggregates"} :
        <<<<"delete", "site">>, r>> \in Overlooked
  /\ \A r \in {"subnets", "ip-addresses", "aggregates"} :
        <<<<"delete", "vlan">>, r>> \in Overlooked /\ <<<<"delete", "vrf">>, r>> \in Overlooked
  /\ \A v \in {"create", "update", "delete"} : \A r \in {"ip-addresses", "aggregates"} :
        <<<<v, "subnet">>, r>> \in Overlooked
  /\ \A r \in {"discovery", "ip-ranges", "approvals"} : <<<<"delete", "subnet">>, r>> \in Overlooked
  /\ \A v \in {"create", "update"} : <<<<v, "vrf">>, "ip-addresses">> \in Overlooked
  /\ \A r \in {"aggregates", "asns"} : <<<<"delete", "rir">>, r>> \in Overlooked
BY DEF Overlooked

LEMMA FewOverlooked ==
  /\ <<<<"delete", "ip">>, "approvals">> \in Overlooked
  /\ <<<<"approve", "approval">>, "ip-addresses">> \in Overlooked
  /\ <<<<"delete", "user">>, "approvals">> \in Overlooked
  /\ <<<<"run", "discovery">>, "discovery">> \in Overlooked
  /\ \A m \in {<<"login">>, <<"update", "profile">>, <<"mfa", "setup">>, <<"mfa", "enable">>,
               <<"mfa", "disable">>} : <<m, "admin">> \in Overlooked
  /\ \A m \in {<<"mfa", "setup">>, <<"create", "user">>, <<"update", "user">>, <<"delete", "user">>} :
        <<m, "auth">> \in Overlooked
BY DEF Overlooked

LEMMA MutationsTell == \A d \in Mutating : Told(d)
<1> SUFFICES ASSUME NEW h \in Hooks, NEW d \in h.mutations PROVE Told(d)
  BY DEF Mutating
<1>1. CASE h = SiteHooks
  <2>1. d \in Crud("site", "sites", "sites", {"vlans", "subnets", "asns"})
    BY <1>1 DEF SiteHooks
  <2>2. QED
    BY <2>1, CrudTells, AreOverlooked DEF ReadFrom
<1>2. CASE h = VlanHooks
  <2>1. d \in Crud("vlan", "vlans", "vlans", {"subnets"})
    BY <1>2 DEF VlanHooks
  <2>2. QED
    BY <2>1, CrudTells, AreOverlooked DEF ReadFrom
<1>3. CASE h = SubnetHooks
  <2>1. d \in Crud("subnet", "subnets", "subnets", {"ips", "scans", "ranges", "approvals"})
    BY <1>3 DEF SubnetHooks
  <2>2. QED
    BY <2>1, CrudTells, AreOverlooked DEF ReadFrom
<1>4. CASE h = VrfHooks
  <2>1. d \in Crud("vrf", "vrfs", "vrfs", {"subnets", "ips"})
    BY <1>4 DEF VrfHooks
  <2>2. QED
    BY <2>1, CrudTells, AreOverlooked DEF ReadFrom
<1>5. CASE h = RirHooks
  <2>1. d \in Crud("rir", "rirs", "rirs", {"aggregates", "asns"})
    BY <1>5 DEF RirHooks
  <2>2. QED
    BY <2>1, CrudTells, AreOverlooked DEF ReadFrom
<1>6. CASE h = AggregateHooks
  <2>1. d \in Crud("aggregate", "aggregates", "aggregates", {})
    BY <1>6 DEF AggregateHooks
  <2>2. QED
    BY <2>1, CrudTells, AreOverlooked DEF ReadFrom
<1>7. CASE h = IpRangeHooks
  <2>1. d \in Crud("range", "ranges", "ip-ranges", {})
    BY <1>7 DEF IpRangeHooks
  <2>2. QED
    BY <2>1, CrudTells, AreOverlooked DEF ReadFrom
<1>8. CASE h = AsnHooks
  <2>1. d \in Crud("asn", "asns", "asns", {})
    BY <1>8 DEF AsnHooks
  <2>2. QED
    BY <2>1, CrudTells, AreOverlooked DEF ReadFrom
<1>9. CASE h = TagHooks
  <2>1. d \in Crud("tag", "tags", "tags", {})
    BY <1>9 DEF TagHooks
  <2>2. QED
    BY <2>1, CrudTells, AreOverlooked DEF ReadFrom
<1>10. CASE h = CustomFieldHooks
  <2>1. d \in Crud("customField", "customFields", "custom-fields", {})
    BY <1>10 DEF CustomFieldHooks
  <2>2. QED
    BY <2>1, CrudTells, AreOverlooked DEF ReadFrom
<1>11. CASE h = ValidationRuleHooks
  <2>1. d \in Crud("rule", "rules", "validation-rules", {})
    BY <1>11 DEF ValidationRuleHooks
  <2>2. QED
    BY <2>1, CrudTells, AreOverlooked DEF ReadFrom
<1>12. CASE h = WebhookHooks
  <2>1. d \in Crud("webhook", "webhooks", "webhooks", {})
    BY <1>12 DEF WebhookHooks
  <2>2. QED
    BY <2>1, CrudTells, AreOverlooked DEF ReadFrom
<1>13. CASE h = CredentialHooks
  <2>1. \/ d \in Crud("snmp", "snmp", "snmp-credentials", {})
        \/ d \in Crud("winrm", "winrm", "winrm-credentials", {})
    BY <1>13 DEF CredentialHooks
  <2>2. QED
    BY <2>1, CrudTells DEF ReadFrom
<1>14. CASE h = AuthHooks
  <2>1. \/ d = Mutation(<<"login">>, {"users"}, {<<"auth">>})
        \/ d = Sets(<<"update", "profile">>, {"users"}, {<<"auth", "user">>})
        \/ d = Mutation(<<"mfa", "setup">>, {"users"}, {})
        \/ d = Mutation(<<"mfa", "enable">>, {"users"}, {<<"auth", "user">>})
        \/ d = Mutation(<<"mfa", "disable">>, {"users"}, {<<"auth", "user">>})
    BY <1>14, Zenon DEF AuthHooks
  <2>2. QED
    BY <2>1, FewOverlooked DEF Mutation, Sets, Told, About, ReadFrom
<1>15. CASE h = IpHooks
  <2>1. \/ d = Mutation(<<"create", "ip">>, {"ips"}, {<<"ip-addresses">>, <<"subnets">>})
        \/ d = Mutation(<<"update", "ip">>, {"ips"}, {<<"ip-addresses">>})
        \/ d = Mutation(<<"delete", "ip">>, {"ips", "approvals"}, {<<"ip-addresses">>, <<"subnets">>})
        \/ d = Mutation(<<"allocate", "ip">>, {"ips"}, {<<"ip-addresses">>, <<"subnets">>})
    BY <1>15, Zenon DEF IpHooks
  <2>2. QED
    BY <2>1, FewOverlooked DEF Mutation, Sets, Told, About, ReadFrom
<1>16. CASE h = DiscoveryHooks
  BY <1>16, FewOverlooked DEF DiscoveryHooks, Mutation, Sets, Told, About, ReadFrom
<1>17. CASE h = AdminHooks
  <2>1. \/ d = Mutation(<<"create", "user">>, {"users"}, {<<"admin", "users">>})
        \/ d = Mutation(<<"update", "user">>, {"users"}, {<<"admin", "users">>})
        \/ d = Mutation(<<"delete", "user">>, {"users", "approvals"}, {<<"admin", "users">>})
        \/ d = Sets(<<"check", "update">>, {"update"}, {<<"admin", "update", "status">>})
        \/ d = Mutation(<<"run", "update">>, {"update"}, {<<"admin", "update", "status">>})
    BY <1>17, Zenon DEF AdminHooks
  <2>2. QED
    BY <2>1, FewOverlooked DEF Mutation, Sets, Told, About, ReadFrom
<1>18. CASE h = BackupHooks
  BY <1>18, FewOverlooked DEF BackupHooks, Mutation, Sets, Told, About, ReadFrom
<1>19. CASE h = AssetHooks
  <2>1. \/ d = Mutation(<<"run", "discovery">>, {"scans"}, {<<"assets">>})
    BY <1>19, Zenon DEF AssetHooks
  <2>2. QED
    BY <2>1, FewOverlooked DEF Mutation, Sets, Told, About, ReadFrom
<1>20. CASE h = ApprovalHooks
  BY <1>20, FewOverlooked DEF ApprovalHooks, Mutation, Sets, Told, About, ReadFrom
<1>21. CASE h.mutations = {}
  BY <1>21
<1>22. QED
  BY <1>1, <1>2, <1>3, <1>4, <1>5, <1>6, <1>7, <1>8, <1>9, <1>10, <1>11, <1>12, <1>13, <1>14, <1>15, <1>16, <1>17, <1>18, <1>19, <1>20, <1>21 DEF Hooks, ReportHooks, AuditHooks, LogHooks, SearchHooks
\* The rows a page writes, and the lists it shows with them.
Beside(e, k) ==
    \/ e = "site" /\ k = "sites"
    \/ e = "vlan" /\ k \in {"vlans", "sites"}
    \/ e = "subnet" /\ k \in {"subnets", "sites", "vlans"}
    \/ e = "ip" /\ k # "approvals" /\ k \notin Reports
    \/ e = "approval" /\ k = "approvals"
    \/ e = "user" /\ k = "admin"
    \/ e = "vrf" /\ k = "vrfs"
    \/ e = "rir" /\ k = "rirs"
    \/ e \in {"snmp", "winrm", "tag", "aggregate", "range", "asn", "customField", "rule", "webhook", "scan"}
       /\ k \notin Reports

ShowsOwn(p) ==
    \A q \in {p.lists} \cup p.joins : \A v \in Verbs(p) :
        \E e : p.writes[v] = <<v, e>> /\ Beside(e, q[1])

LEMMA ListPagesShow ==
  ASSUME NEW e, NEW root, NEW joins, Beside(e, root), \A q \in joins : Beside(e, q[1])
  PROVE  ShowsOwn(ListPage(e, root, joins))
<1> DEFINE p == ListPage(e, root, joins)
<1>1. /\ {p.lists} \cup p.joins = {<<root, "list">>} \cup joins
      /\ p.writes = [v \in {"create", "update", "delete"} |-> <<v, e>>]
  BY DEF ListPage, CrudDialogs
<1> HIDE DEF p
<1>2. \A v \in Verbs(p) : p.writes[v] = <<v, e>>
  BY <1>1 DEF Verbs
<1>3. \A q \in {p.lists} \cup p.joins : Beside(e, q[1])
  BY <1>1
<1>4. ShowsOwn(p)
  BY <1>2, <1>3 DEF ShowsOwn
<1>5. QED
  BY <1>4 DEF p

LEMMA PagesShow == \A p \in Page : ShowsOwn(p)
<1>1. /\ ShowsOwn(SitesPage) /\ ShowsOwn(VlansPage) /\ ShowsOwn(SubnetsPage)
      /\ ShowsOwn(VirtualIpsPage)
  BY ListPagesShow DEF SitesPage, VlansPage, SubnetsPage, VirtualIpsPage, Beside, Reports, Sites, Vlans, Subnets
<1>2. \A p \in CrudPages : ShowsOwn(p)
  BY ListPagesShow DEF CrudPages, TagsPage, VrfsPage, RirsPage, AggregatesPage, IpRangesPage,
     AsnsPage, CustomFieldsPage, ValidationRulesPage, WebhooksPage, Beside, Reports, Sites, Rirs, Subnets
<1>3. ShowsOwn(SnmpProfilesPage) /\ ShowsOwn(WinrmProfilesPage) /\ ShowsOwn(UsersTab)
  BY DEF SnmpProfilesPage, WinrmProfilesPage, UsersTab, ListPage, CrudDialogs, Verbs, ShowsOwn,
     Beside, Reports
<1>4. ShowsOwn(IpsPage)
  BY DEF IpsPage, ListPage, CrudDialogs, Verbs, ShowsOwn, Beside, Reports, Subnets
<1>5. ShowsOwn(IpamRecordsPage)
  BY DEF IpamRecordsPage, ListPage, CrudDialogs, Verbs, ShowsOwn, Beside, Reports, Subnets, Tags
<1>6. ShowsOwn(DiscoveryPage)
  BY DEF DiscoveryPage, ScanWrites, ListPage, CrudDialogs, Verbs, ShowsOwn, Beside, Reports, Subnets
<1>7. ShowsOwn(ApprovalsPage)
  BY DEF ApprovalsPage, DecisionModal, ListPage, CrudDialogs, Verbs, ShowsOwn, Beside
<1>8. QED
  BY <1>1, <1>2, <1>3, <1>4, <1>5, <1>6, <1>7 DEF Page

LEMMA OverlookedElsewhere ==
  ASSUME NEW v, NEW e, NEW k, Beside(e, k) PROVE <<<<v, e>>, k>> \notin Overlooked /\ k \notin Reports
<1>1. <<<<v, e>>, k>> \notin Overlooked
  BY DEF Beside, Overlooked
<1>2. k \notin Reports
  BY DEF Beside, Reports
<1>3. QED
  BY <1>1, <1>2

\* The onSuccess of a mutation is about a query.
IsAbout(m, q) == Matches(m, q) \/ q \in Does(m).sets

\* The onSuccess of every mutation is about the lists of its page, and about
\* the other lists it affects but for those overlooked.
LEMMA HooksCover ==
  ASSUME NEW q \in Query, NEW m \in Mutations, Affects(m, q)
  PROVE  \/ IsAbout(m, q)
         \/ ~OnOnePage(q, m) /\ (q[1] \in Reports \/ <<m, q[1]>> \in Overlooked)
<1>1. PICK r \in Readings : r.key = q /\ Reads(q) = r.tables
  BY Zenon DEF Query, Reads
<1>2. Does(m) \in Mutating /\ Does(m).key = m
  BY Zenon DEF Mutations, Does
<1>3. IsKey(q) /\ \A t \in Reads(q) : ReadFrom(t, q)
  BY <1>1, QueriesRead DEF IsReading
<1>4. PICK t \in Does(m).writes : t \in Reads(q)
  BY DEF Affects
<1>5. q[1] \in Reports \/ About(Does(m), q) \/ <<m, q[1]>> \in Overlooked
  BY <1>2, <1>3, <1>4, MutationsTell DEF Told
<1>6. ASSUME About(Does(m), q) PROVE IsAbout(m, q)
  <2>1. Begins(q, q) /\ Begins(<<q[1]>>, q)
    BY <1>3 DEF Begins, IsKey
  <2>2. QED
    BY <1>6, <2>1, Zenon DEF About, IsAbout, Matches
<1>7. ASSUME OnOnePage(q, m) PROVE q[1] \notin Reports /\ <<m, q[1]>> \notin Overlooked
  <2>1. PICK p \in Page : q \in {p.lists} \cup p.joins /\ \E v \in Verbs(p) : p.writes[v] = m
    BY <1>7 DEF OnOnePage
  <2>2. PICK v, e : m = <<v, e>> /\ Beside(e, q[1])
    BY <2>1, PagesShow, Zenon DEF ShowsOwn
  <2>3. QED
    BY <2>2, OverlookedElsewhere
<1>8. QED
  BY <1>5, <1>6, <1>7
-----------------------------------------------------------------------------
(* The query cache: what a mutation wrote is shown, or fetched again.      *)

\* What a fetch reads of the rows, whatever their version.
RowsSeen == [ver : Nat, busy : BOOLEAN]

\* Neither the cache nor an answer under way passes older rows for fresh.
SettledIsShown ==
    call = "done" /\ ~missed /\ IsAbout(mutation, query) =>
        /\ cache.ver >= own \/ old = "invalid"
        /\ fetch.st = "answered" => fetch.snap.ver >= own

CacheInv ==
    /\ \E p \in Pairs : query = p[1] /\ mutation = p[2]
    /\ db \in RowsSeen /\ cache \in RowsSeen /\ own \in Nat /\ own <= db.ver
    /\ ~Affects(mutation, query) => own = 0
    /\ fetch \in [st : {"idle", "sent", "answered"}, retry : BOOLEAN, snap : RowsSeen]
    /\ SettledIsShown

LEMMA FetchTypes ==
  /\ Nothing \in RowsSeen
  /\ Idle \in [st : {"idle", "sent", "answered"}, retry : BOOLEAN, snap : RowsSeen] /\ Idle.st = "idle"
  /\ \A retry \in BOOLEAN :
        /\ Sent(retry) \in [st : {"idle", "sent", "answered"}, retry : BOOLEAN, snap : RowsSeen]
        /\ Sent(retry).st = "sent"
<1>1. Nothing \in RowsSeen
  BY DEF Nothing, RowsSeen
<1> HIDE DEF RowsSeen
<1>2. QED
  BY <1>1 DEF Idle, Sent

LEMMA InitCache == CacheInit => CacheInv
<1> SUFFICES ASSUME CacheInit PROVE CacheInv
  OBVIOUS
<1>1. /\ \E p \in Pairs : query = p[1] /\ mutation = p[2]
      /\ cache = Nothing /\ fetch = Idle /\ call = "idle" /\ own = 0
  BY DEF CacheInit
<1>2. PICK busy \in BOOLEAN : db = [ver |-> 1, busy |-> busy]
  <2>1. {FALSE, (query \in PolledWhileBusy)} \subseteq BOOLEAN
    OBVIOUS
  <2>2. QED
    BY <2>1, Zenon DEF CacheInit
<1>3. db \in RowsSeen /\ db.ver = 1
  BY <1>2 DEF RowsSeen
<1>4. SettledIsShown
  BY <1>1 DEF SettledIsShown
<1>5. QED
  BY <1>1, <1>3, <1>4, FetchTypes DEF CacheInv

LEMMA StepCache == CacheInv /\ [CacheNext]_cacheVars => CacheInv'
<1> SUFFICES ASSUME CacheInv, [CacheNext]_cacheVars PROVE CacheInv'
  OBVIOUS
<1> DEFINE F == [st : {"idle", "sent", "answered"}, retry : BOOLEAN, snap : RowsSeen]
<1>1. /\ db \in RowsSeen /\ cache \in RowsSeen /\ own \in Nat /\ own <= db.ver /\ fetch \in F
      /\ \E p \in Pairs : query = p[1] /\ mutation = p[2]
      /\ ~Affects(mutation, query) => own = 0
  BY DEF CacheInv
<1>2. cache.ver \in Nat /\ db.ver \in Nat /\ fetch.snap \in RowsSeen /\ fetch.snap.ver \in Nat
  BY <1>1 DEF RowsSeen
<1>3. UNCHANGED <<query, mutation>>
  BY DEF CacheNext, cacheVars, Mount, Unmount, Age, Focus, Poll, AnswerFetch, EndFetch, LoseFetch,
     Mutate, Commit, Fail, Invalidate, SetData, Succeed, OthersWrite, WorkEnds
<1>4. /\ Affects(mutation, query)' <=> Affects(mutation, query)
      /\ IsAbout(mutation, query)' <=> IsAbout(mutation, query)
  BY <1>3
<1> HIDE DEF F
\* A fetch that begins or goes on, or is given up, of rows that stay.
<1>5. ASSUME UNCHANGED <<db, cache, own, call, missed>>, old' = old \/ old = "fresh",
             fetch' = fetch \/ fetch' = Idle \/ \E retry \in BOOLEAN : fetch' = Sent(retry)
      PROVE  CacheInv'
  <2>1. fetch' \in F /\ (fetch'.st = "answered" => fetch' = fetch)
    BY <1>1, <1>5, FetchTypes DEF F
  <2>2. SettledIsShown'
    <3>1. SUFFICES ASSUME call = "done", ~missed, IsAbout(mutation, query)
                   PROVE  /\ cache.ver >= own \/ old' = "invalid"
                          /\ fetch'.st = "answered" => fetch'.snap.ver >= own
      BY <1>4, <1>5 DEF SettledIsShown
    <3>2. /\ cache.ver >= own \/ old = "invalid"
          /\ fetch.st = "answered" => fetch.snap.ver >= own
      BY <3>1 DEF CacheInv, SettledIsShown
    <3>3. QED
      BY <1>5, <2>1, <3>2
  <2>3. QED
    BY <1>1, <1>3, <1>4, <1>5, <2>1, <2>2 DEF CacheInv, F
<1>6. CASE UNCHANGED cacheVars
  BY <1>5, <1>6 DEF cacheVars
<1>7. CASE Mount \/ Unmount \/ Age \/ Focus \/ Poll
  <2>1. FALSE \in BOOLEAN
    OBVIOUS
  <2>2. UNCHANGED <<db, cache, own, call, missed>> /\ (old' = old \/ old = "fresh")
    BY <1>7 DEF Mount, Unmount, Age, Focus, Poll
  <2>3. fetch' = fetch \/ fetch' = Sent(FALSE)
    BY <1>7 DEF Mount, Unmount, Age, Focus, Poll, Fetch
  <2>4. QED
    BY <1>5, <2>1, <2>2, <2>3
<1>8. CASE LoseFetch
  <2>1. UNCHANGED <<db, cache, own, call, missed, old>> /\ (fetch' = Idle \/ fetch' = Sent(TRUE))
    BY <1>8 DEF LoseFetch
  <2>2. QED
    BY <1>5, <2>1
\* An answer is of the rows as they are, this browser's writes among them.
<1>9. CASE AnswerFetch
  <2>1. /\ fetch' = [fetch EXCEPT !.st = "answered", !.snap = db]
        /\ UNCHANGED <<db, cache, own, call, missed, old>>
    BY <1>9 DEF AnswerFetch
  <2>2. fetch' \in F /\ fetch'.snap = db
    BY <1>1, <2>1 DEF F
  <2>3. SettledIsShown'
    BY <1>1, <1>2, <1>4, <2>1, <2>2 DEF CacheInv, SettledIsShown
  <2>4. QED
    BY <1>1, <1>3, <1>4, <2>1, <2>2, <2>3 DEF CacheInv, F
<1>10. CASE EndFetch
  <2>1. /\ cache' = fetch.snap /\ fetch' = Idle /\ fetch.st = "answered"
        /\ UNCHANGED <<db, own, call, missed>>
    BY <1>10 DEF EndFetch
  <2>2. fetch' \in F /\ fetch'.st = "idle"
    BY <2>1, FetchTypes DEF F
  <2>3. SettledIsShown'
    BY <1>2, <1>4, <2>1, <2>2 DEF CacheInv, SettledIsShown
  <2>4. QED
    BY <1>1, <1>2, <1>3, <1>4, <2>1, <2>2, <2>3 DEF CacheInv, F
\* Rows written.
<1>11. ASSUME db' \in RowsSeen, db'.ver >= db.ver, UNCHANGED <<cache, old, fetch, missed>>,
              call' # "done" \/ call' = call, own' \in Nat, own' <= db'.ver,
              ~Affects(mutation, query) => own' = 0, call' = "done" => own' = own
       PROVE  CacheInv'
  <2>1. SettledIsShown'
    BY <1>4, <1>11 DEF CacheInv, SettledIsShown
  <2>2. QED
    BY <1>1, <1>3, <1>4, <1>11, <2>1 DEF CacheInv, F
<1>12. Written => db' \in RowsSeen /\ db'.ver = db.ver + 1
  BY <1>1 DEF Written, RowsSeen
<1>13. CASE Mutate \/ Fail
  <2>1. /\ UNCHANGED <<cache, old, fetch, missed, db>> /\ call' # "done"
        /\ own' = own \/ own' = 0
    BY <1>13 DEF Mutate, Fail
  <2>2. QED
    BY <1>1, <1>2, <1>11, <2>1
<1>14. CASE Commit
  <2>1. /\ UNCHANGED <<cache, old, fetch, missed>> /\ call' = "committed"
        /\ \/ Affects(mutation, query) /\ Written /\ own' = db.ver + 1
           \/ UNCHANGED <<db, own>>
    BY <1>14 DEF Commit
  <2>2. CASE Affects(mutation, query) /\ Written /\ own' = db.ver + 1
    BY <1>2, <1>11, <1>12, <2>1, <2>2
  <2>3. CASE UNCHANGED <<db, own>>
    BY <1>1, <1>2, <1>11, <2>1, <2>3
  <2>4. QED
    BY <2>1, <2>2, <2>3
<1>15. CASE OthersWrite
  <2>1. UNCHANGED <<cache, old, fetch, missed, call, own>> /\ Written
    BY <1>15 DEF OthersWrite
  <2>2. QED
    BY <1>1, <1>2, <1>11, <1>12, <2>1
<1>16. CASE WorkEnds
  <2>1. UNCHANGED <<cache, old, fetch, missed, call, own>> /\ db' = [db EXCEPT !.busy = FALSE]
    BY <1>16 DEF WorkEnds
  <2>2. db' \in RowsSeen /\ db'.ver = db.ver
    BY <1>1, <2>1 DEF RowsSeen
  <2>3. QED
    BY <1>1, <1>2, <1>11, <2>1, <2>2
\* The onSuccess.  No fetch that began before it goes on unnoticed.
<1>17. CASE Invalidate
  <2>1. /\ old' = "invalid" /\ UNCHANGED <<db, cache, own>>
        /\ fetch' = Sent(FALSE) \/ fetch' = fetch
    BY <1>17 DEF Invalidate
  <2>2. fetch' = fetch /\ ~missed' => fetch.st = "idle"
    BY <1>17, Zenon DEF Invalidate, Fetching
  <2>3. fetch' \in F /\ (fetch'.st = "answered" => missed')
    BY <1>1, <2>1, <2>2, FetchTypes DEF F
  <2>4. SettledIsShown'
    BY <2>1, <2>3 DEF SettledIsShown
  <2>5. QED
    BY <1>1, <1>3, <1>4, <2>1, <2>3, <2>4 DEF CacheInv, F
<1>18. CASE SetData
  <2>1. cache' = [db EXCEPT !.ver = own] /\ UNCHANGED <<db, fetch, own>>
    BY <1>18 DEF SetData
  <2>2. ~missed' => fetch.st = "idle"
    BY <1>18, Zenon DEF SetData, Fetching
  <2>3. cache' \in RowsSeen /\ cache'.ver = own
    BY <1>1, <2>1 DEF RowsSeen
  <2>4. SettledIsShown'
    BY <1>1, <2>1, <2>2, <2>3 DEF SettledIsShown
  <2>5. QED
    BY <1>1, <1>3, <1>4, <2>1, <2>3, <2>4 DEF CacheInv, F
<1>19. CASE Succeed
  <2>1. UNCHANGED <<db, cache, old, fetch, own, missed>> /\ ~IsAbout(mutation, query)
    BY <1>19 DEF Succeed, IsAbout
  <2>2. SettledIsShown'
    BY <1>4, <2>1 DEF SettledIsShown
  <2>3. QED
    BY <1>1, <1>3, <1>4, <2>1, <2>2 DEF CacheInv, F
<1>20. QED
  BY <1>6, <1>7, <1>8, <1>9, <1>10, <1>13, <1>14, <1>15, <1>16, <1>17, <1>18, <1>19 DEF CacheNext

(* Once a mutation of this browser has settled, what it changed is shown   *)
(* or marked to be fetched again, and no fetch from before passes for      *)
(* fresh: however fetches, mutations, losses and moves between pages fall, *)
(* for any of the queries and mutations there are.                         *)
THEOREM WritesAreShown == CacheSpec => []OwnWritesAreShown
<1>1. CacheInv => OwnWritesAreShown
  <2> SUFFICES ASSUME CacheInv, call = "done", ~missed,
                      \/ OnOnePage(query, mutation)
                      \/ query[1] \notin Reports /\ <<mutation, query[1]>> \notin Overlooked
               PROVE  cache.ver >= own \/ old = "invalid"
    BY DEF OwnWritesAreShown
  <2>1. query \in Query /\ mutation \in Mutations
    BY PairsAssumption DEF CacheInv
  <2>2. CASE IsAbout(mutation, query)
    BY <2>2 DEF CacheInv, SettledIsShown
  <2>3. CASE ~Affects(mutation, query)
    BY <2>3 DEF CacheInv, RowsSeen
  <2>4. QED
    BY <2>1, <2>2, <2>3, HooksCover
<1>2. QED
  BY <1>1, InitCache, StepCache, PTL DEF CacheSpec

-----------------------------------------------------------------------------
(* Profile and MFA: what is on was set up in the user's authenticator, and *)
(* the name on the page is the one that was saved, for any windows and any *)
(* number of requests.                                                     *)
OrderType ==
    [kind : Kind, win : Window, visit : Nat, arg : Nat,
     st : {"sent", "read", "answered", "over"}, ok : BOOLEAN, saw : BOOLEAN, lost : BOOLEAN,
     alone : BOOLEAN]

ProfileTypes ==
    /\ account \in [secret : Nat, on : BOOLEAN, enforced : BOOLEAN, name : Nat, password : Nat]
    /\ scanned \subseteq Nat
    /\ wins \in [Window -> [tab : Tab, visit : Nat, setup : Nat, on : BOOLEAN, name : Nat]]
    /\ orders \in Seq(OrderType)
    /\ undone \in BOOLEAN

\* An enabling that has read the row goes by a code of an entry of the
\* authenticator, and nobody has changed the secret since unless "undone".
EnablingsAgree ==
    \A i \in DOMAIN orders : orders[i].kind = "enable" =>
        /\ orders[i].arg \in scanned
        /\ orders[i].st = "read" => undone \/ orders[i].arg = account.secret

MfaInv == ProfileTypes /\ EnablingsAgree /\ NotLockedOut

-----------------------------------------------------------------------------
LEMMA InitMfa == ProfileInit => MfaInv
  <1>1. ASSUME ProfileInit PROVE ProfileTypes
    <2>1. <<>> \in Seq(OrderType)
      OBVIOUS
    <2>2. account \in [secret : Nat, on : BOOLEAN, enforced : BOOLEAN, name : Nat, password : Nat]
      <3>1. /\ account = [secret |-> account.secret, on |-> account.on,
                          enforced |-> account.enforced, name |-> account.name,
                          password |-> account.password]
            /\ account.secret = 0 /\ account.name = 0 /\ account.password = 0
            /\ account.enforced \in BOOLEAN
        BY <1>1 DEF ProfileInit, NoSecret
      <3>2. account.on \in BOOLEAN
        BY <1>1 DEF ProfileInit
      <3>3. QED
        BY <3>1, <3>2
    <2>3. wins \in [Window -> [tab : Tab, visit : Nat, setup : Nat, on : BOOLEAN, name : Nat]]
      BY <1>1 DEF ProfileInit, NoSecret, Tab
    <2>4. QED
      BY <1>1, <2>1, <2>2, <2>3 DEF ProfileInit, ProfileTypes
  <1>2. ASSUME ProfileInit PROVE EnablingsAgree /\ NotLockedOut
    <2>1. account.on = FALSE /\ orders = <<>>
      BY <1>2 DEF ProfileInit
    <2>2. QED
      BY <2>1 DEF EnablingsAgree, NotLockedOut
  <1>3. QED
    BY <1>1, <1>2 DEF MfaInv

(* A step of a window that asks for nothing.                               *)
LEMMA WindowMfa ==
  ASSUME MfaInv, NEW w \in Window,
         (\E t \in Tab : OpenTab(w, t)) \/ RefetchUser(w) \/ Scan(w) \/ CancelSetup(w)
  PROVE  MfaInv'
<1>1. wins' \in [Window -> [tab : Tab, visit : Nat, setup : Nat, on : BOOLEAN, name : Nat]]
  <2>1. wins \in [Window -> [tab : Tab, visit : Nat, setup : Nat, on : BOOLEAN, name : Nat]]
        /\ account.on \in BOOLEAN
    BY DEF MfaInv, ProfileTypes
  <2>2. ASSUME NEW t \in Tab, OpenTab(w, t)
        PROVE  wins' \in [Window -> [tab : Tab, visit : Nat, setup : Nat, on : BOOLEAN, name : Nat]]
    <3> DEFINE u == [tab |-> t, visit |-> wins[w].visit + 1, setup |-> 0, on |-> wins[w].on,
                     name |-> wins[w].name]
    <3>1. wins[w] \in [tab : Tab, visit : Nat, setup : Nat, on : BOOLEAN, name : Nat]
      BY <2>1
    <3>2. u \in [tab : Tab, visit : Nat, setup : Nat, on : BOOLEAN, name : Nat]
      <4>1. wins[w].visit + 1 \in Nat
        BY <3>1
      <4>2. QED
        BY <2>2, <3>1, <4>1
    <3>3. wins' = [[[wins EXCEPT ![w].tab = t] EXCEPT ![w].visit = wins[w].visit + 1]
                     EXCEPT ![w].setup = 0]
      BY <2>1, <2>2, <3>1 DEF OpenTab, NoSecret
    <3>4. wins'[w] = u /\ wins' = [v \in Window |-> wins'[v]]
          /\ \A v \in Window : v # w => wins'[v] = wins[v]
      BY <2>1, <3>1, <3>3
    <3> HIDE DEF u
    <3>5. QED
      BY <2>1, <3>2, <3>4
  <2>3. CASE RefetchUser(w)
    BY <2>1, <2>3 DEF RefetchUser
  <2>4. CASE Scan(w) \/ CancelSetup(w)
    BY <2>1, <2>4 DEF Scan, CancelSetup, NoSecret
  <2>5. QED
    BY <2>2, <2>3, <2>4
<1>2. scanned \subseteq scanned' /\ scanned' \subseteq Nat
  BY DEF MfaInv, ProfileTypes, OpenTab, RefetchUser, Scan, CancelSetup
<1>3. UNCHANGED <<account, orders, undone>>
  BY DEF OpenTab, RefetchUser, Scan, CancelSetup
<1>4. QED
  BY <1>1, <1>2, <1>3 DEF MfaInv, ProfileTypes, EnablingsAgree, NotLockedOut

(* A request that is new: only a code of the authenticator enables.        *)
LEMMA OrderMfa ==
  ASSUME MfaInv, NEW w \in Window, NEW kind \in Kind, NEW arg \in Nat,
         kind = "enable" => arg \in scanned,
         Order(w, kind, arg), UNCHANGED wins
  PROVE  MfaInv'
<1> DEFINE o == [kind |-> kind, win |-> w, visit |-> wins[w].visit, arg |-> arg,
                 st |-> "sent", ok |-> FALSE, saw |-> FALSE, lost |-> FALSE,
                 alone |-> \A i \in DOMAIN orders : Under(i) => orders[i].kind # kind]
<1>1. o \in OrderType
  <2>1. wins[w].visit \in Nat
    BY DEF MfaInv, ProfileTypes
  <2>2. (\A i \in DOMAIN orders : Under(i) => orders[i].kind # kind) \in BOOLEAN
    OBVIOUS
  <2>3. QED
    BY <2>1, <2>2 DEF OrderType
<1>2. orders' = Append(orders, o) /\ UNCHANGED <<account, scanned, undone, wins>>
  BY DEF Order
<1>3. orders \in Seq(OrderType)
  BY DEF MfaInv, ProfileTypes
<1> HIDE DEF o
<1>4. orders' \in Seq(OrderType)
  BY <1>1, <1>2, <1>3
<1>5. \A i \in DOMAIN orders' : (i \in DOMAIN orders /\ orders'[i] = orders[i]) \/ orders'[i] = o
  BY <1>1, <1>2, <1>3
<1>6. o.kind = kind /\ o.arg = arg /\ o.st = "sent"
  BY DEF o
<1>7. EnablingsAgree'
  BY <1>2, <1>5, <1>6 DEF MfaInv, EnablingsAgree
<1>8. QED
  BY <1>2, <1>4, <1>7 DEF MfaInv, ProfileTypes, NotLockedOut

LEMMA PressMfa ==
  ASSUME MfaInv, NEW w \in Window,
         \/ SaveName(w) \/ PressSetup(w) \/ \E right \in BOOLEAN : PressPassword(w, right)
         \/ \E secret \in scanned : PressEnable(w, secret) \/ PressDisable(w, secret)
  PROVE  MfaInv'
<1>1. CASE SaveName(w)
  BY <1>1, OrderMfa DEF SaveName, Kind
<1>2. CASE PressSetup(w)
  BY <1>2, OrderMfa DEF PressSetup, Kind
<1>3. CASE \E right \in BOOLEAN : PressPassword(w, right)
  <2>1. PICK right \in BOOLEAN : PressPassword(w, right)
    BY <1>3
  <2>2. (IF right THEN account.password ELSE MaxOrders + 1) \in Nat
    BY ProfileAssumption DEF MfaInv, ProfileTypes
  <2>3. QED
    BY <2>1, <2>2, OrderMfa DEF PressPassword, Kind
<1>4. ASSUME NEW secret \in scanned, PressEnable(w, secret) \/ PressDisable(w, secret)
      PROVE  MfaInv'
  <2>1. secret \in Nat
    BY DEF MfaInv, ProfileTypes
  <2>2. CASE PressEnable(w, secret)
    BY <2>1, <2>2, OrderMfa DEF PressEnable, Kind
  <2>3. CASE PressDisable(w, secret)
    BY <2>1, <2>3, OrderMfa DEF PressDisable, Kind
  <2>4. QED
    BY <1>4, <2>2, <2>3
<1>5. QED
  BY <1>1, <1>2, <1>3, <1>4

(* The endpoints.                                                          *)
LEMMA OneOrder ==
  ASSUME ProfileTypes, NEW i \in DOMAIN orders, NEW o \in OrderType
  PROVE  /\ [orders EXCEPT ![i] = o] \in Seq(OrderType)
         /\ DOMAIN [orders EXCEPT ![i] = o] = DOMAIN orders
  BY DEF ProfileTypes

LEMMA ReadMfa ==
  ASSUME MfaInv, NEW i \in DOMAIN orders, ReadAccount(i)
  PROVE  MfaInv'
<1>1. PICK ok \in Accepts(orders[i]) :
        orders' = [orders EXCEPT ![i].st = IF ok THEN "read" ELSE "answered", ![i].ok = ok,
                                 ![i].saw = account.on]
  BY DEF ReadAccount
<1>2. orders[i] \in OrderType /\ orders \in Seq(OrderType) /\ account.on \in BOOLEAN
  BY DEF MfaInv, ProfileTypes
<1>3. ok \in BOOLEAN
  <2>1. orders[i].kind \in Kind
    BY <1>2 DEF OrderType
  <2>2. Accepts(orders[i]) \subseteq BOOLEAN
    BY <2>1 DEF Accepts, Kind, Codes
  <2>3. QED
    BY <2>2
<1> DEFINE o == [orders[i] EXCEPT !.st = IF ok THEN "read" ELSE "answered", !.ok = ok,
                                  !.saw = account.on]
<1>4. o \in OrderType
  BY <1>2, <1>3 DEF OrderType
<1>5. orders' = [orders EXCEPT ![i] = o]
  BY <1>1, <1>2
<1>6. o.kind = orders[i].kind /\ o.arg = orders[i].arg /\ (o.st = "read" => ok)
  BY <1>2, <1>3 DEF OrderType
<1>7. o.kind = "enable" /\ o.st = "read" => o.arg = account.secret
  BY <1>1, <1>6 DEF Accepts, Codes
<1>8. UNCHANGED <<account, scanned, wins, undone>>
  BY DEF ReadAccount
<1> HIDE DEF o
<1>9. orders' \in Seq(OrderType) /\ DOMAIN orders' = DOMAIN orders
  BY <1>4, <1>5, OneOrder DEF MfaInv
<1>10. \A j \in DOMAIN orders : orders'[j] = IF j = i THEN o ELSE orders[j]
  BY <1>2, <1>5
<1>11. EnablingsAgree'
  BY <1>6, <1>7, <1>8, <1>9, <1>10 DEF MfaInv, EnablingsAgree
<1>12. QED
  BY <1>8, <1>9, <1>11 DEF MfaInv, ProfileTypes, NotLockedOut

LEMMA CommitMfa ==
  ASSUME MfaInv, NEW i \in DOMAIN orders, CommitOrder(i)
  PROVE  MfaInv'
<1>1. orders[i] \in OrderType /\ orders \in Seq(OrderType) /\ i \in Nat
  BY DEF MfaInv, ProfileTypes
<1> DEFINE o == [orders[i] EXCEPT !.st = "answered"]
<1>2. o \in OrderType /\ o.kind = orders[i].kind /\ o.arg = orders[i].arg /\ o.st = "answered"
  BY <1>1 DEF OrderType
<1>3. orders' = [orders EXCEPT ![i] = o]
  BY <1>1 DEF CommitOrder
<1> HIDE DEF o
<1>4. orders' \in Seq(OrderType) /\ DOMAIN orders' = DOMAIN orders
  BY <1>2, <1>3, OneOrder DEF MfaInv
<1>5. \A j \in DOMAIN orders : orders'[j] = IF j = i THEN o ELSE orders[j]
  BY <1>1, <1>3
<1>6. orders[i].kind \in Kind /\ orders[i].st = "read"
  BY <1>1 DEF OrderType, CommitOrder
<1>7. account' = NewAccount(i) /\ UNCHANGED <<scanned, wins>>
  BY DEF CommitOrder
<1>8. account \in [secret : Nat, on : BOOLEAN, enforced : BOOLEAN, name : Nat, password : Nat]
  BY DEF MfaInv, ProfileTypes
<1>9. account' \in [secret : Nat, on : BOOLEAN, enforced : BOOLEAN, name : Nat, password : Nat]
  <2>1. orders[i].saw \in BOOLEAN
    BY <1>1 DEF OrderType
  <2>2. QED
    BY <1>1, <1>6, <1>7, <1>8, <2>1 DEF NewAccount, Kind, NoSecret
<1>10. undone' \in BOOLEAN /\ (undone => undone')
  BY DEF CommitOrder, MfaInv, ProfileTypes
\* What changes the secret says so while an enabling is under way.
<1>11. EnablingsAgree'
  <2>1. SUFFICES ASSUME NEW j \in DOMAIN orders, j # i, orders[j].kind = "enable",
                        orders[j].st = "read", ~undone'
                 PROVE  orders[j].arg = account'.secret
    BY <1>2, <1>4, <1>5, <1>6, <1>7, <1>10 DEF MfaInv, EnablingsAgree
  <2>2. BeingSwitchedOn
    BY <2>1 DEF BeingSwitchedOn
  <2>3. orders[i].kind \notin {"setup", "disable"}
    BY <2>1, <2>2 DEF CommitOrder
  <2>4. account'.secret = account.secret
    BY <1>6, <1>7, <1>8, <2>3 DEF NewAccount, Kind
  <2>5. QED
    BY <1>10, <2>1, <2>4 DEF MfaInv, EnablingsAgree
\* What is switched on has the secret of a code that was entered.
<1>12. NotLockedOut'
  <2>1. SUFFICES ASSUME account'.on, ~undone' PROVE account'.secret \in scanned
    BY <1>7 DEF NotLockedOut
  <2>2. orders[i].kind \notin {"setup", "disable"}
    BY <2>1 DEF CommitOrder
  <2>3. account'.secret = account.secret
    BY <1>6, <1>7, <1>8, <2>2 DEF NewAccount, Kind
  <2>4. CASE orders[i].kind = "enable"
    BY <1>6, <1>10, <2>1, <2>3, <2>4 DEF MfaInv, EnablingsAgree
  <2>5. CASE orders[i].kind \in {"password", "profile"}
    <3>1. account'.on = account.on
      BY <1>7, <1>8, <2>5 DEF NewAccount
    <3>2. QED
      BY <1>10, <2>1, <2>3, <3>1 DEF MfaInv, NotLockedOut
  <2>6. QED
    BY <1>6, <2>2, <2>4, <2>5 DEF Kind
<1>13. QED
  BY <1>4, <1>7, <1>9, <1>10, <1>11, <1>12 DEF MfaInv, ProfileTypes

(* The answers.                                                            *)
LEMMA OverMfa ==
  ASSUME MfaInv, NEW i \in DOMAIN orders, AnswerOrder(i) \/ LoseOrder(i)
  PROVE  MfaInv'
<1>1. orders[i] \in OrderType /\ orders \in Seq(OrderType) /\ i \in Nat
  BY DEF MfaInv, ProfileTypes
<1>2. UNCHANGED <<account, scanned, undone>>
  BY DEF AnswerOrder, LoseOrder
<1>3. PICK o \in OrderType : /\ orders' = [orders EXCEPT ![i] = o]
                            /\ o.kind = orders[i].kind /\ o.arg = orders[i].arg /\ o.st = "over"
  <2>1. CASE AnswerOrder(i)
    <3> DEFINE answered == [orders[i] EXCEPT !.st = "over"]
    <3>1. /\ answered \in OrderType /\ answered.kind = orders[i].kind
          /\ answered.arg = orders[i].arg /\ answered.st = "over"
      BY <1>1 DEF OrderType
    <3>2. orders' = [orders EXCEPT ![i] = answered]
      BY <2>1 DEF AnswerOrder
    <3> HIDE DEF answered
    <3>3. QED
      BY <3>1, <3>2
  <2>2. CASE LoseOrder(i)
    <3> DEFINE dropped == [orders[i] EXCEPT !.st = "over", !.lost = TRUE]
    <3>1. /\ dropped \in OrderType /\ dropped.kind = orders[i].kind
          /\ dropped.arg = orders[i].arg /\ dropped.st = "over"
      BY <1>1 DEF OrderType
    <3>2. orders' = [orders EXCEPT ![i] = dropped]
      BY <2>2 DEF LoseOrder
    <3> HIDE DEF dropped
    <3>3. QED
      BY <3>1, <3>2
  <2>3. QED
    BY <2>1, <2>2
<1>4. orders' \in Seq(OrderType) /\ DOMAIN orders' = DOMAIN orders
  BY <1>3, OneOrder DEF MfaInv
<1>5. \A j \in DOMAIN orders : orders'[j] = IF j = i THEN o ELSE orders[j]
  BY <1>1, <1>3
<1>6. EnablingsAgree'
  BY <1>2, <1>3, <1>4, <1>5 DEF MfaInv, EnablingsAgree
<1>7. wins' \in [Window -> [tab : Tab, visit : Nat, setup : Nat, on : BOOLEAN, name : Nat]]
  <2> DEFINE W == [tab : Tab, visit : Nat, setup : Nat, on : BOOLEAN, name : Nat]
  <2>1. wins \in [Window -> W] /\ orders[i].saw \in BOOLEAN
    BY <1>1 DEF MfaInv, ProfileTypes, OrderType
  <2>2. ASSUME NEW u \in W PROVE Stored(u, i) \in W
    BY <1>1, <2>1 DEF Stored
  <2>3. ASSUME NEW u \in W PROVE OnTab(u, i) \in W
    BY <1>1 DEF OnTab, NoSecret
  <2>4. CASE AnswerOrder(i)
    <3>1. wins' = [wins EXCEPT ![orders[i].win] = OnTab(Stored(@, i), i)]
      BY <2>4 DEF AnswerOrder
    <3> HIDE DEF W
    <3>2. ASSUME NEW w \in Window PROVE OnTab(Stored(wins[w], i), i) \in W
      BY <2>1, <2>2, <2>3
    <3>3. QED
      BY <2>1, <3>1, <3>2 DEF W
  <2>5. CASE LoseOrder(i)
    BY <2>1, <2>5 DEF LoseOrder
  <2>6. QED
    BY <2>4, <2>5
<1>8. QED
  BY <1>2, <1>4, <1>6, <1>7 DEF MfaInv, ProfileTypes, NotLockedOut

LEMMA StepMfa == MfaInv /\ [ProfileNext]_profileVars => MfaInv'
<1> SUFFICES ASSUME MfaInv, [ProfileNext]_profileVars PROVE MfaInv'
  OBVIOUS
<1>1. CASE UNCHANGED profileVars
  BY <1>1 DEF profileVars, MfaInv, ProfileTypes, EnablingsAgree, NotLockedOut
<1>2. ASSUME NEW w \in Window,
             (\E t \in Tab : OpenTab(w, t)) \/ RefetchUser(w) \/ Scan(w) \/ CancelSetup(w)
      PROVE  MfaInv'
  BY <1>2, WindowMfa
<1>3. ASSUME NEW w \in Window,
             \/ SaveName(w) \/ PressSetup(w) \/ \E right \in BOOLEAN : PressPassword(w, right)
             \/ \E secret \in scanned : PressEnable(w, secret) \/ PressDisable(w, secret)
      PROVE  MfaInv'
  BY <1>3, PressMfa
<1>4. ASSUME NEW i \in DOMAIN orders,
             ReadAccount(i) \/ CommitOrder(i) \/ AnswerOrder(i) \/ LoseOrder(i)
      PROVE  MfaInv'
  BY <1>4, ReadMfa, CommitMfa, OverMfa
<1>5. QED
  BY <1>1, <1>2, <1>3, <1>4 DEF ProfileNext

(* Whoever has MFA on can sign in: in any number of windows, whatever is   *)
(* scanned, cancelled, retried, lost or answered late, its secret is in    *)
(* the authenticator, unless a setup or a disabling undid it.              *)
THEOREM NobodyLockedOut == ProfileSpec => []NotLockedOut
<1>1. MfaInv => NotLockedOut
  BY DEF MfaInv
<1>2. QED
  BY <1>1, InitMfa, StepMfa, PTL DEF ProfileSpec

-----------------------------------------------------------------------------
(* The name on the page.                                                   *)

IsSave(i) == orders[i].kind = "profile"

\* The saves are those of one window, one after the other, and none was lost.
OneByOne(w) ==
    \A i \in DOMAIN orders : IsSave(i) => orders[i].win = w /\ ~orders[i].lost /\ orders[i].alone

\* What was asked for alone was asked for when its like was over.
AloneIsLast ==
    \A i, j \in DOMAIN orders :
        i < j /\ orders[i].kind = orders[j].kind /\ orders[j].alone => ~Under(i)

OnlyAccepted == \A i \in DOMAIN orders : orders[i].st = "read" => orders[i].ok

\* The name is the server's, or that of the answer that is on its way.
Brought(i) == IsSave(i) /\ orders[i].st = "answered" /\ orders[i].ok

NamesAgree ==
    \A w \in Window : OneByOne(w) =>
        /\ \A i \in DOMAIN orders : Brought(i) => account.name = i
        /\ wins[w].name = account.name \/ \E i \in DOMAIN orders : Brought(i)

NameInv == MfaInv /\ AloneIsLast /\ OnlyAccepted /\ NamesAgree

LEMMA InitName == ProfileInit => NameInv
<1> SUFFICES ASSUME ProfileInit PROVE NameInv
  OBVIOUS
<1>1. MfaInv
  BY InitMfa
<1>2. DOMAIN orders = {}
  BY DEF ProfileInit
<1>3. ASSUME NEW w \in Window PROVE wins[w].name = account.name
  BY DEF ProfileInit
<1>4. QED
  BY <1>1, <1>2, <1>3 DEF NameInv, AloneIsLast, OnlyAccepted, NamesAgree

\* Steps that ask for nothing and answer nothing.
LEMMA NamesKept ==
  ASSUME NameInv, MfaInv', UNCHANGED orders, account'.name = account.name,
         \A w \in Window : wins'[w].name = wins[w].name
  PROVE  NameInv'
BY DEF NameInv, AloneIsLast, OnlyAccepted, NamesAgree, OneByOne, Brought, IsSave, Under

LEMMA WindowName ==
  ASSUME NameInv, MfaInv', NEW w \in Window,
         (\E t \in Tab : OpenTab(w, t)) \/ RefetchUser(w) \/ Scan(w) \/ CancelSetup(w)
  PROVE  NameInv'
<1>1. UNCHANGED <<account, orders>>
  BY DEF OpenTab, RefetchUser, Scan, CancelSetup
<1>2. wins \in [Window -> [tab : Tab, visit : Nat, setup : Nat, on : BOOLEAN, name : Nat]]
  BY DEF NameInv, MfaInv, ProfileTypes
<1>3. ASSUME NEW v \in Window PROVE wins'[v].name = wins[v].name
  <2>1. wins[v] \in [tab : Tab, visit : Nat, setup : Nat, on : BOOLEAN, name : Nat]
    BY <1>2
  <2>2. ASSUME NEW t \in Tab, OpenTab(w, t) PROVE wins'[v].name = wins[v].name
    <3>1. wins' = [[[wins EXCEPT ![w].tab = t] EXCEPT ![w].visit = wins[w].visit + 1]
                     EXCEPT ![w].setup = 0]
      BY <1>2, <2>2 DEF OpenTab, NoSecret
    <3>2. QED
      BY <1>2, <2>1, <3>1
  <2>3. CASE RefetchUser(w)
    BY <1>2, <2>3 DEF RefetchUser
  <2>4. CASE Scan(w) \/ CancelSetup(w)
    BY <1>2, <2>4 DEF Scan, CancelSetup
  <2>5. QED
    BY <2>2, <2>3, <2>4
<1>4. QED
  BY <1>1, <1>3, NamesKept

LEMMA OrderName ==
  ASSUME NameInv, MfaInv', NEW w \in Window, NEW kind \in Kind, NEW arg,
         Order(w, kind, arg), UNCHANGED wins
  PROVE  NameInv'
<1> DEFINE o == [kind |-> kind, win |-> w, visit |-> wins[w].visit, arg |-> arg,
                 st |-> "sent", ok |-> FALSE, saw |-> FALSE, lost |-> FALSE,
                 alone |-> \A i \in DOMAIN orders : Under(i) => orders[i].kind # kind]
<1> DEFINE n == Len(orders) + 1
<1>1. orders \in Seq(OrderType)
  BY DEF NameInv, MfaInv, ProfileTypes
<1>2. orders' = Append(orders, o) /\ account' = account
  BY DEF Order
<1>3. /\ o.kind = kind /\ o.st = "sent"
      /\ o.alone => \A i \in DOMAIN orders : Under(i) => orders[i].kind # kind
  OBVIOUS
<1> HIDE DEF o
<1>4. /\ DOMAIN orders' = DOMAIN orders \cup {n} /\ n \notin DOMAIN orders
      /\ \A i \in DOMAIN orders : orders'[i] = orders[i] /\ i < n
      /\ orders'[n] = o
  BY <1>1, <1>2
<1> HIDE DEF n
<1>5. AloneIsLast'
  <2>1. SUFFICES ASSUME NEW i \in DOMAIN orders', NEW j \in DOMAIN orders',
                        i < j, orders'[i].kind = orders'[j].kind, orders'[j].alone
                 PROVE  orders'[i].st = "over"
    BY DEF AloneIsLast, Under
  <2>2. CASE j \in DOMAIN orders
    <3>1. i \in DOMAIN orders
      BY <1>1, <1>4, <2>1, <2>2
    <3>2. QED
      BY <1>4, <2>1, <2>2, <3>1 DEF NameInv, AloneIsLast, Under
  <2>3. CASE j = n
    <3>1. i \in DOMAIN orders
      BY <1>1, <1>4, <2>1, <2>3 DEF n
    <3>2. QED
      BY <1>3, <1>4, <2>1, <2>3, <3>1 DEF Under
  <2>4. QED
    BY <1>4, <2>2, <2>3
<1>6. OnlyAccepted'
  BY <1>3, <1>4 DEF NameInv, OnlyAccepted
<1>7. \A i \in DOMAIN orders' : Brought(i)' <=> i \in DOMAIN orders /\ Brought(i)
  BY <1>3, <1>4 DEF Brought, IsSave
<1>8. ASSUME NEW v \in Window, OneByOne(v)' PROVE OneByOne(v)
  BY <1>4, <1>8 DEF OneByOne, IsSave
<1>9. NamesAgree'
  BY <1>2, <1>4, <1>7, <1>8 DEF NameInv, NamesAgree
<1>10. QED
  BY <1>5, <1>6, <1>9 DEF NameInv

LEMMA PressName ==
  ASSUME NameInv, MfaInv', NEW w \in Window,
         \/ SaveName(w) \/ PressSetup(w) \/ \E right \in BOOLEAN : PressPassword(w, right)
         \/ \E secret \in scanned : PressEnable(w, secret) \/ PressDisable(w, secret)
  PROVE  NameInv'
<1>1. \E kind \in Kind : \E arg : Order(w, kind, arg) /\ UNCHANGED wins
  <2>1. CASE SaveName(w)
    BY <2>1 DEF SaveName, Kind
  <2>2. CASE PressSetup(w)
    BY <2>2 DEF PressSetup, Kind
  <2>3. ASSUME NEW right \in BOOLEAN, PressPassword(w, right)
        PROVE  Order(w, "password", IF right THEN account.password ELSE MaxOrders + 1) /\ UNCHANGED wins
    BY <2>3 DEF PressPassword
  <2>4. ASSUME NEW secret, PressEnable(w, secret)
        PROVE  Order(w, "enable", secret) /\ UNCHANGED wins
    BY <2>4 DEF PressEnable
  <2>5. ASSUME NEW secret, PressDisable(w, secret)
        PROVE  Order(w, "disable", secret) /\ UNCHANGED wins
    BY <2>5 DEF PressDisable
  <2>6. {"password", "enable", "disable"} \subseteq Kind
    BY DEF Kind
  <2>7. QED
    BY <2>1, <2>2, <2>3, <2>4, <2>5, <2>6
<1>2. QED
  BY <1>1, OrderName

\* A request that moves on, from o to n.
LEMMA OneMoves ==
  ASSUME MfaInv, NEW i \in DOMAIN orders, NEW n, orders' = [orders EXCEPT ![i] = n]
  PROVE  /\ DOMAIN orders' = DOMAIN orders
         /\ \A j \in DOMAIN orders : orders'[j] = IF j = i THEN n ELSE orders[j]
BY DEF MfaInv, ProfileTypes

\* Among saves that were asked for one by one, one at most is under way.
LEMMA OneUnder ==
  ASSUME NameInv, NEW w, OneByOne(w), NEW i \in DOMAIN orders, NEW j \in DOMAIN orders,
         IsSave(i), IsSave(j), Under(i), Under(j)
  PROVE  i = j
<1>1. i \in Nat /\ j \in Nat
  BY DEF NameInv, MfaInv, ProfileTypes
<1>2. ~(i < j) /\ ~(j < i)
  BY DEF NameInv, AloneIsLast, OneByOne, IsSave
<1>3. QED
  BY <1>1, <1>2

LEMMA ReadName ==
  ASSUME NameInv, MfaInv', NEW i \in DOMAIN orders, ReadAccount(i)
  PROVE  NameInv'
<1>1. PICK ok \in Accepts(orders[i]) :
        orders' = [orders EXCEPT ![i].st = IF ok THEN "read" ELSE "answered", ![i].ok = ok,
                                 ![i].saw = account.on]
  BY DEF ReadAccount
<1>2. orders[i] \in OrderType /\ orders \in Seq(OrderType)
  BY DEF NameInv, MfaInv, ProfileTypes
<1> DEFINE n == [orders[i] EXCEPT !.st = IF ok THEN "read" ELSE "answered", !.ok = ok,
                                  !.saw = account.on]
<1>3. orders' = [orders EXCEPT ![i] = n]
  BY <1>1, <1>2
<1>4. /\ n.kind = orders[i].kind /\ n.alone = orders[i].alone /\ n.lost = orders[i].lost
      /\ n.win = orders[i].win /\ n.ok = ok /\ n.st = (IF ok THEN "read" ELSE "answered")
  BY <1>2 DEF OrderType
<1>5. orders[i].st = "sent" /\ UNCHANGED <<account, wins>>
  BY DEF ReadAccount
<1> HIDE DEF n
<1>6. /\ DOMAIN orders' = DOMAIN orders
      /\ \A j \in DOMAIN orders : orders'[j] = IF j = i THEN n ELSE orders[j]
  BY <1>3, OneMoves DEF NameInv
<1>7. AloneIsLast'
  BY <1>4, <1>5, <1>6 DEF NameInv, AloneIsLast, Under
<1>8. OnlyAccepted'
  BY <1>4, <1>6 DEF NameInv, OnlyAccepted
<1>9. \A j \in DOMAIN orders : Brought(j)' <=> Brought(j)
  BY <1>4, <1>5, <1>6 DEF Brought, IsSave
<1>10. \A w \in Window : OneByOne(w)' => OneByOne(w)
  BY <1>4, <1>6 DEF OneByOne, IsSave
<1>11. NamesAgree'
  BY <1>5, <1>6, <1>9, <1>10 DEF NameInv, NamesAgree
<1>12. QED
  BY <1>7, <1>8, <1>11 DEF NameInv

\* The name is set, and the answer of a save brings it.
LEMMA CommitName ==
  ASSUME NameInv, MfaInv', NEW i \in DOMAIN orders, CommitOrder(i)
  PROVE  NameInv'
<1>1. orders[i] \in OrderType /\ orders \in Seq(OrderType)
  BY DEF NameInv, MfaInv, ProfileTypes
<1> DEFINE n == [orders[i] EXCEPT !.st = "answered"]
<1>2. /\ n.kind = orders[i].kind /\ n.alone = orders[i].alone /\ n.lost = orders[i].lost
      /\ n.win = orders[i].win /\ n.ok = orders[i].ok /\ n.st = "answered"
  BY <1>1 DEF OrderType
<1>3. orders' = [orders EXCEPT ![i] = n] /\ UNCHANGED wins /\ orders[i].st = "read"
  BY <1>1 DEF CommitOrder
<1>4. account' = NewAccount(i)
  BY DEF CommitOrder
<1> HIDE DEF n
<1>5. /\ DOMAIN orders' = DOMAIN orders
      /\ \A j \in DOMAIN orders : orders'[j] = IF j = i THEN n ELSE orders[j]
  BY <1>3, OneMoves DEF NameInv
<1>6. AloneIsLast'
  BY <1>2, <1>3, <1>5 DEF NameInv, AloneIsLast, Under
<1>7. OnlyAccepted'
  BY <1>2, <1>5 DEF NameInv, OnlyAccepted
<1>8. \A w \in Window : OneByOne(w)' => OneByOne(w)
  BY <1>2, <1>5 DEF OneByOne, IsSave
<1>9. \A j \in DOMAIN orders : j # i => (Brought(j)' <=> Brought(j))
  BY <1>5 DEF Brought, IsSave
<1>10. ~Brought(i)
  BY <1>3 DEF Brought
<1>11. account \in [secret : Nat, on : BOOLEAN, enforced : BOOLEAN, name : Nat, password : Nat]
       /\ orders[i].kind \in Kind
  BY <1>1 DEF NameInv, MfaInv, ProfileTypes, OrderType
<1>12. CASE IsSave(i)
  <2>1. account'.name = i
    BY <1>4, <1>11, <1>12 DEF NewAccount, IsSave
  <2>2. Brought(i)'
    BY <1>2, <1>3, <1>5, <1>12 DEF NameInv, OnlyAccepted, Brought, IsSave
  <2>3. ASSUME NEW w \in Window, OneByOne(w)', NEW j \in DOMAIN orders, Brought(j)'
        PROVE  j = i
    BY <1>3, <1>8, <1>9, <1>12, <2>3, OneUnder DEF Brought, Under
  <2>4. NamesAgree'
    BY <1>5, <2>1, <2>2, <2>3 DEF NamesAgree
  <2>5. QED
    BY <1>6, <1>7, <2>4 DEF NameInv
<1>13. CASE ~IsSave(i)
  <2>1. account'.name = account.name
    BY <1>4, <1>11, <1>13 DEF NewAccount, IsSave, Kind
  <2>2. ~Brought(i)'
    BY <1>2, <1>5, <1>13 DEF Brought, IsSave
  <2>3. NamesAgree'
    BY <1>3, <1>5, <1>8, <1>9, <1>10, <2>1, <2>2 DEF NameInv, NamesAgree
  <2>4. QED
    BY <1>6, <1>7, <2>3 DEF NameInv
<1>14. QED
  BY <1>12, <1>13

\* What a save brings is stored, on whatever tab its window is by then.
LEMMA AnswerName ==
  ASSUME NameInv, MfaInv', NEW i \in DOMAIN orders, AnswerOrder(i)
  PROVE  NameInv'
<1>1. orders[i] \in OrderType /\ orders \in Seq(OrderType)
  BY DEF NameInv, MfaInv, ProfileTypes
<1> DEFINE n == [orders[i] EXCEPT !.st = "over"]
<1>2. /\ n.kind = orders[i].kind /\ n.alone = orders[i].alone /\ n.lost = orders[i].lost
      /\ n.win = orders[i].win /\ n.ok = orders[i].ok /\ n.st = "over"
  BY <1>1 DEF OrderType
<1>3. orders' = [orders EXCEPT ![i] = n] /\ account' = account /\ orders[i].st = "answered"
  BY <1>1 DEF AnswerOrder
<1> HIDE DEF n
<1>4. /\ DOMAIN orders' = DOMAIN orders
      /\ \A j \in DOMAIN orders : orders'[j] = IF j = i THEN n ELSE orders[j]
  BY <1>3, OneMoves DEF NameInv
<1>5. AloneIsLast'
  BY <1>2, <1>4 DEF NameInv, AloneIsLast, Under
<1>6. OnlyAccepted'
  BY <1>2, <1>4 DEF NameInv, OnlyAccepted
<1>7. \A w \in Window : OneByOne(w)' => OneByOne(w)
  BY <1>2, <1>4 DEF OneByOne, IsSave
<1>8. \A j \in DOMAIN orders : Brought(j)' <=> j # i /\ Brought(j)
  BY <1>2, <1>4 DEF Brought, IsSave
<1>9. ASSUME NEW w \in Window
      PROVE  wins'[w].name = IF w = orders[i].win /\ Brought(i) THEN i ELSE wins[w].name
  <2> DEFINE W == [tab : Tab, visit : Nat, setup : Nat, on : BOOLEAN, name : Nat]
  <2>1. /\ wins \in [Window -> W] /\ i \in Nat
        /\ orders[i].saw \in BOOLEAN
    <3>1. orders[i].saw \in BOOLEAN
      BY <1>1 DEF OrderType
    <3>2. QED
      BY <1>1, <3>1 DEF NameInv, MfaInv, ProfileTypes
  <2>2. ASSUME NEW u \in W
        PROVE  /\ Stored(u, i) \in W
               /\ Stored(u, i).name = IF Brought(i) THEN i ELSE u.name
    BY <1>3, <2>1 DEF Stored, Brought, IsSave
  <2>3. ASSUME NEW u \in W PROVE OnTab(u, i).name = u.name
    BY DEF OnTab
  <2>4. wins' = [wins EXCEPT ![orders[i].win] = OnTab(Stored(@, i), i)]
    BY DEF AnswerOrder
  <2> HIDE DEF W
  <2>5. wins'[w] = IF w = orders[i].win THEN OnTab(Stored(wins[w], i), i) ELSE wins[w]
    BY <2>1, <2>4
  <2>6. QED
    BY <2>1, <2>2, <2>3, <2>5
<1>10. ASSUME NEW w \in Window, OneByOne(w)'
       PROVE  /\ \A j \in DOMAIN orders' : Brought(j)' => account'.name = j
              /\ wins'[w].name = account'.name \/ \E j \in DOMAIN orders' : Brought(j)'
  <2>1. /\ \A j \in DOMAIN orders : Brought(j) => account.name = j
        /\ wins[w].name = account.name \/ \E j \in DOMAIN orders : Brought(j)
    BY <1>7, <1>10 DEF NameInv, NamesAgree
  <2>2. CASE Brought(i)
    BY <1>3, <1>4, <1>7, <1>8, <1>9, <1>10, <2>1, <2>2 DEF OneByOne, Brought
  <2>3. CASE ~Brought(i)
    BY <1>3, <1>4, <1>8, <1>9, <2>1, <2>3
  <2>4. QED
    BY <2>2, <2>3
<1>11. NamesAgree'
  BY <1>10 DEF NamesAgree
<1>12. QED
  BY <1>5, <1>6, <1>11 DEF NameInv

LEMMA LoseName ==
  ASSUME NameInv, MfaInv', NEW i \in DOMAIN orders, LoseOrder(i)
  PROVE  NameInv'
<1>1. orders[i] \in OrderType /\ orders \in Seq(OrderType)
  BY DEF NameInv, MfaInv, ProfileTypes
<1> DEFINE n == [orders[i] EXCEPT !.st = "over", !.lost = TRUE]
<1>2. /\ n.kind = orders[i].kind /\ n.alone = orders[i].alone /\ n.lost
      /\ n.win = orders[i].win /\ n.st = "over"
  BY <1>1 DEF OrderType
<1>3. orders' = [orders EXCEPT ![i] = n] /\ UNCHANGED <<account, wins>>
  BY <1>1 DEF LoseOrder
<1> HIDE DEF n
<1>4. /\ DOMAIN orders' = DOMAIN orders
      /\ \A j \in DOMAIN orders : orders'[j] = IF j = i THEN n ELSE orders[j]
  BY <1>3, OneMoves DEF NameInv
<1>5. AloneIsLast'
  BY <1>2, <1>4 DEF NameInv, AloneIsLast, Under
<1>6. OnlyAccepted'
  BY <1>2, <1>4 DEF NameInv, OnlyAccepted
<1>7. CASE IsSave(i)
  <2>1. \A w \in Window : ~OneByOne(w)'
    BY <1>2, <1>4, <1>7 DEF OneByOne, IsSave
  <2>2. QED
    BY <1>5, <1>6, <2>1 DEF NameInv, NamesAgree
<1>8. CASE ~IsSave(i)
  <2>1. \A j \in DOMAIN orders : Brought(j)' <=> Brought(j)
    BY <1>2, <1>4, <1>8 DEF Brought, IsSave
  <2>2. \A w \in Window : OneByOne(w)' => OneByOne(w)
    BY <1>2, <1>4, <1>8 DEF OneByOne, IsSave
  <2>3. NamesAgree'
    BY <1>3, <1>4, <2>1, <2>2 DEF NameInv, NamesAgree
  <2>4. QED
    BY <1>5, <1>6, <2>3 DEF NameInv
<1>9. QED
  BY <1>7, <1>8

LEMMA StepName == NameInv /\ [ProfileNext]_profileVars => NameInv'
<1> SUFFICES ASSUME NameInv, [ProfileNext]_profileVars PROVE NameInv'
  OBVIOUS
<1>1. MfaInv'
  BY StepMfa DEF NameInv
<1>2. CASE UNCHANGED profileVars
  BY <1>1, <1>2, NamesKept DEF profileVars
<1>3. ASSUME NEW w \in Window,
             (\E t \in Tab : OpenTab(w, t)) \/ RefetchUser(w) \/ Scan(w) \/ CancelSetup(w)
      PROVE  NameInv'
  BY <1>1, <1>3, WindowName
<1>4. ASSUME NEW w \in Window,
             \/ SaveName(w) \/ PressSetup(w) \/ \E right \in BOOLEAN : PressPassword(w, right)
             \/ \E secret \in scanned : PressEnable(w, secret) \/ PressDisable(w, secret)
      PROVE  NameInv'
  BY <1>1, <1>4, PressName
<1>5. ASSUME NEW i \in DOMAIN orders,
             ReadAccount(i) \/ CommitOrder(i) \/ AnswerOrder(i) \/ LoseOrder(i)
      PROVE  NameInv'
  BY <1>1, <1>5, ReadName, CommitName, AnswerName, LoseName
<1>6. QED
  BY <1>2, <1>3, <1>4, <1>5 DEF ProfileNext

(* The name on the page is the server's once nothing is being saved, also  *)
(* when the tab was left before the answer: for any number of windows and  *)
(* saves, of which none overlapped, was lost or came from another window.  *)
THEOREM NameIsShown == ProfileSpec => []ProfileShown
<1>1. NameInv => ProfileShown
  BY DEF NameInv, NamesAgree, ProfileShown, OneByOne, Brought, IsSave, Under
<1>2. QED
  BY <1>1, InitName, StepName, PTL DEF ProfileSpec
=============================================================================
