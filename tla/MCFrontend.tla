----------------------------- MODULE MCFrontend -----------------------------
(* Instances of Frontend for TLC.                                          *)
EXTENDS Frontend, TLC

CONSTANTS u1, u2

\* A mutation and a query it writes or invalidates, or one that shows work.
MCPairs == {p \in Query \X Mutations :
               Affects(p[2], p[1]) \/ Matches(p[2], p[1]) \/ p[1] \in PolledWhileBusy}

\* A page with dialogs, one with buttons that write at once, and one with tabs.
MCPages == {SitesPage, DiscoveryPage, ApprovalsPage}
MCIpsPage == {IpsPage}

MCSearched == {AssetsPage, SystemLogsView, UserActionsView, AuditPage, GlobalSearch}

\* The longer the word, the fewer the rows; one option lets through some.
MCHits == [k \in {"", "x", "ab"} \X {"all", "one"} |->
              (CASE k[1] = "" -> {1, 2, 3} [] k[1] = "x" -> {1, 2} [] OTHER -> {1})
              \cap IF k[2] = "all" THEN {1, 2, 3} ELSE {1, 3}]

MCForms == DOMAIN Dialog

\* The windows of a user are alike; for invariants and action properties.
Alike == Permutations({u1, u2})
=============================================================================
