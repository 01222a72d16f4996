-------------------------------- MODULE Pages --------------------------------
(***************************************************************************)
(* The pages of the frontend that list rows: the query each one lists, the *)
(* other lists whose names its columns and its dialogs show, the dialogs   *)
(* that write, the buttons that write at once, and the inputs that narrow  *)
(* the list.  A list is fetched at once and paged in the browser, although *)
(* most endpoints list 50 rows unless they are asked for more.             *)
(***************************************************************************)
EXTENDS Hooks

\* The dialogs that create, edit and delete.
CrudDialogs(entity) == [v \in {"create", "update", "delete"} |-> <<v, entity>>]

\* A page with a search box and the dialogs create, edit and delete.
ListPage(entity, root, joins) ==
    [lists |-> <<root, "list">>, joins |-> joins,
     writes |-> CrudDialogs(entity),
     atOnce |-> {},                \* verbs of the buttons without a dialog
     narrows |-> {"search"},       \* the inputs that choose among the rows
     resets |-> {"search"},        \* those that go back to the first page
     asks |-> {},                  \* those that are parameters of the call
     limited |-> TRUE,             \* the endpoint has a limit, the call names none
     oneDialog |-> FALSE]          \* one state holds whatever dialog is open

Sites == <<"sites", "list">>
Vlans == <<"vlans", "list">>
Subnets == <<"subnets", "list">>
Rirs == <<"rirs", "list">>
Tags == <<"tags", "list">>

SitesPage == ListPage("site", "sites", {})
VlansPage == ListPage("vlan", "vlans", {Sites})
SubnetsPage == ListPage("subnet", "subnets", {Sites, Vlans})

\* Their endpoints list every row.
SnmpProfilesPage == [ListPage("snmp", "snmp-credentials", {}) EXCEPT !.limited = FALSE]
WinrmProfilesPage == [ListPage("winrm", "winrm-credentials", {}) EXCEPT !.limited = FALSE]
UsersTab ==
    [ListPage("user", "users", {}) EXCEPT !.lists = <<"admin", "users">>, !.limited = FALSE]

\* The users of components/ui/CrudPage.tsx.
TagsPage == ListPage("tag", "tags", {})
VrfsPage == ListPage("vrf", "vrfs", {})
RirsPage == ListPage("rir", "rirs", {})
AggregatesPage == ListPage("aggregate", "aggregates", {Rirs})
IpRangesPage == ListPage("range", "ip-ranges", {Subnets})
AsnsPage == ListPage("asn", "asns", {Rirs, Sites})
CustomFieldsPage == ListPage("customField", "custom-fields", {})
ValidationRulesPage == ListPage("rule", "validation-rules", {})
WebhooksPage == ListPage("webhook", "webhooks", {})

\* The VIPs among the addresses; the dialogs are those of the IP page.
VirtualIpsPage == ListPage("ip", "ip-addresses", {Subnets})

\* Bulk edits of the selection are in BulkEdits.
IpsPage ==
    [ListPage("ip", "ip-addresses", {Subnets, <<"discovery", "latest">>})
     EXCEPT !.writes = [v \in {"create", "update", "delete", "allocate"} |-> <<v, "ip">>],
            !.narrows = {"search", "status", "subnet", "vip"},
            !.resets = {"search", "status", "subnet", "vip"}]

IpamRecordsPage ==
    [ListPage("ip", "ip-addresses", {<<"custom-fields", "list">>, Tags, Subnets, <<"vrfs", "list">>})
     EXCEPT !.lists = <<"ip-addresses", "records">>, !.limited = FALSE,
            !.writes = [v \in {"update"} |-> <<v, "ip">>],
            !.narrows = {"search", "status"}, !.resets = {"search", "status"}]

\* "Run Now" and "Cancel" write without a dialog.
ScanWrites == [v \in {"create", "delete", "run", "cancel"} |-> <<v, "scan">>]

DiscoveryPage ==
    [ListPage("scan", "discovery", {Subnets, <<"snmp-credentials", "list">>})
     EXCEPT !.writes = ScanWrites,
            !.atOnce = {"run", "cancel"}, !.narrows = {}, !.resets = {}]

\* One modal decides either way.
DecisionModal == [v \in {"approve", "reject"} |-> <<v, "approval">>]

\* A tab is a list of its own and keeps the page number; decision holds the
\* dialog of either verb.
ApprovalsPage ==
    [ListPage("approval", "approvals", {})
     EXCEPT !.writes = DecisionModal,
            !.narrows = {"tab"}, !.resets = {}, !.asks = {"tab"}, !.oneDialog = TRUE]

-----------------------------------------------------------------------------
CrudPages == {TagsPage, VrfsPage, RirsPage, AggregatesPage, IpRangesPage, AsnsPage,
              CustomFieldsPage, ValidationRulesPage, WebhooksPage}

Page == CrudPages \cup
    {SitesPage, VlansPage, SubnetsPage, SnmpProfilesPage, WinrmProfilesPage, UsersTab,
     VirtualIpsPage, IpsPage, IpamRecordsPage, DiscoveryPage, ApprovalsPage}

Verbs(p) == DOMAIN p.writes

\* The query and the mutation are those of one page.
OnOnePage(q, m) ==
    \E p \in Page : q \in {p.lists} \cup p.joins /\ \E v \in Verbs(p) : p.writes[v] = m
=============================================================================
