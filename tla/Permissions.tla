---------------------------- MODULE Permissions -----------------------------
(***************************************************************************)
(* Roles: what the API grants each (core/rbac.py and the dependencies of   *)
(* the endpoints), and what the pages offer to the role that the browser   *)
(* has kept.  The store has the user of the last sign-in or profile save;  *)
(* no other answer of the API updates it, so it may be behind the row of   *)
(* the user.  Windows share local storage, but read it only when they load.*)
(*                                                                         *)
(* A need is a pair of an entity and an action on it.                      *)
(***************************************************************************)
EXTENDS Naturals, Sequences

CONSTANTS
    Browser,          \* the windows of one user
    MaxRoles          \* bound on the roles the user has, one after the other

ASSUME PermissionsAssumption == MaxRoles \in Nat \ {0}

ROLE_ORDER == <<"viewer", "operator", "engineer", "admin">>
Role == {ROLE_ORDER[i] : i \in DOMAIN ROLE_ORDER}

Writing == {"create", "update", "delete"}

\* BASE_PERMISSION_MATRIX, but for the reading that every role may do.
BASE_PERMISSION_MATRIX ==
    [viewer |-> {},
     operator |->
        {"subnet", "vlan", "vrf", "ip_range", "asn", "tag", "ip_address", "asset",
         "snmp_credential", "winrm_credential"} \X {"create", "update"}
        \cup {"ip_address", "asset", "snmp_credential", "winrm_credential"} \X {"delete"}
        \cup {<<"site", "update">>, <<"discovery", "run">>, <<"report", "run">>},
     engineer |->
        {"subnet", "ip_address", "asset", "vlan", "vrf", "aggregate", "rir", "ip_range", "asn", "tag",
         "custom_field", "validation_rule", "snmp_credential", "winrm_credential", "webhook"} \X Writing
        \cup {"subnet", "ip_address", "asset"} \X {"approve"}
        \cup {"site", "user"} \X {"create", "update"}
        \cup {<<"discovery", "run">>, <<"discovery", "manage">>, <<"report", "run">>}]

\* A role has the permissions of the roles below it; an admin has them all.
has_permission(role, need) ==
    \/ role = "admin" \/ need[2] = "read"
    \/ \E i \in 1..Len(ROLE_ORDER) - 1 :
          /\ \E j \in i..Len(ROLE_ORDER) - 1 : ROLE_ORDER[j] = role
          /\ need \in BASE_PERMISSION_MATRIX[ROLE_ORDER[i]]

\* What get_current_admin_user guards, whatever the matrix says.
AdminOnly == {"snmp_credential", "winrm_credential", "user", "backup", "release", "audit"}

Allows(role, need) == IF need[1] \in AdminOnly THEN role = "admin" ELSE has_permission(role, need)

-----------------------------------------------------------------------------
(* The pages.                                                              *)

EntityPage ==
    [subnets |-> "subnet", sites |-> "site", vlans |-> "vlan", vrfs |-> "vrf", asns |-> "asn",
     rirs |-> "rir", aggregates |-> "aggregate", ranges |-> "ip_range", ips |-> "ip_address",
     vips |-> "ip_address", tags |-> "tag", fields |-> "custom_field", rules |-> "validation_rule",
     webhooks |-> "webhook", users |-> "user", snmp |-> "snmp_credential", winrm |-> "winrm_credential"]

\* What the pages do that have no entity of their own.
OtherNeeds ==
    [records |-> {"ip_address"} \X {"update", "delete"}, approvals |-> {<<"ip_address", "approve">>},
     assets |-> {<<"discovery", "run">>},
     discovery |-> {"discovery"} \X {"create", "run", "manage", "delete"}
                   \cup {<<"snmp_credential", "read">>},
     dashboard |-> {<<"audit", "read">>}, logs |-> {<<"audit", "read">>},
     backups |-> {"backup"} \X {"create", "restore", "delete"}, update |-> {<<"release", "run">>}]

\* The writes of the pages' buttons, and the reads that not every role may do.
Needs ==
    [p \in DOMAIN EntityPage \cup DOMAIN OtherNeeds |->
        IF p \in DOMAIN EntityPage THEN {EntityPage[p]} \X Writing ELSE OtherNeeds[p]]

\* Mutant: operators count as read-only.
ReadOnlyOperators == {"viewer", "read_only", "read-only", "operator"}

READ_ONLY_ROLES == {"viewer", "read_only", "read-only"}
canWrite(role) == role \notin READ_ONLY_ROLES

\* The items of navConfig with readOnlyVisible: false.
HiddenFromReadOnly == {"approvals", "snmp", "winrm", "users", "rules", "webhooks", "backups", "update"}

visibleSections(role) == DOMAIN Needs \ (IF canWrite(role) THEN {} ELSE HiddenFromReadOnly)

\* A read is done by the page itself, a write takes a button.
Offered(role) ==
    UNION {{n \in Needs[p] : n[2] = "read" \/ canWrite(role)} : p \in visibleSections(role)}

-----------------------------------------------------------------------------
VARIABLES
    roles,     \* the roles of the user, the present one last
    shownAt,   \* of a window: the role in its store, by its place in roles; 0: signed out
    keptAt,    \* the same of local storage
    heardAt    \* the same of an answer with the user that is under way; 0: none

roleVars == <<roles, shownAt, keptAt, heardAt>>

RolesInit ==
    /\ roles \in [1..1 -> Role]
    /\ shownAt = [w \in Browser |-> 0] /\ keptAt = 0
    /\ heardAt = [w \in Browser |-> 0]

\* An admin edits the user.
ChangeRole(r) ==
    /\ Len(roles) < MaxRoles /\ r # roles[Len(roles)]
    /\ roles' = Append(roles, r)
    /\ UNCHANGED <<shownAt, keptAt, heardAt>>

\* login, or update_me, of a window answers with the row of the user.
AnswerUser(w) ==
    /\ heardAt[w] = 0
    /\ heardAt' = [heardAt EXCEPT ![w] = Len(roles)]
    /\ UNCHANGED <<roles, shownAt, keptAt>>

\* login or updateProfile of the store, which persist writes to local storage.
StoreUser(w) ==
    /\ heardAt[w] # 0
    /\ shownAt' = [shownAt EXCEPT ![w] = heardAt[w]] /\ keptAt' = heardAt[w]
    /\ heardAt' = [heardAt EXCEPT ![w] = 0]
    /\ UNCHANGED roles

\* A window that loads again rehydrates its store; what it waited for is lost.
LoadStore(w) ==
    /\ shownAt' = [shownAt EXCEPT ![w] = keptAt] /\ heardAt' = [heardAt EXCEPT ![w] = 0]
    /\ UNCHANGED <<roles, keptAt>>

SignOff(w) ==
    /\ shownAt' = [shownAt EXCEPT ![w] = 0] /\ keptAt' = 0
    /\ heardAt' = [heardAt EXCEPT ![w] = 0]
    /\ UNCHANGED roles

RolesNext ==
    \/ \E r \in Role : ChangeRole(r)
    \/ \E w \in Browser : AnswerUser(w) \/ StoreUser(w) \/ LoadStore(w) \/ SignOff(w)

RolesSpec == RolesInit /\ [][RolesNext]_roleVars

-----------------------------------------------------------------------------
RolesTypeOK ==
    /\ Len(roles) \in 1..MaxRoles /\ \A i \in DOMAIN roles : roles[i] \in Role
    /\ \A w \in Browser : shownAt[w] \in 0..Len(roles) /\ heardAt[w] \in 0..Len(roles)
    /\ keptAt \in 0..Len(roles)

\* The role a window goes by is the one the API goes by.
UpToDate(w) == shownAt[w] # 0 /\ roles[shownAt[w]] = roles[Len(roles)]

\* What discovery, dashboard and audit log ask for whoever looks at them.
AskedAnyway == {"snmp_credential", "audit"} \X {"read"}

\* Buttons that roles the user dialog cannot give have, and no permission for.
OverOffered(role) ==
    CASE role = "engineer" ->
            {"snmp_credential", "winrm_credential", "user"} \X Writing
            \cup {"backup"} \X {"create", "restore", "delete"}
            \cup {<<"release", "run">>, <<"site", "delete">>, <<"discovery", "create">>,
                  <<"discovery", "delete">>}
      [] role = "operator" ->
            {"snmp_credential", "winrm_credential", "user", "aggregate", "rir", "custom_field",
             "validation_rule", "webhook"} \X Writing
            \cup {"backup"} \X {"create", "restore", "delete"}
            \cup {"subnet", "vlan", "vrf", "ip_range", "asn", "tag", "site"} \X {"delete"}
            \cup {<<"release", "run">>, <<"site", "create">>, <<"ip_address", "approve">>,
                  <<"discovery", "create">>, <<"discovery", "manage">>, <<"discovery", "delete">>}
      [] OTHER -> {}

(* The matrix, the guards of the endpoints, the links hidden from          *)
(* read-only roles and the roles that count as such agree: a window that   *)
(* is up to date hides no write its role may do, and offers nothing the    *)
(* API refuses but the reads and the buttons named above.  Other refusals  *)
(* come from a role that changed after the window heard of it.             *)
OfferedAsAllowed ==
    \A w \in Browser : UpToDate(w) =>
        LET role == roles[shownAt[w]] IN
        /\ \A p \in DOMAIN Needs : \A n \in Needs[p] :
               n[2] # "read" /\ Allows(role, n) => n \in Offered(role)
        /\ {n \in Offered(role) : ~Allows(role, n)} \subseteq AskedAnyway \cup OverOffered(role)
=============================================================================
