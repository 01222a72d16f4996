------------------------------- MODULE Hooks -------------------------------
(***************************************************************************)
(* hooks/api/index.ts: the queries of the frontend, by key, with the       *)
(* server's tables each one reads, and the mutations with the tables they  *)
(* write, what their onSuccess invalidates (a prefix of keys) and what it  *)
(* sets.  Which tables an endpoint reads and writes, the rows that foreign *)
(* keys delete or clear included, is that of the backend.                  *)
(***************************************************************************)
EXTENDS Naturals, Sequences

Reading(key, tables) == [key |-> key, tables |-> tables]

Mutation(key, writes, invalidates) ==
    [key |-> key, writes |-> writes, invalidates |-> invalidates, sets |-> {}]

Sets(key, writes, keys) == [key |-> key, writes |-> writes, invalidates |-> {}, sets |-> keys]

\* Create, update and delete of one table; a deletion may reach others.
Crud(entity, base, root, cascade) ==
    {Mutation(<<"create", entity>>, {base}, {<<root>>}),
     Mutation(<<"update", entity>>, {base}, {<<root>>}),
     Mutation(<<"delete", entity>>, {base} \cup cascade, {<<root>>})}

ListOf(root, tables) == {Reading(<<root, "list">>, tables)}

-----------------------------------------------------------------------------
AuthHooks ==
    [reads |-> {Reading(<<"auth", "user">>, {"users"})},
     mutations |-> {Mutation(<<"login">>, {"users"}, {<<"auth">>}),
                    Sets(<<"update", "profile">>, {"users"}, {<<"auth", "user">>}),
                    Mutation(<<"mfa", "setup">>, {"users"}, {}),
                    Mutation(<<"mfa", "enable">>, {"users"}, {<<"auth", "user">>}),
                    Mutation(<<"mfa", "disable">>, {"users"}, {<<"auth", "user">>})}]

\* Mutant: the mutations of sites invalidate the VLANs.
SiteHooksWrongKey ==
    [reads |-> ListOf("sites", {"sites"}),
     mutations |-> Crud("site", "sites", "vlans", {"vlans", "subnets", "asns"})]

SiteHooks ==
    [reads |-> ListOf("sites", {"sites"}),
     mutations |-> Crud("site", "sites", "sites", {"vlans", "subnets", "asns"})]

VlanHooks ==
    [reads |-> ListOf("vlans", {"vlans"}),
     mutations |-> Crud("vlan", "vlans", "vlans", {"subnets"})]

SubnetHooks ==
    [reads |-> {Reading(<<"subnets", k>>, {"subnets"}) : k \in {"list", "detail", "tree"}},
     mutations |-> Crud("subnet", "subnets", "subnets", {"ips", "scans", "ranges", "approvals"})]

\* useIpAddresses and the other IP queries; a usage counts the IPs of a subnet.
IpHooks ==
    [reads |-> {Reading(<<"ip-addresses", k>>, {"ips"}) : k \in {"list", "detail", "by-address"}}
               \cup {Reading(<<"ip-addresses", "records">>, {"ips", "subnets", "vrfs"}),
                     Reading(<<"ip-addresses", "usage">>, {"ips", "subnets"})},
     mutations |-> {Mutation(<<"create", "ip">>, {"ips"}, {<<"ip-addresses">>, <<"subnets">>}),
                    Mutation(<<"update", "ip">>, {"ips"}, {<<"ip-addresses">>}),
                    Mutation(<<"delete", "ip">>, {"ips", "approvals"},
                             {<<"ip-addresses">>, <<"subnets">>}),
                    Mutation(<<"allocate", "ip">>, {"ips"}, {<<"ip-addresses">>, <<"subnets">>})}]

DiscoveryHooks ==
    [reads |-> {Reading(<<"discovery", k>>, {"scans"}) : k \in {"list", "latest"}},
     mutations |-> {Mutation(<<v, "scan">>, {"scans"}, {<<"discovery">>}) :
                       v \in {"create", "cancel", "delete", "run"}}]

ReportHooks ==
    [reads |-> {Reading(<<"reports", "dashboard">>, {"sites", "vlans", "subnets", "ips"}),
                Reading(<<"reports", "utilization">>, {"subnets", "ips"}),
                Reading(<<"reports", "ip-history">>, {"ips"}),
                Reading(<<"health", "status">>, {}), Reading(<<"health", "db">>, {})},
     mutations |-> {}]

\* Users, the self update, and the two kinds of credentials.
AdminHooks ==
    [reads |-> {Reading(<<"admin", "users">>, {"users"}),
                Reading(<<"admin", "update", "status">>, {"update"})},
     mutations |-> {Mutation(<<"create", "user">>, {"users"}, {<<"admin", "users">>}),
                    Mutation(<<"update", "user">>, {"users"}, {<<"admin", "users">>}),
                    Mutation(<<"delete", "user">>, {"users", "approvals"}, {<<"admin", "users">>}),
                    Sets(<<"check", "update">>, {"update"}, {<<"admin", "update", "status">>}),
                    Mutation(<<"run", "update">>, {"update"}, {<<"admin", "update", "status">>})}]

CredentialHooks ==
    [reads |-> ListOf("snmp-credentials", {"snmp"}) \cup ListOf("winrm-credentials", {"winrm"}),
     mutations |-> Crud("snmp", "snmp", "snmp-credentials", {})
                   \cup Crud("winrm", "winrm", "winrm-credentials", {})]

\* The audit log is written by nearly every mutation; it is polled or aged.
AuditHooks ==
    [reads |-> {Reading(<<"map", "data">>, {"sites", "subnets", "vlans"})}
               \cup {Reading(<<"audit", k>>, {"audit"}) : k \in {"list", "recent", "types", "actions"}},
     mutations |-> {}]

\* A creation and a restore are accepted and queued; a creation invalidates
\* once, 15 s later.
BackupHooks ==
    [reads |-> {Reading(<<"backups">>, {"backups"})},
     mutations |-> {Mutation(<<"create", "backup">>, {}, {<<"backups">>}),
                    Mutation(<<"delete", "backup">>, {"backups"}, {<<"backups">>}),
                    Mutation(<<"restore", "backup">>, {}, {<<"backups">>})}]

LogHooks ==
    [reads |-> {Reading(<<"system-logs", k>>, {"logs"}) :
                   k \in {"list", "levels", "categories", "sources"}},
     mutations |-> {}]

AssetHooks ==
    [reads |-> {Reading(<<"assets", k>>, {"assets"}) : k \in {"list", "detail"}},
     mutations |-> {Mutation(<<"run", "discovery">>, {"scans"}, {<<"assets">>})}]

VrfHooks ==
    [reads |-> ListOf("vrfs", {"vrfs"}),
     mutations |-> Crud("vrf", "vrfs", "vrfs", {"subnets", "ips"})]

RirHooks ==
    [reads |-> ListOf("rirs", {"rirs"}),
     mutations |-> Crud("rir", "rirs", "rirs", {"aggregates", "asns"})]

AggregateHooks ==
    [reads |-> ListOf("aggregates", {"aggregates"})
               \cup {Reading(<<"aggregates", "usage">>, {"aggregates", "subnets"})},
     mutations |-> Crud("aggregate", "aggregates", "aggregates", {})]

IpRangeHooks ==
    [reads |-> ListOf("ip-ranges", {"ranges"}),
     mutations |-> Crud("range", "ranges", "ip-ranges", {})]

AsnHooks ==
    [reads |-> ListOf("asns", {"asns"}), mutations |-> Crud("asn", "asns", "asns", {})]

TagHooks ==
    [reads |-> ListOf("tags", {"tags"}), mutations |-> Crud("tag", "tags", "tags", {})]

CustomFieldHooks ==
    [reads |-> ListOf("custom-fields", {"customFields"}),
     mutations |-> Crud("customField", "customFields", "custom-fields", {})]

ValidationRuleHooks ==
    [reads |-> ListOf("validation-rules", {"rules"}),
     mutations |-> Crud("rule", "rules", "validation-rules", {})]

\* An approved request releases its IP.
ApprovalHooks ==
    [reads |-> ListOf("approvals", {"approvals"}),
     mutations |-> {Mutation(<<"request", "approval">>, {"approvals"}, {<<"approvals">>}),
                    Mutation(<<"approve", "approval">>, {"approvals", "ips"}, {<<"approvals">>}),
                    Mutation(<<"reject", "approval">>, {"approvals"}, {<<"approvals">>})}]

WebhookHooks ==
    [reads |-> ListOf("webhooks", {"webhooks"}),
     mutations |-> Crud("webhook", "webhooks", "webhooks", {})]

SearchHooks ==
    [reads |-> {Reading(<<"search">>, {"sites", "vlans", "subnets", "ips", "vrfs"})},
     mutations |-> {}]

-----------------------------------------------------------------------------
Hooks == {AuthHooks, SiteHooks, VlanHooks, SubnetHooks, IpHooks, DiscoveryHooks, ReportHooks,
          AdminHooks, CredentialHooks, AuditHooks, BackupHooks, LogHooks, AssetHooks, VrfHooks,
          RirHooks, AggregateHooks, IpRangeHooks, AsnHooks, TagHooks, CustomFieldHooks,
          ValidationRuleHooks, ApprovalHooks, WebhookHooks, SearchHooks}

Readings == UNION {h.reads : h \in Hooks}
Query == {r.key : r \in Readings}
Reads(q) == (CHOOSE r \in Readings : r.key = q).tables

Mutating == UNION {h.mutations : h \in Hooks}
Mutations == {d.key : d \in Mutating}
Does(m) == CHOOSE d \in Mutating : d.key = m

\* invalidateQueries matches every key that begins with the given one.
Begins(p, q) == Len(p) <= Len(q) /\ \A i \in 1 .. Len(p) : q[i] = p[i]
Matches(m, q) == \E p \in Does(m).invalidates : Begins(p, q)
Affects(m, q) == Does(m).writes \cap Reads(q) # {}

\* refetchInterval: of any data, or only while the data is of work under way.
PolledAlways == {<<"health", "status">>, <<"health", "db">>, <<"audit", "recent">>,
                 <<"admin", "update", "status">>}
PolledWhileBusy == {<<"discovery", "list">>}
=============================================================================
