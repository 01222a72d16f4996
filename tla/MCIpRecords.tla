---------------------------- MODULE MCIpRecords ----------------------------
(* Instances of IpRecords for TLC: one subnet per tenant, both ::/126      *)
(* (addresses 0..3; every one but the first is a host), in a VRF or in the *)
(* global table.  Address 1 has a second spelling.                         *)
EXTENDS IpRecords, TLC

CONSTANTS t1, t2, v1, n1, n2, o1, keepalived

MCNetwork == [n \in Subnet |-> 0..3]
MCHosts == [n \in Subnet |-> 1..3]
MCCanon == <<"::1", "::2", "::3">> @@ (0 :> "::")
MCText == {"::", "::1", "::2", "::3", "0::1"}
MCParsed == [t \in MCText |-> IF t = "0::1" THEN 1 ELSE CHOOSE a \in 0..3 : MCCanon[a] = t]
MCTenantOf == [n \in Subnet |-> IF n = n1 THEN t1 ELSE t2]
GatewayOne == [n \in Subnet |-> "::1"]
GatewayNull == [n \in Subnet |-> Null]

Row(n, a, vrf, status) ==
    [tenant_id |-> MCTenantOf[n], address |-> a, subnet_id |-> n, vrf_id |-> vrf,
     status |-> status, expires_at |-> Null, assigned_to |-> Null,
     is_vip |-> FALSE, vip_type |-> Null]

VipRow(n, a, vrf) ==
    [Row(n, a, vrf, "reserved") EXCEPT !.is_vip = TRUE, !.vip_type = keepalived]

Body(row, nodes) == [row |-> row, nodes |-> nodes]
Put(t, set, nodes) == [tenant_id |-> t, set |-> set, nodes |-> nodes]

Demote == ("is_vip" :> FALSE)
Promote == ("is_vip" :> TRUE) @@ ("vip_type" :> keepalived)
Lease(until) == ("status" :> "allocated") @@ ("expires_at" :> until)

\* Two sessions: VIPs bound to nodes of either tenant, moves between VRFs,
\* releases.
ConcurrentCreates == {Body(VipRow(n1, "::2", Null), {1}), Body(Row(n2, "::1", v1, "available"), {})}
ConcurrentBulks == {<<Row(n1, "::1", v1, "available"), Row(n1, "::2", v1, "available")>>}
ConcurrentUpdates ==
    {Put(t1, Promote, {1, 2}), Put(t1, Demote, Null),
     Put(t1, ("vrf_id" :> v1) @@ ("status" :> "allocated"), Null)}

\* One request at a time, or one beside the cleanup: every kind of body.
SerialCreates == {Body(VipRow(n1, "::2", Null), {1}), Body(Row(n1, "::1", Null, "reserved"), {}),
                  Body(Row(n1, "0::1", v1, "reserved"), {})}
SerialBulks == {<<Row(n1, "::1", v1, "available"), Row(n1, "::1", v1, "available")>>,
                <<Row(n1, "::1", Null, "available")>>}
SerialUpdates ==
    {Put(t1, Promote, {1}), Put(t1, Demote, Null), Put(t1, Lease(0), Null),
     Put(t1, Lease(1), Null), Put(t1, [c \in {} |-> Null], {2}),
     Put(t1, ("vip_type" :> Null), Null), Put(t1, ("status" :> Null), Null),
     Put(t1, ("status" :> "unused"), Null)}
=============================================================================
