---------------------------- MODULE MCApprovals ----------------------------
(* Instances of Approvals for TLC: one subnet per tenant, both ::/126      *)
(* (addresses 0..3; every one but the first is a host), in a VRF or in the *)
(* global table.  Address 1 has a second spelling.                         *)
EXTENDS Approvals, TLC

CONSTANTS s1, s2, t1, t2, v1, n1, n2, o1, keepalived

MCNetwork == [n \in Subnet |-> 0..3]
MCHosts == [n \in Subnet |-> 1..3]
MCCanon == <<"::1", "::2", "::3">> @@ (0 :> "::")
MCText == {"::", "::1", "::2", "::3", "0::1"}
MCParsed == [t \in MCText |-> IF t = "0::1" THEN 1 ELSE CHOOSE a \in 0..3 : MCCanon[a] = t]
MCTenantOf == [n \in Subnet |-> IF n = n1 THEN t1 ELSE t2]
GatewayOne == [n \in Subnet |-> "::1"]
GatewayNull == [n \in Subnet |-> Null]

Row(n, a, vrf, status, until) ==
    [tenant_id |-> MCTenantOf[n], address |-> a, subnet_id |-> n, vrf_id |-> vrf,
     status |-> status, expires_at |-> until, assigned_to |-> Null,
     is_vip |-> FALSE, vip_type |-> Null]

VipRow(n, a, vrf) ==
    [Row(n, a, vrf, "reserved", Null) EXCEPT !.is_vip = TRUE, !.vip_type = keepalived]

Body(row, nodes) == [row |-> row, nodes |-> nodes]
Put(t, set, nodes) == [tenant_id |-> t, set |-> set, nodes |-> nodes]

Promote == ("is_vip" :> TRUE) @@ ("vip_type" :> keepalived)
ReleaseOf(tenants) == [tenant_id : tenants, type : {"release"}]

\* Two sessions that serve requests or clean up: VIPs bound to nodes of either
\* tenant, a move into the VRF with a lease that expires, requests of either
\* tenant.
ConcurrentCreates ==
    {Body(VipRow(n1, "::2", Null), {1}), Body(Row(n1, "::1", v1, "available", Null), {}),
     Body(Row(n2, "::1", v1, "available", Null), {})}
ConcurrentUpdates ==
    {Put(t1, Promote, {1, 2}),
     Put(t1, [vrf_id |-> v1, status |-> "allocated", expires_at |-> 0], Null)}
ConcurrentRequests == ReleaseOf({t1, t2})

\* The sessions and nothing else of the instance tell s1 from s2.
Alike == Permutations({s1, s2})

\* An IP in use, changed by other sessions while two of them decide its release.
OneCreate == {Body(Row(n1, "::1", v1, "reserved", Null), {})}
DecisionUpdates ==
    {Put(t1, ("status" :> "available"), Null), Put(t1, ("status" :> "allocated"), Null),
     Put(t1, Promote, Null)}

\* One request at a time: two IPs, a lease that expires, requests of both types.
SerialCreates == {Body(Row(n1, "::1", v1, "allocated", 0), {}), Body(Row(n1, "::2", v1, "reserved", Null), {})}
SerialUpdates == {Put(t1, ("status" :> "available"), Null), Put(t1, ("status" :> "reserved"), Null)}
SerialRequests == [tenant_id : {t1}, type : {"release", "reallocate"}]
=============================================================================
