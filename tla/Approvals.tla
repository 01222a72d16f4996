----------------------------- MODULE Approvals -----------------------------
(* The approval_requests table and the handlers of                          *)
(* api/v1/endpoints/approvals.py, on top of the IP records they act on: the *)
(* sessions of IpRecords also serve the approval endpoints.                 *)
EXTENDS IpRecords

CONSTANTS
    Requests,     \* the tenant and request_type of POST /approvals/ip/{id}/release
    MaxApprovals  \* bound on the requests ever inserted

ASSUME RequestAssumption ==
    /\ MaxApprovals \in Nat
    /\ Requests \subseteq [tenant_id : Tenant, type : {"release", "reallocate"}]

VARIABLES
    approvals,    \* approval_requests: a function from the ids of its rows to them
    nextApproval

approvalVars == <<approvals, nextApproval>>
allVars == <<vars, approvalVars>>

InitApprovals ==
    /\ Init
    /\ approvals = [a \in {} |-> Null]
    /\ nextApproval = 1

-----------------------------------------------------------------------------
(* POST /approvals/ip/{ip_id}/release: the IP, the duplicate check, INSERT *)

\* Mutant: the lookup is by id only.
RequestReadAnyTenant(s) ==
    \E b \in Requests, i \in DOMAIN ips :
        /\ ips[i]["status"] \in Live
        /\ Open(s, "request", [ip |-> i, tenant_id |-> b.tenant_id, type |-> b.type], NoRows, <<>>)
        /\ UNCHANGED <<tables, clock, approvalVars>>

RequestRead(s) ==
    \E b \in Requests, i \in DOMAIN ips :
        /\ ips[i]["tenant_id"] = b.tenant_id
        /\ ips[i]["status"] \in Live
        /\ Open(s, "request", [ip |-> i, tenant_id |-> b.tenant_id, type |-> b.type], NoRows, <<>>)
        /\ UNCHANGED <<tables, clock, approvalVars>>

\* Mutant: a request of another type is no duplicate.
PendingOfType(b) ==
    {a \in DOMAIN approvals : /\ approvals[a].ip = b.ip
                              /\ approvals[a].type = b.type
                              /\ approvals[a].status = "pending"}

\* The rows of the duplicate check: one answers 409, two make
\* scalar_one_or_none raise, and the request rolls back.
Pending(b) ==
    {a \in DOMAIN approvals : /\ approvals[a].tenant_id = b.tenant_id
                              /\ approvals[a].ip = b.ip
                              /\ approvals[a].status = "pending"}

RequestCheck(s) ==
    /\ pc[s] = "request"
    /\ Pending(req[s]) = {}
    /\ pc' = [pc EXCEPT ![s] = "requested"]
    /\ UNCHANGED <<tables, clock, req, loaded, draft, approvalVars>>

\* The foreign key fails if the IP is gone.
RequestCommit(s) ==
    /\ pc[s] = "requested"
    /\ nextApproval <= MaxApprovals
    /\ req[s].ip \in DOMAIN ips
    /\ approvals' = [a \in DOMAIN approvals \cup {nextApproval} |->
                        IF a = nextApproval
                        THEN [ip |-> req[s].ip, tenant_id |-> req[s].tenant_id,
                              type |-> req[s].type, status |-> "pending"]
                        ELSE approvals[a]]
    /\ nextApproval' = nextApproval + 1
    /\ Close(s)
    /\ UNCHANGED <<tables, clock>>

-----------------------------------------------------------------------------
(* POST /approvals/{approval_id}/approve and /reject *)

\* Both handlers read the request and refuse one that is decided.
DecisionRead(s, where) ==
    \E a \in DOMAIN approvals :
        /\ approvals[a].status = "pending"
        /\ Open(s, where, [approval |-> a, row |-> approvals[a]], NoRows, <<>>)
        /\ UNCHANGED <<tables, clock, approvalVars>>

\* The second SELECT, by id; the IP of a release must still be there.
ApproveReadIp(s) ==
    /\ pc[s] = "approve"
    /\ req[s].row.type = "release" => req[s].row.ip \in DOMAIN ips
    /\ pc' = [pc EXCEPT ![s] = "approving"]
    /\ loaded' = [loaded EXCEPT ![s] = [i \in DOMAIN ips \cap {req[s].row.ip} |-> ips[i]]]
    /\ UNCHANGED <<tables, clock, req, draft, approvalVars>>

\* The UPDATE of the request, by id; if it is gone the flush raises.
Decided(s, status) ==
    /\ req[s].approval \in DOMAIN approvals
    /\ approvals' = [approvals EXCEPT ![req[s].approval].status = status]
    /\ UNCHANGED nextApproval

Freed(row) ==
    [row EXCEPT !["status"] = "available", !["assigned_to"] = Null,
                !["expires_at"] = Null]

\* Approving a release frees the IP; approving a reallocation changes no IP.
ApproveCommit(s) ==
    /\ pc[s] = "approving"
    /\ Decided(s, "approved")
    /\ \/ /\ req[s].row.type = "release"
          /\ \E i \in DOMAIN loaded[s] : UpdateRow(i, loaded[s][i], Freed(loaded[s][i]))
       \/ req[s].row.type # "release" /\ UNCHANGED ips
    /\ Close(s)
    /\ UNCHANGED <<bindings, vrfs, subnetVrf, nextId, clock>>

RejectCommit(s) ==
    /\ pc[s] = "reject"
    /\ Decided(s, "rejected")
    /\ Close(s)
    /\ UNCHANGED <<tables, clock>>

-----------------------------------------------------------------------------

\* ON DELETE CASCADE of approval_requests.ip_address_id.
Cascaded(rows) == [a \in {b \in DOMAIN rows : rows[b].ip \in DOMAIN ips'} |-> rows[a]]

\* Every step of IpRecords; its Rollback also ends a handler of this module.
IpStep ==
    /\ Next
    /\ approvals' = Cascaded(approvals)
    /\ UNCHANGED nextApproval

NextApprovals ==
    \/ IpStep
    \/ \E s \in Session :
          \/ RequestRead(s) \/ RequestCheck(s) \/ RequestCommit(s)
          \/ DecisionRead(s, "approve") \/ ApproveReadIp(s) \/ ApproveCommit(s)
          \/ DecisionRead(s, "reject") \/ RejectCommit(s)

SpecApprovals == InitApprovals /\ [][NextApprovals]_allVars

-----------------------------------------------------------------------------
(* Properties *)

\* With any interleaving of deletions, requests and decisions, an approval
\* request names an existing IP of its own tenant: the lookup in the tenant
\* and the foreign key guard the INSERT, the cascade guards the DELETE.
ApprovalsResolve ==
    /\ nextApproval \in Nat \ {0}
    /\ \A a \in DOMAIN approvals :
        /\ a \in 1 .. nextApproval - 1
        /\ approvals[a].status \in {"pending", "approved", "rejected"}
        /\ approvals[a].ip \in DOMAIN ips
        /\ approvals[a].tenant_id = ips[approvals[a].ip]["tenant_id"]

\* An approval writes only the lifecycle columns, and only those of the IP of
\* the request: what other sessions committed to that row between its SELECT
\* and its UPDATE stays.
ApprovalKeeps(s) ==
    \A i \in DOMAIN ips, c \in Columns : ips'[i][c] # ips[i][c] =>
        /\ i = approvals[req[s].approval].ip
        /\ approvals[req[s].approval].type = "release"
        /\ c \in {"status", "assigned_to", "expires_at"}

EveryApprovalKeeps ==
    \A s \in Session : pc[s] = "approving" /\ pc'[s] = "idle" => ApprovalKeeps(s)

ApprovalKeepsOtherColumns == [][EveryApprovalKeeps]_allVars

\* With one request at a time the endpoints implement the workflow.
Queue == INSTANCE ApprovalQueue WITH
    queue <- [a \in DOMAIN approvals |->
                [ip |-> approvals[a].ip, type |-> approvals[a].type,
                 status |-> approvals[a].status]],
    next  <- nextApproval,
    held  <- {i \in DOMAIN ips : ips[i]["status"] \in Live}

ImplementsQueue == Queue!Spec

\* A decision is final: approving or rejecting finds a pending request.
DecisionsStand ==
    \A a \in DOMAIN approvals \cap DOMAIN approvals' :
        approvals[a].status # "pending" => approvals'[a].status = approvals[a].status

DecidedOnce == [][DecisionsStand]_allVars
=============================================================================
