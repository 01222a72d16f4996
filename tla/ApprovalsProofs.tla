--------------------------- MODULE ApprovalsProofs ---------------------------
(***************************************************************************)
(* Proofs about Approvals, for any number of sessions, tenants, IPs and     *)
(* requests: an approval names an existing IP of its own tenant and loses   *)
(* no update.  With one request at a time the endpoints implement           *)
(* ApprovalQueue, and so keep what that workflow promises.                  *)
(***************************************************************************)
EXTENDS Approvals, IpRecordsProofs

RowsTyped ==
    /\ nextId \in Nat
    /\ \A i \in DOMAIN ips : i \in Nat /\ i < nextId /\ IsRow(ips[i])
    /\ \A n \in Subnet : subnetVrf[n] \in Vrf \cup {Null}

\* The sessions of IpRecords, which may also serve an approval endpoint.
SessionsTyped ==
    /\ pc = [s \in Actor |-> pc[s]] /\ req = [s \in Actor |-> req[s]]
    /\ loaded = [s \in Actor |-> loaded[s]]
    /\ draft \in [Actor -> Seq(NewRows)]
    /\ \A s \in Actor :
        /\ pc[s] = "bulk" => req[s] \in Bulks
        /\ pc[s] = "update" => req[s] \in Updates
        /\ \A i \in DOMAIN loaded[s] : IsRow(loaded[s][i])

Asking(s) == pc[s] \in {"request", "requested"}

\* The IP that a request for release has found belongs to its tenant for as
\* long as it exists, and its id is never given to another.
RequestsAgree ==
    \A s \in Actor : Asking(s) =>
        /\ req[s].ip \in Nat /\ req[s].ip < nextId
        /\ req[s].ip \in DOMAIN ips => ips[req[s].ip]["tenant_id"] = req[s].tenant_id

AInv == RowsTyped /\ SessionsTyped /\ RequestsAgree /\ ApprovalsResolve

\* A step of IpRecords neither starts nor changes a request for release.
RequestsKept == \A s \in Actor : Asking(s)' => Asking(s) /\ req'[s] = req[s]

-----------------------------------------------------------------------------
(* Sessions                                                                *)

LEMMA ClosedTyped ==
    ASSUME SessionsTyped, NEW s \in Actor, Close(s)
    PROVE  SessionsTyped' /\ RequestsKept
  <1>1. /\ \A t \in Actor \ {s} : /\ pc'[t] = pc[t] /\ req'[t] = req[t]
                                  /\ loaded'[t] = loaded[t] /\ draft'[t] = draft[t]
        /\ pc'[s] = "idle" /\ loaded'[s] = NoRows
    BY DEF Close, SessionsTyped
  <1>2. DOMAIN NoRows = {}
    BY DEF NoRows
  <1>3. <<>> \in Seq(NewRows)
    OBVIOUS
  <1>4. draft' \in [Actor -> Seq(NewRows)]
    BY <1>3 DEF Close, SessionsTyped
  <1>5. QED
    BY <1>1, <1>2, <1>4 DEF Close, SessionsTyped, RequestsKept, Asking

\* A handler that starts with a body of its kind and with rows.
Starts(s) ==
    /\ pc' = [pc EXCEPT ![s] = pc'[s]]
    /\ req' = [req EXCEPT ![s] = req'[s]]
    /\ loaded' = [loaded EXCEPT ![s] = loaded'[s]]
    /\ draft' = [draft EXCEPT ![s] = draft'[s]]
    /\ pc'[s] = "bulk" => req'[s] \in Bulks
    /\ pc'[s] = "update" => req'[s] \in Updates
    /\ draft'[s] \in Seq(NewRows)
    /\ \A i \in DOMAIN loaded'[s] : IsRow(loaded'[s][i])

LEMMA StartedTyped ==
    ASSUME SessionsTyped, NEW s \in Actor, Starts(s)
    PROVE  /\ SessionsTyped'
           /\ pc'[s] \notin {"request", "requested"} => RequestsKept
  <1>1. \A t \in Actor \ {s} : /\ pc'[t] = pc[t] /\ req'[t] = req[t]
                               /\ loaded'[t] = loaded[t] /\ draft'[t] = draft[t]
    BY DEF Starts, SessionsTyped
  <1>2. draft' \in [Actor -> Seq(NewRows)]
    BY DEF Starts, SessionsTyped
  <1>3. SessionsTyped'
    BY <1>1, <1>2 DEF Starts, SessionsTyped
  <1>4. QED
    BY <1>1, <1>3 DEF RequestsKept, Asking

-----------------------------------------------------------------------------
(* The steps of IpRecords: rows keep their tenant.                         *)

\* What a step of IpRecords must keep for the approvals to resolve.
StepKeeps == RowsTyped' /\ KeepsTenants /\ SessionsTyped' /\ RequestsKept

LEMMA SameTables ==
    ASSUME RowsTyped, UNCHANGED tables
    PROVE  RowsTyped' /\ KeepsTenants
  BY DEF RowsTyped, KeepsTenants, tables

LEMMA InsertKeeps ==
    ASSUME RowsTyped, SessionsTyped, NEW s \in Actor, NEW bs, Insert(s, bs)
    PROVE  StepKeeps
  <1> DEFINE n == Len(draft[s])
  <1>1. draft[s] \in Seq(NewRows) /\ n \in Nat /\ nextId \in Nat
    BY DEF SessionsTyped, RowsTyped
  <1>2. \A k \in 1..n : IsRow(draft[s][k])
    BY <1>1, NewRowsAreRows
  <1>3. /\ ips' = [i \in DOMAIN ips \cup (nextId .. nextId + n - 1) |->
                     IF i \in DOMAIN ips THEN ips[i] ELSE draft[s][i - nextId + 1]]
        /\ nextId' = nextId + n /\ Close(s) /\ UNCHANGED subnetVrf
    BY DEF Insert
  <1> HIDE DEF n
  <1>4. RowsTyped'
    BY <1>1, <1>2, <1>3 DEF RowsTyped
  <1>5. KeepsTenants
    BY <1>1, <1>3 DEF RowsTyped, KeepsTenants
  <1>6. QED
    BY <1>3, <1>4, <1>5, ClosedTyped DEF StepKeeps

LEMMA CreationKeeps ==
    ASSUME RowsTyped, SessionsTyped, NEW s \in Actor,
           \/ CreateCheck(s) \/ CreateCommit(s) \/ BulkStart(s) \/ BulkCheck(s)
           \/ BulkCommit(s) \/ AllocateSelect(s) \/ AllocateCommit(s)
    PROVE  StepKeeps
  <1>0. DOMAIN NoRows = {} /\ <<>> \in Seq(NewRows)
    BY DEF NoRows
  <1>1. CASE CreateCheck(s)
    <2>1. PICK b \in Creates : Open(s, "create", b, NoRows, <<b.row>>) /\ UNCHANGED tables
      BY <1>1 DEF CreateCheck
    <2>2. <<b.row>> \in Seq(NewRows)
      <3>1. b.row \in NewRows
        BY DEF NewRows
      <3>2. QED
        BY <3>1
    <2>3. Starts(s) /\ pc'[s] = "create"
      BY <1>0, <2>1, <2>2 DEF Starts, Open, SessionsTyped
    <2>4. QED
      BY <2>1, <2>3, StartedTyped, SameTables DEF StepKeeps
  <1>2. CASE BulkStart(s)
    <2>1. PICK b \in Bulks : Open(s, "bulk", b, NoRows, <<>>) /\ UNCHANGED tables
      BY <1>2 DEF BulkStart
    <2>2. Starts(s) /\ pc'[s] = "bulk"
      BY <1>0, <2>1 DEF Starts, Open, SessionsTyped
    <2>3. QED
      BY <2>1, <2>2, StartedTyped, SameTables DEF StepKeeps
  <1>3. CASE AllocateSelect(s)
    <2>1. PICK n \in AllocSubnets, owner \in Owner \cup {Null} : \E a \in FreeIn(n) :
            /\ Open(s, "allocate", Null, NoRows, <<AllocatedRow(n, subnetVrf[n], a, owner)>>)
            /\ UNCHANGED tables
      BY <1>3 DEF AllocateSelect
    <2>2. PICK a \in FreeIn(n) :
            /\ Open(s, "allocate", Null, NoRows, <<AllocatedRow(n, subnetVrf[n], a, owner)>>)
            /\ UNCHANGED tables
      BY <2>1
    <2> DEFINE row == AllocatedRow(n, subnetVrf[n], a, owner)
    <2>3. row \in NewRows
      <3>1. a \in Hosts[n] /\ subnetVrf[n] \in Vrf \cup {Null}
        BY BodyAssumption DEF FreeIn, RowsTyped
      <3>2. QED
        BY <3>1 DEF NewRows
    <2>4. <<row>> \in Seq(NewRows)
      BY <2>3
    <2>5. Starts(s) /\ pc'[s] = "allocate"
      BY <1>0, <2>2, <2>4 DEF Starts, Open, SessionsTyped
    <2>6. QED
      BY <2>2, <2>5, StartedTyped, SameTables DEF StepKeeps
  <1>4. CASE BulkCheck(s)
    <2>1. /\ req[s] \in Bulks /\ draft[s] \in Seq(NewRows) /\ Len(draft[s]) < Len(req[s])
          /\ draft' = [draft EXCEPT ![s] = Append(@, req[s][Len(draft[s]) + 1])]
          /\ UNCHANGED <<tables, pc, req, loaded>>
      BY <1>4 DEF BulkCheck, SessionsTyped
    <2>2. req[s][Len(draft[s]) + 1] \in NewRows
      <3>1. Len(draft[s]) + 1 \in 1..Len(req[s])
        BY <2>1, BodyAssumption
      <3>2. QED
        BY <2>1, <3>1 DEF NewRows
    <2>3. draft' \in [Actor -> Seq(NewRows)]
      BY <2>1, <2>2 DEF SessionsTyped
    <2>4. SessionsTyped' /\ RequestsKept
      BY <2>1, <2>3 DEF SessionsTyped, RequestsKept, Asking
    <2>5. QED
      BY <2>1, <2>4, SameTables DEF StepKeeps
  <1>5. CASE CreateCommit(s) \/ BulkCommit(s) \/ AllocateCommit(s)
    BY <1>5, InsertKeeps DEF CreateCommit, BulkCommit, AllocateCommit
  <1>6. QED
    BY <1>1, <1>2, <1>3, <1>4, <1>5

\* UPDATE ... WHERE id = i with a row that keeps the tenant it was loaded with.
LEMMA UpdatedRowKeeps ==
    ASSUME RowsTyped, NEW i, NEW old, NEW new, UpdateRow(i, old, new),
           IsRow(Flushed(ips[i], old, new)), new["tenant_id"] = old["tenant_id"],
           nextId' = nextId, UNCHANGED subnetVrf
    PROVE  RowsTyped' /\ KeepsTenants /\ DOMAIN ips' = DOMAIN ips
  <1>1. i \in DOMAIN ips /\ ips' = [ips EXCEPT ![i] = Flushed(ips[i], old, new)]
    BY DEF UpdateRow
  <1>2. IsRow(ips[i]) /\ "tenant_id" \in Columns
    BY <1>1 DEF RowsTyped, Columns
  <1>3. Flushed(ips[i], old, new)["tenant_id"] = ips[i]["tenant_id"]
    BY <1>2 DEF Flushed
  <1>4. /\ DOMAIN ips' = DOMAIN ips
        /\ \A j \in DOMAIN ips : IsRow(ips'[j]) /\ ips'[j]["tenant_id"] = ips[j]["tenant_id"]
    BY <1>1, <1>3 DEF RowsTyped
  <1>5. QED
    BY <1>4 DEF RowsTyped, KeepsTenants

LEMMA UpdateKeepsRows ==
    ASSUME RowsTyped, SessionsTyped, NEW s \in Actor, UpdateRead(s) \/ UpdateCommit(s)
    PROVE  StepKeeps
  <1>1. CASE UpdateRead(s)
    <2>1. PICK b \in Updates, i \in DOMAIN ips :
            /\ Open(s, "update", b, [j \in {i} |-> ips[i]], <<>>)
            /\ UNCHANGED tables
      BY <1>1 DEF UpdateRead
    <2>2. <<>> \in Seq(NewRows)
      OBVIOUS
    <2>3. Starts(s) /\ pc'[s] = "update"
      BY <2>1, <2>2 DEF Starts, Open, RowsTyped, SessionsTyped
    <2>4. QED
      BY <2>1, <2>3, StartedTyped, SameTables DEF StepKeeps
  <1>2. CASE UpdateCommit(s)
    <2>1. PICK i \in DOMAIN loaded[s] :
            /\ UpdateRow(i, loaded[s][i], Assigned(loaded[s][i], req[s]))
            /\ NotNullOk(ips'[i])
      BY <1>2 DEF UpdateCommit
    <2>2. pc[s] = "update" /\ Close(s) /\ UNCHANGED <<vrfs, subnetVrf, nextId>>
      BY <1>2 DEF UpdateCommit
    <2> DEFINE new == Assigned(loaded[s][i], req[s])
    <2>3. IsRow(loaded[s][i]) /\ IsRow(ips[i]) /\ req[s] \in Updates
      BY <2>1, <2>2 DEF SessionsTyped, RowsTyped, UpdateRow
    <2>4. NotNullOk(Flushed(ips[i], loaded[s][i], new))
      BY <2>1 DEF UpdateRow, RowsTyped
    <2>5. /\ IsRow(Flushed(ips[i], loaded[s][i], new))
          /\ new["tenant_id"] = loaded[s][i]["tenant_id"]
      BY <2>3, <2>4, AssignedIsRow
    <2>6. RowsTyped' /\ KeepsTenants
      BY <2>1, <2>2, <2>5, UpdatedRowKeeps
    <2>7. QED
      BY <2>2, <2>6, ClosedTyped DEF StepKeeps
  <1>3. QED
    BY <1>1, <1>2

LEMMA DeletionKeeps ==
    ASSUME RowsTyped, SessionsTyped, NEW s \in Actor,
           \/ \E i \in DOMAIN ips : DeleteIp(s, i)
           \/ \E v \in vrfs : DeleteVrf(s, v)
    PROVE  StepKeeps
  <1>1. SessionsTyped' /\ RequestsKept
    BY DEF DeleteIp, DeleteVrf, session, SessionsTyped, RequestsKept, Asking
  <1>2. CASE \E i \in DOMAIN ips : DeleteIp(s, i)
    BY <1>1, <1>2 DEF DeleteIp, RowsTyped, KeepsTenants, StepKeeps
  <1>3. ASSUME NEW v \in vrfs, DeleteVrf(s, v)
        PROVE  StepKeeps
    <2>1. /\ ips' = [i \in DOMAIN ips |->
                       IF ips[i]["vrf_id"] = v THEN [ips[i] EXCEPT !["vrf_id"] = Null]
                                               ELSE ips[i]]
          /\ subnetVrf' = [n \in Subnet |-> IF subnetVrf[n] = v THEN Null ELSE subnetVrf[n]]
          /\ nextId' = nextId
      BY <1>3 DEF DeleteVrf
    <2>2. {"vrf_id", "tenant_id"} \subseteq Columns /\ Null \in ColumnType("vrf_id")
      BY ColumnTypes DEF Columns
    <2>3. ASSUME NEW i \in DOMAIN ips
          PROVE  IsRow(ips'[i]) /\ ips'[i]["tenant_id"] = ips[i]["tenant_id"]
      <3>1. IsRow(ips[i])
        BY DEF RowsTyped
      <3>2. /\ IsRow([ips[i] EXCEPT !["vrf_id"] = Null])
            /\ [ips[i] EXCEPT !["vrf_id"] = Null]["tenant_id"] = ips[i]["tenant_id"]
        BY <2>2, <3>1, SetColumnIsRow
      <3>3. QED
        BY <2>1, <3>1, <3>2
    <2>4. RowsTyped'
      BY <2>1, <2>3 DEF RowsTyped
    <2>5. KeepsTenants
      BY <2>1, <2>3 DEF RowsTyped, KeepsTenants
    <2>6. QED
      BY <1>1, <2>4, <2>5 DEF StepKeeps
  <1>4. QED
    BY <1>2, <1>3

LEMMA CleanupKeeps ==
    ASSUME RowsTyped, SessionsTyped, NEW s \in Actor, CleanupSelect(s) \/ CleanupCommit(s)
    PROVE  StepKeeps
  <1>1. CASE CleanupSelect(s)
    <2> DEFINE found == {i \in DOMAIN ips : Expired(ips[i])}
    <2>1. Open(s, "cleanup", Null, [i \in found |-> ips[i]], <<>>) /\ UNCHANGED tables
      BY <1>1 DEF CleanupSelect
    <2>2. <<>> \in Seq(NewRows)
      OBVIOUS
    <2>3. Starts(s) /\ pc'[s] = "cleanup"
      BY <2>1, <2>2 DEF Starts, Open, RowsTyped, SessionsTyped
    <2>4. QED
      BY <2>1, <2>3, StartedTyped, SameTables DEF StepKeeps
  <1>2. CASE CleanupCommit(s)
    <2>1. /\ ips' = [i \in DOMAIN ips |->
                       IF i \in DOMAIN loaded[s]
                       THEN Flushed(ips[i], loaded[s][i], Released(loaded[s][i]))
                       ELSE ips[i]]
          /\ UNCHANGED <<subnetVrf, nextId>> /\ Close(s)
      BY <1>2 DEF CleanupCommit
    <2>2. ASSUME NEW i \in DOMAIN ips
          PROVE  IsRow(ips'[i]) /\ ips'[i]["tenant_id"] = ips[i]["tenant_id"]
      <3>1. IsRow(ips[i])
        BY DEF RowsTyped
      <3>2. CASE i \in DOMAIN loaded[s]
        <4>1. /\ IsRow(Released(loaded[s][i]))
              /\ Released(loaded[s][i])["tenant_id"] = loaded[s][i]["tenant_id"]
          BY <3>2, ReleasedIsRow DEF SessionsTyped
        <4>2. "tenant_id" \in Columns
          BY DEF Columns
        <4>3. QED
          BY <2>1, <3>1, <3>2, <4>1, <4>2, FlushedIsRow
      <3>3. QED
        BY <2>1, <3>1, <3>2
    <2>3. RowsTyped'
      BY <2>1, <2>2 DEF RowsTyped
    <2>4. KeepsTenants
      BY <2>1, <2>2 DEF RowsTyped, KeepsTenants
    <2>5. QED
      BY <2>1, <2>3, <2>4, ClosedTyped DEF StepKeeps
  <1>3. QED
    BY <1>1, <1>2

LEMMA IpStepKeeps == ASSUME RowsTyped, SessionsTyped, Next PROVE StepKeeps
  <1>1. Session \subseteq Actor /\ Cleaner \subseteq Actor
    BY DEF Actor
  <1>2. ASSUME NEW s \in Actor, Rollback(s)
        PROVE  StepKeeps
    BY <1>2, ClosedTyped, SameTables DEF Rollback, StepKeeps
  <1>3. CASE Tick
    <2>1. UNCHANGED <<tables, session>>
      BY <1>3 DEF Tick
    <2>2. SessionsTyped' /\ RequestsKept
      BY <2>1 DEF session, SessionsTyped, RequestsKept, Asking
    <2>3. QED
      BY <2>1, <2>2, SameTables DEF StepKeeps
  <1>4. QED
    BY <1>1, <1>2, <1>3, CreationKeeps, UpdateKeepsRows, DeletionKeeps, CleanupKeeps DEF Next

-----------------------------------------------------------------------------
(* The steps of the approval endpoints                                     *)

\* A table whose rows keep their ids and tenants, and no new request: what is
\* left of the approvals still resolves.
LEMMA IpStepAInv == ASSUME AInv, IpStep PROVE AInv'
  <1>1. StepKeeps
    BY IpStepKeeps DEF AInv, IpStep
  <1>2. RequestsAgree'
    BY <1>1 DEF AInv, StepKeeps, RequestsKept, RequestsAgree, KeepsTenants, RowsTyped
  <1>3. ApprovalsResolve'
    <2>1. /\ DOMAIN approvals' = {b \in DOMAIN approvals : approvals[b].ip \in DOMAIN ips'}
          /\ \A a \in DOMAIN approvals' : approvals'[a] = approvals[a]
          /\ nextApproval' = nextApproval
      BY DEF IpStep, Cascaded
    <2>2. QED
      BY <1>1, <2>1 DEF AInv, StepKeeps, ApprovalsResolve, KeepsTenants, RowsTyped
  <1>4. QED
    BY <1>1, <1>2, <1>3 DEF AInv, StepKeeps

\* Steps that leave the tables and the approvals alone.
LEMMA SameApprovals ==
    ASSUME AInv, UNCHANGED <<tables, approvalVars>>
    PROVE  RowsTyped' /\ ApprovalsResolve'
  BY DEF AInv, RowsTyped, ApprovalsResolve, tables, approvalVars

LEMMA RequestAInv ==
    ASSUME AInv, NEW s \in Actor, RequestRead(s) \/ RequestCheck(s) \/ RequestCommit(s)
    PROVE  AInv'
  <1>1. CASE RequestRead(s)
    <2>1. PICK b \in Requests, i \in DOMAIN ips :
            /\ ips[i]["tenant_id"] = b.tenant_id
            /\ Open(s, "request", [ip |-> i, tenant_id |-> b.tenant_id, type |-> b.type], NoRows, <<>>)
            /\ UNCHANGED <<tables, approvalVars>>
      BY <1>1 DEF RequestRead
    <2> DEFINE body == [ip |-> i, tenant_id |-> b.tenant_id, type |-> b.type]
    <2>2. DOMAIN NoRows = {} /\ <<>> \in Seq(NewRows)
      BY DEF NoRows
    <2>3. body.ip = i /\ body.tenant_id = b.tenant_id
      OBVIOUS
    <2>4. /\ Starts(s) /\ req'[s] = body
          /\ \A t \in Actor \ {s} : pc'[t] = pc[t] /\ req'[t] = req[t]
      BY <2>1, <2>2 DEF AInv, Starts, Open, SessionsTyped
    <2> HIDE DEF body
    <2>5. RequestsAgree'
      BY <2>1, <2>3, <2>4 DEF AInv, RequestsAgree, Asking, RowsTyped, tables
    <2>6. QED
      BY <2>1, <2>4, <2>5, SameApprovals, StartedTyped DEF AInv
  <1>2. CASE RequestCheck(s)
    <2>1. /\ pc[s] = "request" /\ pc' = [pc EXCEPT ![s] = "requested"]
          /\ UNCHANGED <<tables, req, loaded, draft, approvalVars>>
      BY <1>2 DEF RequestCheck
    <2>2. SessionsTyped'
      BY <2>1 DEF AInv, SessionsTyped
    <2>3. RequestsAgree'
      BY <2>1 DEF AInv, SessionsTyped, RequestsAgree, Asking, tables
    <2>4. QED
      BY <2>1, <2>2, <2>3, SameApprovals DEF AInv
  <1>3. CASE RequestCommit(s)
    <2>1. /\ pc[s] = "requested" /\ req[s].ip \in DOMAIN ips
          /\ approvals' = [a \in DOMAIN approvals \cup {nextApproval} |->
                              IF a = nextApproval
                              THEN [ip |-> req[s].ip, tenant_id |-> req[s].tenant_id,
                                    type |-> req[s].type, status |-> "pending"]
                              ELSE approvals[a]]
          /\ nextApproval' = nextApproval + 1
          /\ Close(s) /\ UNCHANGED tables
      BY <1>3 DEF RequestCommit
    <2>2. ips[req[s].ip]["tenant_id"] = req[s].tenant_id
      BY <2>1 DEF AInv, RequestsAgree, Asking
    <2>3. /\ approvals'[nextApproval].status = "pending"
          /\ approvals'[nextApproval].ip = req[s].ip
          /\ approvals'[nextApproval].tenant_id = req[s].tenant_id
          /\ \A a \in DOMAIN approvals : a # nextApproval => approvals'[a] = approvals[a]
          /\ DOMAIN approvals' = DOMAIN approvals \cup {nextApproval}
      BY <2>1
    <2>4. ApprovalsResolve'
      <3>1. nextApproval' \in Nat /\ nextApproval \in Nat /\ nextApproval' = nextApproval + 1
            /\ nextApproval >= 1
        BY <2>1 DEF AInv, ApprovalsResolve
      <3>2. QED
        BY <2>1, <2>2, <2>3, <3>1 DEF AInv, ApprovalsResolve, tables
    <2>5. SessionsTyped' /\ RequestsKept
      BY <2>1, ClosedTyped DEF AInv
    <2>6. RowsTyped' /\ RequestsAgree'
      BY <2>1, <2>5 DEF AInv, RowsTyped, RequestsAgree, RequestsKept, tables
    <2>7. QED
      BY <2>4, <2>5, <2>6 DEF AInv
  <1>4. QED
    BY <1>1, <1>2, <1>3

LEMMA DecisionAInv ==
    ASSUME AInv, NEW s \in Actor,
           \/ DecisionRead(s, "approve") \/ DecisionRead(s, "reject")
           \/ ApproveReadIp(s)
    PROVE  AInv'
  <1>1. ASSUME NEW where \in {"approve", "reject"}, DecisionRead(s, where)
        PROVE  AInv'
    <2>1. PICK a \in DOMAIN approvals :
            /\ Open(s, where, [approval |-> a, row |-> approvals[a]], NoRows, <<>>)
            /\ UNCHANGED <<tables, approvalVars>>
      BY <1>1 DEF DecisionRead
    <2>2. DOMAIN NoRows = {} /\ <<>> \in Seq(NewRows)
      BY DEF NoRows
    <2>3. SessionsTyped' /\ RequestsKept
      <3>1. Starts(s) /\ pc'[s] \in {"approve", "reject"}
        BY <2>1, <2>2 DEF AInv, Starts, Open, SessionsTyped
      <3>2. QED
        BY <3>1, StartedTyped DEF AInv
    <2>4. RequestsAgree'
      BY <2>1, <2>3 DEF AInv, RequestsAgree, RequestsKept, tables
    <2>5. QED
      BY <2>1, <2>3, <2>4, SameApprovals DEF AInv
  <1>2. CASE ApproveReadIp(s)
    <2> DEFINE read == [i \in DOMAIN ips \cap {req[s].row.ip} |-> ips[i]]
    <2>1. /\ pc' = [pc EXCEPT ![s] = "approving"] /\ loaded' = [loaded EXCEPT ![s] = read]
          /\ UNCHANGED <<tables, req, draft, approvalVars>>
      BY <1>2 DEF ApproveReadIp
    <2>2. \A i \in DOMAIN read : IsRow(read[i])
      BY DEF AInv, RowsTyped
    <2> HIDE DEF read
    <2>3. SessionsTyped'
      BY <2>1, <2>2 DEF AInv, SessionsTyped
    <2>4. RequestsAgree'
      BY <2>1 DEF AInv, SessionsTyped, RequestsAgree, Asking, tables
    <2>5. QED
      BY <2>1, <2>3, <2>4, SameApprovals DEF AInv
  <1>3. QED
    BY <1>1, <1>2

\* A decision changes the status of its request only.
LEMMA DecidedResolves ==
    ASSUME AInv, NEW s \in Actor, NEW status \in {"approved", "rejected"}, Decided(s, status),
           RowsTyped', KeepsTenants, DOMAIN ips' = DOMAIN ips
    PROVE  ApprovalsResolve'
  <1>1. /\ DOMAIN approvals' = DOMAIN approvals /\ nextApproval' = nextApproval
        /\ \A a \in DOMAIN approvals :
              /\ approvals'[a].ip = approvals[a].ip
              /\ approvals'[a].tenant_id = approvals[a].tenant_id
              /\ approvals'[a].status \in {approvals[a].status, status}
    BY DEF Decided
  <1>2. QED
    BY <1>1 DEF AInv, ApprovalsResolve, KeepsTenants, RowsTyped

LEMMA DecideAInv ==
    ASSUME AInv, NEW s \in Actor, ApproveCommit(s) \/ RejectCommit(s)
    PROVE  AInv'
  <1>1. Close(s) /\ nextId' = nextId /\ UNCHANGED subnetVrf
    BY DEF ApproveCommit, RejectCommit, tables
  <1>2. RowsTyped' /\ KeepsTenants /\ DOMAIN ips' = DOMAIN ips
    <2>1. CASE UNCHANGED ips
      BY <1>1, <2>1 DEF AInv, RowsTyped, KeepsTenants
    <2>2. CASE \E i \in DOMAIN loaded[s] : UpdateRow(i, loaded[s][i], Freed(loaded[s][i]))
      <3>1. PICK i \in DOMAIN loaded[s] : UpdateRow(i, loaded[s][i], Freed(loaded[s][i]))
        BY <2>2
      <3>2. IsRow(loaded[s][i]) /\ Freed(loaded[s][i]) = Released(loaded[s][i])
        BY DEF AInv, SessionsTyped, Freed, Released
      <3>3. /\ IsRow(Freed(loaded[s][i]))
            /\ Freed(loaded[s][i])["tenant_id"] = loaded[s][i]["tenant_id"]
        BY <3>2, ReleasedIsRow
      <3>4. /\ IsRow(ips[i])
            /\ "tenant_id" \in Columns
        BY <3>1 DEF AInv, RowsTyped, UpdateRow, Columns
      <3>5. IsRow(Flushed(ips[i], loaded[s][i], Freed(loaded[s][i])))
        BY <3>3, <3>4, FlushedIsRow
      <3>6. QED
        BY <1>1, <3>1, <3>3, <3>5, UpdatedRowKeeps DEF AInv
    <2>3. QED
      BY <2>1, <2>2 DEF ApproveCommit, RejectCommit, tables
  <1>3. Decided(s, "approved") \/ Decided(s, "rejected")
    BY DEF ApproveCommit, RejectCommit
  <1>4. ApprovalsResolve'
    BY <1>2, <1>3, DecidedResolves
  <1>5. SessionsTyped' /\ RequestsKept
    BY <1>1, ClosedTyped DEF AInv
  <1>6. RequestsAgree'
    BY <1>1, <1>2, <1>5 DEF AInv, RequestsAgree, RequestsKept, RowsTyped, KeepsTenants
  <1>7. QED
    BY <1>2, <1>4, <1>5, <1>6 DEF AInv

-----------------------------------------------------------------------------
LEMMA InitAInv == InitApprovals => AInv
  <1>1. <<>> \in Seq(NewRows) /\ DOMAIN NoRows = {}
    BY DEF NoRows
  <1>2. DOMAIN [a \in {} |-> Null] = {}
    OBVIOUS
  <1>3. Init => RowsTyped /\ SessionsTyped /\ RequestsAgree
    BY <1>1 DEF Init, RowsTyped, SessionsTyped, RequestsAgree, Asking
  <1>4. QED
    BY <1>2, <1>3 DEF InitApprovals, AInv, ApprovalsResolve

LEMMA StutterAInv == ASSUME AInv, UNCHANGED allVars PROVE AInv'
  BY DEF AInv, RowsTyped, SessionsTyped, RequestsAgree, Asking, ApprovalsResolve,
         allVars, vars, tables, session, approvalVars

LEMMA NextAInv == AInv /\ [NextApprovals]_allVars => AInv'
  <1>1. SUFFICES ASSUME AInv, NextApprovals \/ UNCHANGED allVars
                 PROVE  AInv'
    OBVIOUS
  <1>2. Session \subseteq Actor
    BY DEF Actor
  <1>3. QED
    BY <1>1, <1>2, IpStepAInv, RequestAInv, DecisionAInv, DecideAInv, StutterAInv
    DEF NextApprovals

LEMMA SpecAInv == SpecApprovals => []AInv
  BY InitAInv, NextAInv, PTL DEF SpecApprovals

\* However requests, decisions, deletions and the cleanup interleave, every
\* approval request names an existing IP, one of its own tenant
\* (api/v1/endpoints/approvals.py).
THEOREM RequestsNameTheirIp == SpecApprovals => []ApprovalsResolve
  <1>1. AInv => ApprovalsResolve
    BY DEF AInv
  <1>2. QED
    BY <1>1, SpecAInv, PTL

-----------------------------------------------------------------------------
(* What a step of IpRecords leaves to a session that serves an approval    *)
(* endpoint.                                                               *)

Serving == {"request", "requested", "approve", "approving", "reject"}
Deciding(s) == pc[s] \in {"approve", "approving", "reject"}

\* The session is closed, opened for another handler, or left alone.
Turns(t) ==
    \/ Close(t)
    \/ \E where \in {"create", "bulk", "allocate", "update", "cleanup"} :
          \E body, rows, new : Open(t, where, body, rows, new)
    \/ UNCHANGED <<pc, req, loaded>>

LEMMA TurnServes ==
    ASSUME SessionsTyped, NEW t \in Actor, Turns(t), NEW s \in Actor, pc'[s] \in Serving
    PROVE  /\ pc'[s] = pc[s] /\ req'[s] = req[s] /\ loaded'[s] = loaded[s]
           /\ s # t \/ UNCHANGED <<pc, req, loaded>>
  <1>1. CASE Close(t)
    BY <1>1 DEF Close, Serving, SessionsTyped
  <1>2. ASSUME NEW where \in {"create", "bulk", "allocate", "update", "cleanup"},
               NEW body, NEW rows, NEW new, Open(t, where, body, rows, new)
        PROVE  /\ pc'[s] = pc[s] /\ req'[s] = req[s] /\ loaded'[s] = loaded[s]
               /\ s # t
    BY <1>2 DEF Open, Serving, SessionsTyped
  <1>3. QED
    BY <1>1, <1>2 DEF Turns

\* Every step of IpRecords is a turn of one session; if it writes the tables,
\* that session is none that serves an approval endpoint.
LEMMA StepTurns ==
    ASSUME SessionsTyped, Next, NEW s \in Actor, pc'[s] \in Serving
    PROVE  /\ pc'[s] = pc[s] /\ req'[s] = req[s] /\ loaded'[s] = loaded[s]
           /\ OneAtATime => UNCHANGED ips
  <1>1. Session \subseteq Actor /\ Cleaner \subseteq Actor
    BY DEF Actor
  <1>2. ASSUME NEW t \in Actor,
               \/ CreateCheck(t) \/ BulkStart(t) \/ AllocateSelect(t) \/ UpdateRead(t)
               \/ BulkCheck(t) \/ CleanupSelect(t) \/ Rollback(t)
        PROVE  Turns(t) /\ UNCHANGED ips
    BY <1>2 DEF CreateCheck, BulkStart, AllocateSelect, UpdateRead, BulkCheck,
       CleanupSelect, Rollback, Turns, tables
  <1>3. ASSUME NEW t \in Actor, Commits(t)
        PROVE  Turns(t) /\ pc'[t] = "idle"
    <2>1. Close(t)
      BY <1>3 DEF Commits, CreateCommit, BulkCommit, AllocateCommit, Insert, UpdateCommit,
         CleanupCommit
    <2>2. QED
      BY <2>1 DEF Turns, Close, SessionsTyped
  <1>4. ASSUME NEW t \in Actor,
               (\E i \in DOMAIN ips : DeleteIp(t, i)) \/ (\E v \in vrfs : DeleteVrf(t, v))
        PROVE  Turns(t) /\ pc'[t] = "idle"
    BY <1>4 DEF DeleteIp, DeleteVrf, Turns, session
  <1>5. \E t \in Actor : Turns(t) /\ (UNCHANGED ips \/ pc'[t] = "idle")
    <2>1. CASE Tick
      BY <2>1 DEF Tick, Turns, session, tables
    <2>2. QED
      BY <1>1, <1>2, <1>3, <1>4, <2>1 DEF Next, Commits
  <1>6. PICK t \in Actor : Turns(t) /\ (UNCHANGED ips \/ pc'[t] = "idle")
    BY <1>5
  <1>7. OneAtATime => pc'[t] # "idle"
    BY DEF OneAtATime, Serving
  <1>8. QED
    BY <1>6, <1>7, TurnServes

-----------------------------------------------------------------------------
(* What a reviewer's handler knows of the request it read.                 *)

\* Its id is never given to another request, whose IP and type never change,
\* and the handler reads no other IP.
DecisionsAgree ==
    \A s \in Actor : Deciding(s) =>
        /\ req[s].approval \in 1 .. nextApproval - 1
        /\ req[s].approval \in DOMAIN approvals =>
              /\ approvals[req[s].approval].ip = req[s].row.ip
              /\ approvals[req[s].approval].type = req[s].row.type
        /\ pc[s] = "approving" => DOMAIN loaded[s] \subseteq {req[s].row.ip}

ApprovalsKept ==
    /\ nextApproval' \in Nat /\ nextApproval <= nextApproval'
    /\ \A a \in DOMAIN approvals' : a < nextApproval =>
          /\ a \in DOMAIN approvals
          /\ approvals'[a].ip = approvals[a].ip /\ approvals'[a].type = approvals[a].type

LEMMA StepKeepsApprovals == ASSUME AInv, [NextApprovals]_allVars PROVE ApprovalsKept
  <1>1. nextApproval \in Nat
    BY DEF AInv, ApprovalsResolve
  <1>2. ASSUME UNCHANGED approvalVars PROVE ApprovalsKept
    BY <1>1, <1>2 DEF ApprovalsKept, approvalVars
  <1>3. CASE IpStep
    BY <1>1, <1>3 DEF IpStep, Cascaded, ApprovalsKept
  <1>4. ASSUME NEW s \in Session, RequestCommit(s) PROVE ApprovalsKept
    BY <1>1, <1>4 DEF RequestCommit, ApprovalsKept
  <1>5. ASSUME NEW s \in Session, NEW status, Decided(s, status) PROVE ApprovalsKept
    BY <1>1, <1>5 DEF Decided, ApprovalsKept
  <1>6. ASSUME NEW s \in Session,
               \/ RequestRead(s) \/ RequestCheck(s) \/ ApproveReadIp(s)
               \/ DecisionRead(s, "approve") \/ DecisionRead(s, "reject")
        PROVE  UNCHANGED approvalVars
    BY <1>6 DEF RequestRead, RequestCheck, ApproveReadIp, DecisionRead
  <1>7. CASE UNCHANGED allVars
    BY <1>2, <1>7 DEF allVars
  <1>8. QED
    BY <1>2, <1>3, <1>4, <1>5, <1>6, <1>7 DEF NextApprovals, ApproveCommit, RejectCommit

\* A handler that goes on deciding what it decided.
LEMMA StillDecides ==
    ASSUME AInv, DecisionsAgree, ApprovalsKept, NEW s \in Actor, Deciding(s),
           req'[s] = req[s],
           pc'[s] = "approving" => \/ pc[s] = "approving" /\ loaded'[s] = loaded[s]
                                  \/ DOMAIN loaded'[s] \subseteq {req[s].row.ip}
    PROVE  /\ req'[s].approval \in 1 .. nextApproval' - 1
           /\ req'[s].approval \in DOMAIN approvals' =>
                 /\ approvals'[req'[s].approval].ip = req'[s].row.ip
                 /\ approvals'[req'[s].approval].type = req'[s].row.type
           /\ pc'[s] = "approving" => DOMAIN loaded'[s] \subseteq {req'[s].row.ip}
  <1>1. nextApproval \in Nat
    BY DEF AInv, ApprovalsResolve
  <1>2. req[s].approval \in 1 .. nextApproval - 1 /\ req[s].approval < nextApproval
    BY <1>1 DEF DecisionsAgree
  <1>3. QED
    BY <1>1, <1>2 DEF DecisionsAgree, ApprovalsKept

\* A step of an approval endpoint is a turn of its session.
LEMMA EndpointTurns ==
    ASSUME SessionsTyped, NEW t \in Actor,
           \/ RequestRead(t) \/ RequestCheck(t) \/ RequestCommit(t)
           \/ DecisionRead(t, "approve") \/ ApproveReadIp(t) \/ ApproveCommit(t)
           \/ DecisionRead(t, "reject") \/ RejectCommit(t)
    PROVE  /\ \A s \in Actor \ {t} :
                 pc'[s] = pc[s] /\ req'[s] = req[s] /\ loaded'[s] = loaded[s]
           /\ \/ ~Deciding(t)'
              \/ DecisionRead(t, "approve") \/ DecisionRead(t, "reject") \/ ApproveReadIp(t)
  <1>1. CASE RequestRead(t) \/ DecisionRead(t, "approve") \/ DecisionRead(t, "reject")
    BY <1>1 DEF RequestRead, DecisionRead, Open, SessionsTyped, Deciding
  <1>2. CASE RequestCheck(t) \/ ApproveReadIp(t)
    BY <1>2 DEF RequestCheck, ApproveReadIp, SessionsTyped, Deciding
  <1>3. CASE RequestCommit(t) \/ ApproveCommit(t) \/ RejectCommit(t)
    BY <1>3 DEF RequestCommit, ApproveCommit, RejectCommit, Close, SessionsTyped, Deciding
  <1>4. QED
    BY <1>1, <1>2, <1>3

LEMMA StepDecisions ==
    ASSUME AInv, DecisionsAgree, [NextApprovals]_allVars
    PROVE  DecisionsAgree'
  <1> SUFFICES ASSUME NEW s \in Actor, Deciding(s)'
               PROVE  /\ req'[s].approval \in 1 .. nextApproval' - 1
                      /\ req'[s].approval \in DOMAIN approvals' =>
                            /\ approvals'[req'[s].approval].ip = req'[s].row.ip
                            /\ approvals'[req'[s].approval].type = req'[s].row.type
                      /\ pc'[s] = "approving" => DOMAIN loaded'[s] \subseteq {req'[s].row.ip}
    BY DEF DecisionsAgree
  <1>1. SessionsTyped /\ ApprovalsKept /\ nextApproval \in Nat
    BY StepKeepsApprovals DEF AInv, ApprovalsResolve
  <1>2. CASE pc'[s] = pc[s] /\ req'[s] = req[s] /\ loaded'[s] = loaded[s]
    BY <1>1, <1>2, StillDecides DEF Deciding
  <1>3. CASE IpStep
    BY <1>1, <1>2, <1>3, StepTurns DEF IpStep, Deciding, Serving
  <1>4. ASSUME NEW where \in {"approve", "reject"}, DecisionRead(s, where)
        PROVE  /\ req'[s].approval \in 1 .. nextApproval' - 1
               /\ req'[s].approval \in DOMAIN approvals' =>
                     /\ approvals'[req'[s].approval].ip = req'[s].row.ip
                     /\ approvals'[req'[s].approval].type = req'[s].row.type
               /\ pc'[s] # "approving"
    <2>1. PICK a \in DOMAIN approvals :
            /\ Open(s, where, [approval |-> a, row |-> approvals[a]], NoRows, <<>>)
            /\ UNCHANGED approvalVars
      BY <1>4 DEF DecisionRead
    <2>2. pc'[s] = where /\ req'[s] = [approval |-> a, row |-> approvals[a]]
      BY <1>1, <2>1 DEF Open, SessionsTyped
    <2>3. a \in 1 .. nextApproval - 1
      BY DEF AInv, ApprovalsResolve
    <2>4. QED
      BY <2>1, <2>2, <2>3 DEF approvalVars
  <1>5. CASE ApproveReadIp(s)
    <2>1. /\ pc[s] = "approve" /\ req'[s] = req[s]
          /\ loaded'[s] = [i \in DOMAIN ips \cap {req[s].row.ip} |-> ips[i]]
      BY <1>1, <1>5 DEF ApproveReadIp, SessionsTyped
    <2>2. QED
      BY <1>1, <2>1, StillDecides DEF Deciding
  <1>6. ASSUME NEW t \in Session,
               \/ RequestRead(t) \/ RequestCheck(t) \/ RequestCommit(t)
               \/ DecisionRead(t, "approve") \/ ApproveReadIp(t) \/ ApproveCommit(t)
               \/ DecisionRead(t, "reject") \/ RejectCommit(t)
        PROVE  \/ pc'[s] = pc[s] /\ req'[s] = req[s] /\ loaded'[s] = loaded[s]
               \/ \E where \in {"approve", "reject"} : DecisionRead(s, where)
               \/ ApproveReadIp(s)
    <2>1. t \in Actor
      BY DEF Actor
    <2>2. QED
      BY <1>1, <1>6, <2>1, EndpointTurns
  <1>7. CASE UNCHANGED allVars
    BY <1>2, <1>7 DEF allVars, vars, session
  <1>8. QED
    BY <1>2, <1>3, <1>4, <1>5, <1>6, <1>7 DEF NextApprovals

\* Of the steps of IpRecords only a rollback ends an approval.
LEMMA ApprovingEnds ==
    ASSUME SessionsTyped, Next, NEW s \in Actor, pc[s] = "approving", pc'[s] = "idle"
    PROVE  Rollback(s)
  <1>1. DOMAIN pc = Actor
    BY DEF SessionsTyped
  <1>2. ASSUME NEW t \in Actor, Close(t) PROVE t = s
    BY <1>1, <1>2 DEF Close
  <1>3. ASSUME NEW t \in Actor, NEW where \in {"create", "bulk", "allocate", "update", "cleanup"},
               NEW body, NEW rows, NEW new, Open(t, where, body, rows, new)
        PROVE  FALSE
    BY <1>1, <1>3 DEF Open
  <1>4. ASSUME NEW t \in Actor, Commits(t) PROVE FALSE
    BY <1>2, <1>4 DEF Commits, CreateCommit, BulkCommit, AllocateCommit, Insert, UpdateCommit,
       CleanupCommit
  <1>5. ASSUME NEW t \in Actor,
               \/ CreateCheck(t) \/ BulkStart(t) \/ AllocateSelect(t) \/ UpdateRead(t)
               \/ CleanupSelect(t)
        PROVE  FALSE
    BY <1>3, <1>5 DEF CreateCheck, BulkStart, AllocateSelect, UpdateRead, CleanupSelect
  <1>6. ASSUME NEW t \in Actor,
               \/ BulkCheck(t) \/ Tick
               \/ (\E i \in DOMAIN ips : DeleteIp(t, i)) \/ (\E v \in vrfs : DeleteVrf(t, v))
        PROVE  FALSE
    BY <1>6 DEF BulkCheck, Tick, DeleteIp, DeleteVrf, session
  <1>7. Session \subseteq Actor /\ Cleaner \subseteq Actor
    BY DEF Actor
  <1>8. QED
    BY <1>2, <1>4, <1>5, <1>6, <1>7 DEF Next, Commits, Rollback

LEMMA SpecDecisions == SpecApprovals => [](AInv /\ DecisionsAgree)
  <1>1. InitApprovals => DecisionsAgree
    BY DEF InitApprovals, Init, DecisionsAgree, Deciding
  <1>2. QED
    BY <1>1, InitAInv, NextAInv, StepDecisions, PTL DEF SpecApprovals

\* An approval of a release writes the lifecycle columns of the IP of its
\* request and nothing else, whatever other sessions committed to that row, to
\* the request or to the table since the handler read them.
THEOREM ApprovalsLoseNoUpdates == SpecApprovals => ApprovalKeepsOtherColumns
  <1>1. AInv /\ DecisionsAgree /\ [NextApprovals]_allVars => [EveryApprovalKeeps]_allVars
    <2> SUFFICES ASSUME AInv, DecisionsAgree, NextApprovals,
                        NEW s \in Session, pc[s] = "approving", pc'[s] = "idle"
                 PROVE  ApprovalKeeps(s)
      BY DEF EveryApprovalKeeps
    <2>1. s \in Actor /\ SessionsTyped
      BY DEF Actor, AInv
    <2>2. CASE UNCHANGED ips
      BY <2>2 DEF ApprovalKeeps
    <2>3. CASE ApproveCommit(s)
      <3>1. ASSUME NEW i \in DOMAIN loaded[s], req[s].row.type = "release",
                   UpdateRow(i, loaded[s][i], Freed(loaded[s][i]))
            PROVE  ApprovalKeeps(s)
        <4>1. /\ i = req[s].row.ip
              /\ req[s].approval \in DOMAIN approvals
              /\ approvals[req[s].approval].ip = i
              /\ approvals[req[s].approval].type = "release"
          BY <2>1, <2>3, <3>1 DEF DecisionsAgree, Deciding, ApproveCommit, Decided
        <4>2. IsRow(loaded[s][i])
          BY <2>1 DEF SessionsTyped
        <4>3. \A c \in Columns \ {"status", "assigned_to", "expires_at"} :
                 Freed(loaded[s][i])[c] = loaded[s][i][c]
          BY <4>2 DEF Freed, IsRow
        <4>4. /\ \A j \in DOMAIN ips \ {i} : ips'[j] = ips[j]
              /\ \A c \in Columns \ {"status", "assigned_to", "expires_at"} :
                    ips'[i][c] = ips[i][c]
          BY <3>1, <4>3 DEF UpdateRow, Flushed
        <4>5. QED
          BY <4>1, <4>4 DEF ApprovalKeeps
      <3>2. QED
        BY <2>2, <2>3, <3>1 DEF ApproveCommit
    <2>4. UNCHANGED ips \/ ApproveCommit(s)
      <3>1. CASE IpStep
        BY <2>1, <3>1, ApprovingEnds DEF IpStep, Rollback, tables
      <3>2. ASSUME NEW t \in Session, ApproveCommit(t) PROVE t = s
        BY <2>1, <3>2 DEF ApproveCommit, Close, SessionsTyped, Actor
      <3>3. QED
        BY <3>1, <3>2 DEF NextApprovals, RequestRead, RequestCheck, RequestCommit,
           DecisionRead, ApproveReadIp, RejectCommit, tables
    <2>5. QED
      BY <2>2, <2>3, <2>4
  <1>2. QED
    BY <1>1, SpecDecisions, PTL DEF SpecApprovals, ApprovalKeepsOtherColumns

-----------------------------------------------------------------------------
(* One session at a time: the endpoints implement ApprovalQueue.           *)

\* What the session that serves an endpoint read is still what the tables hold.
SerialQueue ==
    \A s \in Actor :
        /\ Asking(s) =>
              /\ req[s].ip \in DOMAIN ips /\ ips[req[s].ip]["status"] \in Live
              /\ req[s].type \in {"release", "reallocate"}
        /\ pc[s] = "requested" => Pending(req[s]) = {}
        /\ Deciding(s) =>
              /\ req[s].approval \in DOMAIN approvals
              /\ approvals[req[s].approval] = req[s].row
              /\ req[s].row.status = "pending"
        /\ pc[s] = "approving" =>
              \A i \in DOMAIN loaded[s] : i \in DOMAIN ips /\ ips[i] = loaded[s][i]

IsRequest(r) == r = [ip |-> r.ip, tenant_id |-> r.tenant_id, type |-> r.type, status |-> r.status]

ApprovalRows == \A a \in DOMAIN approvals : IsRequest(approvals[a])

QInv == AInv /\ DecisionsAgree /\ ApprovalRows /\ SerialQueue

LEMMA StepRows == ASSUME ApprovalRows, [NextApprovals]_allVars PROVE ApprovalRows'
  <1>1. ASSUME UNCHANGED approvalVars PROVE ApprovalRows'
    BY <1>1 DEF ApprovalRows, approvalVars
  <1>2. CASE IpStep
    BY <1>2 DEF IpStep, Cascaded, ApprovalRows
  <1>3. ASSUME NEW s \in Session, RequestCommit(s) PROVE ApprovalRows'
    BY <1>3 DEF RequestCommit, ApprovalRows, IsRequest
  <1>4. ASSUME NEW s \in Session, NEW status, Decided(s, status) PROVE ApprovalRows'
    <2> DEFINE a == req[s].approval
    <2>1. a \in DOMAIN approvals /\ IsRequest(approvals[a])
      BY <1>4 DEF Decided, ApprovalRows
    <2>2. approvals'[a] = [approvals[a] EXCEPT !.status = status]
      BY <1>4, <2>1 DEF Decided
    <2>3. approvals'[a] = [ip |-> approvals[a].ip, tenant_id |-> approvals[a].tenant_id,
                           type |-> approvals[a].type, status |-> status]
      BY <2>1, <2>2 DEF IsRequest
    <2>4. IsRequest(approvals'[a])
      BY <2>3 DEF IsRequest
    <2>5. DOMAIN approvals' = DOMAIN approvals
          /\ \A b \in DOMAIN approvals \ {a} : approvals'[b] = approvals[b]
      BY <1>4 DEF Decided
    <2>6. QED
      BY <2>4, <2>5 DEF ApprovalRows
  <1>5. ASSUME NEW s \in Session,
               \/ RequestRead(s) \/ RequestCheck(s) \/ ApproveReadIp(s)
               \/ DecisionRead(s, "approve") \/ DecisionRead(s, "reject")
        PROVE  UNCHANGED approvalVars
    BY <1>5 DEF RequestRead, RequestCheck, ApproveReadIp, DecisionRead
  <1>6. CASE UNCHANGED allVars
    BY <1>1, <1>6 DEF allVars
  <1>7. QED
    BY <1>1, <1>2, <1>3, <1>4, <1>5, <1>6 DEF NextApprovals, ApproveCommit, RejectCommit

\* While the tables and the approvals stay, a session that goes on keeps what
\* it knows; the others are not there.
LEMMA SerialStays ==
    ASSUME SerialQueue, OneAtATime, NEW s \in Actor,
           pc'[s] \notin Serving
              \/ /\ pc'[s] = pc[s] /\ req'[s] = req[s] /\ loaded'[s] = loaded[s]
                 /\ ips' = ips /\ DOMAIN approvals' = DOMAIN approvals
                 /\ \A a \in DOMAIN approvals : approvals'[a] = approvals[a]
    PROVE  SerialQueue'
  <1> SUFFICES ASSUME NEW t \in Actor
      PROVE  /\ Asking(t)' =>
                   /\ req'[t].ip \in DOMAIN ips' /\ ips'[req'[t].ip]["status"] \in Live
                   /\ req'[t].type \in {"release", "reallocate"}
             /\ pc'[t] = "requested" => Pending(req[t])' = {}
             /\ Deciding(t)' =>
                   /\ req'[t].approval \in DOMAIN approvals'
                   /\ approvals'[req'[t].approval] = req'[t].row
                   /\ req'[t].row.status = "pending"
             /\ pc'[t] = "approving" =>
                   \A i \in DOMAIN loaded'[t] : i \in DOMAIN ips' /\ ips'[i] = loaded'[t][i]
    BY DEF SerialQueue
  <1>1. t = s
    BY DEF OneAtATime
  <1>2. CASE pc'[s] \notin Serving
    BY <1>1, <1>2 DEF Asking, Deciding, Serving
  <1>3. CASE pc'[s] \in Serving
    <2>1. /\ pc'[s] = pc[s] /\ req'[s] = req[s] /\ loaded'[s] = loaded[s]
          /\ ips' = ips /\ DOMAIN approvals' = DOMAIN approvals
          /\ \A a \in DOMAIN approvals : approvals'[a] = approvals[a]
      BY <1>3
    <2>2. Pending(req[s])' = Pending(req[s])
      BY <2>1 DEF Pending
    <2>3. QED
      BY <1>1, <2>1, <2>2 DEF SerialQueue, Asking, Deciding
  <1>4. QED
    BY <1>2, <1>3

LEMMA SerialIpStep ==
    ASSUME QInv, OneAtATime, IpStep
    PROVE  SerialQueue'
  <1>1. CASE \E s \in Actor : pc'[s] \in Serving
    <2>1. PICK s \in Actor : pc'[s] \in Serving
      BY <1>1
    <2>2. /\ pc'[s] = pc[s] /\ req'[s] = req[s] /\ loaded'[s] = loaded[s] /\ ips' = ips
      BY <2>1, StepTurns DEF QInv, AInv, IpStep
    <2>3. /\ DOMAIN approvals' = DOMAIN approvals
          /\ \A a \in DOMAIN approvals : approvals'[a] = approvals[a]
      BY <2>2 DEF QInv, AInv, ApprovalsResolve, IpStep, Cascaded
    <2>4. QED
      BY <2>2, <2>3, SerialStays DEF QInv
  <1>2. CASE ~\E s \in Actor : pc'[s] \in Serving
    BY <1>2 DEF SerialQueue, Serving, Asking, Deciding
  <1>3. QED
    BY <1>1, <1>2

LEMMA SerialEndpoint ==
    ASSUME QInv, OneAtATime, NEW s \in Actor,
           \/ RequestRead(s) \/ RequestCheck(s) \/ RequestCommit(s)
           \/ DecisionRead(s, "approve") \/ ApproveReadIp(s) \/ ApproveCommit(s)
           \/ DecisionRead(s, "reject") \/ RejectCommit(s)
    PROVE  SerialQueue'
  <1> SUFFICES
        /\ Asking(s)' =>
              /\ req'[s].ip \in DOMAIN ips' /\ ips'[req'[s].ip]["status"] \in Live
              /\ req'[s].type \in {"release", "reallocate"}
        /\ pc'[s] = "requested" => Pending(req[s])' = {}
        /\ Deciding(s)' =>
              /\ req'[s].approval \in DOMAIN approvals'
              /\ approvals'[req'[s].approval] = req'[s].row
              /\ req'[s].row.status = "pending"
        /\ pc'[s] = "approving" =>
              \A i \in DOMAIN loaded'[s] : i \in DOMAIN ips' /\ ips'[i] = loaded'[s][i]
    <2>1. \A t \in Actor : t = s
      BY DEF OneAtATime
    <2>2. QED
      BY <2>1 DEF SerialQueue
  <1>1. SessionsTyped /\ SerialQueue
    BY DEF QInv, AInv
  <1>2. CASE RequestRead(s)
    <2>1. PICK b \in Requests, i \in DOMAIN ips :
            /\ ips[i]["status"] \in Live
            /\ Open(s, "request", [ip |-> i, tenant_id |-> b.tenant_id, type |-> b.type], NoRows, <<>>)
            /\ UNCHANGED <<tables, approvalVars>>
      BY <1>2 DEF RequestRead
    <2>2. /\ pc'[s] = "request"
          /\ req'[s] = [ip |-> i, tenant_id |-> b.tenant_id, type |-> b.type]
      BY <1>1, <2>1 DEF Open, SessionsTyped
    <2>3. b.type \in {"release", "reallocate"}
      BY RequestAssumption
    <2>4. QED
      BY <2>1, <2>2, <2>3 DEF Asking, Deciding, tables
  <1>3. CASE RequestCheck(s)
    <2>1. /\ pc[s] = "request" /\ pc'[s] = "requested" /\ Pending(req[s]) = {}
          /\ UNCHANGED <<tables, req, approvalVars>>
      BY <1>1, <1>3 DEF RequestCheck, SessionsTyped
    <2>2. Pending(req[s])' = Pending(req[s])
      BY <2>1 DEF Pending, approvalVars
    <2>3. QED
      BY <1>1, <2>1, <2>2 DEF SerialQueue, Asking, Deciding, tables
  <1>4. ASSUME NEW where \in {"approve", "reject"}, DecisionRead(s, where)
        PROVE  /\ req'[s].approval \in DOMAIN approvals'
               /\ approvals'[req'[s].approval] = req'[s].row
               /\ req'[s].row.status = "pending"
               /\ pc'[s] = where
    <2>1. PICK a \in DOMAIN approvals :
            /\ approvals[a].status = "pending"
            /\ Open(s, where, [approval |-> a, row |-> approvals[a]], NoRows, <<>>)
            /\ UNCHANGED approvalVars
      BY <1>4 DEF DecisionRead
    <2>2. pc'[s] = where /\ req'[s] = [approval |-> a, row |-> approvals[a]]
      BY <1>1, <2>1 DEF Open, SessionsTyped
    <2>3. QED
      BY <2>1, <2>2 DEF approvalVars
  <1>5. CASE ApproveReadIp(s)
    <2>1. /\ pc[s] = "approve" /\ pc'[s] = "approving"
          /\ loaded'[s] = [i \in DOMAIN ips \cap {req[s].row.ip} |-> ips[i]]
          /\ UNCHANGED <<tables, req, approvalVars>>
      BY <1>1, <1>5 DEF ApproveReadIp, SessionsTyped
    <2>2. QED
      BY <1>1, <2>1 DEF SerialQueue, Asking, Deciding, tables, approvalVars
  <1>6. CASE RequestCommit(s) \/ ApproveCommit(s) \/ RejectCommit(s)
    <2>1. pc'[s] = "idle"
      BY <1>1, <1>6 DEF RequestCommit, ApproveCommit, RejectCommit, Close, SessionsTyped
    <2>2. QED
      BY <2>1 DEF Asking, Deciding
  <1>7. QED
    BY <1>2, <1>3, <1>4, <1>5, <1>6 DEF Asking, Deciding

LEMMA StepSerialQueue ==
    ASSUME OneAtATime, QInv, [NextApprovals]_allVars
    PROVE  QInv'
  <1>1. AInv' /\ DecisionsAgree' /\ ApprovalRows'
    BY NextAInv, StepDecisions, StepRows DEF QInv
  <1>2. CASE UNCHANGED allVars
    <2>1. SerialQueue /\ UNCHANGED <<pc, req, loaded, ips, approvals>>
      BY <1>2 DEF QInv, allVars, vars, tables, session, approvalVars
    <2>2. \A s \in Actor : Pending(req[s])' = Pending(req[s])
      BY <2>1 DEF Pending
    <2>3. SerialQueue'
      BY <2>1, <2>2 DEF SerialQueue, Asking, Deciding
    <2>4. QED
      BY <1>1, <2>3 DEF QInv
  <1>3. Session \subseteq Actor
    BY DEF Actor
  <1>4. QED
    BY <1>1, <1>2, <1>3, SerialIpStep, SerialEndpoint DEF QInv, NextApprovals

\* The request of the workflow that a row stands for.
Shown(a) == [ip |-> approvals[a].ip, type |-> approvals[a].type, status |-> approvals[a].status]
Shows == [a \in DOMAIN approvals |-> Shown(a)]
Held == {i \in DOMAIN ips : ips[i]["status"] \in Live}

\* A step of the IP records happens outside the workflow: the requests of the
\* IPs that are deleted are the rows that the cascade deletes.
LEMMA IpStepElsewhere == ASSUME IpStep PROVE Queue!Elsewhere
  <1> DEFINE gone == {Shows[q].ip : q \in DOMAIN Shows} \ DOMAIN ips'
  <1>1. gone \in SUBSET {Shows[q].ip : q \in DOMAIN Shows}
    OBVIOUS
  <1>2. gone \cap Held' = {}
    BY DEF Held
  <1>3. /\ DOMAIN approvals' = {r \in DOMAIN approvals : approvals[r].ip \in DOMAIN ips'}
        /\ \A a \in DOMAIN approvals' : approvals'[a] = approvals[a]
        /\ nextApproval' = nextApproval
    BY DEF IpStep, Cascaded
  <1>4. DOMAIN Shows' = DOMAIN approvals' /\ DOMAIN Shows = DOMAIN approvals
    BY DEF Shows
  <1>5. \A q \in DOMAIN approvals : Shows[q].ip = approvals[q].ip
    BY DEF Shows, Shown
  <1>6. {r \in DOMAIN Shows : Shows[r].ip \notin gone} = DOMAIN approvals'
    BY <1>3, <1>4, <1>5
  <1>7. \A a \in DOMAIN approvals' : Shows'[a] = Shows[a]
    BY <1>3 DEF Shows, Shown
  <1>8. Shows' = [q \in {r \in DOMAIN Shows : Shows[r].ip \notin gone} |-> Shows[q]]
    BY <1>4, <1>6, <1>7 DEF Shows
  <1>9. QED
    BY <1>1, <1>2, <1>3, <1>8 DEF Queue!Elsewhere, Shows, Shown, Held

\* The INSERT of a request submits it: its IP is in use, and no request for
\* that IP is pending, in any tenant.
LEMMA RequestSubmits ==
    ASSUME QInv, NEW s \in Actor, RequestCommit(s)
    PROVE  /\ req[s].ip \in Held /\ req[s].type \in {"release", "reallocate"}
           /\ Queue!Submit(req[s].ip, req[s].type)
  <1> DEFINE new == [ip |-> req[s].ip, type |-> req[s].type, status |-> "pending"]
  <1>1. /\ req[s].ip \in Held /\ req[s].type \in {"release", "reallocate"}
        /\ Pending(req[s]) = {}
        /\ ips[req[s].ip]["tenant_id"] = req[s].tenant_id
    BY DEF QInv, SerialQueue, AInv, RequestsAgree, Asking, RequestCommit, Held
  <1>2. {q \in DOMAIN Shows : Shows[q].ip = req[s].ip /\ Shows[q].status = "pending"} = {}
    BY <1>1 DEF Shows, Shown, Pending, QInv, AInv, ApprovalsResolve
  <1>3. /\ DOMAIN approvals' = DOMAIN approvals \cup {nextApproval}
        /\ \A a \in DOMAIN approvals : a # nextApproval => approvals'[a] = approvals[a]
        /\ approvals'[nextApproval].ip = req[s].ip
        /\ approvals'[nextApproval].type = req[s].type
        /\ approvals'[nextApproval].status = "pending"
        /\ nextApproval' = nextApproval + 1 /\ ips' = ips
    BY DEF RequestCommit, tables
  <1>4. Shows' = [q \in DOMAIN Shows \cup {nextApproval} |->
                    IF q = nextApproval THEN new ELSE Shows[q]]
    BY <1>3 DEF Shows, Shown
  <1>5. Held' = Held
    BY <1>3 DEF Held
  <1>6. QED
    BY <1>1, <1>2, <1>3, <1>4, <1>5 DEF Queue!Submit, Queue!PendingFor, Shows, Shown, Held

\* The UPDATE of a request decides it: it is still the pending one that was read.
LEMMA DecidedDecides ==
    ASSUME QInv, NEW s \in Actor, Deciding(s), NEW status, Decided(s, status)
    PROVE  req[s].approval \in DOMAIN Shows /\ Queue!Decide(req[s].approval, status)
  <1> DEFINE a == req[s].approval
  <1>1. /\ a \in DOMAIN approvals /\ approvals[a].status = "pending"
        /\ approvals' = [approvals EXCEPT ![a].status = status] /\ nextApproval' = nextApproval
    BY DEF QInv, SerialQueue, Decided
  <1>2. /\ DOMAIN approvals' = DOMAIN approvals
        /\ \A b \in DOMAIN approvals \ {a} : approvals'[b] = approvals[b]
        /\ approvals'[a] = [approvals[a] EXCEPT !.status = status]
    BY <1>1
  <1>3. /\ approvals'[a].ip = approvals[a].ip /\ approvals'[a].type = approvals[a].type
        /\ approvals'[a].status = status
    BY <1>1, <1>2 DEF QInv, ApprovalRows, IsRequest
  <1>4. Shows' = [Shows EXCEPT ![a].status = status]
    BY <1>1, <1>2, <1>3 DEF Shows, Shown
  <1>5. QED
    BY <1>1, <1>4 DEF Queue!Decide, Shows, Shown

LEMMA ApproveApproves ==
    ASSUME QInv, NEW s \in Actor, ApproveCommit(s)
    PROVE  req[s].approval \in DOMAIN Shows /\ Queue!Approve(req[s].approval)
  <1> DEFINE a == req[s].approval
  <1>1. Decided(s, "approved") /\ Deciding(s) /\ pc[s] = "approving"
    BY DEF ApproveCommit, Deciding
  <1>2. a \in DOMAIN approvals /\ approvals[a] = req[s].row
    BY <1>1 DEF QInv, SerialQueue
  <1>3. Held' = IF approvals[a].type = "release" THEN Held \ {approvals[a].ip} ELSE Held
    <2>1. CASE req[s].row.type # "release"
      BY <1>2, <2>1 DEF ApproveCommit, Held
    <2>2. CASE req[s].row.type = "release"
      <3>1. PICK i \in DOMAIN loaded[s] : UpdateRow(i, loaded[s][i], Freed(loaded[s][i]))
        BY <2>2 DEF ApproveCommit
      <3>2. i = req[s].row.ip /\ i \in DOMAIN ips /\ ips[i] = loaded[s][i] /\ IsRow(ips[i])
        BY <1>1 DEF QInv, SerialQueue, DecisionsAgree, AInv, RowsTyped
      <3>3. /\ DOMAIN ips' = DOMAIN ips /\ \A j \in DOMAIN ips \ {i} : ips'[j] = ips[j]
            /\ ips'[i] = Flushed(ips[i], ips[i], Freed(ips[i]))
        BY <3>1, <3>2 DEF UpdateRow
      <3>4. Freed(ips[i])["status"] = "available" /\ "status" \in Columns
        BY <3>2 DEF Freed, IsRow, Columns
      <3>5. ips'[i]["status"] = "available"
        BY <3>3, <3>4 DEF Flushed
      <3>6. QED
        BY <1>2, <2>2, <3>2, <3>3, <3>5 DEF Held, Live
    <2>3. QED
      BY <2>1, <2>2
  <1>4. Queue!Decide(a, "approved") /\ a \in DOMAIN Shows
    BY <1>1, DecidedDecides
  <1>5. Shows[a].type = approvals[a].type /\ Shows[a].ip = approvals[a].ip
    BY <1>2 DEF Shows, Shown
  <1>6. QED
    BY <1>3, <1>4, <1>5 DEF Queue!Approve, Held, Shows, Shown

\* Every step of the endpoints is a step of the workflow or none.
LEMMA StepImplements ==
    ASSUME OneAtATime, QInv, [NextApprovals]_allVars
    PROVE  [Queue!Next]_(Queue!vars)
  <1>1. Session \subseteq Actor
    BY DEF Actor
  <1>2. ASSUME UNCHANGED <<ips, approvals, nextApproval>> PROVE UNCHANGED Queue!vars
    BY <1>2 DEF Queue!vars
  <1>3. CASE IpStep
    BY <1>3, IpStepElsewhere DEF Queue!Next
  <1>4. ASSUME NEW s \in Session, RequestCommit(s) PROVE Queue!Next
    <2>1. /\ req[s].ip \in Held /\ req[s].type \in {"release", "reallocate"}
          /\ Queue!Submit(req[s].ip, req[s].type)
      BY <1>1, <1>4, RequestSubmits
    <2>2. \E ip \in Held, type \in {"release", "reallocate"} : Queue!Submit(ip, type)
      BY <2>1 DEF Queue!Submit
    <2>3. QED
      BY <2>2 DEF Queue!Next, Held
  <1>5. ASSUME NEW s \in Session, ApproveCommit(s) PROVE Queue!Next
    <2>1. req[s].approval \in DOMAIN Shows /\ Queue!Approve(req[s].approval)
      BY <1>1, <1>5, ApproveApproves
    <2>2. \E q \in DOMAIN Shows : Queue!Approve(q) \/ Queue!Reject(q)
      BY <2>1 DEF Queue!Approve, Queue!Decide
    <2>3. QED
      BY <2>2 DEF Queue!Next, Shows, Shown
  <1>6. ASSUME NEW s \in Session, RejectCommit(s) PROVE Queue!Next
    <2>1. Queue!Decide(req[s].approval, "rejected") /\ req[s].approval \in DOMAIN Shows
      BY <1>1, <1>6, DecidedDecides DEF RejectCommit, Deciding
    <2>2. Held' = Held
      BY <1>6 DEF RejectCommit, tables, Held
    <2>3. QED
      BY <2>1, <2>2 DEF Queue!Next, Queue!Reject, Shows, Shown, Held
  <1>7. ASSUME NEW s \in Session,
               \/ RequestRead(s) \/ RequestCheck(s) \/ ApproveReadIp(s)
               \/ DecisionRead(s, "approve") \/ DecisionRead(s, "reject")
        PROVE  UNCHANGED Queue!vars
    BY <1>2, <1>7 DEF RequestRead, RequestCheck, ApproveReadIp, DecisionRead, tables, approvalVars
  <1>8. CASE UNCHANGED allVars
    BY <1>2, <1>8 DEF allVars, vars, tables, approvalVars
  <1>9. QED
    BY <1>3, <1>4, <1>5, <1>6, <1>7, <1>8 DEF NextApprovals

LEMMA SpecQInv == ASSUME OneAtATime PROVE SpecApprovals => []QInv
  <1>1. InitApprovals => QInv
    <2>1. InitApprovals => AInv
      BY InitAInv
    <2>2. InitApprovals => DecisionsAgree /\ SerialQueue /\ ApprovalRows
      BY DEF InitApprovals, Init, DecisionsAgree, SerialQueue, ApprovalRows, Deciding, Asking
    <2>3. QED
      BY <2>1, <2>2 DEF QInv
  <1>2. QInv /\ [NextApprovals]_allVars => QInv'
    BY StepSerialQueue
  <1>3. QED
    BY <1>1, <1>2, PTL DEF SpecApprovals

\* With one request at a time the endpoints of approvals.py, with everything
\* else that reads and writes the IPs, implement the approval workflow.
THEOREM EndpointsImplementQueue == ASSUME OneAtATime PROVE SpecApprovals => ImplementsQueue
  <1>1. InitApprovals => Queue!Init
    <2>1. InitApprovals => approvals = [a \in {} |-> Null] /\ ips = NoRows /\ nextApproval = 1
      BY DEF InitApprovals, Init
    <2>2. DOMAIN [a \in {} |-> Null] = {} /\ DOMAIN NoRows = {}
      BY DEF NoRows
    <2>3. QED
      BY <2>1, <2>2 DEF Queue!Init
  <1>2. QInv /\ [NextApprovals]_allVars => [Queue!Next]_(Queue!vars)
    BY StepImplements
  <1>3. QED
    BY <1>1, <1>2, SpecQInv, PTL DEF SpecApprovals, ImplementsQueue, Queue!Spec

QP == INSTANCE ApprovalQueueProofs WITH queue <- Shows, next <- nextApproval, held <- Held

\* What the workflow promises therefore holds at the endpoints.
LEMMA EndpointsKeepThePromise == ASSUME OneAtATime PROVE SpecApprovals => QP!Spec
  <1>1. Queue!Init => QP!Init
    BY DEF Queue!Init, QP!Init, Shows, Held, Shown
  <1>2. [Queue!Next]_(Queue!vars) => [QP!Next]_(QP!vars)
    BY DEF Queue!Next, QP!Next, Queue!vars, QP!vars, Queue!Submit, QP!Submit, Queue!Approve,
       QP!Approve, Queue!Reject, QP!Reject, Queue!Decide, QP!Decide, Queue!Elsewhere,
       QP!Elsewhere, Queue!PendingFor, QP!PendingFor, Shows, Held, Shown
  <1>3. QED
    BY <1>1, <1>2, EndpointsImplementQueue, PTL DEF ImplementsQueue, Queue!Spec, QP!Spec

\* With one request at a time an IP has at most one pending request: the
\* duplicate check of request_release looks at the tenant's requests only, and
\* those of an IP are all of its own tenant.
THEOREM OneRequestPending == ASSUME OneAtATime PROVE SpecApprovals => []QP!OnePending
  BY EndpointsKeepThePromise, QP!OnePendingRequest, PTL

\* With one request at a time a decision is final: the status that
\* approve_request and reject_request read is still the one they overwrite.
\* The run decision_race shows that two reviewers at once break it.
THEOREM DecisionsStandAlone == ASSUME OneAtATime PROVE SpecApprovals => DecidedOnce
  <1>1. [QP!Final]_(QP!vars) => [DecisionsStand]_allVars
    BY DEF QP!Final, QP!vars, DecisionsStand, Shows, Shown, Held
  <1>2. QED
    BY <1>1, EndpointsKeepThePromise, QP!DecisionsAreFinal, PTL DEF DecidedOnce, QP!DecidedOnce
=============================================================================
