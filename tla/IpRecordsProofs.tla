-------------------------- MODULE IpRecordsProofs --------------------------
(***************************************************************************)
(* Proofs about IpRecords for any number of sessions, rows, tenants, VRFs  *)
(* and subnets and any set of request bodies: the inductive invariant IInv *)
(* and the properties that follow from it.                                 *)
(***************************************************************************)
EXTENDS IpRecords, TLAPS

-----------------------------------------------------------------------------
(* Rows *)

\* The type of each column that a handler assigns by name.
LEMMA ColumnTypes ==
    /\ ColumnType("tenant_id") = Tenant
    /\ ColumnType("address") = Text
    /\ ColumnType("subnet_id") = Subnet
    /\ ColumnType("vrf_id") = Vrf \cup {Null}
    /\ ColumnType("status") = Status
    /\ ColumnType("expires_at") = Nat \cup {Null}
    /\ ColumnType("assigned_to") = Owner \cup {Null}
    /\ ColumnType("is_vip") = BOOLEAN
    /\ ColumnType("vip_type") = VipType \cup {Null}
  BY DEF ColumnType

\* A flush of a row onto a row gives a row, and keeps each column that the
\* session did not change.
LEMMA FlushedIsRow ==
    ASSUME NEW current, NEW old, NEW new, IsRow(current), IsRow(new)
    PROVE  /\ IsRow(Flushed(current, old, new))
           /\ \A c \in Columns : new[c] = old[c] =>
                 Flushed(current, old, new)[c] = current[c]
           /\ \A c \in Columns : Flushed(current, old, new)[c] \in {current[c], new[c]}
  BY DEF IsRow, Flushed

\* Setting a column to a value of its type gives a row.
LEMMA SetColumnIsRow ==
    ASSUME NEW row, IsRow(row), NEW c \in Columns, NEW v \in ColumnType(c)
    PROVE  /\ IsRow([row EXCEPT ![c] = v])
           /\ \A d \in Columns \ {c} : [row EXCEPT ![c] = v][d] = row[d]
           /\ [row EXCEPT ![c] = v][c] = v
  BY DEF IsRow

\* setattr of a body keeps the tenant; what it leaves of a row is a row once the
\* NOT NULL constraints are met.
LEMMA AssignedIsRow ==
    ASSUME NEW current, NEW old, IsRow(current), IsRow(old), NEW b \in Updates
    PROVE  /\ Assigned(old, b)["tenant_id"] = old["tenant_id"]
           /\ NotNullOk(Flushed(current, old, Assigned(old, b)))
                 => IsRow(Flushed(current, old, Assigned(old, b)))
  <1> DEFINE new == Assigned(old, b)
             row == Flushed(current, old, new)
  <1>1. /\ IsPatch(b.set)
        /\ "tenant_id" \notin DOMAIN b.set
    BY BodyAssumption
  <1>2. new["tenant_id"] = old["tenant_id"]
    BY <1>1 DEF Assigned, Patched, Columns
  <1>3. ASSUME NEW c \in Columns PROVE new[c] \in ColumnType(c) \cup {Null}
    BY <1>1 DEF IsRow, IsPatch, Assigned, Patched
  <1>4. ASSUME NEW c \in Columns PROVE row[c] \in ColumnType(c) \cup {Null}
    BY <1>3 DEF IsRow, Flushed
  <1>5. \A c \in Columns \ NotNull : Null \in ColumnType(c)
    BY ColumnTypes DEF Columns, NotNull
  <1>6. NotNullOk(row) => \A c \in Columns : row[c] \in ColumnType(c)
    BY <1>4, <1>5 DEF NotNullOk
  <1>7. row = [c \in Columns |-> row[c]]
    BY DEF Flushed
  <1>8. QED BY <1>2, <1>6, <1>7 DEF IsRow

\* Releasing a row keeps its tenant and VRF and gives a row.
LEMMA ReleasedIsRow ==
    ASSUME NEW row, IsRow(row)
    PROVE  /\ IsRow(Released(row))
           /\ Released(row)["tenant_id"] = row["tenant_id"]
           /\ Released(row)["vrf_id"] = row["vrf_id"]
  <1>1. /\ "available" \in ColumnType("status")
        /\ Null \in ColumnType("assigned_to")
        /\ Null \in ColumnType("expires_at")
    BY ColumnTypes, StatusAssumption
  <1>2. {"status", "assigned_to", "expires_at", "tenant_id", "vrf_id"} \subseteq Columns
    BY DEF Columns
  <1>3. QED BY <1>1, <1>2 DEF IsRow, Released

\* Every row a request can add is a row.
LEMMA NewRowsAreRows == \A r \in NewRows : IsRow(r)
  <1>1. ASSUME NEW n \in AllocSubnets, NEW v \in Vrf \cup {Null},
               NEW a \in Hosts[n], NEW owner \in Owner \cup {Null}
        PROVE  IsRow(AllocatedRow(n, v, a, owner))
    <2>1. n \in Subnet /\ Canon[a] \in Text /\ TenantOf[n] \in Tenant
      BY SubnetAssumption, BodyAssumption
    <2>2. ASSUME NEW c \in Columns
          PROVE  AllocatedRow(n, v, a, owner)[c] \in ColumnType(c)
      <3> DEFINE r == AllocatedRow(n, v, a, owner)
      <3>1. /\ r["tenant_id"] = TenantOf[n] /\ r["address"] = Canon[a]
            /\ r["subnet_id"] = n /\ r["vrf_id"] = v
            /\ r["status"] = "allocated" /\ r["expires_at"] = Null
            /\ r["assigned_to"] = owner /\ r["is_vip"] = FALSE
            /\ r["vip_type"] = Null
        BY DEF AllocatedRow
      <3>2. CASE c \in {"tenant_id", "address", "subnet_id"}
        BY <2>1, <3>1, <3>2, ColumnTypes
      <3>3. CASE c \in {"vrf_id", "assigned_to", "expires_at"}
        BY <3>1, <3>3, ColumnTypes
      <3>4. CASE c \in {"status", "is_vip", "vip_type"}
        BY <3>1, <3>4, ColumnTypes, StatusAssumption
      <3>5. QED BY <3>2, <3>3, <3>4 DEF Columns
    <2>3. AllocatedRow(n, v, a, owner)
             = [c \in Columns |-> AllocatedRow(n, v, a, owner)[c]]
      BY DEF AllocatedRow, Columns
    <2>4. QED BY <2>2, <2>3 DEF IsRow
  <1>2. ASSUME NEW b \in Creates PROVE IsRow(b.row)
    BY BodyAssumption
  <1>3. ASSUME NEW b \in Bulks, NEW k \in 1..Len(b) PROVE IsRow(b[k])
    BY BodyAssumption
  <1>4. QED BY <1>1, <1>2, <1>3 DEF NewRows

-----------------------------------------------------------------------------
(* Sessions *)

\* What a step does to the rows that other sessions have loaded: it may delete
\* them and add new ones, but a row that stays keeps its tenant.
KeepsTenants ==
    /\ nextId' \in Nat
    /\ nextId <= nextId'
    /\ \A i \in DOMAIN ips' : i < nextId =>
          i \in DOMAIN ips /\ ips'[i]["tenant_id"] = ips[i]["tenant_id"]

\* A session that closes leaves the sessions consistent with the tables.
LEMMA AfterClose ==
    ASSUME IInv, NEW s \in Actor, Close(s), KeepsTenants
    PROVE  SessionsOK' /\ SessionsAgree'
  <1>1. /\ \A t \in Actor \ {s} : /\ pc'[t] = pc[t] /\ req'[t] = req[t]
                                  /\ loaded'[t] = loaded[t] /\ draft'[t] = draft[t]
        /\ pc'[s] = "idle" /\ req'[s] = Null
        /\ loaded'[s] = NoRows /\ draft'[s] = <<>>
    BY DEF Close, IInv, TypeOK, SessionsOK
  <1>2. DOMAIN NoRows = {}
    BY DEF NoRows
  <1>3. SessionsOK'
    <2>1. <<>> \in Seq(NewRows)
      OBVIOUS
    <2>2. draft' \in [Actor -> Seq(NewRows)]
      BY <2>1 DEF Close, IInv, TypeOK, SessionsOK
    <2>3. QED BY <1>1, <1>2, <2>2 DEF Close, IInv, TypeOK, SessionsOK
  <1>4. SessionsAgree'
    BY <1>1, <1>2 DEF IInv, TypeOK, TablesOK, SessionsOK, SessionsAgree, KeepsTenants
  <1>5. QED BY <1>3, <1>4

\* So does a step of no session.
LEMMA SessionsUntouched ==
    ASSUME IInv, UNCHANGED session, KeepsTenants
    PROVE  SessionsOK' /\ SessionsAgree'
  BY DEF IInv, TypeOK, TablesOK, SessionsOK, SessionsAgree, KeepsTenants, session

\* And a handler that starts with rows it has just read.
StartsWell(s) ==
    /\ pc' = [pc EXCEPT ![s] = pc'[s]]
    /\ req' = [req EXCEPT ![s] = req'[s]]
    /\ loaded' = [loaded EXCEPT ![s] = loaded'[s]]
    /\ draft' = [draft EXCEPT ![s] = draft'[s]]
    /\ pc'[s] \in {"create", "bulk", "allocate", "update", "cleanup"}
    /\ pc'[s] = "create" => req'[s] \in Creates /\ draft'[s] = <<req'[s].row>>
    /\ pc'[s] = "bulk" => req'[s] \in Bulks
    /\ pc'[s] = "update" => req'[s] \in Updates
    /\ draft'[s] \in Seq(NewRows)
    /\ \A i \in DOMAIN loaded'[s] :
          /\ i \in DOMAIN ips /\ loaded'[s][i] = ips[i]
          /\ pc'[s] = "update" => ips[i]["tenant_id"] = req'[s].tenant_id

LEMMA AfterOpen ==
    ASSUME IInv, UNCHANGED tables, UNCHANGED clock, NEW s \in Actor, StartsWell(s)
    PROVE  IInv'
  <1>1. TablesOK' /\ ReferencesResolve'
    BY DEF IInv, TypeOK, TablesOK, ReferencesResolve, tables
  <1>2. \A t \in Actor \ {s} : /\ pc'[t] = pc[t] /\ req'[t] = req[t]
                               /\ loaded'[t] = loaded[t] /\ draft'[t] = draft[t]
    BY DEF StartsWell, IInv, TypeOK, SessionsOK
  <1>3. SessionsOK'
    <2>1. pc' \in [Actor -> {"idle", "create", "bulk", "allocate", "update", "cleanup"}]
      BY DEF StartsWell, IInv, TypeOK, SessionsOK
    <2>2. draft' \in [Actor -> Seq(NewRows)]
      BY DEF StartsWell, IInv, TypeOK, SessionsOK
    <2>3. req' = [t \in Actor |-> req'[t]] /\ loaded' = [t \in Actor |-> loaded'[t]]
      BY DEF StartsWell, IInv, TypeOK, SessionsOK
    <2>4. \A i \in DOMAIN loaded'[s] : i \in Nat /\ IsRow(loaded'[s][i])
      BY DEF StartsWell, IInv, TypeOK, TablesOK
    <2>5. QED
      BY <1>2, <2>1, <2>2, <2>3, <2>4 DEF StartsWell, IInv, TypeOK, SessionsOK
  <1>4. SessionsAgree'
    BY <1>2 DEF StartsWell, IInv, TypeOK, TablesOK, SessionsAgree, tables
  <1>5. QED BY <1>1, <1>3, <1>4 DEF IInv, TypeOK

-----------------------------------------------------------------------------
(* Actions *)

LEMMA InitIInv == Init => IInv
  <1>1. Init => TablesOK
    BY DEF Init, TablesOK, NoRows
  <1>2. <<>> \in Seq(NewRows)
    OBVIOUS
  <1>3. Init => SessionsOK
    BY <1>2 DEF Init, SessionsOK, NoRows
  <1>4. Init => ReferencesResolve /\ SessionsAgree
    BY DEF Init, ReferencesResolve, SessionsAgree, NoRows
  <1>5. QED BY <1>1, <1>3, <1>4 DEF IInv, TypeOK

\* An INSERT adds rows with ids never used before; the bindings inserted with
\* them join the first of them to existing rows of its tenant.
LEMMA InsertIInv ==
    ASSUME IInv, NEW s \in Actor, NEW bs, Insert(s, bs),
           bs \subseteq [vip : Nat, node : Nat],
           \A x \in bs : /\ x.vip = nextId /\ x.node \in DOMAIN ips
                         /\ Len(draft[s]) > 0
                         /\ draft[s][1]["tenant_id"] = ips[x.node]["tenant_id"]
    PROVE  IInv'
  <1> DEFINE n == Len(draft[s])
             added == nextId .. nextId + n - 1
  <1>1. /\ draft[s] \in Seq(NewRows) /\ n \in Nat /\ nextId \in Nat
        /\ \A i \in DOMAIN ips : i \in Nat /\ i < nextId /\ IsRow(ips[i])
    BY DEF IInv, TypeOK, TablesOK, SessionsOK
  <1>2. /\ \A k \in 1..n : ForeignKeysOk(draft[s][k])
        /\ ips' = [i \in DOMAIN ips \cup added |->
                       IF i \in DOMAIN ips THEN ips[i] ELSE draft[s][i - nextId + 1]]
        /\ bindings' = bindings \cup bs
        /\ nextId' = nextId + n
        /\ Close(s)
        /\ UNCHANGED <<vrfs, subnetVrf, clock>>
    BY DEF Insert
  <1>3. \A i \in added : /\ i \in Nat /\ i < nextId' /\ i \notin DOMAIN ips
                         /\ i - nextId + 1 \in 1..n
                         /\ ips'[i] = draft[s][i - nextId + 1]
    BY <1>1, <1>2
  <1>4. \A k \in 1..n : IsRow(draft[s][k])
    BY <1>1, NewRowsAreRows
  <1>5. \A i \in DOMAIN ips : i \in DOMAIN ips' /\ ips'[i] = ips[i]
    BY <1>2
  <1>6. DOMAIN ips' = DOMAIN ips \cup added
    BY <1>2
  <1>7. TablesOK'
    <2>1. \A i \in DOMAIN ips' : i \in Nat /\ i < nextId' /\ IsRow(ips'[i])
      BY <1>1, <1>2, <1>3, <1>4, <1>5, <1>6
    <2>2. ips' = [i \in DOMAIN ips' |-> ips'[i]]
      BY <1>2
    <2>3. bindings' \subseteq [vip : Nat, node : Nat]
      BY <1>2 DEF IInv, TypeOK, TablesOK
    <2>4. nextId' \in Nat
      BY <1>1, <1>2
    <2>5. UNCHANGED <<vrfs, subnetVrf, clock>>
      BY <1>2
    <2>6. QED BY <2>1, <2>2, <2>3, <2>4, <2>5 DEF IInv, TypeOK, TablesOK
  <1>8. ReferencesResolve'
    <2>1. \A i \in added : ips'[i]["vrf_id"] \in vrfs' \cup {Null}
      BY <1>2, <1>3 DEF ForeignKeysOk
    <2>2. ASSUME NEW x \in bs
          PROVE  /\ {x.vip, x.node} \subseteq DOMAIN ips'
                 /\ ips'[x.vip]["tenant_id"] = ips'[x.node]["tenant_id"]
      <3>1. x.vip \in added /\ x.vip - nextId + 1 = 1
        BY <1>1
      <3>2. QED BY <3>1, <1>3, <1>5, <1>6
    <2>3. ASSUME NEW x \in bindings
          PROVE  /\ {x.vip, x.node} \subseteq DOMAIN ips'
                 /\ ips'[x.vip]["tenant_id"] = ips'[x.node]["tenant_id"]
      BY <1>5 DEF IInv, ReferencesResolve
    <2>4. \A i \in DOMAIN ips : ips'[i]["vrf_id"] \in vrfs' \cup {Null}
      BY <1>2, <1>5 DEF IInv, ReferencesResolve
    <2>5. \A m \in Subnet : subnetVrf'[m] \in vrfs' \cup {Null}
      BY <1>2 DEF IInv, ReferencesResolve
    <2>6. bindings' = bindings \cup bs
      BY <1>2
    <2>7. QED BY <1>6, <2>1, <2>2, <2>3, <2>4, <2>5, <2>6 DEF ReferencesResolve
  <1>9. KeepsTenants
    BY <1>1, <1>2, <1>3, <1>5, <1>6 DEF KeepsTenants
  <1>10. QED BY <1>2, <1>7, <1>8, <1>9, AfterClose DEF IInv, TypeOK

LEMMA RollbackIInv == ASSUME IInv, NEW s \in Actor, Rollback(s) PROVE IInv'
  <1>1. UNCHANGED <<tables, clock>> /\ Close(s)
    BY DEF Rollback
  <1>2. KeepsTenants
    BY <1>1 DEF KeepsTenants, IInv, TypeOK, TablesOK, tables
  <1>3. TablesOK' /\ ReferencesResolve'
    BY <1>1 DEF IInv, TypeOK, TablesOK, ReferencesResolve, tables
  <1>4. QED BY <1>1, <1>2, <1>3, AfterClose DEF IInv, TypeOK

LEMMA CreateCheckIInv == ASSUME IInv, NEW s \in Actor, CreateCheck(s) PROVE IInv'
  <1>1. PICK b \in Creates : /\ Open(s, "create", b, NoRows, <<b.row>>)
                             /\ UNCHANGED tables /\ UNCHANGED clock
    BY DEF CreateCheck
  <1>2. b.row \in NewRows
    BY DEF NewRows
  <1>3. <<b.row>> \in Seq(NewRows)
    BY <1>2
  <1>4. \A i \in DOMAIN NoRows : FALSE
    BY DEF NoRows
  <1>5. StartsWell(s)
    BY <1>1, <1>3, <1>4 DEF StartsWell, Open, IInv, TypeOK, SessionsOK
  <1>6. QED BY <1>1, <1>5, AfterOpen

LEMMA CreateCommitIInv == ASSUME IInv, NEW s \in Actor, CreateCommit(s) PROVE IInv'
  <1> DEFINE nodes == IF req[s].row["is_vip"] THEN req[s].nodes ELSE {}
  <1>1. /\ pc[s] = "create"
        /\ NodesFound(nodes, req[s].row["tenant_id"])
        /\ Insert(s, BindingsTo(nextId, nodes))
    BY DEF CreateCommit
  <1>2. draft[s] = <<req[s].row>>
    BY <1>1 DEF IInv, SessionsAgree
  <1>3. Len(draft[s]) > 0 /\ draft[s][1] = req[s].row
    BY <1>2
  <1>4. /\ nextId \in Nat
        /\ \A x \in nodes : /\ x \in DOMAIN ips /\ x \in Nat
                            /\ ips[x]["tenant_id"] = req[s].row["tenant_id"]
    BY <1>1 DEF NodesFound, IInv, TypeOK, TablesOK
  <1>5. BindingsTo(nextId, nodes) \subseteq [vip : Nat, node : Nat]
    BY <1>4 DEF BindingsTo
  <1>6. \A x \in BindingsTo(nextId, nodes) : x.vip = nextId /\ x.node \in nodes
    BY DEF BindingsTo
  <1>7. QED BY <1>1, <1>3, <1>4, <1>5, <1>6, InsertIInv

LEMMA BulkStartIInv == ASSUME IInv, NEW s \in Actor, BulkStart(s) PROVE IInv'
  <1>1. PICK b \in Bulks : /\ Open(s, "bulk", b, NoRows, <<>>)
                           /\ UNCHANGED tables /\ UNCHANGED clock
    BY DEF BulkStart
  <1>2. <<>> \in Seq(NewRows)
    OBVIOUS
  <1>3. \A i \in DOMAIN NoRows : FALSE
    BY DEF NoRows
  <1>4. StartsWell(s)
    BY <1>1, <1>2, <1>3 DEF StartsWell, Open, IInv, TypeOK, SessionsOK
  <1>5. QED BY <1>1, <1>4, AfterOpen

LEMMA BulkCheckIInv == ASSUME IInv, NEW s \in Actor, BulkCheck(s) PROVE IInv'
  <1> DEFINE k == Len(draft[s]) + 1
  <1>1. /\ pc[s] = "bulk" /\ Len(draft[s]) < Len(req[s])
        /\ draft' = [draft EXCEPT ![s] = Append(@, req[s][k])]
        /\ UNCHANGED <<tables, clock, pc, req, loaded>>
    BY DEF BulkCheck
  <1>2. /\ req[s] \in Bulks /\ draft[s] \in Seq(NewRows)
        /\ draft \in [Actor -> Seq(NewRows)]
    BY <1>1 DEF IInv, TypeOK, SessionsOK
  <1>3. k \in 1..Len(req[s])
    BY <1>1, <1>2, BodyAssumption
  <1>4. req[s][k] \in NewRows
    BY <1>2, <1>3 DEF NewRows
  <1>5. Append(draft[s], req[s][k]) \in Seq(NewRows)
    BY <1>2, <1>4
  <1>6. draft' \in [Actor -> Seq(NewRows)]
    BY <1>1, <1>2, <1>5
  <1>7. \A t \in Actor : pc[t] = "create" => draft'[t] = draft[t]
    BY <1>1, <1>2
  <1>8. TablesOK' /\ ReferencesResolve'
    BY <1>1 DEF IInv, TypeOK, TablesOK, ReferencesResolve, tables
  <1>9. SessionsOK'
    BY <1>1, <1>6 DEF IInv, TypeOK, SessionsOK
  <1>10. SessionsAgree'
    BY <1>1, <1>7 DEF IInv, SessionsAgree, tables
  <1>11. QED BY <1>8, <1>9, <1>10 DEF IInv, TypeOK

LEMMA BulkCommitIInv == ASSUME IInv, NEW s \in Actor, BulkCommit(s) PROVE IInv'
  BY InsertIInv DEF BulkCommit

LEMMA AllocateSelectIInv ==
    ASSUME IInv, NEW s \in Actor, AllocateSelect(s) PROVE IInv'
  <1>1. PICK n \in AllocSubnets, owner \in Owner \cup {Null} : \E a \in FreeIn(n) :
            /\ Open(s, "allocate", Null, NoRows, <<AllocatedRow(n, subnetVrf[n], a, owner)>>)
            /\ UNCHANGED tables /\ UNCHANGED clock
    BY DEF AllocateSelect
  <1>2. PICK a \in FreeIn(n) :
            /\ Open(s, "allocate", Null, NoRows, <<AllocatedRow(n, subnetVrf[n], a, owner)>>)
            /\ UNCHANGED tables /\ UNCHANGED clock
    BY <1>1
  <1> DEFINE row == AllocatedRow(n, subnetVrf[n], a, owner)
  <1>3. a \in Hosts[n] /\ subnetVrf[n] \in Vrf \cup {Null}
    BY BodyAssumption DEF FreeIn, IInv, TypeOK, TablesOK
  <1>4. row \in NewRows
    BY <1>3 DEF NewRows
  <1>5. <<row>> \in Seq(NewRows)
    BY <1>4
  <1>6. \A i \in DOMAIN NoRows : FALSE
    BY DEF NoRows
  <1>7. StartsWell(s)
    BY <1>2, <1>5, <1>6 DEF StartsWell, Open, IInv, TypeOK, SessionsOK
  <1>8. QED BY <1>2, <1>7, AfterOpen

LEMMA AllocateCommitIInv ==
    ASSUME IInv, NEW s \in Actor, AllocateCommit(s) PROVE IInv'
  BY InsertIInv DEF AllocateCommit

LEMMA UpdateReadIInv == ASSUME IInv, NEW s \in Actor, UpdateRead(s) PROVE IInv'
  <1>1. PICK b \in Updates, i \in DOMAIN ips :
            /\ ips[i]["tenant_id"] = b.tenant_id
            /\ Open(s, "update", b, [j \in {i} |-> ips[i]], <<>>)
            /\ UNCHANGED tables /\ UNCHANGED clock
    BY DEF UpdateRead
  <1>2. <<>> \in Seq(NewRows)
    OBVIOUS
  <1>3. StartsWell(s)
    BY <1>1, <1>2 DEF StartsWell, Open, IInv, TypeOK, SessionsOK
  <1>4. QED BY <1>1, <1>3, AfterOpen

\* An UPDATE by id replaces the row by one of the same tenant.
LEMMA UpdateCommitIInv ==
    ASSUME IInv, NEW s \in Actor, UpdateCommit(s) PROVE IInv'
  <1>1. PICK i \in DOMAIN loaded[s] :
            /\ req[s].nodes # Null /\ ~Demotes(req[s]) =>
                  NodesFound(req[s].nodes, req[s].tenant_id)
            /\ UpdateRow(i, loaded[s][i], Assigned(loaded[s][i], req[s]))
            /\ NotNullOk(ips'[i]) /\ ForeignKeysOk(ips'[i])
            /\ bindings' = BindingsAfter(i, req[s])
    BY DEF UpdateCommit
  <1>2. /\ pc[s] = "update" /\ Close(s)
        /\ UNCHANGED <<vrfs, subnetVrf, nextId, clock>>
    BY DEF UpdateCommit
  <1> DEFINE b == req[s]
             old == loaded[s][i]
             new == Assigned(old, b)
  <1>3. b \in Updates /\ IsRow(old) /\ i \in Nat
    BY <1>2 DEF IInv, TypeOK, SessionsOK
  <1>4. /\ i \in DOMAIN ips /\ IsRow(ips[i])
        /\ ips' = [ips EXCEPT ![i] = Flushed(ips[i], old, new)]
    BY <1>1 DEF UpdateRow, IInv, TypeOK, TablesOK
  <1>5. NotNullOk(Flushed(ips[i], old, new))
    BY <1>1, <1>4
  <1>6. /\ IsRow(Flushed(ips[i], old, new))
        /\ Flushed(ips[i], old, new)["tenant_id"] = ips[i]["tenant_id"]
    BY <1>3, <1>4, <1>5, AssignedIsRow DEF Flushed, Columns
  <1>7. /\ DOMAIN ips' = DOMAIN ips
        /\ \A j \in DOMAIN ips : /\ IsRow(ips'[j])
                                 /\ ips'[j]["tenant_id"] = ips[j]["tenant_id"]
                                 /\ j # i => ips'[j] = ips[j]
    BY <1>4, <1>6 DEF IInv, TypeOK, TablesOK
  <1>8. ips[i]["tenant_id"] = b.tenant_id
    BY <1>2, <1>4 DEF IInv, SessionsAgree
  <1>9. \A x \in bindings' : \/ x \in bindings
                            \/ /\ x = [vip |-> i, node |-> x.node]
                               /\ x.node \in DOMAIN ips
                               /\ ips[x.node]["tenant_id"] = b.tenant_id
    BY <1>1 DEF BindingsAfter, BindingsTo, NodesFound
  <1>10. TablesOK'
    <2>1. bindings' \subseteq [vip : Nat, node : Nat]
      BY <1>3, <1>9 DEF IInv, TypeOK, TablesOK
    <2>2. ips' = [j \in DOMAIN ips' |-> ips'[j]]
      BY <1>4 DEF IInv, TypeOK, TablesOK
    <2>3. QED BY <1>2, <1>7, <2>1, <2>2 DEF IInv, TypeOK, TablesOK
  <1>11. ReferencesResolve'
    <2>1. ASSUME NEW x \in bindings'
          PROVE  /\ {x.vip, x.node} \subseteq DOMAIN ips'
                 /\ ips'[x.vip]["tenant_id"] = ips'[x.node]["tenant_id"]
      <3>1. CASE x \in bindings
        BY <1>7, <3>1 DEF IInv, ReferencesResolve
      <3>2. CASE x \notin bindings
        BY <1>4, <1>7, <1>8, <1>9, <3>2
      <3>3. QED BY <3>1, <3>2
    <2>2. \A j \in DOMAIN ips' : ips'[j]["vrf_id"] \in vrfs' \cup {Null}
      BY <1>1, <1>2, <1>7 DEF ForeignKeysOk, IInv, ReferencesResolve
    <2>3. QED BY <1>2, <2>1, <2>2 DEF IInv, ReferencesResolve
  <1>12. KeepsTenants
    BY <1>2, <1>7 DEF KeepsTenants, IInv, TypeOK, TablesOK
  <1>13. QED BY <1>2, <1>10, <1>11, <1>12, AfterClose DEF IInv, TypeOK

LEMMA DeleteIpIInv ==
    ASSUME IInv, NEW s \in Actor, NEW i \in DOMAIN ips, DeleteIp(s, i) PROVE IInv'
  <1>1. /\ ips' = [j \in DOMAIN ips \ {i} |-> ips[j]]
        /\ bindings' = {x \in bindings : i \notin {x.vip, x.node}}
        /\ UNCHANGED <<vrfs, subnetVrf, nextId, clock>> /\ UNCHANGED session
    BY DEF DeleteIp
  <1>2. TablesOK'
    BY <1>1 DEF IInv, TypeOK, TablesOK
  <1>3. ReferencesResolve'
    BY <1>1 DEF IInv, ReferencesResolve
  <1>4. KeepsTenants
    BY <1>1 DEF KeepsTenants, IInv, TypeOK, TablesOK
  <1>5. QED BY <1>1, <1>2, <1>3, <1>4, SessionsUntouched DEF IInv, TypeOK

LEMMA DeleteVrfIInv ==
    ASSUME IInv, NEW s \in Actor, NEW v \in vrfs, DeleteVrf(s, v) PROVE IInv'
  <1>1. /\ vrfs' = vrfs \ {v}
        /\ ips' = [i \in DOMAIN ips |->
                      IF ips[i]["vrf_id"] = v THEN [ips[i] EXCEPT !["vrf_id"] = Null]
                                              ELSE ips[i]]
        /\ subnetVrf' = [n \in Subnet |-> IF subnetVrf[n] = v THEN Null ELSE subnetVrf[n]]
        /\ UNCHANGED <<bindings, nextId, clock>> /\ UNCHANGED session
    BY DEF DeleteVrf
  <1>2. "vrf_id" \in Columns /\ "tenant_id" \in Columns \ {"vrf_id"}
        /\ Null \in ColumnType("vrf_id")
    BY ColumnTypes DEF Columns
  <1>3. /\ DOMAIN ips' = DOMAIN ips
        /\ \A i \in DOMAIN ips :
              /\ IsRow(ips'[i])
              /\ ips'[i]["tenant_id"] = ips[i]["tenant_id"]
              /\ ips'[i]["vrf_id"] = IF ips[i]["vrf_id"] = v THEN Null
                                                             ELSE ips[i]["vrf_id"]
    BY <1>1, <1>2, SetColumnIsRow DEF IInv, TypeOK, TablesOK
  <1>4. TablesOK'
    BY <1>1, <1>3 DEF IInv, TypeOK, TablesOK
  <1>5. ReferencesResolve'
    BY <1>1, <1>3 DEF IInv, ReferencesResolve
  <1>6. KeepsTenants
    BY <1>1, <1>3 DEF KeepsTenants, IInv, TypeOK, TablesOK
  <1>7. QED BY <1>1, <1>4, <1>5, <1>6, SessionsUntouched DEF IInv, TypeOK

LEMMA CleanupSelectIInv ==
    ASSUME IInv, NEW c \in Actor, CleanupSelect(c) PROVE IInv'
  <1> DEFINE found == {i \in DOMAIN ips : Expired(ips[i])}
  <1>1. /\ Open(c, "cleanup", Null, [i \in found |-> ips[i]], <<>>)
        /\ UNCHANGED tables /\ UNCHANGED clock
    BY DEF CleanupSelect
  <1>2. <<>> \in Seq(NewRows)
    OBVIOUS
  <1>3. StartsWell(c)
    BY <1>1, <1>2 DEF StartsWell, Open, IInv, TypeOK, SessionsOK
  <1>4. QED BY <1>1, <1>3, AfterOpen

LEMMA CleanupCommitIInv ==
    ASSUME IInv, NEW c \in Actor, CleanupCommit(c) PROVE IInv'
  <1> DEFINE new(i) == Flushed(ips[i], loaded[c][i], Released(loaded[c][i]))
  <1>1. /\ ips' = [i \in DOMAIN ips |-> IF i \in DOMAIN loaded[c] THEN new(i) ELSE ips[i]]
        /\ UNCHANGED <<bindings, vrfs, subnetVrf, nextId, clock>> /\ Close(c)
    BY DEF CleanupCommit
  <1>2. ASSUME NEW i \in DOMAIN ips, i \in DOMAIN loaded[c]
        PROVE  /\ IsRow(new(i))
               /\ new(i)["tenant_id"] = ips[i]["tenant_id"]
               /\ new(i)["vrf_id"] = ips[i]["vrf_id"]
    <2>1. IsRow(ips[i]) /\ IsRow(loaded[c][i])
      BY <1>2 DEF IInv, TypeOK, TablesOK, SessionsOK
    <2>2. QED BY <2>1, ReleasedIsRow, FlushedIsRow DEF Columns
  <1>3. /\ DOMAIN ips' = DOMAIN ips
        /\ \A i \in DOMAIN ips : /\ IsRow(ips'[i])
                                 /\ ips'[i]["tenant_id"] = ips[i]["tenant_id"]
                                 /\ ips'[i]["vrf_id"] = ips[i]["vrf_id"]
    BY <1>1, <1>2 DEF IInv, TypeOK, TablesOK
  <1>4. TablesOK'
    BY <1>1, <1>3 DEF IInv, TypeOK, TablesOK
  <1>5. ReferencesResolve'
    BY <1>1, <1>3 DEF IInv, ReferencesResolve
  <1>6. KeepsTenants
    BY <1>1, <1>3 DEF KeepsTenants, IInv, TypeOK, TablesOK
  <1>7. QED BY <1>1, <1>4, <1>5, <1>6, AfterClose DEF IInv, TypeOK

LEMMA TickIInv == ASSUME IInv, Tick PROVE IInv'
  <1>1. UNCHANGED tables /\ UNCHANGED session /\ clock' = clock + 1
    BY DEF Tick
  <1>2. TablesOK' /\ ReferencesResolve'
    BY <1>1 DEF IInv, TypeOK, TablesOK, ReferencesResolve, tables
  <1>3. KeepsTenants
    BY <1>1 DEF KeepsTenants, IInv, TypeOK, TablesOK, tables
  <1>4. QED BY <1>1, <1>2, <1>3, SessionsUntouched DEF IInv, TypeOK

\* IInv is inductive.
LEMMA NextIInv == IInv /\ [Next]_vars => IInv'
  <1> SUFFICES ASSUME IInv, [Next]_vars PROVE IInv'
    OBVIOUS
  <1>1. CASE UNCHANGED vars
    <2>1. UNCHANGED tables /\ UNCHANGED session /\ UNCHANGED clock
      BY <1>1 DEF vars
    <2>2. TablesOK' /\ ReferencesResolve'
      BY <2>1 DEF IInv, TypeOK, TablesOK, ReferencesResolve, tables
    <2>3. KeepsTenants
      BY <2>1 DEF KeepsTenants, IInv, TypeOK, TablesOK, tables
    <2>4. QED BY <2>1, <2>2, <2>3, SessionsUntouched DEF IInv, TypeOK
  <1>2. ASSUME NEW s \in Session,
               \/ CreateCheck(s) \/ CreateCommit(s)
               \/ BulkStart(s) \/ BulkCheck(s) \/ BulkCommit(s)
               \/ AllocateSelect(s) \/ AllocateCommit(s)
               \/ UpdateRead(s) \/ UpdateCommit(s)
               \/ \E i \in DOMAIN ips : DeleteIp(s, i)
               \/ \E v \in vrfs : DeleteVrf(s, v)
        PROVE  IInv'
    <2>1. s \in Actor
      BY DEF Actor
    <2>2. QED
      BY <1>2, <2>1, CreateCheckIInv, CreateCommitIInv, BulkStartIInv, BulkCheckIInv,
         BulkCommitIInv, AllocateSelectIInv, AllocateCommitIInv, UpdateReadIInv,
         UpdateCommitIInv, DeleteIpIInv, DeleteVrfIInv
  <1>3. ASSUME NEW c \in Cleaner, CleanupSelect(c) \/ CleanupCommit(c) PROVE IInv'
    <2>1. c \in Actor
      BY DEF Actor
    <2>2. QED BY <1>3, <2>1, CleanupSelectIInv, CleanupCommitIInv
  <1>4. ASSUME NEW s \in Actor, Rollback(s) PROVE IInv'
    BY <1>4, RollbackIInv
  <1>5. CASE Tick
    BY <1>5, TickIInv
  <1>6. QED BY <1>1, <1>2, <1>3, <1>4, <1>5 DEF Next

-----------------------------------------------------------------------------
(* Theorems *)

\* IInv holds in every reachable state.
LEMMA SpecIInv == Spec => []IInv
  BY InitIInv, NextIInv, PTL DEF Spec

\* Type correctness of the tables and of every session's state.
THEOREM TypeCorrect == Spec => []TypeOK
  <1>1. IInv => TypeOK
    BY DEF IInv
  <1>2. QED BY <1>1, SpecIInv, PTL

\* Bindings and VRF references of api/v1/endpoints/ips.py always resolve, and
\* a binding never joins two tenants, however requests interleave.
THEOREM ReferentialIntegrity == Spec => []ReferencesResolve
  <1>1. IInv => ReferencesResolve
    BY DEF IInv
  <1>2. QED BY <1>1, SpecIInv, PTL

\* A step that takes a session from a handler to "idle" is the commit of that
\* handler or its rollback.
Commits(s) ==
    \/ CreateCommit(s) \/ BulkCommit(s) \/ AllocateCommit(s)
    \/ UpdateCommit(s) \/ CleanupCommit(s)

LEMMA SessionEnds ==
    ASSUME IInv, Next, NEW s \in Actor, pc[s] # "idle", pc'[s] = "idle"
    PROVE  Commits(s) \/ Rollback(s)
  <1>1. DOMAIN pc = Actor
    BY DEF IInv, TypeOK, SessionsOK
  <1>2. ASSUME NEW t \in Actor, Close(t) PROVE t = s
    BY <1>1, <1>2 DEF Close
  <1>3. ASSUME NEW t \in Session, Next, pc'[s] = "idle",
               \/ CreateCheck(t) \/ BulkStart(t) \/ BulkCheck(t)
               \/ AllocateSelect(t) \/ UpdateRead(t)
               \/ \E i \in DOMAIN ips : DeleteIp(t, i)
               \/ \E v \in vrfs : DeleteVrf(t, v)
        PROVE  FALSE
    <2>1. t \in Actor
      BY DEF Actor
    <2>2. CASE CreateCheck(t) \/ BulkStart(t) \/ AllocateSelect(t) \/ UpdateRead(t)
      BY <2>1, <2>2, <1>1 DEF CreateCheck, BulkStart, AllocateSelect, UpdateRead, Open
    <2>3. CASE BulkCheck(t)
      BY <2>3 DEF BulkCheck
    <2>4. CASE (\E i \in DOMAIN ips : DeleteIp(t, i)) \/ (\E v \in vrfs : DeleteVrf(t, v))
      BY <2>4 DEF DeleteIp, DeleteVrf, session
    <2>5. QED BY <1>3, <2>2, <2>3, <2>4
  <1>4. ASSUME NEW t \in Session,
               CreateCommit(t) \/ BulkCommit(t) \/ AllocateCommit(t) \/ UpdateCommit(t)
        PROVE  Commits(s)
    <2>1. t \in Actor
      BY DEF Actor
    <2>2. Close(t)
      BY <1>4 DEF CreateCommit, BulkCommit, AllocateCommit, UpdateCommit, Insert
    <2>3. t = s
      BY <2>1, <2>2, <1>2
    <2>4. QED BY <1>4, <2>3 DEF Commits
  <1>5. ASSUME NEW c \in Cleaner, CleanupSelect(c) \/ CleanupCommit(c) PROVE Commits(s)
    <2>1. c \in Actor
      BY DEF Actor
    <2>2. CASE CleanupSelect(c)
      BY <2>1, <2>2, <1>1 DEF CleanupSelect, Open
    <2>3. CASE CleanupCommit(c)
      BY <2>1, <2>3, <1>2 DEF CleanupCommit, Commits
    <2>4. QED BY <1>5, <2>2, <2>3
  <1>6. ASSUME NEW t \in Actor, Rollback(t) PROVE Rollback(s)
    BY <1>6, <1>2 DEF Rollback
  <1>7. ~Tick
    BY DEF Tick, session
  <1>8. QED BY <1>3, <1>4, <1>5, <1>6, <1>7 DEF Next

\* PUT /ips/{id} writes only the columns of its body, whatever was committed
\* between its SELECT and its flush.
THEOREM NoLostUpdates == Spec => UpdateKeepsOtherColumns
  <1>1. IInv /\ [Next]_vars => [EveryUpdateKeeps]_vars
    <2> SUFFICES ASSUME IInv, Next, NEW s \in Session, pc[s] = "update", pc'[s] = "idle"
                 PROVE  UpdateKeeps(s)
      BY DEF EveryUpdateKeeps
    <2>1. CASE Rollback(s)
      BY <2>1 DEF Rollback, tables, UpdateKeeps
    <2>2. CASE UpdateCommit(s)
      <3>1. PICK j \in DOMAIN loaded[s] :
              UpdateRow(j, loaded[s][j], Assigned(loaded[s][j], req[s]))
        BY <2>2 DEF UpdateCommit
      <3> DEFINE old == loaded[s][j]
                 new == Assigned(old, req[s])
      <3>2. /\ j \in DOMAIN ips
            /\ ips' = [ips EXCEPT ![j] = Flushed(ips[j], old, new)]
        BY <3>1 DEF UpdateRow
      <3>3. s \in Actor
        BY DEF Actor
      <3>4. IsRow(ips[j]) /\ IsRow(old) /\ req[s] \in Updates
        BY <3>2, <3>3 DEF IInv, TypeOK, TablesOK, SessionsOK
      <3>5. ASSUME NEW c \in Columns, ips'[j][c] # ips[j][c]
            PROVE  \/ c \in DOMAIN req[s].set
                   \/ c = "vip_type" /\ Demotes(req[s])
        <4>1. new[c] # old[c]
          BY <3>2, <3>5 DEF Flushed
        <4>2. new[c] = IF c = "vip_type" /\ Demotes(req[s]) THEN Null
                       ELSE IF c \in DOMAIN req[s].set THEN req[s].set[c] ELSE old[c]
          BY DEF Assigned, Patched
        <4>3. QED BY <4>1, <4>2
      <3>6. \A i \in DOMAIN ips : i # j => ips'[i] = ips[i]
        BY <3>2
      <3>7. QED BY <3>1, <3>5, <3>6 DEF UpdateKeeps
    <2>3. s \in Actor /\ (UpdateCommit(s) \/ ~Commits(s))
      BY DEF Actor, Commits, CreateCommit, BulkCommit, AllocateCommit, CleanupCommit
    <2>4. QED BY <2>1, <2>2, <2>3, SessionEnds
  <1>2. QED BY <1>1, SpecIInv, PTL DEF Spec, UpdateKeepsOtherColumns

\* No step brings a deleted row back: only an INSERT extends the table, and it
\* uses ids that were never used.
THEOREM NoResurrection == Spec => DeletedStaysDeleted
  <1>1. IInv /\ [Next]_vars => [NoneReturns]_vars
    <2> SUFFICES ASSUME IInv, Next PROVE NoneReturns
      OBVIOUS
    <2>1. nextId \in Nat
      BY DEF IInv, TypeOK, TablesOK
    <2>2. ASSUME NEW s \in Actor, NEW bs, Insert(s, bs) PROVE NoneReturns
      <3>1. Len(draft[s]) \in Nat
        BY DEF IInv, TypeOK, SessionsOK
      <3>2. DOMAIN ips' = DOMAIN ips \cup (nextId .. nextId + Len(draft[s]) - 1)
        BY <2>2 DEF Insert
      <3>3. QED BY <2>1, <3>1, <3>2 DEF NoneReturns
    <2>3. ASSUME DOMAIN ips' \subseteq DOMAIN ips PROVE NoneReturns
      BY <2>3 DEF NoneReturns
    <2>4. ASSUME NEW s \in Session PROVE s \in Actor
      BY DEF Actor
    <2>5. ASSUME NEW s \in Session, CreateCommit(s) \/ BulkCommit(s) \/ AllocateCommit(s)
          PROVE  NoneReturns
      BY <2>2, <2>4, <2>5 DEF CreateCommit, BulkCommit, AllocateCommit
    <2>6. ASSUME NEW s \in Session, UpdateCommit(s) PROVE NoneReturns
      BY <2>3, <2>6 DEF UpdateCommit, UpdateRow
    <2>7. ASSUME NEW s \in Session, NEW i \in DOMAIN ips, DeleteIp(s, i) PROVE NoneReturns
      BY <2>3, <2>7 DEF DeleteIp
    <2>8. ASSUME NEW s \in Session, NEW v \in vrfs, DeleteVrf(s, v) PROVE NoneReturns
      BY <2>3, <2>8 DEF DeleteVrf
    <2>9. ASSUME NEW c \in Cleaner, CleanupCommit(c) PROVE NoneReturns
      BY <2>3, <2>9 DEF CleanupCommit
    <2>10. ASSUME UNCHANGED tables PROVE NoneReturns
      BY <2>3, <2>10 DEF tables
    <2>11. ASSUME NEW s \in Session,
                  CreateCheck(s) \/ BulkStart(s) \/ BulkCheck(s) \/ AllocateSelect(s)
                     \/ UpdateRead(s)
           PROVE  UNCHANGED tables
      BY <2>11 DEF CreateCheck, BulkStart, BulkCheck, AllocateSelect, UpdateRead, tables
    <2>12. ASSUME NEW c \in Actor, CleanupSelect(c) \/ Rollback(c)
           PROVE  UNCHANGED tables
      BY <2>12 DEF CleanupSelect, Rollback, tables
    <2>13. CASE Tick
      BY <2>10, <2>13 DEF Tick
    <2>14. QED
      BY <2>5, <2>6, <2>7, <2>8, <2>9, <2>10, <2>11, <2>12, <2>13 DEF Next, Actor
  <1>2. QED BY <1>1, SpecIInv, PTL DEF Spec, DeletedStaysDeleted

-----------------------------------------------------------------------------
(* One session at a time                                                   *)

\* What the serial runs assume: requests and the cleanup are served in turn.
OneAtATime == \A s, t \in Actor : s = t

NotFoundIn(rows, row) == \A l \in DOMAIN rows : ~FoundAsDuplicate(rows[l], row)

\* What the rows a handler will insert were checked against.
DraftHolds(s) ==
    /\ pc[s] \in {"create", "bulk"} =>
          \A k \in DOMAIN draft[s] :
             /\ NotFoundIn(ips, draft[s][k])
             /\ \A l \in DOMAIN draft[s] : l < k => ~FoundAsDuplicate(draft[s][l], draft[s][k])
    /\ pc[s] = "allocate" =>
          \E n \in AllocSubnets, v \in Vrf \cup {Null}, owner \in Owner \cup {Null} :
             \E a \in FreeIn(n) : draft[s] = <<AllocatedRow(n, v, a, owner)>>

\* What a session read is still what the tables hold, and nothing is read
\* between two requests.
SerialInv ==
    \A s \in Actor :
        /\ pc[s] \notin {"update", "cleanup"} => DOMAIN loaded[s] = {}
        /\ \A i \in DOMAIN loaded[s] : i \in DOMAIN ips /\ ips[i] = loaded[s][i]
        /\ pc[s] = "cleanup" => \A i \in DOMAIN loaded[s] : Expired(loaded[s][i])
        /\ DraftHolds(s)

LEMMA SerialInit == Init => SerialInv
  BY DEF Init, SerialInv, DraftHolds, NoRows, Actor

\* After a commit or a rollback nothing is open.
LEMMA SerialClose ==
    ASSUME IInv, OneAtATime, NEW s \in Actor, Close(s)
    PROVE  SerialInv'
  <1>1. \A t \in Actor : pc'[t] = "idle" /\ loaded'[t] = NoRows
    BY DEF Close, OneAtATime, IInv, TypeOK, SessionsOK
  <1>2. DOMAIN NoRows = {}
    BY DEF NoRows
  <1>3. QED BY <1>1, <1>2 DEF SerialInv, DraftHolds

\* A statement that writes at once is the request of the idle session.
LEMMA SerialIdle ==
    ASSUME SerialInv, OneAtATime, NEW s \in Actor, pc[s] = "idle", UNCHANGED session
    PROVE  SerialInv'
  <1>1. \A t \in Actor : pc[t] = "idle" /\ DOMAIN loaded[t] = {}
    BY DEF OneAtATime, SerialInv
  <1>2. QED BY <1>1 DEF SerialInv, DraftHolds, session

\* A handler that starts: it holds what it has just read.
LEMMA SerialOpen ==
    ASSUME IInv, OneAtATime, NEW s \in Actor, UNCHANGED tables,
           \E where, body, rows, new : Open(s, where, body, rows, new),
           pc'[s] \notin {"update", "cleanup"} => DOMAIN loaded'[s] = {},
           \A i \in DOMAIN loaded'[s] : i \in DOMAIN ips /\ ips[i] = loaded'[s][i],
           pc'[s] = "cleanup" => \A i \in DOMAIN loaded'[s] : Expired(loaded[s][i])',
           DraftHolds(s)'
    PROVE  SerialInv'
  <1> SUFFICES ASSUME NEW t \in Actor
               PROVE  /\ pc'[t] \notin {"update", "cleanup"} => DOMAIN loaded'[t] = {}
                      /\ \A i \in DOMAIN loaded'[t] : i \in DOMAIN ips' /\ ips'[i] = loaded'[t][i]
                      /\ pc'[t] = "cleanup" => \A i \in DOMAIN loaded'[t] : Expired(loaded[t][i])'
                      /\ DraftHolds(t)'
    BY DEF SerialInv
  <1>1. t = s
    BY DEF OneAtATime
  <1>2. ips' = ips
    BY DEF tables
  <1>3. QED BY <1>1, <1>2

LEMMA SerialReads ==
    ASSUME IInv, SerialInv, OneAtATime, NEW s \in Actor,
           CreateCheck(s) \/ BulkStart(s) \/ AllocateSelect(s) \/ UpdateRead(s) \/ CleanupSelect(s)
    PROVE  SerialInv'
  <1> USE DEF IInv, TypeOK, SessionsOK
  <1>1. DOMAIN NoRows = {} /\ Actor = DOMAIN pc
    BY DEF NoRows
  <1>2. CASE CreateCheck(s)
    <2>1. PICK b \in Creates : /\ \A r \in Visible(s) : ~FoundAsDuplicate(r, b.row)
                               /\ Open(s, "create", b, NoRows, <<b.row>>)
                               /\ UNCHANGED <<tables, clock>>
      BY <1>2 DEF CreateCheck
    <2>2. /\ pc'[s] = "create" /\ loaded'[s] = NoRows /\ draft'[s] = <<b.row>>
      BY <2>1 DEF Open
    <2>3. DraftHolds(s)'
      BY <2>1, <2>2 DEF DraftHolds, NotFoundIn, Visible, tables
    <2>4. QED BY <1>1, <2>1, <2>2, <2>3, SerialOpen
  <1>3. CASE BulkStart(s)
    <2>1. PICK b \in Bulks : Open(s, "bulk", b, NoRows, <<>>) /\ UNCHANGED <<tables, clock>>
      BY <1>3 DEF BulkStart
    <2>2. pc'[s] = "bulk" /\ loaded'[s] = NoRows /\ draft'[s] = <<>>
      BY <2>1 DEF Open
    <2>3. DraftHolds(s)'
      BY <2>2 DEF DraftHolds
    <2>4. QED BY <1>1, <2>1, <2>2, <2>3, SerialOpen
  <1>4. CASE AllocateSelect(s)
    <2>1. PICK n \in AllocSubnets, owner \in Owner \cup {Null} :
            \E a \in FreeIn(n) :
               /\ Open(s, "allocate", Null, NoRows, <<AllocatedRow(n, subnetVrf[n], a, owner)>>)
               /\ UNCHANGED <<tables, clock>>
      BY <1>4 DEF AllocateSelect
    <2>2. PICK a \in FreeIn(n) :
               /\ Open(s, "allocate", Null, NoRows, <<AllocatedRow(n, subnetVrf[n], a, owner)>>)
               /\ UNCHANGED <<tables, clock>>
      BY <2>1
    <2>3. /\ pc'[s] = "allocate" /\ loaded'[s] = NoRows
          /\ draft'[s] = <<AllocatedRow(n, subnetVrf[n], a, owner)>>
      BY <2>2 DEF Open
    <2>4. subnetVrf[n] \in Vrf \cup {Null}
      BY BodyAssumption DEF TablesOK
    <2>5. a \in FreeIn(n)'
      BY <2>2 DEF FreeIn, UsedIn, tables
    <2>6. DraftHolds(s)'
      BY <2>3, <2>4, <2>5 DEF DraftHolds
    <2>7. QED BY <1>1, <2>2, <2>3, <2>6, SerialOpen
  <1>5. CASE UpdateRead(s)
    <2>1. PICK b \in Updates, i \in DOMAIN ips :
            Open(s, "update", b, [j \in {i} |-> ips[i]], <<>>) /\ UNCHANGED <<tables, clock>>
      BY <1>5 DEF UpdateRead
    <2>2. pc'[s] = "update" /\ loaded'[s] = [j \in {i} |-> ips[i]]
      BY <2>1 DEF Open
    <2>3. DraftHolds(s)'
      BY <2>2 DEF DraftHolds
    <2>4. QED BY <2>1, <2>2, <2>3, SerialOpen
  <1>6. CASE CleanupSelect(s)
    <2> DEFINE found == {i \in DOMAIN ips : Expired(ips[i])}
    <2>1. Open(s, "cleanup", Null, [i \in found |-> ips[i]], <<>>) /\ UNCHANGED <<tables, clock>>
      BY <1>6 DEF CleanupSelect
    <2>2. pc'[s] = "cleanup" /\ loaded'[s] = [i \in found |-> ips[i]]
      BY <2>1 DEF Open
    <2>3. DraftHolds(s)'
      BY <2>2 DEF DraftHolds
    <2>4. \A i \in DOMAIN loaded'[s] : Expired(loaded[s][i])'
      BY <2>1, <2>2 DEF Expired
    <2>5. QED BY <2>1, <2>2, <2>3, <2>4, SerialOpen
  <1>7. QED BY <1>2, <1>3, <1>4, <1>5, <1>6

LEMMA SerialBulkCheck ==
    ASSUME IInv, SerialInv, OneAtATime, NEW s \in Actor, BulkCheck(s)
    PROVE  SerialInv'
  <1> DEFINE row == req[s][Len(draft[s]) + 1]
  <1>1. /\ pc[s] = "bulk" /\ UNCHANGED <<tables, clock, pc, loaded>>
        /\ \A r \in Visible(s) : ~FoundAsDuplicate(r, row)
        /\ draft'[s] = Append(draft[s], row)
    BY DEF BulkCheck, IInv, TypeOK, SessionsOK
  <1>2. draft[s] \in Seq(NewRows)
    BY DEF IInv, TypeOK, SessionsOK
  <1>3. /\ DOMAIN draft[s] = 1 .. Len(draft[s]) /\ Len(draft[s]) \in Nat
        /\ DOMAIN draft'[s] = 1 .. Len(draft[s]) + 1
        /\ \A k \in DOMAIN draft[s] : draft'[s][k] = draft[s][k]
        /\ draft'[s][Len(draft[s]) + 1] = row
    BY <1>1, <1>2
  <1>4. ASSUME NEW k \in DOMAIN draft'[s]
        PROVE  \/ k \in DOMAIN draft[s] /\ draft'[s][k] = draft[s][k]
               \/ k = Len(draft[s]) + 1 /\ draft'[s][k] = row
    BY <1>3
  <1>5. NotFoundIn(ips, row) /\ NotFoundIn(draft[s], row)
    BY <1>1, <1>3 DEF Visible, NotFoundIn
  <1>6. DraftHolds(s)
    BY DEF SerialInv
  <1>7. DraftHolds(s)'
    <2>1. \A k, l \in DOMAIN draft'[s] : l < k => l \in DOMAIN draft[s] /\ draft'[s][l] = draft[s][l]
      BY <1>3
    <2>2. ASSUME NEW k \in DOMAIN draft'[s]
          PROVE  /\ NotFoundIn(ips, draft'[s][k])
                 /\ \A l \in DOMAIN draft'[s] : l < k => ~FoundAsDuplicate(draft'[s][l], draft'[s][k])
      <3>1. CASE k \in DOMAIN draft[s] /\ draft'[s][k] = draft[s][k]
        BY <1>1, <1>6, <2>1, <3>1 DEF DraftHolds
      <3>2. CASE draft'[s][k] = row
        BY <1>5, <2>1, <3>2 DEF NotFoundIn
      <3>3. QED BY <1>4, <3>1, <3>2
    <2>3. QED BY <1>1, <2>2 DEF DraftHolds, NotFoundIn, tables
  <1>8. QED BY <1>1, <1>7 DEF SerialInv, OneAtATime, tables

LEMMA SerialTick == ASSUME IInv, SerialInv, Tick PROVE SerialInv'
  <1>1. UNCHANGED tables /\ UNCHANGED session /\ clock' = clock + 1 /\ clock \in Nat
    BY DEF Tick, IInv, TypeOK, TablesOK
  <1>2. ASSUME NEW s \in Actor, NEW i \in DOMAIN loaded[s], Expired(loaded[s][i])
        PROVE  Expired(loaded[s][i])'
    <2>1. loaded[s][i]["expires_at"] \in Nat \cup {Null}
      BY ColumnTypes DEF IInv, TypeOK, SessionsOK, IsRow, Columns
    <2>2. QED BY <1>1, <1>2, <2>1, NullAssumption DEF Expired, session
  <1>3. \A s \in Actor : DraftHolds(s) => DraftHolds(s)'
    BY <1>1 DEF DraftHolds, FreeIn, UsedIn, tables, session
  <1>4. QED BY <1>1, <1>2, <1>3 DEF SerialInv, tables, session

LEMMA SerialStep ==
    ASSUME OneAtATime, IInv, SerialInv, [Next]_vars
    PROVE  SerialInv'
  <1>1. ASSUME NEW s \in Actor, Commits(s) \/ Rollback(s) PROVE SerialInv'
    BY <1>1, SerialClose DEF Commits, CreateCommit, BulkCommit, AllocateCommit, Insert,
       UpdateCommit, CleanupCommit, Rollback
  <1>2. ASSUME NEW s \in Actor,
               (\E i \in DOMAIN ips : DeleteIp(s, i)) \/ (\E v \in vrfs : DeleteVrf(s, v))
        PROVE  SerialInv'
    BY <1>2, SerialIdle DEF DeleteIp, DeleteVrf
  <1>3. CASE UNCHANGED vars
    <2>1. \A s \in Actor : DraftHolds(s) => DraftHolds(s)'
      BY <1>3 DEF DraftHolds, FreeIn, UsedIn, vars, tables, session
    <2>2. QED BY <1>3, <2>1 DEF SerialInv, Expired, vars, tables, session
  <1>4. \A s \in Session : s \in Actor
    BY DEF Actor
  <1>5. \A c \in Cleaner : c \in Actor
    BY DEF Actor
  <1>6. QED
    BY <1>1, <1>2, <1>3, <1>4, <1>5, SerialReads, SerialBulkCheck, SerialTick DEF Next, Commits

LEMMA SpecSerialInv == ASSUME OneAtATime PROVE Spec => []SerialInv
  <1>1. IInv /\ SerialInv /\ [Next]_vars => SerialInv'
    BY SerialStep
  <1>2. QED BY <1>1, SerialInit, SpecIInv, PTL DEF Spec

\* Bodies are validated before they reach a handler, so every row that is
\* inserted is consistent without bindings.
LEMMA NewRowsConsistent == \A r \in NewRows : VipFieldsOk(r, {})
  <1>1. ASSUME NEW n, NEW v, NEW a, NEW owner PROVE VipFieldsOk(AllocatedRow(n, v, a, owner), {})
    BY DEF AllocatedRow, VipFieldsOk
  <1>2. ASSUME NEW b \in Creates PROVE VipFieldsOk(b.row, {})
    BY BodyAssumption DEF VipFieldsOk
  <1>3. ASSUME NEW b \in Bulks, NEW k \in 1..Len(b) PROVE VipFieldsOk(b[k], {})
    BY BodyAssumption
  <1>4. QED BY <1>1, <1>2, <1>3 DEF NewRows

\* The validation of a row looks at two of its columns.
LEMMA SameVipFields ==
    ASSUME NEW row, NEW other, NEW nodes, NEW fewer, fewer \subseteq nodes,
           \A c \in {"is_vip", "vip_type"} : other[c] = row[c], VipFieldsOk(row, nodes)
    PROVE  VipFieldsOk(other, fewer)
  BY DEF VipFieldsOk

\* Rows that stay as they are and have no more bindings are still consistent.
LEMMA FewerBindings ==
    ASSUME VipConsistent, bindings' \subseteq bindings, DOMAIN ips' \subseteq DOMAIN ips,
           \A i \in DOMAIN ips', c \in {"is_vip", "vip_type"} : ips'[i][c] = ips[i][c]
    PROVE  VipConsistent'
  <1>1. ASSUME NEW i \in DOMAIN ips' PROVE VipFieldsOk(ips[i], BindingsOf(i))'
    <2>1. VipFieldsOk(ips[i], BindingsOf(i)) /\ BindingsOf(i)' \subseteq BindingsOf(i)
      BY DEF VipConsistent, BindingsOf
    <2>2. VipFieldsOk(ips'[i], BindingsOf(i)')
      BY <2>1, SameVipFields
    <2>3. QED BY <2>2 DEF VipFieldsOk, BindingsOf
  <1>2. QED BY <1>1 DEF VipConsistent

LEMMA InsertVip ==
    ASSUME IInv, VipConsistent, NEW s \in Actor, NEW bs, Insert(s, bs),
           \A x \in bs : x.vip = nextId /\ Len(draft[s]) > 0 /\ draft[s][1]["is_vip"]
    PROVE  VipConsistent'
  <1> DEFINE n == Len(draft[s])
             added == nextId .. nextId + n - 1
  <1>1. /\ draft[s] \in Seq(NewRows) /\ n \in Nat /\ nextId \in Nat
        /\ \A i \in DOMAIN ips : i \in Nat /\ i < nextId
        /\ \A x \in bindings : x.vip \in DOMAIN ips
    BY DEF IInv, TypeOK, TablesOK, SessionsOK, ReferencesResolve
  <1>2. /\ ips' = [i \in DOMAIN ips \cup added |->
                       IF i \in DOMAIN ips THEN ips[i] ELSE draft[s][i - nextId + 1]]
        /\ bindings' = bindings \cup bs
    BY DEF Insert
  <1>3. ASSUME NEW i \in added
        PROVE  VipFieldsOk(ips[i], BindingsOf(i))'
    <2> DEFINE k == i - nextId + 1
    <2>1. i \notin DOMAIN ips /\ k \in 1..n /\ ips'[i] = draft[s][k] /\ draft[s][k] \in NewRows
      BY <1>1, <1>2
    <2>2. VipFieldsOk(draft[s][k], {})
      BY <2>1, NewRowsConsistent
    <2>3. BindingsOf(i)' = {x \in bs : x.vip = i}
      BY <1>1, <1>2, <2>1 DEF BindingsOf
    <2>4. BindingsOf(i)' # {} => draft[s][k]["is_vip"]
      BY <1>1, <2>3
    <2>5. VipFieldsOk(ips'[i], BindingsOf(i)')
      BY <2>1, <2>2, <2>4 DEF VipFieldsOk
    <2>6. QED BY <2>5 DEF VipFieldsOk, BindingsOf
  <1>4. ASSUME NEW i \in DOMAIN ips
        PROVE  VipFieldsOk(ips[i], BindingsOf(i))'
    <2>1. ips'[i] = ips[i] /\ \A x \in bs : x.vip # i
      BY <1>1, <1>2
    <2>2. BindingsOf(i)' = BindingsOf(i) /\ VipFieldsOk(ips[i], BindingsOf(i))
      BY <1>2, <2>1 DEF BindingsOf, VipConsistent
    <2>3. VipFieldsOk(ips'[i], BindingsOf(i)')
      BY <2>1, <2>2
    <2>4. QED BY <2>3 DEF VipFieldsOk, BindingsOf
  <1>5. DOMAIN ips' = DOMAIN ips \cup added
    BY <1>2
  <1>6. QED BY <1>3, <1>4, <1>5 DEF VipConsistent

LEMMA CommitVip ==
    ASSUME IInv, SerialInv, VipConsistent, NEW s \in Actor, Commits(s)
    PROVE  VipConsistent'
  <1>1. CASE CreateCommit(s)
    <2> DEFINE nodes == IF req[s].row["is_vip"] THEN req[s].nodes ELSE {}
    <2>1. Insert(s, BindingsTo(nextId, nodes)) /\ draft[s] = <<req[s].row>>
      BY <1>1 DEF CreateCommit, IInv, SessionsAgree
    <2>2. Len(draft[s]) > 0 /\ draft[s][1] = req[s].row
      BY <2>1
    <2>3. \A x \in BindingsTo(nextId, nodes) : x.vip = nextId /\ req[s].row["is_vip"]
      BY DEF BindingsTo
    <2>4. QED BY <2>1, <2>2, <2>3, InsertVip
  <1>2. CASE BulkCommit(s) \/ AllocateCommit(s)
    BY <1>2, InsertVip DEF BulkCommit, AllocateCommit
  <1>3. CASE UpdateCommit(s)
    <2> DEFINE b == req[s]
               new(i) == Assigned(loaded[s][i], b)
    <2>1. PICK i \in DOMAIN loaded[s] :
            /\ UpdateRow(i, loaded[s][i], new(i))
            /\ ResponseOk(new(i), {x \in BindingsAfter(i, b) : x.vip = i})
            /\ bindings' = BindingsAfter(i, b)
      BY <1>3 DEF UpdateCommit
    <2>2. i \in DOMAIN ips /\ ips[i] = loaded[s][i]
      BY DEF SerialInv
    <2>3. /\ DOMAIN ips' = DOMAIN ips /\ \A j \in DOMAIN ips \ {i} : ips'[j] = ips[j]
          /\ ips'[i] = Flushed(ips[i], ips[i], new(i))
      BY <2>1, <2>2 DEF UpdateRow
    <2>4. \A c \in Columns : ips'[i][c] = new(i)[c]
      BY <2>3 DEF Flushed
    <2>5. ASSUME NEW j \in DOMAIN ips' PROVE VipFieldsOk(ips'[j], BindingsOf(j)')
      <3>1. CASE j = i
        BY <2>1, <2>4, <3>1 DEF ResponseOk, VipFieldsOk, BindingsOf, Columns
      <3>2. CASE j # i
        <4>1. BindingsOf(j)' = BindingsOf(j)
          BY <2>1, <3>2 DEF BindingsAfter, BindingsOf, BindingsTo
        <4>2. QED BY <2>3, <3>2, <4>1 DEF VipConsistent
      <3>3. QED BY <3>1, <3>2
    <2>6. QED BY <2>5 DEF VipConsistent, VipFieldsOk, BindingsOf
  <1>4. CASE CleanupCommit(s)
    <2>1. bindings' = bindings /\ DOMAIN ips' = DOMAIN ips
      BY <1>4 DEF CleanupCommit
    <2>2. ASSUME NEW i \in DOMAIN ips', NEW c \in {"is_vip", "vip_type"}
          PROVE  ips'[i][c] = ips[i][c]
      <3>1. CASE i \notin DOMAIN loaded[s]
        BY <1>4, <2>1, <3>1 DEF CleanupCommit
      <3>2. CASE i \in DOMAIN loaded[s]
        <4>1. c \in Columns /\ IsRow(loaded[s][i])
          BY <3>2 DEF Columns, IInv, TypeOK, SessionsOK
        <4>2. Released(loaded[s][i])[c] = loaded[s][i][c]
          BY <4>1 DEF Released, IsRow
        <4>3. ips'[i] = Flushed(ips[i], loaded[s][i], Released(loaded[s][i]))
          BY <1>4, <2>1, <3>2 DEF CleanupCommit
        <4>4. QED BY <4>1, <4>2, <4>3 DEF Flushed
      <3>3. QED BY <3>1, <3>2
    <2>3. QED BY <2>1, <2>2, FewerBindings
  <1>5. QED BY <1>1, <1>2, <1>3, <1>4 DEF Commits

LEMMA StepVip ==
    ASSUME IInv, SerialInv, VipConsistent, [Next]_vars
    PROVE  VipConsistent'
  <1>1. ASSUME UNCHANGED <<ips, bindings>> PROVE VipConsistent'
    BY <1>1, FewerBindings
  <1>2. ASSUME NEW s \in Session, NEW i \in DOMAIN ips, DeleteIp(s, i) PROVE VipConsistent'
    BY <1>2, FewerBindings DEF DeleteIp
  <1>3. ASSUME NEW s \in Session, NEW v \in vrfs, DeleteVrf(s, v) PROVE VipConsistent'
    <2>1. \A i \in DOMAIN ips : IsRow(ips[i])
      BY DEF IInv, TypeOK, TablesOK
    <2>2. ASSUME NEW i \in DOMAIN ips, NEW c \in {"is_vip", "vip_type"}
          PROVE  ips'[i][c] = ips[i][c]
      BY <1>3, <2>1 DEF DeleteVrf, IsRow
    <2>3. DOMAIN ips' = DOMAIN ips /\ bindings' = bindings
      BY <1>3 DEF DeleteVrf
    <2>4. QED BY <2>2, <2>3, FewerBindings
  <1>4. ASSUME NEW s \in Actor, Commits(s) PROVE VipConsistent'
    BY <1>4, CommitVip
  <1>5. ASSUME NEW s \in Actor,
               \/ CreateCheck(s) \/ BulkStart(s) \/ BulkCheck(s) \/ AllocateSelect(s)
               \/ UpdateRead(s) \/ CleanupSelect(s) \/ Rollback(s)
        PROVE  VipConsistent'
    BY <1>1, <1>5 DEF CreateCheck, BulkStart, BulkCheck, AllocateSelect, UpdateRead,
       CleanupSelect, Rollback, tables
  <1>6. CASE Tick \/ UNCHANGED vars
    BY <1>1, <1>6 DEF Tick, vars, tables
  <1>7. \A s \in Session : s \in Actor
    BY DEF Actor
  <1>8. \A c \in Cleaner : c \in Actor
    BY DEF Actor
  <1>9. QED BY <1>2, <1>3, <1>4, <1>5, <1>6, <1>7, <1>8 DEF Next, Commits

\* One request at a time keeps VIPs consistent: the body and the response are
\* validated, and the row that is written is the row that was read.
THEOREM VipsConsistent == ASSUME OneAtATime PROVE Spec => []VipConsistent
  <1>1. Init => VipConsistent
    BY DEF Init, VipConsistent, NoRows
  <1>2. IInv /\ SerialInv /\ VipConsistent /\ [Next]_vars => VipConsistent'
    BY StepVip
  <1>3. QED BY <1>1, <1>2, SpecIInv, SpecSerialInv, PTL DEF Spec

\* The rows an INSERT adds are the rows of the draft.
LEMMA Inserted ==
    ASSUME IInv, NEW s \in Actor, NEW bs, Insert(s, bs)
    PROVE  /\ \A i \in DOMAIN ips : i \in DOMAIN ips' /\ ips'[i] = ips[i]
           /\ \A i \in DOMAIN ips' \ DOMAIN ips :
                 /\ i - nextId + 1 \in DOMAIN draft[s]
                 /\ ips'[i] = draft[s][i - nextId + 1]
           /\ \A i \in DOMAIN ips' \ DOMAIN ips : i \in Nat
           /\ nextId \in Nat
  <1>1. draft[s] \in Seq(NewRows) /\ nextId \in Nat
    BY DEF IInv, TypeOK, TablesOK, SessionsOK
  <1>2. ips' = [i \in DOMAIN ips \cup (nextId .. nextId + Len(draft[s]) - 1) |->
                    IF i \in DOMAIN ips THEN ips[i] ELSE draft[s][i - nextId + 1]]
    BY DEF Insert
  <1>3. DOMAIN draft[s] = 1 .. Len(draft[s]) /\ Len(draft[s]) \in Nat
    BY <1>1
  <1>4. QED BY <1>1, <1>2, <1>3

\* An address that is found twice and was not found by the check is stored in a
\* spelling of its own.
LEMMA OverlookedIsRespelled ==
    ASSUME NEW r, NEW q, SameAddress(q, r), ~FoundAsDuplicate(r, q)
    PROVE  Respelled(r)
  BY DEF SameAddress, FoundAsDuplicate, Respelled

\* One request at a time, POST /ips and /ips/bulk add a second row for an address
\* only beside one that is spelled in its own way: what the check saw is still
\* there, and it saw the other rows of its request.
THEOREM DuplicatesAreSpelledApart == ASSUME OneAtATime PROVE Spec => OnlyRespelledDuplicates
  <1>1. IInv /\ SerialInv /\ [Next]_vars => [EveryDuplicateIsRespelled]_vars
    <2> SUFFICES ASSUME IInv, SerialInv, Next, NEW s \in Session,
                        pc[s] \in {"create", "bulk"}, pc'[s] = "idle"
                 PROVE  DuplicatesAreRespelled
      BY DEF EveryDuplicateIsRespelled
    <2>1. s \in Actor
      BY DEF Actor
    <2>2. (\E bs : Insert(s, bs)) \/ Rollback(s)
      BY <2>1, SessionEnds DEF Commits, CreateCommit, BulkCommit, AllocateCommit,
         UpdateCommit, CleanupCommit
    <2>3. CASE Rollback(s)
      BY <2>3 DEF Rollback, tables, DuplicatesAreRespelled
    <2>4. ASSUME NEW bs, Insert(s, bs) PROVE DuplicatesAreRespelled
      <3> SUFFICES ASSUME NEW i \in DOMAIN ips' \ DOMAIN ips, NEW j \in DOMAIN ips',
                          j < i, SameAddress(ips'[i], ips'[j])
                   PROVE  Respelled(ips'[j])
        BY DEF DuplicatesAreRespelled
      <3> DEFINE k == i - nextId + 1
      <3>1. DraftHolds(s)
        BY <2>1 DEF SerialInv
      <3>2. k \in DOMAIN draft[s] /\ ips'[i] = draft[s][k]
        BY <2>1, <2>4, Inserted
      <3>3. CASE j \in DOMAIN ips
        <4>1. ips'[j] = ips[j]
          BY <2>1, <2>4, <3>3, Inserted
        <4>2. ~FoundAsDuplicate(ips[j], draft[s][k])
          BY <3>1, <3>2, <3>3 DEF DraftHolds, NotFoundIn
        <4>3. QED BY <3>2, <4>1, <4>2, OverlookedIsRespelled
      <3>4. CASE j \notin DOMAIN ips
        <4> DEFINE l == j - nextId + 1
        <4>1. /\ l \in DOMAIN draft[s] /\ ips'[j] = draft[s][l]
              /\ i \in Nat /\ j \in Nat /\ nextId \in Nat
          BY <2>1, <2>4, <3>4, Inserted
        <4>2. l < k
          BY <4>1
        <4>3. ~FoundAsDuplicate(draft[s][l], draft[s][k])
          BY <3>1, <3>2, <4>1, <4>2 DEF DraftHolds
        <4>4. QED BY <3>2, <4>1, <4>3, OverlookedIsRespelled
      <3>5. QED BY <3>3, <3>4
    <2>5. QED BY <2>2, <2>3, <2>4
  <1>2. QED BY <1>1, SpecIInv, SpecSerialInv, PTL DEF Spec, OnlyRespelledDuplicates

\* One request at a time, an allocation hands out a host that, when it is
\* committed, is free but for rows that spell it in their own way.
THEOREM HoldersAreSpelledApart == ASSUME OneAtATime PROVE Spec => OnlyRespelledHolders
  <1>1. IInv /\ SerialInv /\ [Next]_vars => [EveryHolderIsRespelled]_vars
    <2> SUFFICES ASSUME IInv, SerialInv, Next, NEW s \in Session,
                        pc[s] = "allocate", pc'[s] = "idle"
                 PROVE  HoldersAreRespelled
      BY DEF EveryHolderIsRespelled
    <2>1. s \in Actor
      BY DEF Actor
    <2>2. Insert(s, {}) \/ Rollback(s)
      BY <2>1, SessionEnds DEF Commits, CreateCommit, BulkCommit, AllocateCommit,
         UpdateCommit, CleanupCommit
    <2>3. CASE Rollback(s)
      BY <2>3 DEF Rollback, tables, HoldersAreRespelled
    <2>4. CASE Insert(s, {})
      <3>1. PICK n \in AllocSubnets, v \in Vrf \cup {Null}, owner \in Owner \cup {Null} :
              \E a \in FreeIn(n) : draft[s] = <<AllocatedRow(n, v, a, owner)>>
        BY <2>1 DEF SerialInv, DraftHolds
      <3>2. PICK a \in FreeIn(n) : draft[s] = <<AllocatedRow(n, v, a, owner)>>
        BY <3>1
      <3> DEFINE row == AllocatedRow(n, v, a, owner)
      <3>3. \A i \in DOMAIN ips' \ DOMAIN ips : ips'[i] = row
        BY <2>1, <2>4, <3>2, Inserted
      <3>4. row["address"] = Canon[a] /\ row["subnet_id"] = n /\ row["tenant_id"] = TenantOf[n]
        BY DEF AllocatedRow
      <3>5. /\ a \in Hosts[n] /\ Canon[a] # Gateway[n] /\ Canon[a] \notin UsedIn(n)
            /\ Parsed[Canon[a]] = a
        BY SubnetAssumption, BodyAssumption DEF FreeIn
      <3>6. Parsed[row["address"]] \in Hosts[n] /\ ~Respelled(row)
        BY <3>4, <3>5 DEF Respelled
      <3>7. ASSUME NEW j \in HoldersOf(row) PROVE Respelled(ips[j])
        <4>1. /\ j \in DOMAIN ips /\ ips[j]["tenant_id"] = TenantOf[n] /\ ips[j]["subnet_id"] = n
              /\ Parsed[ips[j]["address"]] = a /\ ips[j]["status"] \in Live
          BY <3>4, <3>5 DEF HoldersOf
        <4>2. ips[j]["address"] # Canon[a]
          BY <3>5, <4>1 DEF UsedIn
        <4>3. QED BY <4>1, <4>2 DEF Respelled
      <3>8. QED BY <3>3, <3>4, <3>5, <3>6, <3>7 DEF HoldersAreRespelled
    <2>5. QED BY <2>2, <2>3, <2>4
  <1>2. QED BY <1>1, SpecIInv, SpecSerialInv, PTL DEF Spec, OnlyRespelledHolders

\* A worker that nothing interrupts releases only allocations that are expired
\* when it releases them: the rows it found are as it found them.
THEOREM OnlyExpiredReleased == ASSUME OneAtATime PROVE Spec => CleanupReleasesOnlyExpired
  <1>1. IInv /\ SerialInv /\ [Next]_vars => [EveryCleanupReleasesOnlyExpired]_vars
    <2> SUFFICES ASSUME IInv, SerialInv, Next, NEW c \in Cleaner,
                        pc[c] = "cleanup", pc'[c] = "idle"
                 PROVE  ReleasesOnlyExpired
      BY DEF EveryCleanupReleasesOnlyExpired
    <2>1. c \in Actor
      BY DEF Actor
    <2>2. CleanupCommit(c) \/ Rollback(c)
      BY <2>1, SessionEnds DEF Commits, CreateCommit, BulkCommit, AllocateCommit, UpdateCommit
    <2>3. CASE Rollback(c)
      BY <2>3 DEF Rollback, tables, ReleasesOnlyExpired
    <2>4. CASE CleanupCommit(c)
      <3> SUFFICES ASSUME NEW i \in DOMAIN ips, ips'[i] # ips[i]
                   PROVE  /\ ips[i]["status"] = "allocated"
                          /\ ips[i]["expires_at"] \in 0 .. clock - 1
        BY DEF ReleasesOnlyExpired
      <3>1. i \in DOMAIN loaded[c]
        BY <2>4 DEF CleanupCommit
      <3>2. ips[i] = loaded[c][i] /\ Expired(loaded[c][i])
        BY <2>1, <3>1 DEF SerialInv
      <3>3. ips[i]["expires_at"] \in Nat \cup {Null} /\ clock \in Nat
        BY ColumnTypes DEF IInv, TypeOK, TablesOK, IsRow, Columns
      <3>4. QED BY <3>2, <3>3 DEF Expired
    <2>5. QED BY <2>2, <2>3, <2>4
  <1>2. QED BY <1>1, SpecIInv, SpecSerialInv, PTL DEF Spec, CleanupReleasesOnlyExpired
=============================================================================
