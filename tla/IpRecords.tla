----------------------------- MODULE IpRecords -----------------------------
(***************************************************************************)
(* The ip_addresses and vip_node_bindings tables, the request handlers of  *)
(* api/v1/endpoints/ips.py that write them, and the hourly Celery task     *)
(* that releases expired allocations (tasks/worker.py).                    *)
(*                                                                         *)
(* Every handler runs in one SQLAlchemy session at PostgreSQL's default    *)
(* READ COMMITTED isolation and no SELECT takes a row lock.  A handler is  *)
(* therefore one action per group of SELECTs, whose results it keeps in    *)
(* its session, and one action that flushes and commits what the session   *)
(* wrote.  Sessions interleave freely between those actions.               *)
(***************************************************************************)
EXTENDS Naturals, Sequences, FiniteSets

CONSTANTS
    Session,      \* concurrent API requests
    Cleaner,      \* workers that run tasks.cleanup_expired_ips
    Null,         \* SQL NULL
    Tenant, Vrf, Subnet, Owner, VipType,
    Status,       \* the strings a body may send; three of them mean something
    Text,         \* the strings parse_address accepts (core/ip_utils.py)
    Parsed,       \* Parsed[t]: the address it makes of t; addresses are numbered
    Canon,        \* Canon[a]: str(a), the one spelling ipaddress gives a
    Network,      \* Network[n]: the addresses of subnet n's CIDR
    Hosts,        \* Hosts[n]: what ipaddress.hosts() yields for that CIDR
    Gateway,      \* Gateway[n]: subnets.gateway, a text as it was sent, or Null
    TenantOf,     \* TenantOf[n]: subnets.tenant_id
    Creates,      \* bodies of POST /ips that pass IPAddressCreate
    Bulks,        \* bodies of POST /ips/bulk, lists of IPAddressCreate
    AllocSubnets, \* subnets named by POST /ips/allocate
    Updates,      \* bodies of PUT /ips/{id} that pass IPAddressUpdate
    MaxRows,      \* bound on the rows ever inserted
    MaxClock      \* bound on the clock

Actor == Session \cup Cleaner
Live == {"allocated", "reserved"}

Columns == {"tenant_id", "address", "subnet_id", "vrf_id", "status",
            "expires_at", "assigned_to", "is_vip", "vip_type"}

NotNull == {"tenant_id", "address", "subnet_id", "status", "is_vip"}

\* The values a column can hold; allocated_at goes with assigned_to.
ColumnType(c) ==
    CASE c = "tenant_id"   -> Tenant
      [] c = "address"     -> Text
      [] c = "subnet_id"   -> Subnet
      [] c = "vrf_id"      -> Vrf \cup {Null}
      [] c = "status"      -> Status
      [] c = "expires_at"  -> Nat \cup {Null}
      [] c = "assigned_to" -> Owner \cup {Null}
      [] c = "is_vip"      -> BOOLEAN
      [] c = "vip_type"    -> VipType \cup {Null}

IsRow(r) == /\ r = [c \in Columns |-> r[c]]
            /\ \A c \in Columns : r[c] \in ColumnType(c)

\* A partial assignment of columns, as model_dump(exclude_unset=True) gives it:
\* every field of IPAddressUpdate may be sent as null.
IsPatch(p) == /\ p = [c \in DOMAIN p |-> p[c]]
              /\ DOMAIN p \subseteq Columns
              /\ \A c \in DOMAIN p : p[c] \in ColumnType(c) \cup {Null}

Patched(row, p) == [c \in Columns |-> IF c \in DOMAIN p THEN p[c] ELSE row[c]]

\* _validate_vip_fields, run on every body and every response.
VipFieldsOk(row, nodes) ==
    IF row["is_vip"] THEN row["vip_type"] # Null
                     ELSE row["vip_type"] = Null /\ nodes = {}

\* IPAddressUpdate._check_vip_consistency: enforced only if is_vip is sent.
UpdateFieldsOk(b) ==
    "is_vip" \in DOMAIN b.set =>
        IF b.set["is_vip"] = TRUE
        THEN "vip_type" \in DOMAIN b.set /\ b.set["vip_type"] # Null
        ELSE /\ "vip_type" \in DOMAIN b.set => b.set["vip_type"] = Null
             /\ b.nodes \in {Null, {}}

\* The row POST /ips/allocate inserts for host a of subnet n in VRF v.
AllocatedRow(n, v, a, owner) ==
    [tenant_id |-> TenantOf[n], address |-> Canon[a], subnet_id |-> n, vrf_id |-> v,
     status |-> "allocated", expires_at |-> Null, assigned_to |-> owner,
     is_vip |-> FALSE, vip_type |-> Null]

\* The rows a request can add.
NewRows ==
    LET AllocatedIn(n) == {AllocatedRow(n, v, a, owner) :
            v \in Vrf \cup {Null}, a \in Hosts[n], owner \in Owner \cup {Null}}
    IN {b.row : b \in Creates}
       \cup (UNION {{b[k] : k \in 1..Len(b)} : b \in Bulks})
       \cup (UNION {AllocatedIn(n) : n \in AllocSubnets})

ASSUME NullAssumption ==
    /\ Null \notin Nat
    /\ Null \notin Vrf \cup Owner \cup VipType \cup Status \cup Text

ASSUME StatusAssumption == {"available", "allocated", "reserved"} \subseteq Status

\* str() of an address is a text that parses to it, so an address that has a
\* text has its canonical one.
ASSUME TextAssumption ==
    /\ Parsed \in [Text -> Nat]
    /\ \A t \in Text : LET c == Canon[Parsed[t]] IN c \in Text /\ Parsed[c] = Parsed[t]

ASSUME BoundAssumption == MaxRows \in Nat /\ MaxClock \in Nat

ASSUME SubnetAssumption ==
    \A n \in Subnet : /\ Network[n] \subseteq Nat
                      /\ Hosts[n] \subseteq Network[n]
                      /\ \A a \in Hosts[n] : Canon[a] \in Text /\ Parsed[Canon[a]] = a
                      /\ TenantOf[n] \in Tenant
                      /\ Gateway[n] \in Text \cup {Null}

ASSUME BodyAssumption ==
    /\ \A b \in Creates : /\ IsRow(b.row)
                          /\ b.nodes \in SUBSET Nat
                          /\ VipFieldsOk(b.row, b.nodes)
    /\ \A b \in Bulks : /\ Len(b) \in Nat
                        /\ \A k \in 1..Len(b) : IsRow(b[k]) /\ VipFieldsOk(b[k], {})
    /\ AllocSubnets \subseteq Subnet
    /\ \A b \in Updates : /\ b.tenant_id \in Tenant
                          /\ IsPatch(b.set)
                          /\ DOMAIN b.set \cap {"tenant_id", "address"} = {}
                          /\ b.nodes = Null \/ b.nodes \in SUBSET Nat
                          /\ UpdateFieldsOk(b)

VARIABLES
    ips,       \* ip_addresses: a function from the ids of its rows to them
    bindings,  \* vip_node_bindings: the set of its rows, without role
    vrfs,      \* the ids in table vrfs
    subnetVrf, \* subnets.vrf_id
    nextId,    \* ids are never reused
    clock,
    pc,        \* where each actor's handler is
    req,       \* the body it serves
    loaded,    \* its identity map: the rows it has read, as it read them
    draft      \* session.new: the rows it will insert

tables == <<ips, bindings, vrfs, subnetVrf, nextId>>
session == <<pc, req, loaded, draft>>
vars == <<tables, clock, session>>

NoRows == [i \in {} |-> Null]

Init ==
    /\ ips = NoRows
    /\ bindings = {}
    /\ vrfs = Vrf
    /\ subnetVrf \in [Subnet -> Vrf \cup {Null}]
    /\ nextId = 1
    /\ clock = 0
    /\ pc = [s \in Actor |-> "idle"]
    /\ req = [s \in Actor |-> Null]
    /\ loaded = [s \in Actor |-> NoRows]
    /\ draft = [s \in Actor |-> <<>>]

-----------------------------------------------------------------------------
(* Sessions *)

\* The session is closed: committed, rolled back or crashed.
Close(s) ==
    /\ pc' = [pc EXCEPT ![s] = "idle"]
    /\ req' = [req EXCEPT ![s] = Null]
    /\ loaded' = [loaded EXCEPT ![s] = NoRows]
    /\ draft' = [draft EXCEPT ![s] = <<>>]

Open(s, where, body, rows, new) ==
    /\ pc[s] = "idle"
    /\ pc' = [pc EXCEPT ![s] = where]
    /\ req' = [req EXCEPT ![s] = body]
    /\ loaded' = [loaded EXCEPT ![s] = rows]
    /\ draft' = [draft EXCEPT ![s] = new]

\* get_db: any exception, an HTTPException included, rolls back and writes
\* nothing; a crash of the process has the same effect.
Rollback(s) ==
    /\ pc[s] # "idle"
    /\ Close(s)
    /\ UNCHANGED <<tables, clock>>

\* Mutant: the UPDATE writes every column of the loaded object.
FlushedWholeRow(current, old, new) == new

\* What an ORM UPDATE leaves of the current row: it writes only the columns
\* whose value differs from the one loaded.
Flushed(current, old, new) ==
    [c \in Columns |-> IF new[c] # old[c] THEN new[c] ELSE current[c]]

\* Mutant: the UPDATE is a merge that inserts the row again if it is gone.
MergeRow(i, old, new) ==
    ips' = [j \in DOMAIN ips \cup {i} |-> IF j = i THEN new ELSE ips[j]]

\* UPDATE ... WHERE id = i.  If no row matches, the flush raises.
UpdateRow(i, old, new) ==
    /\ i \in DOMAIN ips
    /\ ips' = [ips EXCEPT ![i] = Flushed(@, old, new)]

\* Mutant: the columns are nullable.
NullableColumns(row) == TRUE

NotNullOk(row) == \A c \in NotNull : row[c] # Null

ForeignKeysOk(row) == row["vrf_id"] \in vrfs \cup {Null}

\* INSERT of the session's new rows and of the bindings bs, and COMMIT.
Insert(s, bs) ==
    LET n == Len(draft[s]) IN
    /\ nextId + n <= MaxRows + 1
    /\ \A k \in 1..n : ForeignKeysOk(draft[s][k])
    /\ ips' = [i \in DOMAIN ips \cup (nextId .. nextId + n - 1) |->
                  IF i \in DOMAIN ips THEN ips[i] ELSE draft[s][i - nextId + 1]]
    /\ bindings' = bindings \cup bs
    /\ nextId' = nextId + n
    /\ Close(s)
    /\ UNCHANGED <<vrfs, subnetVrf, clock>>

\* Mutant: the tenant filter is missing.
NodesFoundAnyTenant(nodes, tenant) == nodes \subseteq DOMAIN ips

\* _create_node_bindings: every node must be a row of the caller's tenant.
NodesFound(nodes, tenant) ==
    \A n \in nodes : n \in DOMAIN ips /\ ips[n]["tenant_id"] = tenant

BindingsTo(vip, nodes) == {[vip |-> vip, node |-> n] : n \in nodes}
BindingsOf(vip) == {x \in bindings : x.vip = vip}

-----------------------------------------------------------------------------
(* POST /ips *)

\* The duplicate check: the stored text is compared with str(addr) of the
\* body, while the text inserted is the one that was sent.
FoundAsDuplicate(r, q) ==
    /\ r["address"] = Canon[Parsed[q["address"]]]
    /\ \A c \in {"tenant_id", "vrf_id"} : r[c] = q[c]

\* Mutant: autoflush is off, pending rows are not seen by a SELECT.
VisibleWithoutAutoflush(s) == {ips[i] : i \in DOMAIN ips}

\* What a SELECT of session s sees: committed rows, and by autoflush its own.
Visible(s) ==
    {ips[i] : i \in DOMAIN ips} \cup {draft[s][k] : k \in 1..Len(draft[s])}

\* The duplicate check and the subnet check, then the handler awaits.
CreateCheck(s) ==
    \E b \in Creates :
        /\ \A r \in Visible(s) : ~FoundAsDuplicate(r, b.row)
        /\ TenantOf[b.row["subnet_id"]] = b.row["tenant_id"]
        /\ Parsed[b.row["address"]] \in Network[b.row["subnet_id"]]
        /\ Open(s, "create", b, NoRows, <<b.row>>)
        /\ UNCHANGED <<tables, clock>>

CreateCommit(s) ==
    /\ pc[s] = "create"
    /\ LET nodes == IF req[s].row["is_vip"] THEN req[s].nodes ELSE {} IN
       /\ NodesFound(nodes, req[s].row["tenant_id"])
       /\ Insert(s, BindingsTo(nextId, nodes))

(* POST /ips/bulk: no subnet check, node_bindings are dropped *)

BulkStart(s) ==
    \E b \in Bulks :
        /\ Open(s, "bulk", b, NoRows, <<>>)
        /\ UNCHANGED <<tables, clock>>

\* The duplicate check of the next item.
BulkCheck(s) ==
    /\ pc[s] = "bulk"
    /\ Len(draft[s]) < Len(req[s])
    /\ LET row == req[s][Len(draft[s]) + 1] IN
       /\ \A r \in Visible(s) : ~FoundAsDuplicate(r, row)
       /\ draft' = [draft EXCEPT ![s] = Append(@, row)]
    /\ UNCHANGED <<tables, clock, pc, req, loaded>>

BulkCommit(s) ==
    /\ pc[s] = "bulk"
    /\ Len(draft[s]) = Len(req[s])
    /\ Insert(s, {})

(* POST /ips/allocate *)

\* Mutant: reserved rows are not looked at.
UsedInAllocatedOnly(n) ==
    {ips[i]["address"] : i \in {j \in DOMAIN ips :
        ips[j]["subnet_id"] = n /\ ips[j]["status"] = "allocated"}}

\* The texts as they are stored.
UsedIn(n) == {ips[i]["address"] : i \in {j \in DOMAIN ips :
                 /\ ips[j]["tenant_id"] = TenantOf[n]
                 /\ ips[j]["subnet_id"] = n
                 /\ ips[j]["status"] \in Live}}

\* They and the gateway are compared with str(host).
FreeIn(n) == {a \in Hosts[n] : Canon[a] \notin UsedIn(n) \cup {Gateway[n]}}

IsFirst(a, S) == a \in S /\ \A b \in S : a <= b

\* The first host whose canonical text no allocated or reserved row holds.
AllocateSelect(s) ==
    \E n \in AllocSubnets, owner \in Owner \cup {Null} :
        \E a \in FreeIn(n) :
            /\ IsFirst(a, FreeIn(n))
            /\ Open(s, "allocate", Null, NoRows, <<AllocatedRow(n, subnetVrf[n], a, owner)>>)
            /\ UNCHANGED <<tables, clock>>

AllocateCommit(s) ==
    /\ pc[s] = "allocate"
    /\ Insert(s, {})

(* PUT /ips/{ip_id} *)

UpdateRead(s) ==
    \E b \in Updates, i \in DOMAIN ips :
        /\ ips[i]["tenant_id"] = b.tenant_id
        /\ Open(s, "update", b, [j \in {i} |-> ips[i]], <<>>)
        /\ UNCHANGED <<tables, clock>>

Demotes(b) == "is_vip" \in DOMAIN b.set /\ b.set["is_vip"] = FALSE

\* setattr of every column sent; a demotion drops the stale vip_type.
Assigned(row, b) ==
    [c \in Columns |-> IF c = "vip_type" /\ Demotes(b) THEN Null
                       ELSE Patched(row, b.set)[c]]

\* A demotion clears the bindings, a list of bindings replaces them.
BindingsAfter(i, b) ==
    IF Demotes(b) THEN bindings \ BindingsOf(i)
    ELSE IF b.nodes # Null THEN (bindings \ BindingsOf(i)) \cup BindingsTo(i, b.nodes)
    ELSE bindings

\* Mutant: the response is not validated in the handler.
ResponseNotChecked(row, nodes) == TRUE

\* IPAddressResponse.model_validate, before the commit.
ResponseOk(row, nodes) == VipFieldsOk(row, nodes)

\* The row is gone (no row matches the UPDATE), a node is not found, a null or a
\* foreign key is refused or the response does not validate: rolled back.
UpdateCommit(s) ==
    /\ pc[s] = "update"
    /\ \E i \in DOMAIN loaded[s] :
        LET b == req[s]
            new == Assigned(loaded[s][i], b)
            after == BindingsAfter(i, b)
        IN
        /\ b.nodes # Null /\ ~Demotes(b) => NodesFound(b.nodes, b.tenant_id)
        /\ UpdateRow(i, loaded[s][i], new)
        /\ NotNullOk(ips'[i]) /\ ForeignKeysOk(ips'[i])
        /\ ResponseOk(new, {x \in after : x.vip = i})
        /\ bindings' = after
    /\ Close(s)
    /\ UNCHANGED <<vrfs, subnetVrf, nextId, clock>>

(* DELETE /ips/{ip_id}: nothing the handler read is used after its SELECT, *)
(* and deleting a row that is already gone succeeds.                       *)

DeleteIp(s, i) ==
    /\ pc[s] = "idle"
    /\ i \in DOMAIN ips
    /\ ips' = [j \in DOMAIN ips \ {i} |-> ips[j]]
    /\ bindings' = {x \in bindings : i \notin {x.vip, x.node}}
    /\ UNCHANGED <<vrfs, subnetVrf, nextId, clock, session>>

-----------------------------------------------------------------------------
(* DELETE /vrfs/{vrf_id}: ON DELETE SET NULL on ip_addresses and subnets *)

DeleteVrf(s, v) ==
    /\ pc[s] = "idle"
    /\ v \in vrfs
    /\ vrfs' = vrfs \ {v}
    /\ ips' = [i \in DOMAIN ips |->
                  IF ips[i]["vrf_id"] = v THEN [ips[i] EXCEPT !["vrf_id"] = Null]
                                          ELSE ips[i]]
    /\ subnetVrf' = [n \in Subnet |-> IF subnetVrf[n] = v THEN Null ELSE subnetVrf[n]]
    /\ UNCHANGED <<bindings, nextId, clock, session>>

(* tasks.cleanup_expired_ips *)

\* Mutant: the comparison with now is missing.
ExpiringAtAll(row) == row["status"] = "allocated" /\ row["expires_at"] # Null

Expired(row) ==
    /\ row["status"] = "allocated"
    /\ row["expires_at"] # Null
    /\ row["expires_at"] < clock

Released(row) ==
    [row EXCEPT !["status"] = "available", !["assigned_to"] = Null,
                !["expires_at"] = Null]

CleanupSelect(c) ==
    LET found == {i \in DOMAIN ips : Expired(ips[i])} IN
    /\ found # {}
    /\ Open(c, "cleanup", Null, [i \in found |-> ips[i]], <<>>)
    /\ UNCHANGED <<tables, clock>>

\* One UPDATE per selected row, by id.  If a row is gone the driver may report
\* the lost row, and then the whole batch rolls back, or update the others.
CleanupCommit(c) ==
    /\ pc[c] = "cleanup"
    /\ ips' = [i \in DOMAIN ips |->
                  IF i \in DOMAIN loaded[c]
                  THEN Flushed(ips[i], loaded[c][i], Released(loaded[c][i]))
                  ELSE ips[i]]
    /\ Close(c)
    /\ UNCHANGED <<bindings, vrfs, subnetVrf, nextId, clock>>

Tick == /\ clock < MaxClock
        /\ clock' = clock + 1
        /\ UNCHANGED <<tables, session>>

Next ==
    \/ \E s \in Session :
          \/ CreateCheck(s) \/ CreateCommit(s)
          \/ BulkStart(s) \/ BulkCheck(s) \/ BulkCommit(s)
          \/ AllocateSelect(s) \/ AllocateCommit(s)
          \/ UpdateRead(s) \/ UpdateCommit(s)
          \/ \E i \in DOMAIN ips : DeleteIp(s, i)
          \/ \E v \in vrfs : DeleteVrf(s, v)
    \/ \E c \in Cleaner : CleanupSelect(c) \/ CleanupCommit(c)
    \/ \E s \in Actor : Rollback(s)
    \/ Tick

Spec == Init /\ [][Next]_vars

-----------------------------------------------------------------------------
(* Properties *)

TablesOK ==
    /\ ips = [i \in DOMAIN ips |-> ips[i]]
    /\ \A i \in DOMAIN ips : i \in Nat /\ i < nextId /\ IsRow(ips[i])
    /\ bindings \subseteq [vip : Nat, node : Nat]
    /\ vrfs \subseteq Vrf
    /\ subnetVrf \in [Subnet -> Vrf \cup {Null}]
    /\ nextId \in Nat
    /\ clock \in Nat

SessionsOK ==
    /\ pc \in [Actor -> {"idle", "create", "bulk", "allocate", "update", "cleanup"}]
    /\ req = [s \in Actor |-> req[s]]
    /\ loaded = [s \in Actor |-> loaded[s]]
    /\ draft \in [Actor -> Seq(NewRows)]
    /\ \A s \in Actor :
        /\ pc[s] = "create" => req[s] \in Creates
        /\ pc[s] = "bulk" => req[s] \in Bulks
        /\ pc[s] = "update" => req[s] \in Updates
        /\ \A i \in DOMAIN loaded[s] : i \in Nat /\ IsRow(loaded[s][i])

TypeOK == TablesOK /\ SessionsOK

\* Whatever is deleted while a handler is between its SELECTs and its commit,
\* every binding joins two existing rows of one tenant, and no row or subnet
\* names a VRF that is gone (ON DELETE CASCADE, ON DELETE SET NULL, and the
\* tenant filter of _create_node_bindings).
ReferencesResolve ==
    /\ \A x \in bindings :
        /\ {x.vip, x.node} \subseteq DOMAIN ips
        /\ ips[x.vip]["tenant_id"] = ips[x.node]["tenant_id"]
    /\ \A i \in DOMAIN ips : ips[i]["vrf_id"] \in vrfs \cup {Null}
    /\ \A n \in Subnet : subnetVrf[n] \in vrfs \cup {Null}

\* What the handlers know of the rows they read: a row they loaded keeps its
\* tenant as long as it exists, and was read under the tenant of the request.
SessionsAgree ==
    \A s \in Actor :
        /\ pc[s] = "create" => draft[s] = <<req[s].row>>
        /\ \A i \in DOMAIN loaded[s] :
            /\ i < nextId
            /\ i \in DOMAIN ips => ips[i]["tenant_id"] = loaded[s][i]["tenant_id"]
            /\ pc[s] = "update" => loaded[s][i]["tenant_id"] = req[s].tenant_id

\* The inductive invariant.
IInv == TypeOK /\ ReferencesResolve /\ SessionsAgree

\* A PUT changes only the columns its body names (and the vip_type of a row it
\* demotes), whatever other sessions committed since it read the row: two
\* updates of different columns never undo each other.
UpdateKeeps(s) ==
    \A i \in DOMAIN ips, c \in Columns :
        ips'[i][c] # ips[i][c] =>
            /\ i \in DOMAIN loaded[s]
            /\ \/ c \in DOMAIN req[s].set
               \/ c = "vip_type" /\ Demotes(req[s])

EveryUpdateKeeps ==
    \A s \in Session : pc[s] = "update" /\ pc'[s] = "idle" => UpdateKeeps(s)

UpdateKeepsOtherColumns == [][EveryUpdateKeeps]_vars

\* No handler brings back a row that another session deleted after it was
\* read: the UPDATE by id matches nothing.
NoneReturns == \A i \in 1 .. nextId - 1 : i \notin DOMAIN ips => i \notin DOMAIN ips'

DeletedStaysDeleted == [][NoneReturns]_vars

\* A non-VIP carries neither a vip_type nor bindings and a VIP has a vip_type
\* (schemas/ip_address.py, _validate_vip_fields).
VipConsistent == \A i \in DOMAIN ips : VipFieldsOk(ips[i], BindingsOf(i))

SameAddress(r, q) ==
    /\ Parsed[r["address"]] = Parsed[q["address"]]
    /\ \A c \in {"tenant_id", "vrf_id"} : r[c] = q[c]

\* The row is not spelled the way the checks look for it.
Respelled(row) == row["address"] # Canon[Parsed[row["address"]]]

\* "Check for duplicate address within the same VRF scope" (ips.py:189), one
\* request at a time: a row that POST /ips or /ips/bulk adds shares its tenant,
\* VRF and address with an earlier row, those of the same bulk request included,
\* only if that one is stored in a spelling of its own, however the new one is
\* spelled.  (Two requests that check together both add their row.)
DuplicatesAreRespelled ==
    \A i \in DOMAIN ips' \ DOMAIN ips : \A j \in DOMAIN ips' :
        j < i /\ SameAddress(ips'[i], ips'[j]) => Respelled(ips'[j])

EveryDuplicateIsRespelled ==
    \A s \in Session :
        pc[s] \in {"create", "bulk"} /\ pc'[s] = "idle" => DuplicatesAreRespelled

OnlyRespelledDuplicates == [][EveryDuplicateIsRespelled]_vars

\* The live rows its tenant has in the subnet of a row, at its address.
HoldersOf(row) ==
    {j \in DOMAIN ips : /\ \A c \in {"tenant_id", "subnet_id"} : ips[j][c] = row[c]
                        /\ Parsed[ips[j]["address"]] = Parsed[row["address"]]
                        /\ ips[j]["status"] \in Live}

\* "Let SubnetIQ pick the next available address" (docs/ONBOARDING.md:149): an
\* allocation hands out a host of the subnet that is not its gateway and that no
\* allocated or reserved row holds when it is committed.  Two at once break it.
TakesFreeHost ==
    \A i \in DOMAIN ips' \ DOMAIN ips :
        LET row == ips'[i]
            n == row["subnet_id"]
        IN
        /\ Parsed[row["address"]] \in Hosts[n]
        /\ Gateway[n] # Null => Parsed[Gateway[n]] # Parsed[row["address"]]
        /\ HoldersOf(row) = {}

EveryAllocateTakesFreeHost ==
    \A s \in Session : pc[s] = "allocate" /\ pc'[s] = "idle" => TakesFreeHost

AllocateTakesFreeHost == [][EveryAllocateTakesFreeHost]_vars

\* What holds one request at a time: the host that an allocation hands out is
\* held by a live row, or is the gateway, only in a spelling of its own; and the
\* row it adds is never one that a later check or allocation overlooks.
HoldersAreRespelled ==
    \A i \in DOMAIN ips' \ DOMAIN ips :
        LET row == ips'[i]
            n == row["subnet_id"]
        IN
        /\ Parsed[row["address"]] \in Hosts[n] /\ ~Respelled(row)
        /\ Gateway[n] = Null \/ Gateway[n] # row["address"]
        /\ \A j \in HoldersOf(row) : Respelled(ips[j])

EveryHolderIsRespelled ==
    \A s \in Session : pc[s] = "allocate" /\ pc'[s] = "idle" => HoldersAreRespelled

OnlyRespelledHolders == [][EveryHolderIsRespelled]_vars

\* The cleanup task releases only allocations that are expired at the moment
\* it releases them.
ReleasesOnlyExpired ==
    \A i \in DOMAIN ips : ips'[i] # ips[i] =>
        /\ ips[i]["status"] = "allocated"
        /\ ips[i]["expires_at"] \in 0 .. clock - 1

EveryCleanupReleasesOnlyExpired ==
    \A c \in Cleaner : pc[c] = "cleanup" /\ pc'[c] = "idle" => ReleasesOnlyExpired

CleanupReleasesOnlyExpired == [][EveryCleanupReleasesOnlyExpired]_vars
=============================================================================
