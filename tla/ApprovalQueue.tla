--------------------------- MODULE ApprovalQueue ---------------------------
(* What the approval workflow promises: an operator asks to change an IP    *)
(* that is in use, at most one request per IP is pending, a reviewer        *)
(* decides it once, and an approved release takes the IP out of use in the  *)
(* same step.  IPs come into and go out of use and are deleted around it.   *)
EXTENDS Naturals

VARIABLES
    queue,  \* a function from the ids of the requests to [ip, type, status]
    next,   \* the next request id
    held    \* the IPs in use

vars == <<queue, next, held>>

PendingFor(ip) == {q \in DOMAIN queue : queue[q].ip = ip /\ queue[q].status = "pending"}

Init == /\ queue = [q \in {} |-> "none"]
        /\ next = 1
        /\ held = {}

Submit(ip, type) ==
    /\ ip \in held
    /\ PendingFor(ip) = {}
    /\ queue' = [q \in DOMAIN queue \cup {next} |->
                   IF q = next THEN [ip |-> ip, type |-> type, status |-> "pending"]
                               ELSE queue[q]]
    /\ next' = next + 1
    /\ UNCHANGED held

Decide(q, status) ==
    /\ queue[q].status = "pending"
    /\ queue' = [queue EXCEPT ![q].status = status]
    /\ UNCHANGED next

Approve(q) ==
    /\ Decide(q, "approved")
    /\ held' = IF queue[q].type = "release" THEN held \ {queue[q].ip} ELSE held

Reject(q) == Decide(q, "rejected") /\ UNCHANGED held

\* Allocations, releases and deletions outside the workflow; the requests of a
\* deleted IP go with it.
Elsewhere ==
    /\ \E gone \in SUBSET {queue[q].ip : q \in DOMAIN queue} :
          /\ gone \cap held' = {}
          /\ queue' = [q \in {r \in DOMAIN queue : queue[r].ip \notin gone} |-> queue[q]]
    /\ UNCHANGED next

Next == \/ \E ip \in held, type \in {"release", "reallocate"} : Submit(ip, type)
        \/ \E q \in DOMAIN queue : Approve(q) \/ Reject(q)
        \/ Elsewhere

Spec == Init /\ [][Next]_vars

-----------------------------------------------------------------------------

TypeOK == /\ next \in Nat
          /\ queue = [q \in DOMAIN queue |-> queue[q]]
          /\ \A q \in DOMAIN queue :
                /\ q \in Nat /\ q < next
                /\ queue[q] = [ip |-> queue[q].ip, type |-> queue[q].type,
                               status |-> queue[q].status]
                /\ queue[q].status \in {"pending", "approved", "rejected"}

\* An IP has at most one pending request.
OnePending ==
    \A p, q \in DOMAIN queue :
        /\ queue[p].status = "pending"
        /\ queue[q].status = "pending"
        /\ queue[p].ip = queue[q].ip
        => p = q

\* A decided request is never decided again.
Final == \A q \in DOMAIN queue \cap DOMAIN queue' :
            queue[q].status # "pending" => queue'[q].status = queue[q].status

DecidedOnce == [][Final]_vars
=============================================================================
