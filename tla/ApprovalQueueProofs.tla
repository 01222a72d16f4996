------------------------ MODULE ApprovalQueueProofs ------------------------
(* What follows from the approval workflow's promise.                       *)
EXTENDS ApprovalQueue, TLAPS

QInv == TypeOK /\ OnePending

LEMMA QInvInductive == QInv /\ [Next]_vars => QInv'
<1> SUFFICES ASSUME QInv, [Next]_vars PROVE QInv'
    OBVIOUS
<1> USE DEF QInv, TypeOK, OnePending
<1>1. ASSUME NEW ip \in held, NEW type \in {"release", "reallocate"}, Submit(ip, type)
      PROVE  QInv'
  <2>1. DOMAIN queue' = DOMAIN queue \cup {next} /\ next' = next + 1
        BY <1>1 DEF Submit
  <2>2. \A q \in DOMAIN queue : queue'[q] = queue[q]
        BY <1>1, <2>1 DEF Submit
  <2>3. queue'[next] = [ip |-> ip, type |-> type, status |-> "pending"]
        BY <1>1 DEF Submit
  <2>4. \A q \in DOMAIN queue : queue[q].ip = ip => queue[q].status # "pending"
        BY <1>1 DEF Submit, PendingFor
  <2>5. TypeOK'
        BY <1>1, <2>1, <2>2, <2>3 DEF Submit
  <2>6. OnePending'
        BY <2>1, <2>2, <2>3, <2>4
  <2> QED BY <2>5, <2>6
<1>2. ASSUME NEW q \in DOMAIN queue, NEW status \in {"approved", "rejected"}, Decide(q, status)
      PROVE  QInv'
  <2>1. DOMAIN queue' = DOMAIN queue /\ next' = next
        BY <1>2 DEF Decide
  <2>2. queue'[q] = [ip |-> queue[q].ip, type |-> queue[q].type, status |-> status]
        BY <1>2 DEF Decide
  <2>3. \A r \in DOMAIN queue : r # q => queue'[r] = queue[r]
        BY <1>2 DEF Decide
  <2>4. queue'[q].status # "pending"
        BY <2>2
  <2>5. TypeOK'
    <3>1. queue' = [r \in DOMAIN queue' |-> queue'[r]]
          BY <1>2 DEF Decide
    <3>2. ASSUME NEW r \in DOMAIN queue'
          PROVE  /\ queue'[r] = [ip |-> queue'[r].ip, type |-> queue'[r].type,
                                 status |-> queue'[r].status]
                 /\ queue'[r].status \in {"pending", "approved", "rejected"}
          BY <2>1, <2>2, <2>3
    <3> QED BY <2>1, <3>1, <3>2
  <2>6. OnePending'
        BY <2>1, <2>3, <2>4
  <2> QED BY <2>5, <2>6
<1>3. CASE Elsewhere
  <2>1. DOMAIN queue' \subseteq DOMAIN queue /\ next' = next
        BY <1>3 DEF Elsewhere
  <2>2. \A q \in DOMAIN queue' : queue'[q] = queue[q]
        BY <1>3 DEF Elsewhere
  <2>3. queue' = [q \in DOMAIN queue' |-> queue'[q]]
        BY <1>3 DEF Elsewhere
  <2> QED BY <2>1, <2>2, <2>3
<1>4. CASE UNCHANGED vars
      BY <1>4 DEF vars
<1> QED BY <1>1, <1>2, <1>3, <1>4 DEF Next, Approve, Reject

\* An IP never has two pending requests, whatever is allocated, released,
\* deleted and decided in between: the duplicate check of request_release is
\* enough as long as it and the insert are one step.
THEOREM OnePendingRequest == Spec => []OnePending
<1>1. Init => QInv
      BY DEF Init, QInv, TypeOK, OnePending
<1>2. QInv => OnePending
      BY DEF QInv
<1> QED BY <1>1, <1>2, QInvInductive, PTL DEF Spec

\* No step changes the decision of a request: the status check of
\* approve_request and reject_request is enough as long as it and the update
\* are one step.
THEOREM DecisionsAreFinal == Spec => DecidedOnce
<1>1. Init => QInv
      BY DEF Init, QInv, TypeOK, OnePending
<1>2. QInv /\ [Next]_vars => [Final]_vars
  <2> SUFFICES ASSUME QInv, Next PROVE Final
      BY DEF vars
  <2> USE DEF QInv, TypeOK, Final
  <2>1. ASSUME NEW ip \in held, NEW type \in {"release", "reallocate"}, Submit(ip, type)
        PROVE  Final
        BY <2>1 DEF Submit
  <2>2. ASSUME NEW q \in DOMAIN queue, NEW status, Decide(q, status)
        PROVE  Final
        BY <2>2 DEF Decide
  <2>3. CASE Elsewhere
        BY <2>3 DEF Elsewhere
  <2> QED BY <2>1, <2>2, <2>3 DEF Next, Approve, Reject
<1> QED BY <1>1, <1>2, QInvInductive, PTL DEF Spec, DecidedOnce
=============================================================================
