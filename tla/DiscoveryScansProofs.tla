------------------------ MODULE DiscoveryScansProofs ------------------------
(***************************************************************************)
(* Proofs about DiscoveryScans for any number of requests, checks, workers *)
(* and scans: types, deleted scans, that a pending scan is dispatched and  *)
(* that a running scan is worked on, but for those whose task was lost.    *)
(***************************************************************************)
EXTENDS DiscoveryScans, TLAPS

-----------------------------------------------------------------------------
(* The queue *)

LEMMA QueueAdd ==
    ASSUME NEW B, IsABag(B), NEW m
    PROVE  /\ IsABag(B (+) SetToBag({m}))
           /\ DOMAIN (B (+) SetToBag({m})) = DOMAIN B \cup {m}
  BY DEF IsABag, (+), SetToBag

LEMMA QueueRemove ==
    ASSUME NEW B, IsABag(B), NEW m
    PROVE  /\ IsABag(B (-) SetToBag({m}))
           /\ DOMAIN (B (-) SetToBag({m})) \subseteq DOMAIN B
           /\ DOMAIN B \ {m} \subseteq DOMAIN (B (-) SetToBag({m}))
  BY DEF IsABag, (-), SetToBag

(* Rows *)

\* A flushed status changes no other row and no other column.
LEMMA StatusSet ==
    ASSUME TablesOK, NEW i, NEW row, NEW status \in Status, SetStatus(i, row, status)
    PROVE  /\ DOMAIN scans' = DOMAIN scans
           /\ scans' \in [DOMAIN scans' -> Row]
           /\ i \in DOMAIN scans
           /\ \A j \in DOMAIN scans : j # i => scans'[j] = scans[j]
           /\ scans'[i].status = IF status # row.status THEN status ELSE scans[i].status
  BY DEF TablesOK, SetStatus, Row

\* It is the status asked for, or as it was; whether a scan is scheduled stays.
LEMMA StatusKeeps ==
    ASSUME TablesOK, NEW i, NEW row, NEW status \in Status, SetStatus(i, row, status)
    PROVE  /\ DOMAIN scans' = DOMAIN scans
           /\ \A j \in DOMAIN scans : /\ scans'[j].status \in {scans[j].status, status}
                                      /\ scans'[j].scheduled = scans[j].scheduled
  BY DEF TablesOK, SetStatus, Row

\* An inserted row has the next id.
LEMMA RowInserted ==
    ASSUME TablesOK, NEW row \in Row, Insert(row)
    PROVE  /\ DOMAIN scans' = DOMAIN scans \cup {nextScan}
           /\ nextScan \notin DOMAIN scans
           /\ nextScan' = nextScan + 1
           /\ scans' \in [DOMAIN scans' -> Row]
           /\ DOMAIN scans' \subseteq 1 .. nextScan' - 1
           /\ scans'[nextScan] = row
           /\ \A j \in DOMAIN scans : scans'[j] = scans[j]
  <1>1. nextScan \in Nat \ {0} /\ nextScan \notin DOMAIN scans
    BY DEF TablesOK
  <1>2. /\ nextScan' = nextScan + 1
        /\ DOMAIN scans' = DOMAIN scans \cup {nextScan}
        /\ scans' = [i \in DOMAIN scans' |-> IF i = nextScan THEN row ELSE scans[i]]
    BY DEF Insert
  <1>3. DOMAIN scans' \subseteq 1 .. nextScan' - 1
    <2>1. 1 .. nextScan - 1 \subseteq 1 .. nextScan' - 1
      BY <1>1, <1>2
    <2>3. nextScan \in 1 .. nextScan' - 1
      BY <1>1, <1>2
    <2>2. QED BY <1>2, <2>1, <2>3 DEF TablesOK
  <1>4. QED BY <1>1, <1>2, <1>3 DEF TablesOK

(* Processes *)

\* Only process p takes a step.
Moves(p) == /\ pc' = [pc EXCEPT ![p] = pc'[p]]
            /\ job' = [job EXCEPT ![p] = job'[p]]

Places == {"idle", "send", "runnow", "cancel", "delete", "check",
           "start", "probe", "asset", "assetEnd"}

LEMMA ProcessMoved ==
    ASSUME TypeOK, NEW p \in Process, Moves(p), pc'[p] \in Places, JobOK(p)',
           nextScan' \in Nat, nextScan <= nextScan'
    PROVE  ProcessesOK'
  <1>1. pc' \in [Process -> Places] /\ job' = [q \in Process |-> job'[q]]
    BY DEF TypeOK, ProcessesOK, Moves, Places
  <1>2. 1 .. nextScan - 1 \subseteq 1 .. nextScan' - 1
    BY DEF TypeOK, TablesOK
  <1>3. ASSUME NEW q \in Process, q # p PROVE JobOK(q)'
    <2>1. pc'[q] = pc[q] /\ job'[q] = job[q]
      BY <1>3 DEF TypeOK, ProcessesOK, Moves
    <2>2. JobOK(q)
      BY DEF TypeOK, ProcessesOK
    <2>3. QED BY <2>1, <2>2, <1>2 DEF JobOK
  <1>4. QED BY <1>1, <1>3 DEF ProcessesOK, Places

LEMMA ProcessesStay ==
    ASSUME TypeOK, UNCHANGED <<pc, job>>, nextScan' \in Nat, nextScan <= nextScan'
    PROVE  ProcessesOK'
  <1>1. 1 .. nextScan - 1 \subseteq 1 .. nextScan' - 1
    BY DEF TypeOK, TablesOK
  <1>2. ASSUME NEW q \in Process PROVE JobOK(q)'
    <2>1. JobOK(q)
      BY DEF TypeOK, ProcessesOK
    <2>2. QED BY <1>1, <2>1 DEF JobOK
  <1>3. QED BY <1>2 DEF TypeOK, ProcessesOK

\* The time limit moves what worker w does to the place a.
LEMMA CutMoves ==
    ASSUME TypeOK, NEW w \in Worker, NEW a \in Aside, Cut(w, a)
    PROVE  /\ w \in Process /\ a \in Process /\ w # a /\ {w, a} \cap Request = {}
           /\ {w, a} \subseteq Coroutine /\ {w, a} \cap Checker = {}
           /\ pc[a] = "idle" /\ pc[w] \in {"probe", "asset"}
           /\ pc'[w] = "idle" /\ pc'[a] = pc[w] /\ job'[a] = job[w]
           /\ \A q \in Process \ {w, a} : pc'[q] = pc[q] /\ job'[q] = job[q]
           /\ pc' = [q \in Process |-> pc'[q]] /\ job' = [q \in Process |-> job'[q]]
  <1>1. w \in Process /\ a \in Process /\ w # a /\ {w, a} \cap (Request \cup Checker) = {}
    BY ProcessAssumption DEF Process, Coroutine
  <1>2. pc = [q \in Process |-> pc[q]] /\ job = [q \in Process |-> job[q]]
    BY DEF TypeOK, ProcessesOK
  <1>3. QED BY <1>1, <1>2 DEF Cut, Coroutine

LEMMA CutTyped ==
    ASSUME TypeOK, NEW w \in Worker, NEW a \in Aside, Cut(w, a)
    PROVE  TypeOK'
  <1>1. TablesOK' /\ nextScan' = nextScan
    BY DEF Cut, TypeOK, TablesOK, table, count
  <1>2. ASSUME NEW q \in Process PROVE JobOK(q)' /\ pc'[q] \in Places
    <2>1. JobOK(q) /\ JobOK(w) /\ pc[q] \in Places /\ pc[w] \in Places
      BY CutMoves DEF TypeOK, ProcessesOK, Places
    <2>2. CASE q = w
      BY <2>2, CutMoves DEF JobOK, Places
    <2>3. CASE q = a
      BY <1>1, <2>1, <2>3, CutMoves DEF JobOK, Places
    <2>4. CASE q \notin {w, a}
      BY <1>1, <2>1, <2>4, CutMoves DEF JobOK
    <2>5. QED BY <2>2, <2>3, <2>4
  <1>3. QED BY <1>1, <1>2, CutMoves DEF TypeOK, ProcessesOK, Places

LEMMA DoneOK ==
    ASSUME TypeOK, NEW p \in Process, Done(p), nextScan' = nextScan
    PROVE  ProcessesOK'
  <1>1. Moves(p) /\ pc'[p] = "idle"
    BY DEF Done, Goto, Moves, TypeOK, ProcessesOK
  <1>2. JobOK(p)'
    BY <1>1 DEF JobOK
  <1>3. QED BY <1>1, <1>2, ProcessMoved DEF Places, TypeOK, TablesOK

-----------------------------------------------------------------------------
(* Types *)

LEMMA InitTypeOK == Init => TypeOK
  BY BoundsAssumption DEF Init, TypeOK, TablesOK, ProcessesOK, JobOK, EmptyBag, SetToBag, IsABag

LEMMA TypeRequest ==
    ASSUME TypeOK, NEW s \in Request,
           \/ StartScan(s) \/ RunDiscovery(s)
           \/ RunNowRead(s) \/ CancelRead(s) \/ DeleteRead(s)
           \/ DeleteSubnet(s) \/ Handle(s)
    PROVE  TypeOK'
  <1>0. s \in Process /\ TablesOK /\ nextScan \in Nat /\ nextScan <= nextScan + 1 /\ nextScan <= nextScan
    BY DEF Process, TypeOK, TablesOK
  <1>1. CASE StartScan(s)
    <2>1. PICK b \in StartBodies :
            /\ Insert([status |-> IF b.scheduled THEN "scheduled" ELSE "pending",
                       scheduled |-> b.scheduled, recursive |-> b.recursive,
                       due |-> b.due, subnet |-> TRUE])
            /\ IF b.scheduled THEN UNCHANGED <<pc, job>>
                              ELSE Goto(s, "send", Message("scan", nextScan))
      BY <1>1 DEF StartScan
    <2> DEFINE row == [status |-> IF b.scheduled THEN "scheduled" ELSE "pending",
                       scheduled |-> b.scheduled, recursive |-> b.recursive,
                       due |-> b.due, subnet |-> TRUE]
    <2>2. row \in Row
      BY BodiesAssumption DEF Row, Status
    <2>3. TablesOK'
      BY <1>0, <1>1, <2>1, <2>2, RowInserted DEF StartScan, TablesOK, count, table
    <2>4. ProcessesOK'
      <3>1. CASE b.scheduled
        BY <1>0, <2>1, <2>2, <3>1, RowInserted, ProcessesStay
      <3>2. CASE ~b.scheduled
        <4>1. Moves(s) /\ pc'[s] = "send" /\ job'[s] = Message("scan", nextScan)
          BY <1>0, <2>1, <3>2 DEF Goto, Moves, TypeOK, ProcessesOK
        <4>2. nextScan' = nextScan + 1 /\ nextScan \in 1 .. nextScan' - 1
          BY <1>0, <2>1, <2>2, RowInserted DEF TablesOK
        <4>3. JobOK(s)'
          BY <4>1, <4>2 DEF JobOK, Message, Kind
        <4>4. QED BY <1>0, <4>1, <4>2, <4>3, ProcessMoved DEF Places
      <3>3. QED BY <3>1, <3>2
    <2>5. QED BY <2>3, <2>4 DEF TypeOK
  <1>2. CASE RunDiscovery(s)
    <2>1. PICK b \in RunBodies :
            /\ Insert([status |-> "running", scheduled |-> FALSE, recursive |-> FALSE,
                       due |-> Null, subnet |-> b.subnet])
            /\ IF b.supported THEN Goto(s, "send", Message("asset", nextScan))
                              ELSE UNCHANGED <<pc, job>>
      BY <1>2 DEF RunDiscovery
    <2>2. [status |-> "running", scheduled |-> FALSE, recursive |-> FALSE,
           due |-> Null, subnet |-> b.subnet] \in Row
      BY BodiesAssumption DEF Row, Status
    <2>3. TablesOK'
      BY <1>0, <1>2, <2>1, <2>2, RowInserted DEF RunDiscovery, TablesOK, count, table
    <2>4. ProcessesOK'
      <3>1. CASE ~b.supported
        BY <1>0, <2>1, <2>2, <3>1, RowInserted, ProcessesStay
      <3>2. CASE b.supported
        <4>1. Moves(s) /\ pc'[s] = "send" /\ job'[s] = Message("asset", nextScan)
          BY <1>0, <2>1, <3>2 DEF Goto, Moves, TypeOK, ProcessesOK
        <4>2. nextScan' = nextScan + 1 /\ nextScan \in 1 .. nextScan' - 1
          BY <1>0, <2>1, <2>2, RowInserted DEF TablesOK
        <4>3. JobOK(s)'
          BY <4>1, <4>2 DEF JobOK, Message, Kind
        <4>4. QED BY <1>0, <4>1, <4>2, <4>3, ProcessMoved DEF Places
      <3>3. QED BY <3>1, <3>2
    <2>5. QED BY <2>3, <2>4 DEF TypeOK
  <1>3. ASSUME RunNowRead(s) \/ CancelRead(s) \/ DeleteRead(s)
        PROVE  TypeOK'
    <2>1. /\ TablesOK'
          /\ nextScan' = nextScan
      BY <1>0, <1>3 DEF RunNowRead, CancelRead, DeleteRead, TablesOK, table, count
    <2>2. PICK i \in DOMAIN scans, where \in {"runnow", "cancel", "delete"} :
             Goto(s, where, [scan |-> i, row |-> scans[i]])
      BY <1>3 DEF RunNowRead, CancelRead, DeleteRead
    <2>3. Moves(s) /\ pc'[s] = where /\ job'[s] = [scan |-> i, row |-> scans[i]]
      BY <1>0, <2>2 DEF Goto, Moves, TypeOK, ProcessesOK
    <2>4. job'[s] \in [scan : 1 .. nextScan - 1, row : Row]
      BY <1>0, <2>3 DEF TablesOK
    <2>5. JobOK(s)'
      BY <2>1, <2>3, <2>4 DEF JobOK
    <2>6. QED BY <1>0, <2>1, <2>3, <2>5, ProcessMoved DEF Places, TypeOK
  <1>4. CASE DeleteSubnet(s)
    <2>1. TablesOK'
      BY <1>0, <1>4 DEF DeleteSubnet, TablesOK, count, Row
    <2>2. QED BY <1>0, <1>4, <2>1, ProcessesStay DEF DeleteSubnet, TypeOK
  <1>5. CASE SendTask(s)
    <2>1. pc[s] = "send" /\ job[s] \in [kind : Kind, scan : 1 .. nextScan - 1]
      BY <1>0, <1>5 DEF SendTask, TypeOK, ProcessesOK, JobOK
    <2>2. /\ IsABag(queue')
          /\ DOMAIN queue' = DOMAIN queue \cup {Message(job[s].kind, job[s].scan)}
      BY <1>0, <1>5, QueueAdd DEF SendTask, Send, TablesOK
    <2>3. TablesOK'
      BY <1>0, <1>5, <2>1, <2>2 DEF SendTask, TablesOK, table, count, Message
    <2>4. QED BY <1>0, <1>5, <2>3, DoneOK DEF SendTask, TypeOK, table
  <1>6. CASE RunNowCommit(s)
    <2>1. job[s].scan \in 1 .. nextScan - 1
      BY <1>0, <1>6 DEF RunNowCommit, TypeOK, ProcessesOK, JobOK
    <2>2. TablesOK' /\ nextScan' = nextScan
      BY <1>0, <1>6, StatusSet DEF RunNowCommit, TablesOK, count, Status
    <2>3. Moves(s) /\ pc'[s] = "send" /\ job'[s] = Message("scan", job[s].scan)
      BY <1>0, <1>6 DEF RunNowCommit, Goto, Moves, TypeOK, ProcessesOK
    <2>4. JobOK(s)'
      BY <2>1, <2>2, <2>3 DEF JobOK, Message, Kind
    <2>5. QED BY <1>0, <2>2, <2>3, <2>4, ProcessMoved DEF Places, TypeOK
  <1>7. CASE CancelCommit(s)
    <2>1. TablesOK' /\ nextScan' = nextScan
      BY <1>0, <1>7, StatusSet DEF CancelCommit, TablesOK, count, Status
    <2>2. QED BY <1>0, <1>7, <2>1, DoneOK DEF CancelCommit, TypeOK
  <1>8. CASE DeleteCommit(s)
    <2>1. TablesOK' /\ nextScan' = nextScan
      BY <1>0, <1>8 DEF DeleteCommit, TablesOK, count
    <2>2. QED BY <1>0, <1>8, <2>1, DoneOK DEF DeleteCommit, TypeOK
  <1>9. CASE RowLost(s)
    <2>1. TablesOK' /\ nextScan' = nextScan
      BY <1>0, <1>9 DEF RowLost, TablesOK, table, count
    <2>2. QED BY <1>0, <1>9, <2>1, DoneOK DEF RowLost, TypeOK
  <1>10. QED
    BY <1>1, <1>2, <1>3, <1>4, <1>5, <1>6, <1>7, <1>8, <1>9 DEF Handle

LEMMA TypeChecker ==
    ASSUME TypeOK, NEW c \in Checker, Check(c)
    PROVE  TypeOK'
  <1>0. c \in Process /\ TablesOK /\ nextScan \in Nat /\ nextScan <= nextScan
    BY DEF Process, TypeOK, TablesOK
  <1>1. CASE CheckSelect(c)
    <2> DEFINE found == {i \in DOMAIN scans : Due(i)}
    <2>1. TablesOK' /\ nextScan' = nextScan
      BY <1>0, <1>1 DEF CheckSelect, TablesOK, table, count
    <2>2. /\ Moves(c) /\ pc'[c] = "check"
          /\ job'[c] = [now |-> clock, rows |-> [i \in found |-> scans[i]], todo |-> found]
      BY <1>0, <1>1 DEF CheckSelect, Goto, Moves, TypeOK, ProcessesOK
    <2>3. JobOK(c)'
      BY <1>0, <2>1, <2>2 DEF JobOK, TablesOK
    <2>4. QED BY <1>0, <2>1, <2>2, <2>3, ProcessMoved DEF Places, TypeOK
  <1>2. CASE CheckSend(c)
    <2>1. PICK i \in job[c].todo :
             /\ Send("scan", i)
             /\ job' = [job EXCEPT ![c].todo = @ \ {i}]
      BY <1>2 DEF CheckSend
    <2>2. pc[c] = "check" /\ JobOK(c)
      BY <1>0, <1>2 DEF CheckSend, TypeOK, ProcessesOK
    <2>3. i \in 1 .. nextScan - 1
      BY <2>2 DEF JobOK
    <2>4. IsABag(queue') /\ DOMAIN queue' = DOMAIN queue \cup {Message("scan", i)}
      BY <1>0, <2>1, QueueAdd DEF Send, TablesOK
    <2>5. TablesOK' /\ nextScan' = nextScan
      BY <1>0, <1>2, <2>3, <2>4 DEF CheckSend, TablesOK, table, count, Message, Kind
    <2>6. /\ job'[c] = [now |-> job[c].now, rows |-> job[c].rows, todo |-> job[c].todo \ {i}]
          /\ Moves(c) /\ pc'[c] = "check"
      BY <1>0, <1>2, <2>1, <2>2 DEF CheckSend, Moves, JobOK, TypeOK, ProcessesOK
    <2>7. JobOK(c)'
      BY <2>2, <2>5, <2>6 DEF JobOK
    <2>8. QED BY <1>0, <2>5, <2>6, <2>7, ProcessMoved DEF Places, TypeOK
  <1>3. CASE CheckCommit(c)
    <2>1. pc[c] = "check" /\ JobOK(c)
      BY <1>0, <1>3 DEF CheckCommit, TypeOK, ProcessesOK
    <2>2. job[c].now + Interval \in Nat
      BY <2>1, BoundsAssumption DEF JobOK
    <2>3. scans' \in [DOMAIN scans -> Row]
      BY <1>0, <1>3, <2>2 DEF CheckCommit, TablesOK, Row, Status
    <2>4. TablesOK' /\ nextScan' = nextScan
      BY <1>0, <1>3, <2>3 DEF CheckCommit, TablesOK, count
    <2>5. QED BY <1>0, <1>3, <2>4, DoneOK DEF CheckCommit, TypeOK
  <1>4. CASE CheckLost(c)
    <2>1. TablesOK' /\ nextScan' = nextScan
      BY <1>0, <1>4 DEF CheckLost, TablesOK, table, count
    <2>2. QED BY <1>0, <1>4, <2>1, DoneOK DEF CheckLost, TypeOK
  <1>5. QED BY <1>1, <1>2, <1>3, <1>4 DEF Check

LEMMA TypeWorker ==
    ASSUME TypeOK, NEW w \in Coroutine, Work(w)
    PROVE  TypeOK'
  <1>0. w \in Process /\ TablesOK /\ nextScan \in Nat /\ nextScan <= nextScan
    BY DEF Process, TypeOK, TablesOK
  <1>1. CASE TakeTask(w)
    <2>1. PICK m \in BagToSet(queue) :
            /\ queue' = queue (-) SetToBag({m})
            /\ \/ m.kind = "asset" /\ Goto(w, "asset", m)
               \/ /\ m.kind = "scan"
                  /\ m.scan \in DOMAIN scans
                  /\ Goto(w, "start", [scan |-> m.scan, row |-> scans[m.scan]])
               \/ m.kind = "scan" /\ m.scan \notin DOMAIN scans /\ UNCHANGED <<pc, job>>
      BY <1>1 DEF TakeTask
    <2>2. IsABag(queue') /\ DOMAIN queue' \subseteq DOMAIN queue
      BY <1>0, <2>1, QueueRemove DEF TablesOK
    <2>3. TablesOK' /\ nextScan' = nextScan
      BY <1>0, <1>1, <2>2 DEF TakeTask, TablesOK, table, count
    <2>4. m \in [kind : Kind, scan : 1 .. nextScan - 1]
      BY <1>0, <2>1 DEF BagToSet, TablesOK
    <2>5. CASE m.kind = "asset" /\ Goto(w, "asset", m)
      <3>1. Moves(w) /\ pc'[w] = "asset" /\ job'[w] = m
        BY <1>0, <2>5 DEF Goto, Moves, TypeOK, ProcessesOK
      <3>2. JobOK(w)'
        BY <2>3, <2>4, <3>1 DEF JobOK
      <3>3. QED BY <1>0, <2>3, <3>1, <3>2, ProcessMoved DEF Places, TypeOK
    <2>6. CASE m.scan \in DOMAIN scans /\ Goto(w, "start", [scan |-> m.scan, row |-> scans[m.scan]])
      <3>1. /\ Moves(w) /\ pc'[w] = "start"
            /\ job'[w] = [scan |-> m.scan, row |-> scans[m.scan]]
        BY <1>0, <2>6 DEF Goto, Moves, TypeOK, ProcessesOK
      <3>2. JobOK(w)'
        BY <1>0, <2>3, <2>4, <2>6, <3>1 DEF JobOK, TablesOK
      <3>3. QED BY <1>0, <2>3, <3>1, <3>2, ProcessMoved DEF Places, TypeOK
    <2>7. CASE UNCHANGED <<pc, job>>
      BY <1>0, <2>3, <2>7, ProcessesStay DEF TypeOK
    <2>8. QED BY <2>1, <2>5, <2>6, <2>7
  <1>2. CASE BeginScan(w)
    <2>1. pc[w] = "start" /\ job[w] \in [scan : 1 .. nextScan - 1, row : Row]
      BY <1>0, <1>2 DEF BeginScan, TypeOK, ProcessesOK, JobOK
    <2>2. TablesOK' /\ nextScan' = nextScan
      BY <1>0, <1>2, StatusSet DEF BeginScan, TablesOK, count, Status
    <2>3. /\ Moves(w) /\ pc'[w] = "probe"
          /\ job'[w] = [job[w] EXCEPT !.row.status = "running"]
      BY <1>0, <1>2 DEF BeginScan, Goto, Moves, TypeOK, ProcessesOK
    <2>4. job'[w] \in [scan : 1 .. nextScan - 1, row : Row]
      BY <2>1, <2>3 DEF Row, Status
    <2>5. JobOK(w)'
      BY <2>2, <2>3, <2>4 DEF JobOK
    <2>6. QED BY <1>0, <2>2, <2>3, <2>5, ProcessMoved DEF Places, TypeOK
  <1>3. CASE EndScan(w)
    <2>1. PICK status \in {"completed", "failed"} : SetStatus(job[w].scan, job[w].row, status)
      BY <1>3 DEF EndScan
    <2>2. TablesOK' /\ nextScan' = nextScan
      BY <1>0, <1>3, <2>1, StatusSet DEF EndScan, TablesOK, count, Status
    <2>3. QED BY <1>0, <1>3, <2>2, DoneOK DEF EndScan, TypeOK
  <1>4. CASE ScanLost(w) \/ AssetConflict(w)
    <2>3. lost' \subseteq 1 .. nextScan - 1
      BY <1>0, <1>4 DEF ScanLost, AssetConflict, TypeOK, ProcessesOK, JobOK, TablesOK
    <2>1. TablesOK' /\ nextScan' = nextScan
      BY <1>0, <1>4, <2>3 DEF ScanLost, AssetConflict, TablesOK, table, count
    <2>2. QED BY <1>0, <1>4, <2>1, DoneOK DEF ScanLost, AssetConflict, TypeOK
  <1>5. CASE ReadRecord(w)
    <2>1. TablesOK' /\ nextScan' = nextScan
      BY <1>0, <1>5 DEF ReadRecord, TablesOK, table, count
    <2>2. job[w] \in [kind : Kind, scan : 1 .. nextScan - 1]
      BY <1>0, <1>5 DEF ReadRecord, TypeOK, ProcessesOK, JobOK
    <2>3. CASE job[w].scan \in DOMAIN scans
      <3>1. /\ Moves(w) /\ pc'[w] = "assetEnd"
            /\ job'[w] = [scan |-> job[w].scan, row |-> scans[job[w].scan]]
        BY <1>0, <1>5, <2>3 DEF ReadRecord, Goto, Moves, TypeOK, ProcessesOK
      <3>2. JobOK(w)'
        BY <1>0, <2>1, <2>2, <2>3, <3>1 DEF JobOK, TablesOK
      <3>3. QED BY <1>0, <2>1, <3>1, <3>2, ProcessMoved DEF Places, TypeOK
    <2>4. CASE job[w].scan \notin DOMAIN scans
      BY <1>0, <1>5, <2>1, <2>4, DoneOK DEF ReadRecord, TypeOK
    <2>5. QED BY <2>3, <2>4
  <1>6. CASE EndAsset(w)
    <2>1. PICK status \in {"completed", "failed"} : SetStatus(job[w].scan, job[w].row, status)
      BY <1>6 DEF EndAsset
    <2>2. TablesOK' /\ nextScan' = nextScan
      BY <1>0, <1>6, <2>1, StatusSet DEF EndAsset, TablesOK, count, Status
    <2>3. QED BY <1>0, <1>6, <2>2, DoneOK DEF EndAsset, TypeOK
  <1>7. QED BY <1>1, <1>2, <1>3, <1>4, <1>5, <1>6 DEF Work, Proceed

LEMMA TypeInductive == TypeOK /\ [Next]_vars => TypeOK'
  <1> SUFFICES ASSUME TypeOK, [Next]_vars PROVE TypeOK'
    OBVIOUS
  <1>1. CASE \E s \in Request :
          \/ StartScan(s) \/ RunDiscovery(s)
          \/ RunNowRead(s) \/ CancelRead(s) \/ DeleteRead(s)
          \/ DeleteSubnet(s) \/ Handle(s)
    BY <1>1, TypeRequest
  <1>2. CASE \E c \in Checker : Check(c)
    BY <1>2, TypeChecker
  <1>3. ASSUME NEW w \in Coroutine, Work(w) PROVE TypeOK'
    BY <1>3, TypeWorker
  <1>8. ASSUME NEW w \in Worker, NEW a \in Aside, Cut(w, a) PROVE TypeOK'
    BY <1>8, CutTyped
  <1>4. ASSUME NEW p \in Process, Crash(p) PROVE TypeOK'
    <2>3. JobOK(p)
      BY DEF TypeOK, ProcessesOK
    <2>4. lost' \subseteq 1 .. nextScan - 1
      BY <1>4, <2>3 DEF Crash, JobOK, TypeOK, TablesOK
    <2>1. TablesOK' /\ nextScan' = nextScan
      BY <1>4, <2>4 DEF Crash, TypeOK, TablesOK, table
    <2>2. QED BY <1>4, <2>1, DoneOK DEF Crash, TypeOK
  <1>5. CASE Tick
    <2>1. TablesOK' /\ nextScan' = nextScan /\ nextScan \in Nat /\ nextScan <= nextScan
      BY <1>5 DEF Tick, TypeOK, TablesOK, table
    <2>2. QED BY <1>5, <2>1, ProcessesStay DEF Tick, TypeOK
  <1>6. CASE UNCHANGED vars
    BY <1>6 DEF vars, table, count, TypeOK, TablesOK, ProcessesOK, JobOK
  <1>7. QED BY <1>1, <1>2, <1>3, <1>4, <1>5, <1>6, <1>8 DEF Next, Work, Coroutine

\* Rows, messages and what each process holds keep their types, whatever
\* interleaves: a task or a handler never works on an id that was not issued.
THEOREM TypeCorrect == Spec => []TypeOK
  BY InitTypeOK, TypeInductive, PTL DEF Spec

-----------------------------------------------------------------------------
(* Deleted scans *)

LEMMA OnlyNextIdAppears ==
    ASSUME TypeOK, [Next]_vars
    PROVE  DOMAIN scans' \subseteq DOMAIN scans \cup {nextScan}
  <1>0. TablesOK
    BY DEF TypeOK
  <1>1. ASSUME NEW s \in Request, StartScan(s) \/ RunDiscovery(s)
        PROVE  DOMAIN scans' \subseteq DOMAIN scans \cup {nextScan}
    BY <1>1 DEF StartScan, RunDiscovery, Insert
  <1>2. ASSUME NEW s \in Request, RunNowRead(s) \/ CancelRead(s) \/ DeleteRead(s) \/ DeleteSubnet(s)
        PROVE  DOMAIN scans' \subseteq DOMAIN scans \cup {nextScan}
    BY <1>2 DEF RunNowRead, CancelRead, DeleteRead, DeleteSubnet, table
  <1>3. ASSUME NEW s \in Request, Handle(s)
        PROVE  DOMAIN scans' \subseteq DOMAIN scans \cup {nextScan}
    BY <1>3 DEF Handle, SendTask, RunNowCommit, CancelCommit, DeleteCommit, RowLost, SetStatus, table
  <1>4. ASSUME NEW c \in Checker, Check(c)
        PROVE  DOMAIN scans' \subseteq DOMAIN scans \cup {nextScan}
    BY <1>4 DEF Check, CheckSelect, CheckSend, CheckCommit, CheckLost, table
  <1>5. ASSUME NEW w \in Coroutine, Work(w)
        PROVE  DOMAIN scans' \subseteq DOMAIN scans \cup {nextScan}
    BY <1>5 DEF Work, Proceed, TakeTask, BeginScan, EndScan, ScanLost, ReadRecord, EndAsset, AssetConflict,
                SetStatus, table
  <1>6. ASSUME NEW p \in Process, Crash(p)
        PROVE  DOMAIN scans' \subseteq DOMAIN scans \cup {nextScan}
    BY <1>6 DEF Crash, table
  <1>7. CASE Tick \/ UNCHANGED vars
    BY <1>7 DEF Tick, vars, table
  <1>9. ASSUME NEW w \in Worker, NEW a \in Aside, Cut(w, a)
        PROVE  DOMAIN scans' \subseteq DOMAIN scans \cup {nextScan}
    BY <1>9 DEF Cut, table
  <1>8. QED BY <1>1, <1>2, <1>3, <1>4, <1>5, <1>6, <1>7, <1>9 DEF Next, Work, Coroutine

\* No task, check or request brings back a scan that another one deleted.
THEOREM NoResurrection == Spec => DeletedStaysDeleted
  <1>1. TypeOK /\ [Next]_vars => [NoneReturns]_vars
    <2> SUFFICES ASSUME TypeOK, [Next]_vars PROVE NoneReturns
      OBVIOUS
    <2>1. nextScan \notin 1 .. nextScan - 1
      BY DEF TypeOK, TablesOK
    <2>2. QED BY <2>1, OnlyNextIdAppears DEF NoneReturns
  <1>2. QED BY <1>1, TypeCorrect, PTL DEF Spec, DeletedStaysDeleted

-----------------------------------------------------------------------------
(* Running scans *)

\* The steps that leave the history of lost tasks alone.
LEMMA LostStays ==
    /\ \A s \in Request :
          \/ StartScan(s) \/ RunNowRead(s) \/ CancelRead(s) \/ DeleteRead(s) \/ DeleteSubnet(s)
          \/ SendTask(s) \/ RunNowCommit(s) \/ CancelCommit(s) \/ DeleteCommit(s) \/ RowLost(s)
          => lost' = lost
    /\ \A c \in Checker : Check(c) => lost' = lost
    /\ \A w \in Coroutine :
          TakeTask(w) \/ EndScan(w) \/ ScanLost(w) \/ ReadRecord(w) \/ EndAsset(w) => lost' = lost
  BY DEF StartScan, RunNowRead, CancelRead, DeleteRead, DeleteSubnet, SendTask, RunNowCommit,
         CancelCommit, DeleteCommit, RowLost, Check, CheckSelect, CheckSend, CheckCommit, CheckLost,
         TakeTask, EndScan, ScanLost, ReadRecord, EndAsset

\* The asset task of scan i is on its way to a worker, before and after a step.
Carried(i) == \/ BagIn(Message("asset", i), queue)
              \/ \E s \in Request : pc[s] = "send" /\ job[s] = Message("asset", i)
CarriedNext(i) == \/ BagIn(Message("asset", i), queue')
                  \/ \E s \in Request : pc'[s] = "send" /\ job'[s] = Message("asset", i)

\* A step that leaves the coroutines alone, takes no scan out of the lost ones,
\* loses the message of no other, and sets none of them to running but a new one
\* whose task it carries.
LEMMA WorkKept ==
    ASSUME IInv,
           \A w \in Coroutine : pc'[w] = pc[w] /\ job'[w] = job[w],
           lost \subseteq lost',
           \A i \in DOMAIN scans' \ lost' : scans'[i].status = "running" =>
               \/ i \in DOMAIN scans /\ scans[i].status = "running"
               \/ i = nextScan /\ CarriedNext(i),
           \A i \in DOMAIN scans \ lost' : Carried(i) => CarriedNext(i)
    PROVE  RunningIsWorkedOn' /\ WorkersAgree'
  <1>1. RunningIsWorkedOn'
    BY DEF IInv, RunningIsWorkedOn, Works, Carried, CarriedNext
  <1>2. \A w \in Coroutine : pc[w] \in {"probe", "assetEnd"} => job[w].scan # nextScan
    <2>1. \A w \in Coroutine : JobOK(w)
      BY DEF IInv, TypeOK, ProcessesOK, Process
    <2>2. nextScan \notin 1 .. nextScan - 1
      BY DEF IInv, TypeOK, TablesOK
    <2>3. QED BY <2>1, <2>2 DEF JobOK
  <1>3. WorkersAgree'
    BY <1>2 DEF IInv, WorkersAgree
  <1>4. QED BY <1>1, <1>3

LEMMA InitIInv == Init => IInv
  <1>1. Init => RunningIsWorkedOn
    BY DEF Init, RunningIsWorkedOn
  <1>2. Init => WorkersAgree
    BY DEF Init, WorkersAgree, Process
  <1>3. QED BY <1>1, <1>2, InitTypeOK DEF IInv

\* A step of one process leaves the others, and those of other kinds, alone.
LEMMA OthersStay ==
    ASSUME TypeOK, NEW p \in Process, Moves(p)
    PROVE  /\ \A q \in Process \ {p} : pc'[q] = pc[q] /\ job'[q] = job[q]
           /\ p \in Request \cup Checker => \A w \in Coroutine : pc'[w] = pc[w] /\ job'[w] = job[w]
           /\ p \in Checker \cup Coroutine => \A s \in Request : pc'[s] = pc[s] /\ job'[s] = job[s]
  <1>1. \A q \in Process \ {p} : pc'[q] = pc[q] /\ job'[q] = job[q]
    BY DEF TypeOK, ProcessesOK, Moves
  <1>2. p \in Request \cup Checker => Coroutine \subseteq Process \ {p}
    BY ProcessAssumption DEF Process
  <1>3. p \in Checker \cup Coroutine => Request \subseteq Process \ {p}
    BY ProcessAssumption DEF Process
  <1>4. QED BY <1>1, <1>2, <1>3

\* A step of a request that was not sending a task, and sends none now.
LEMMA RequestCarries ==
    ASSUME TypeOK, NEW s \in Request, Moves(s), pc[s] # "send", queue' = queue
    PROVE  /\ \A w \in Coroutine : pc'[w] = pc[w] /\ job'[w] = job[w]
           /\ \A i \in DOMAIN scans : Carried(i) => CarriedNext(i)
  <1>1. s \in Process /\ s \in Request \cup Checker
    BY DEF Process
  <1>2. \A w \in Coroutine : pc'[w] = pc[w] /\ job'[w] = job[w]
    BY <1>1, OthersStay
  <1>3. \A t \in Request \ {s} : pc'[t] = pc[t] /\ job'[t] = job[t]
    BY <1>1, OthersStay DEF Process
  <1>4. QED BY <1>2, <1>3 DEF Carried, CarriedNext

LEMMA WorkRequest ==
    ASSUME IInv, NEW s \in Request,
           \/ StartScan(s) \/ RunDiscovery(s)
           \/ RunNowRead(s) \/ CancelRead(s) \/ DeleteRead(s)
           \/ DeleteSubnet(s) \/ Handle(s)
    PROVE  RunningIsWorkedOn' /\ WorkersAgree'
  <1>0. s \in Process /\ TypeOK /\ TablesOK
    BY DEF Process, IInv, TypeOK
  <1>1. CASE StartScan(s)
    <2>1. PICK b \in StartBodies :
            Insert([status |-> IF b.scheduled THEN "scheduled" ELSE "pending",
                    scheduled |-> b.scheduled, recursive |-> b.recursive,
                    due |-> b.due, subnet |-> TRUE])
      BY <1>1 DEF StartScan
    <2> DEFINE row == [status |-> IF b.scheduled THEN "scheduled" ELSE "pending",
                       scheduled |-> b.scheduled, recursive |-> b.recursive,
                       due |-> b.due, subnet |-> TRUE]
    <2>2. row \in Row /\ row.status # "running"
      BY BodiesAssumption DEF Row, Status
    <2>3. queue' = queue /\ pc[s] = "idle" /\ Moves(s)
      BY <1>0, <1>1 DEF StartScan, Goto, Moves, TypeOK, ProcessesOK
    <2>4. \A i \in DOMAIN scans' : scans'[i].status = "running" =>
              i \in DOMAIN scans /\ scans[i].status = "running"
      <3> HIDE DEF row
      <3>1. Insert(row)
        BY <2>1 DEF row
      <3>2. QED BY <1>0, <2>2, <3>1, RowInserted
    <2>5. QED BY <1>0, <1>1, <2>3, <2>4, WorkKept, RequestCarries, LostStays
  <1>2. CASE RunDiscovery(s)
    <2> DEFINE row(b) == [status |-> "running", scheduled |-> FALSE, recursive |-> FALSE,
                          due |-> Null, subnet |-> b.subnet]
    <2>1. PICK b \in RunBodies :
            /\ Insert(row(b))
            /\ IF b.supported THEN Goto(s, "send", Message("asset", nextScan))
                              ELSE UNCHANGED <<pc, job>>
            /\ lost' = IF b.supported THEN lost ELSE lost \cup {nextScan}
      BY <1>2 DEF RunDiscovery
    <2>2. row(b) \in Row
      BY BodiesAssumption DEF Row, Status
    <2>3. /\ queue' = queue /\ pc[s] = "idle" /\ Moves(s)
          /\ b.supported => pc'[s] = "send" /\ job'[s] = Message("asset", nextScan)
      BY <1>0, <1>2, <2>1 DEF RunDiscovery, Goto, Moves, TypeOK, ProcessesOK
    \* A refused body leaves its scan running without a task: it is a lost one.
    <2>4. CarriedNext(nextScan) \/ nextScan \in lost'
      BY <2>1, <2>3 DEF CarriedNext
    <2>5. \A i \in DOMAIN scans' \ lost' : scans'[i].status = "running" =>
              \/ i \in DOMAIN scans /\ scans[i].status = "running"
              \/ i = nextScan /\ CarriedNext(i)
      <3> HIDE DEF row
      <3>1. QED BY <1>0, <2>1, <2>2, <2>4, RowInserted
    <2>6. QED BY <1>0, <2>1, <2>3, <2>5, WorkKept, RequestCarries
  <1>3. ASSUME RunNowRead(s) \/ CancelRead(s) \/ DeleteRead(s) \/ RowLost(s)
        PROVE  RunningIsWorkedOn' /\ WorkersAgree'
    <2>1. scans' = scans /\ queue' = queue /\ pc[s] # "send" /\ Moves(s)
      BY <1>0, <1>3 DEF RunNowRead, CancelRead, DeleteRead, RowLost, Done, Goto, Moves,
                        table, TypeOK, ProcessesOK
    <2>2. QED BY <1>0, <1>3, <2>1, WorkKept, RequestCarries, LostStays
  <1>4. CASE DeleteSubnet(s)
    <2>1. queue' = queue /\ pc[s] # "send" /\ Moves(s)
      BY <1>0, <1>4 DEF DeleteSubnet, Moves, TypeOK, ProcessesOK
    <2>2. \A i \in DOMAIN scans' : i \in DOMAIN scans /\ scans'[i].status = scans[i].status
      BY <1>0, <1>4 DEF DeleteSubnet, TablesOK, Row
    <2>3. QED BY <1>0, <1>4, <2>1, <2>2, WorkKept, RequestCarries, LostStays
  <1>5. CASE SendTask(s)
    <2>1. pc[s] = "send" /\ job[s] = Message(job[s].kind, job[s].scan)
      BY <1>0, <1>5 DEF SendTask, TypeOK, ProcessesOK, JobOK, Message
    <2>2. scans' = scans /\ Moves(s) /\ s \in Request \cup Checker
      BY <1>0, <1>5 DEF SendTask, Done, Goto, Moves, table, TypeOK, ProcessesOK
    <2>3. DOMAIN queue' = DOMAIN queue \cup {job[s]}
      BY <1>0, <1>5, <2>1, QueueAdd DEF SendTask, Send, TablesOK
    <2>4. \A t \in Request \ {s} : pc'[t] = pc[t] /\ job'[t] = job[t]
      BY <1>0, <2>2, OthersStay DEF Process
    <2>5. \A i \in DOMAIN scans : Carried(i) => CarriedNext(i)
      BY <2>3, <2>4 DEF Carried, CarriedNext, BagIn, BagToSet
    <2>6. \A w \in Coroutine : pc'[w] = pc[w] /\ job'[w] = job[w]
      BY <1>0, <2>2, OthersStay
    <2>7. QED BY <1>5, <2>2, <2>5, <2>6, WorkKept, LostStays
  <1>6. ASSUME NEW status \in {"pending", "cancelled"}, SetStatus(job[s].scan, job[s].row, status),
               pc[s] # "send", queue' = queue, lost' = lost, Moves(s)
        PROVE  RunningIsWorkedOn' /\ WorkersAgree'
    <2>1. \A i \in DOMAIN scans' : i \in DOMAIN scans /\
              (scans'[i].status = "running" => scans[i].status = "running")
      BY <1>0, <1>6, StatusSet DEF Status
    <2>2. QED BY <1>0, <1>6, <2>1, WorkKept, RequestCarries
  <1>7. CASE RunNowCommit(s)
    BY <1>0, <1>6, <1>7, LostStays DEF RunNowCommit, Goto, Moves, TypeOK, ProcessesOK
  <1>8. CASE CancelCommit(s)
    BY <1>0, <1>6, <1>8, LostStays DEF CancelCommit, Done, Goto, Moves, TypeOK, ProcessesOK
  <1>9. CASE DeleteCommit(s)
    <2>1. queue' = queue /\ pc[s] # "send" /\ Moves(s)
      BY <1>0, <1>9 DEF DeleteCommit, Done, Goto, Moves, TypeOK, ProcessesOK
    <2>2. \A i \in DOMAIN scans' : i \in DOMAIN scans /\ scans'[i] = scans[i]
      BY <1>9 DEF DeleteCommit
    <2>3. QED BY <1>0, <1>9, <2>1, <2>2, WorkKept, RequestCarries, LostStays
  <1>10. QED
    BY <1>1, <1>2, <1>3, <1>4, <1>5, <1>7, <1>8, <1>9 DEF Handle

LEMMA WorkChecker ==
    ASSUME IInv, NEW c \in Checker, Check(c)
    PROVE  RunningIsWorkedOn' /\ WorkersAgree'
  <1>0. /\ c \in Process /\ c \in Request \cup Checker /\ c \in Checker \cup Coroutine
        /\ TypeOK /\ TablesOK
    BY DEF Process, IInv, TypeOK
  <1>1. Moves(c)
    BY <1>0 DEF Check, CheckSelect, CheckSend, CheckCommit, CheckLost, Done, Goto, Moves,
                TypeOK, ProcessesOK
  <1>2. /\ \A w \in Coroutine : pc'[w] = pc[w] /\ job'[w] = job[w]
        /\ \A s \in Request : pc'[s] = pc[s] /\ job'[s] = job[s]
    BY <1>0, <1>1, OthersStay
  <1>3. DOMAIN queue \subseteq DOMAIN queue'
    <2>1. CASE CheckSend(c)
      <3>1. PICK i \in job[c].todo : Send("scan", i)
        BY <2>1 DEF CheckSend
      <3>2. QED BY <1>0, <3>1, QueueAdd DEF Send, TablesOK
    <2>2. CASE CheckSelect(c) \/ CheckCommit(c) \/ CheckLost(c)
      BY <2>2 DEF CheckSelect, CheckCommit, CheckLost
    <2>3. QED BY <2>1, <2>2 DEF Check
  <1>4. \A i \in DOMAIN scans' : i \in DOMAIN scans /\
            (scans'[i].status = "running" => scans[i].status = "running")
    <2>1. CASE CheckCommit(c)
      BY <1>0, <2>1 DEF CheckCommit, TablesOK, Row
    <2>2. CASE CheckSelect(c) \/ CheckSend(c) \/ CheckLost(c)
      BY <2>2 DEF CheckSelect, CheckSend, CheckLost, table
    <2>3. QED BY <2>1, <2>2 DEF Check
  <1>5. \A i \in DOMAIN scans : Carried(i) => CarriedNext(i)
    BY <1>2, <1>3 DEF Carried, CarriedNext, BagIn, BagToSet
  <1>6. QED BY <1>2, <1>4, <1>5, WorkKept, LostStays

\* A step of a coroutine that leaves the queue and the set of rows alone, and
\* every scan but its own.
LEMMA WorkerMoved ==
    ASSUME IInv, NEW w \in Coroutine, Moves(w), NEW i, job[w].scan = i,
           queue' = queue, DOMAIN scans' = DOMAIN scans,
           lost \subseteq lost' \cup {i},
           \A j \in DOMAIN scans : j # i => scans'[j].status = scans[j].status,
           pc[w] = "probe" /\ i \in DOMAIN scans \ lost' => scans'[i].status # "running",
           \/ i \notin DOMAIN scans \ lost'
           \/ scans'[i].status # "running"
           \/ Works(w, i)'
           \/ \E v \in Coroutine \ {w} : Works(v, i),
           pc'[w] = "probe" => job'[w].row.status = "running" /\ job'[w].scan = i,
           pc'[w] # "assetEnd",
           i \in DOMAIN scans \ lost' /\ scans'[i].status = "running" =>
              (i \notin lost /\ scans[i].status = "running") \/ pc'[w] = "probe"
    PROVE  RunningIsWorkedOn' /\ WorkersAgree'
  <1>1. w \in Process /\ TypeOK /\ w \in Checker \cup Coroutine
    BY DEF Process, IInv
  <1>2. \A v \in Coroutine \ {w} : pc'[v] = pc[v] /\ job'[v] = job[v]
    BY <1>1, OthersStay DEF Process
  <1>3. \A s \in Request : pc'[s] = pc[s] /\ job'[s] = job[s]
    BY <1>1, OthersStay
  <1>4. RunningIsWorkedOn'
    BY <1>2, <1>3 DEF IInv, RunningIsWorkedOn, Works
  <1>5. WorkersAgree'
    BY <1>2 DEF IInv, WorkersAgree
  <1>6. QED BY <1>4, <1>5

LEMMA WorkWorker ==
    ASSUME IInv, NEW w \in Coroutine, Work(w)
    PROVE  RunningIsWorkedOn' /\ WorkersAgree'
  <1>0. /\ w \in Process /\ w \in Checker \cup Coroutine
        /\ TypeOK /\ TablesOK /\ WorkersAgree /\ RunningIsWorkedOn
    BY DEF Process, IInv, TypeOK
  <1>1. Moves(w)
    BY <1>0 DEF Work, Proceed, TakeTask, BeginScan, EndScan, ScanLost, ReadRecord, EndAsset, AssetConflict,
                Done, Goto, Moves, TypeOK, ProcessesOK
  <1>2. \A v \in Coroutine \ {w} : pc'[v] = pc[v] /\ job'[v] = job[v]
    BY <1>0, <1>1, OthersStay DEF Process
  <1>3. \A s \in Request : pc'[s] = pc[s] /\ job'[s] = job[s]
    BY <1>0, <1>1, OthersStay
  <1>4. CASE TakeTask(w)
    <2>1. PICK m \in BagToSet(queue) :
            /\ queue' = queue (-) SetToBag({m})
            /\ \/ m.kind = "asset" /\ Goto(w, "asset", m)
               \/ /\ m.kind = "scan"
                  /\ m.scan \in DOMAIN scans
                  /\ Goto(w, "start", [scan |-> m.scan, row |-> scans[m.scan]])
               \/ m.kind = "scan" /\ m.scan \notin DOMAIN scans /\ UNCHANGED <<pc, job>>
      BY <1>4 DEF TakeTask
    <2>2. DOMAIN queue \ {m} \subseteq DOMAIN queue'
      BY <1>0, <2>1, QueueRemove DEF TablesOK
    <2>3. m \in [kind : Kind, scan : 1 .. nextScan - 1]
      BY <1>0, <2>1 DEF BagToSet, TablesOK
    <2>4. /\ pc[w] = "idle" /\ scans' = scans
          /\ pc'[w] \in {"asset", "start", "idle"}
          /\ m.kind = "asset" => pc'[w] = "asset" /\ job'[w] = m
      BY <1>0, <1>4, <2>1 DEF TakeTask, Goto, TypeOK, ProcessesOK, table
    <2>5. \A i : Message("asset", i) = m => Works(w, i)'
      BY <2>4 DEF Message, Works
    <2>6. \A i : BagIn(Message("asset", i), queue) =>
              BagIn(Message("asset", i), queue') \/ Works(w, i)'
      BY <2>2, <2>5 DEF BagIn, BagToSet
    <2>7. RunningIsWorkedOn'
      BY <1>0, <1>4, <1>2, <1>3, <2>4, <2>6, LostStays DEF RunningIsWorkedOn, Works
    <2>8. WorkersAgree'
      BY <1>0, <1>4, <1>2, <2>4, LostStays DEF WorkersAgree
    <2>9. QED BY <2>7, <2>8
  <1>5. CASE BeginScan(w)
    <2>1. /\ pc[w] = "start" /\ job[w] \in [scan : 1 .. nextScan - 1, row : Row]
          /\ pc'[w] = "probe" /\ job'[w] = [job[w] EXCEPT !.row.status = "running"]
          /\ queue' = queue
      BY <1>0, <1>5 DEF BeginScan, Goto, TypeOK, ProcessesOK, JobOK
    <2>2. job'[w].row.status = "running" /\ job'[w].scan = job[w].scan
      BY <2>1 DEF Row
    <2>3. /\ DOMAIN scans' = DOMAIN scans
          /\ \A j \in DOMAIN scans : j # job[w].scan => scans'[j].status = scans[j].status
      BY <1>0, <1>5, StatusSet DEF BeginScan, Status
    <2>4. \A i : i = job[w].scan => Works(w, i)'
      BY <2>1, <2>2 DEF Works
    <2>6. lost' \in {lost, lost \ {job[w].scan}}
      BY <1>5 DEF BeginScan
    <2>5. QED BY <1>1, <2>1, <2>2, <2>3, <2>4, <2>6, WorkerMoved
  <1>6. CASE EndScan(w)
    <2>1. PICK status \in {"completed", "failed"} : SetStatus(job[w].scan, job[w].row, status)
      BY <1>6 DEF EndScan
    <2>2. pc[w] = "probe" /\ job[w].row.status = "running" /\ pc'[w] = "idle" /\ queue' = queue
      BY <1>0, <1>6 DEF EndScan, Done, Goto, TypeOK, ProcessesOK, WorkersAgree
    <2>3. /\ DOMAIN scans' = DOMAIN scans
          /\ \A j \in DOMAIN scans : j # job[w].scan => scans'[j].status = scans[j].status
          /\ scans'[job[w].scan].status # "running"
      BY <1>0, <2>1, <2>2, StatusSet DEF Status
    <2>4. QED BY <1>6, <1>1, <2>2, <2>3, WorkerMoved, LostStays
  <1>7. CASE ScanLost(w)
    <2>1. /\ job[w].scan \notin DOMAIN scans /\ scans' = scans
          /\ pc'[w] = "idle" /\ queue' = queue
      BY <1>0, <1>7 DEF ScanLost, Done, Goto, TypeOK, ProcessesOK, table
    <2>2. QED BY <1>7, <1>1, <2>1, WorkerMoved, LostStays
  <1>8. CASE ReadRecord(w)
    <2>1. /\ pc[w] = "asset" /\ scans' = scans /\ queue' = queue
      BY <1>8 DEF ReadRecord, table
    <2>2. CASE job[w].scan \notin DOMAIN scans
      <3>1. pc'[w] = "idle"
        BY <1>0, <1>8, <2>2 DEF ReadRecord, Done, Goto, TypeOK, ProcessesOK
      <3>2. QED BY <1>8, <1>1, <2>1, <2>2, <3>1, WorkerMoved, LostStays
    <2>3. CASE job[w].scan \in DOMAIN scans
      <3>1. /\ pc'[w] = "assetEnd"
            /\ job'[w] = [scan |-> job[w].scan, row |-> scans[job[w].scan]]
        BY <1>0, <1>8, <2>3 DEF ReadRecord, Goto, TypeOK, ProcessesOK
      <3>2. RunningIsWorkedOn'
        BY <1>0, <1>8, <1>2, <1>3, <2>1, <3>1, LostStays DEF RunningIsWorkedOn, Works
      <3>3. WorkersAgree'
        BY <1>0, <1>8, <1>2, <2>1, <3>1, LostStays DEF WorkersAgree
      <3>4. QED BY <3>2, <3>3
    <2>4. QED BY <2>2, <2>3
  <1>9. CASE EndAsset(w)
    <2>1. PICK status \in {"completed", "failed"} : SetStatus(job[w].scan, job[w].row, status)
      BY <1>9 DEF EndAsset
    <2>2. pc[w] = "assetEnd" /\ pc'[w] = "idle" /\ queue' = queue
      BY <1>0, <1>9 DEF EndAsset, Done, Goto, TypeOK, ProcessesOK
    <2>3. /\ DOMAIN scans' = DOMAIN scans /\ job[w].scan \in DOMAIN scans
          /\ \A j \in DOMAIN scans : j # job[w].scan => scans'[j].status = scans[j].status
          /\ scans'[job[w].scan].status =
                IF status # job[w].row.status THEN status ELSE scans[job[w].scan].status
      BY <1>0, <2>1, StatusSet DEF Status
    \* The outcome is written, unless the row read already had it: if the scan
    \* is running now, a probe began since, and is still at work.
    <2>6. lost' = lost
      BY <1>9, LostStays
    <2>4. job[w].scan \notin lost /\ scans'[job[w].scan].status = "running" =>
             /\ scans[job[w].scan].status = "running"
             /\ \E v \in Coroutine \ {w} : Works(v, job[w].scan)
      <3>1. SUFFICES ASSUME job[w].scan \notin lost, scans'[job[w].scan].status = "running"
                     PROVE  /\ scans[job[w].scan].status = "running"
                            /\ \E v \in Coroutine \ {w} : Works(v, job[w].scan)
        OBVIOUS
      <3>2. job[w].row.status # "running" /\ scans[job[w].scan].status = "running"
        BY <2>3, <3>1
      <3>3. PICK v \in Coroutine : pc[v] = "probe" /\ job[v].scan = job[w].scan
        BY <1>0, <2>2, <2>3, <3>1, <3>2 DEF WorkersAgree
      <3>4. QED BY <2>2, <3>2, <3>3 DEF Works
    <2>5. QED BY <1>1, <2>2, <2>3, <2>4, <2>6, WorkerMoved
  <1>10. CASE AssetConflict(w)
    <2>1. /\ pc[w] = "asset" /\ pc'[w] = "idle" /\ queue' = queue /\ scans' = scans
          /\ lost' = lost \cup {job[w].scan}
      BY <1>0, <1>10 DEF AssetConflict, Done, Goto, TypeOK, ProcessesOK, table
    <2>2. QED BY <1>1, <2>1, WorkerMoved
  <1>11. QED
    BY <1>4, <1>5, <1>6, <1>7, <1>8, <1>9, <1>10 DEF Work, Proceed

\* A process that dies takes the task of one scan with it, a lost one from then on.
LEMMA WorkCrash ==
    ASSUME IInv, NEW p \in Process, Crash(p)
    PROVE  RunningIsWorkedOn' /\ WorkersAgree'
  <1>1. /\ TypeOK /\ Moves(p) /\ scans' = scans /\ queue' = queue
        /\ pc'[p] = "idle" /\ lost \subseteq lost'
        /\ pc[p] \in {"send", "start", "probe", "asset", "assetEnd"} => job[p].scan \in lost'
    BY DEF Crash, IInv, Done, Goto, Moves, TypeOK, ProcessesOK, table
  <1>2. \A q \in Process \ {p} : pc'[q] = pc[q] /\ job'[q] = job[q]
    BY <1>1, OthersStay
  <1>3. RunningIsWorkedOn'
    <2>1. SUFFICES ASSUME NEW i \in DOMAIN scans \ lost', scans[i].status = "running"
                   PROVE  \/ \E w \in Coroutine : Works(w, i)'
                          \/ CarriedNext(i)
      BY <1>1 DEF RunningIsWorkedOn, CarriedNext
    <2>2. \A w \in Coroutine : Works(w, i) => Works(w, i)'
      BY <1>1, <1>2 DEF Works, Process
    <2>3. \A s \in Request : pc[s] = "send" /\ job[s] = Message("asset", i) => s # p
      BY <1>1 DEF Message
    <2>4. Carried(i) => CarriedNext(i)
      BY <1>1, <1>2, <2>3 DEF Carried, CarriedNext, Process
    <2>5. QED BY <1>1, <2>1, <2>2, <2>4 DEF IInv, RunningIsWorkedOn, Carried
  <1>4. WorkersAgree'
    BY <1>1, <1>2 DEF IInv, WorkersAgree, Process
  <1>5. QED BY <1>3, <1>4

\* A coroutine that is put aside still works on its scan.
LEMMA WorkCut ==
    ASSUME IInv, NEW w \in Worker, NEW a \in Aside, Cut(w, a)
    PROVE  RunningIsWorkedOn' /\ WorkersAgree'
  <1>1. TypeOK /\ scans' = scans /\ queue' = queue /\ lost' = lost
    BY DEF Cut, IInv, table
  <1>2. \A s \in Request : pc'[s] = pc[s] /\ job'[s] = job[s]
    BY <1>1, CutMoves DEF Process
  <1>3. ASSUME NEW i, NEW v \in Coroutine, Works(v, i)
        PROVE  \E u \in Coroutine : Works(u, i)'
    <2>2. CASE v = w
      BY <1>1, <1>3, <2>2, CutMoves DEF Works
    <2>3. CASE v # w
      BY <1>1, <1>3, <2>3, CutMoves DEF Works, Process
    <2>4. QED BY <2>2, <2>3
  <1>4. RunningIsWorkedOn'
    <2>1. SUFFICES ASSUME NEW i \in DOMAIN scans \ lost, scans[i].status = "running"
                   PROVE  (\E u \in Coroutine : Works(u, i)') \/ CarriedNext(i)
      BY <1>1 DEF RunningIsWorkedOn, CarriedNext
    <2>2. (\E v \in Coroutine : Works(v, i)) \/ Carried(i)
      BY <2>1 DEF IInv, RunningIsWorkedOn, Carried
    <2>3. Carried(i) => CarriedNext(i)
      BY <1>1, <1>2 DEF Carried, CarriedNext
    <2>4. CASE \E v \in Coroutine : Works(v, i)
      BY <1>3, <2>4
    <2>5. QED BY <2>2, <2>3, <2>4
  <1>5. \A v \in Coroutine : pc[v] = "probe" =>
            \E u \in Coroutine : pc'[u] = "probe" /\ job'[u] = job[v]
    BY <1>1, CutMoves DEF Process
  <1>6. \A v \in Coroutine : pc'[v] \in {"probe", "assetEnd"} =>
            \E u \in Coroutine : pc[u] = pc'[v] /\ job[u] = job'[v]
    BY <1>1, CutMoves DEF Process
  <1>7. WorkersAgree'
    <2>1. SUFFICES ASSUME NEW v \in Coroutine
                   PROVE  /\ pc'[v] = "probe" => job'[v].row.status = "running"
                          /\ /\ pc'[v] = "assetEnd" /\ job'[v].row.status # "running"
                             /\ job'[v].scan \in DOMAIN scans \ lost
                             /\ scans[job'[v].scan].status = "running"
                             => \E u \in Coroutine : pc'[u] = "probe" /\ job'[u].scan = job'[v].scan
      BY <1>1 DEF WorkersAgree
    <2>2. CASE pc'[v] \notin {"probe", "assetEnd"}
      BY <2>2
    <2>3. CASE pc'[v] \in {"probe", "assetEnd"}
      <3>1. PICK u \in Coroutine : pc[u] = pc'[v] /\ job[u] = job'[v]
        BY <1>6, <2>3
      <3>2. QED BY <1>5, <3>1 DEF IInv, WorkersAgree
    <2>4. QED BY <2>2, <2>3
  <1>8. QED BY <1>4, <1>7

LEMMA IInvInductive == IInv /\ [Next]_vars => IInv'
  <1> SUFFICES ASSUME IInv, [Next]_vars PROVE IInv'
    OBVIOUS
  <1>1. TypeOK'
    BY TypeInductive DEF IInv
  <1>2. RunningIsWorkedOn' /\ WorkersAgree'
    <2>1. CASE \E s \in Request :
            \/ StartScan(s) \/ RunDiscovery(s)
            \/ RunNowRead(s) \/ CancelRead(s) \/ DeleteRead(s)
            \/ DeleteSubnet(s) \/ Handle(s)
      BY <2>1, WorkRequest
    <2>2. CASE \E c \in Checker : Check(c)
      BY <2>2, WorkChecker
    <2>3. ASSUME NEW w \in Coroutine, Work(w) PROVE RunningIsWorkedOn' /\ WorkersAgree'
      BY <2>3, WorkWorker
    <2>7. ASSUME NEW w \in Worker, NEW a \in Aside, Cut(w, a)
          PROVE  RunningIsWorkedOn' /\ WorkersAgree'
      BY <2>7, WorkCut
    <2>4. CASE \E p \in Process : Crash(p)
      BY <2>4, WorkCrash
    <2>5. CASE Tick \/ UNCHANGED vars
      BY <2>5 DEF Tick, vars, table, IInv, RunningIsWorkedOn, WorkersAgree, Works
    <2>6. QED BY <2>1, <2>2, <2>3, <2>4, <2>5, <2>7 DEF Next, Work, Coroutine
  <1>3. QED BY <1>1, <1>2 DEF IInv

\* A scan shown as running is worked on, or its task is on its way to a worker,
\* but for the named ones: those whose coroutine the soft time limit put aside, and
\* those whose task was refused, died or fell to an asset of another tenant.
THEOREM RunningScansAreWorkedOn == Spec => []RunningIsWorkedOn
  <1>1. Init => IInv
    BY InitIInv
  <1>2. IInv /\ [Next]_vars => IInv'
    BY IInvInductive
  <1>3. IInv => RunningIsWorkedOn
    BY DEF IInv
  <1>4. QED BY <1>1, <1>2, <1>3, PTL DEF Spec

-----------------------------------------------------------------------------
(* Pending scans *)

Pending(i) == scans[i].status = "pending" /\ ~scans[i].scheduled

PendingInv == TypeOK /\ ChecksScheduled /\ PendingIsDispatched

\* A step that makes no scan pending but with its task, leaves those that stay
\* pending among the lost ones, and takes the task of no other away.
LEMMA PendingKept ==
    ASSUME PendingIsDispatched,
           \A i \in DOMAIN scans' \ lost' : Pending(i)' => i \notin lost,
           \A i \in DOMAIN scans' \ lost' : Pending(i)' =>
               \/ i \in DOMAIN scans /\ Pending(i)
               \/ Dispatched(i)',
           \A i \in DOMAIN scans \ lost' : Pending(i) /\ Dispatched(i) =>
               Dispatched(i)' \/ ~(i \in DOMAIN scans' /\ Pending(i)')
    PROVE  PendingIsDispatched'
  BY DEF PendingIsDispatched, Pending

\* Requests that were not sending a task, and checks, take none away.
LEMMA DispatchKept ==
    ASSUME TypeOK, NEW p \in Request \cup Checker, Moves(p), p \in Request => pc[p] # "send",
           DOMAIN queue \subseteq DOMAIN queue'
    PROVE  \A i : Dispatched(i) => Dispatched(i)'
  <1>1. /\ p \in Process
        /\ \A w \in Coroutine : pc'[w] = pc[w] /\ job'[w] = job[w]
        /\ \A s \in Request \ {p} : pc'[s] = pc[s] /\ job'[s] = job[s]
    BY OthersStay DEF Process
  <1>2. p \notin Request \/ pc[p] # "send"
    OBVIOUS
  <1>3. \A s \in Request : pc[s] = "send" => pc'[s] = "send" /\ job'[s] = job[s]
    BY <1>1, <1>2
  <1>4. QED BY <1>1, <1>3 DEF Dispatched, BagIn, BagToSet

\* A worker's step that leaves the queue alone and did not hold the task of i.
LEMMA DispatchByOthers ==
    ASSUME TypeOK, NEW w \in Coroutine, Moves(w), queue' = queue, NEW i,
           pc[w] = "start" => job[w].scan # i \/ job[w].row.status = "running",
           Dispatched(i)
    PROVE  Dispatched(i)'
  <1>1. /\ w \in Process
        /\ \A v \in Coroutine \ {w} : pc'[v] = pc[v] /\ job'[v] = job[v]
        /\ \A s \in Request : pc'[s] = pc[s] /\ job'[s] = job[s]
    BY OthersStay DEF Process
  <1>2. QED BY <1>1 DEF Dispatched

LEMMA PendingRequest ==
    ASSUME PendingInv, NEW s \in Request,
           \/ StartScan(s) \/ RunDiscovery(s)
           \/ RunNowRead(s) \/ CancelRead(s) \/ DeleteRead(s)
           \/ DeleteSubnet(s) \/ Handle(s)
    PROVE  PendingIsDispatched'
  <1>0. s \in Process /\ s \in Request \cup Checker /\ TypeOK /\ TablesOK /\ PendingIsDispatched
    BY DEF Process, PendingInv, TypeOK
  <1>1. CASE StartScan(s)
    <2>1. PICK b \in StartBodies :
            /\ Insert([status |-> IF b.scheduled THEN "scheduled" ELSE "pending",
                       scheduled |-> b.scheduled, recursive |-> b.recursive,
                       due |-> b.due, subnet |-> TRUE])
            /\ IF b.scheduled THEN UNCHANGED <<pc, job>>
                              ELSE Goto(s, "send", Message("scan", nextScan))
      BY <1>1 DEF StartScan
    <2> DEFINE row == [status |-> IF b.scheduled THEN "scheduled" ELSE "pending",
                       scheduled |-> b.scheduled, recursive |-> b.recursive,
                       due |-> b.due, subnet |-> TRUE]
    <2>2. row \in Row /\ row.scheduled = b.scheduled
      BY BodiesAssumption DEF Row, Status
    <2>3. queue' = queue /\ pc[s] = "idle" /\ Moves(s)
      BY <1>0, <1>1, <2>1 DEF StartScan, Goto, Moves, TypeOK, ProcessesOK
    <2>4. ~b.scheduled => pc'[s] = "send" /\ job'[s] = Message("scan", nextScan)
      BY <1>0, <2>1 DEF Goto, TypeOK, ProcessesOK
    <2>5. /\ DOMAIN scans' = DOMAIN scans \cup {nextScan}
          /\ scans'[nextScan] = row
          /\ \A j \in DOMAIN scans : scans'[j] = scans[j]
      <3> HIDE DEF row
      <3>1. Insert(row)
        BY <2>1 DEF row
      <3>2. QED BY <1>0, <2>2, <3>1, RowInserted
    <2>6. \A i \in DOMAIN scans' : Pending(i)' => (i \in DOMAIN scans /\ Pending(i)) \/ Dispatched(i)'
      <3>1. SUFFICES ASSUME NEW i \in DOMAIN scans', Pending(i)', i \notin DOMAIN scans
                     PROVE  Dispatched(i)'
        BY <2>5 DEF Pending
      <3>2. i = nextScan /\ ~b.scheduled
        BY <2>2, <2>5, <3>1 DEF Pending
      <3>3. QED BY <2>4, <3>2 DEF Dispatched
    <2>7. QED BY <1>0, <1>1, <2>3, <2>6, DispatchKept, PendingKept, LostStays
  <1>2. ASSUME NEW row \in Row, row.status = "running", Insert(row), queue' = queue, pc[s] = "idle", Moves(s),
               lost' \in {lost, lost \cup {nextScan}}
        PROVE  PendingIsDispatched'
    <2>1. \A i \in DOMAIN scans' : Pending(i)' => i \in DOMAIN scans /\ Pending(i)
      BY <1>0, <1>2, RowInserted DEF Pending
    <2>2. QED BY <1>0, <1>2, <2>1, DispatchKept, PendingKept
  <1>3. CASE RunDiscovery(s)
    <2>1. PICK b \in RunBodies :
            Insert([status |-> "running", scheduled |-> FALSE, recursive |-> FALSE,
                    due |-> Null, subnet |-> b.subnet])
      BY <1>3 DEF RunDiscovery
    <2>2. [status |-> "running", scheduled |-> FALSE, recursive |-> FALSE,
           due |-> Null, subnet |-> b.subnet] \in Row
      BY BodiesAssumption DEF Row, Status
    <2>3. /\ queue' = queue /\ pc[s] = "idle" /\ Moves(s)
          /\ lost' \in {lost, lost \cup {nextScan}}
      BY <1>0, <1>3 DEF RunDiscovery, Goto, Moves, TypeOK, ProcessesOK
    <2>4. QED BY <1>2, <2>1, <2>2, <2>3
  <1>4. ASSUME RunNowRead(s) \/ CancelRead(s) \/ DeleteRead(s) \/ RowLost(s)
        PROVE  PendingIsDispatched'
    <2>1. scans' = scans /\ queue' = queue /\ pc[s] # "send" /\ Moves(s)
      BY <1>0, <1>4 DEF RunNowRead, CancelRead, DeleteRead, RowLost, Done, Goto, Moves,
                        table, TypeOK, ProcessesOK
    <2>2. QED BY <1>0, <1>4, <2>1, DispatchKept, PendingKept, LostStays DEF Pending
  <1>5. CASE DeleteSubnet(s) \/ DeleteCommit(s)
    <2>1. queue' = queue /\ pc[s] # "send" /\ Moves(s)
      BY <1>0, <1>5 DEF DeleteSubnet, DeleteCommit, Done, Goto, Moves, TypeOK, ProcessesOK
    <2>2. \A i \in DOMAIN scans' : i \in DOMAIN scans /\ (Pending(i)' => Pending(i))
      BY <1>0, <1>5 DEF DeleteSubnet, DeleteCommit, Pending, TablesOK, Row
    <2>3. QED BY <1>0, <1>5, <2>1, <2>2, DispatchKept, PendingKept, LostStays
  <1>6. CASE SendTask(s)
    <2>1. pc[s] = "send" /\ job[s] = Message(job[s].kind, job[s].scan)
      BY <1>0, <1>6 DEF SendTask, TypeOK, ProcessesOK, JobOK, Message
    <2>2. scans' = scans /\ Moves(s)
      BY <1>0, <1>6 DEF SendTask, Done, Goto, Moves, table, TypeOK, ProcessesOK
    <2>3. DOMAIN queue' = DOMAIN queue \cup {job[s]}
      BY <1>0, <1>6, <2>1, QueueAdd DEF SendTask, Send, TablesOK
    <2>4. /\ \A t \in Request \ {s} : pc'[t] = pc[t] /\ job'[t] = job[t]
          /\ \A w \in Coroutine : pc'[w] = pc[w] /\ job'[w] = job[w]
      BY <1>0, <2>2, OthersStay DEF Process
    <2>5. \A i : Dispatched(i) => Dispatched(i)'
      BY <2>3, <2>4 DEF Dispatched, BagIn, BagToSet
    <2>6. QED BY <1>0, <1>6, <2>2, <2>5, PendingKept, LostStays DEF Pending
  <1>7. CASE RunNowCommit(s)
    <2>1. /\ SetStatus(job[s].scan, job[s].row, "pending") /\ queue' = queue /\ pc[s] = "runnow"
          /\ Moves(s) /\ pc'[s] = "send" /\ job'[s] = Message("scan", job[s].scan)
      BY <1>0, <1>7 DEF RunNowCommit, Goto, Moves, TypeOK, ProcessesOK
    <2>2. \A i : i = job[s].scan => Dispatched(i)'
      BY <2>1 DEF Dispatched
    <2>3. \A i \in DOMAIN scans' : Pending(i)' => (i \in DOMAIN scans /\ Pending(i)) \/ Dispatched(i)'
      <3>1. "pending" \in Status
        BY DEF Status
      <3>2. \A j \in DOMAIN scans : j # job[s].scan => scans'[j] = scans[j]
        BY <1>0, <2>1, <3>1, StatusSet
      <3>3. QED BY <1>0, <2>1, <2>2, <3>1, <3>2, StatusKeeps DEF Pending
    <2>4. QED BY <1>0, <1>7, <2>1, <2>3, DispatchKept, PendingKept, LostStays
  <1>8. CASE CancelCommit(s)
    <2>1. /\ SetStatus(job[s].scan, job[s].row, "cancelled") /\ queue' = queue /\ pc[s] = "cancel"
          /\ Moves(s)
      BY <1>0, <1>8 DEF CancelCommit, Done, Goto, Moves, TypeOK, ProcessesOK
    <2>2. \A i \in DOMAIN scans' : Pending(i)' => i \in DOMAIN scans /\ Pending(i)
      BY <1>0, <2>1, StatusKeeps DEF Pending, Status
    <2>3. QED BY <1>0, <1>8, <2>1, <2>2, DispatchKept, PendingKept, LostStays
  <1>9. QED
    BY <1>1, <1>3, <1>4, <1>5, <1>6, <1>7, <1>8 DEF Handle

LEMMA PendingChecker ==
    ASSUME PendingInv, NEW c \in Checker, Check(c)
    PROVE  PendingIsDispatched'
  <1>0. /\ c \in Process /\ c \in Request \cup Checker /\ c \notin Request
        /\ TypeOK /\ TablesOK /\ PendingIsDispatched
    BY ProcessAssumption DEF Process, PendingInv, TypeOK
  <1>1. Moves(c)
    BY <1>0 DEF Check, CheckSelect, CheckSend, CheckCommit, CheckLost, Done, Goto, Moves,
                TypeOK, ProcessesOK
  <1>2. DOMAIN queue \subseteq DOMAIN queue'
    <2>1. CASE CheckSend(c)
      <3>1. PICK i \in job[c].todo : Send("scan", i)
        BY <2>1 DEF CheckSend
      <3>2. QED BY <1>0, <3>1, QueueAdd DEF Send, TablesOK
    <2>2. CASE CheckSelect(c) \/ CheckCommit(c) \/ CheckLost(c)
      BY <2>2 DEF CheckSelect, CheckCommit, CheckLost
    <2>3. QED BY <2>1, <2>2 DEF Check
  \* The rows that the commit sets to pending are scheduled.
  <1>3. \A i \in DOMAIN scans' : Pending(i)' => i \in DOMAIN scans /\ Pending(i)
    <2>1. CASE CheckCommit(c)
      <3>1. \A i \in DOMAIN job[c].rows \cap DOMAIN scans : scans[i].scheduled
        BY <2>1 DEF CheckCommit, PendingInv, ChecksScheduled
      <3>2. QED BY <1>0, <2>1, <3>1 DEF CheckCommit, Pending, TablesOK, Row
    <2>2. CASE CheckSelect(c) \/ CheckSend(c) \/ CheckLost(c)
      BY <2>2 DEF CheckSelect, CheckSend, CheckLost, table, Pending
    <2>3. QED BY <2>1, <2>2 DEF Check
  <1>4. QED BY <1>0, <1>1, <1>2, <1>3, DispatchKept, PendingKept, LostStays

LEMMA PendingWorker ==
    ASSUME PendingInv, NEW w \in Coroutine, Work(w)
    PROVE  PendingIsDispatched'
  <1>0. w \in Process /\ TypeOK /\ TablesOK /\ PendingIsDispatched
    BY DEF Process, PendingInv, TypeOK
  <1>1. Moves(w)
    BY <1>0 DEF Work, Proceed, TakeTask, BeginScan, EndScan, ScanLost, ReadRecord, EndAsset, AssetConflict,
                Done, Goto, Moves, TypeOK, ProcessesOK
  <1>2. CASE TakeTask(w)
    <2>1. PICK m \in BagToSet(queue) :
            /\ queue' = queue (-) SetToBag({m})
            /\ \/ m.kind = "asset" /\ Goto(w, "asset", m)
               \/ /\ m.kind = "scan"
                  /\ m.scan \in DOMAIN scans
                  /\ Goto(w, "start", [scan |-> m.scan, row |-> scans[m.scan]])
               \/ m.kind = "scan" /\ m.scan \notin DOMAIN scans /\ UNCHANGED <<pc, job>>
      BY <1>2 DEF TakeTask
    <2>2. DOMAIN queue \ {m} \subseteq DOMAIN queue'
      BY <1>0, <2>1, QueueRemove DEF TablesOK
    <2>3. pc[w] = "idle" /\ scans' = scans
      BY <1>2 DEF TakeTask, table
    <2>4. /\ \A v \in Coroutine \ {w} : pc'[v] = pc[v] /\ job'[v] = job[v]
          /\ \A s \in Request : pc'[s] = pc[s] /\ job'[s] = job[s]
      BY <1>0, <1>1, OthersStay DEF Process
    \* The task of a pending scan is not running when its worker reads the row.
    <2>5. ASSUME NEW i \in DOMAIN scans, Pending(i), m = Message("scan", i)
          PROVE  Dispatched(i)'
      <3>1. m.kind = "scan" /\ m.scan = i
        BY <2>5 DEF Message
      <3>2. pc'[w] = "start" /\ job'[w] = [scan |-> i, row |-> scans[i]]
        BY <1>0, <2>1, <2>5, <3>1 DEF Goto, TypeOK, ProcessesOK
      <3>3. QED BY <2>5, <3>2 DEF Dispatched, Pending
    <2>6. ASSUME NEW i \in DOMAIN scans, Dispatched(i), m # Message("scan", i)
          PROVE  Dispatched(i)'
      BY <2>2, <2>3, <2>4, <2>6 DEF Dispatched, BagIn, BagToSet
    <2>7. QED BY <1>0, <1>2, <2>3, <2>5, <2>6, PendingKept, LostStays DEF Pending
  <1>3. CASE BeginScan(w)
    <2>1. /\ pc[w] = "start" /\ queue' = queue
          /\ SetStatus(job[w].scan, job[w].row, "running") /\ "running" \in Status
      BY <1>3 DEF BeginScan, Status
    <2>2. \A i \in DOMAIN scans' : Pending(i)' => i \in DOMAIN scans /\ Pending(i)
      BY <1>0, <2>1, StatusKeeps DEF Pending
    <2>3. ASSUME NEW i \in DOMAIN scans, Pending(i), Dispatched(i), Pending(i)'
          PROVE  Dispatched(i)'
      <3>1. job[w].scan # i \/ job[w].row.status = "running"
        BY <1>0, <2>1, <2>3, StatusSet DEF Pending
      <3>2. QED BY <1>0, <1>1, <2>1, <2>3, <3>1, DispatchByOthers
    \* A scan that is no longer a lost one has been set to running.
    <2>5. \A i \in DOMAIN scans' \ lost' : Pending(i)' => i \notin lost
      <3>1. job[w].row.status = "running" => lost' = lost
        BY <1>3 DEF BeginScan
      <3>2. lost \subseteq lost' \cup {job[w].scan}
        BY <1>3 DEF BeginScan
      <3>3. job[w].row.status # "running" => scans'[job[w].scan].status = "running"
        BY <1>0, <2>1, StatusSet
      <3>4. QED BY <3>1, <3>2, <3>3 DEF Pending
    <2>4. QED BY <1>0, <2>2, <2>3, <2>5, PendingKept
  <1>4. ASSUME NEW status \in Status \ {"pending"}, SetStatus(job[w].scan, job[w].row, status),
               queue' = queue, lost' = lost, pc[w] # "start"
        PROVE  PendingIsDispatched'
    <2>1. \A i \in DOMAIN scans' : Pending(i)' => i \in DOMAIN scans /\ Pending(i)
      BY <1>0, <1>4, StatusKeeps DEF Pending
    <2>2. QED BY <1>0, <1>1, <1>4, <2>1, DispatchByOthers, PendingKept
  <1>5. CASE EndScan(w) \/ EndAsset(w)
    <2>1. PICK status \in {"completed", "failed"} : SetStatus(job[w].scan, job[w].row, status)
      BY <1>5 DEF EndScan, EndAsset
    <2>2. queue' = queue /\ lost' = lost /\ pc[w] # "start" /\ status \in Status \ {"pending"}
      BY <1>5, <2>1, LostStays DEF EndScan, EndAsset, Status
    <2>3. QED BY <1>4, <2>1, <2>2
  <1>6. CASE ScanLost(w) \/ ReadRecord(w) \/ AssetConflict(w)
    <2>1. /\ queue' = queue /\ scans' = scans /\ lost \subseteq lost'
          /\ pc[w] = "start" => job[w].scan \notin DOMAIN scans
      BY <1>6 DEF ScanLost, ReadRecord, AssetConflict, table
    <2>2. \A i \in DOMAIN scans : Dispatched(i) => Dispatched(i)'
      BY <1>0, <1>1, <2>1, DispatchByOthers
    <2>3. QED BY <1>0, <2>1, <2>2, PendingKept DEF Pending
  <1>7. QED BY <1>2, <1>3, <1>5, <1>6 DEF Work, Proceed

\* Whether a scan is scheduled is decided when it is inserted.
LEMMA ScheduledStays ==
    ASSUME TypeOK, [Next]_vars
    PROVE  \A i \in DOMAIN scans \cap DOMAIN scans' : scans'[i].scheduled = scans[i].scheduled
  <1>0. TablesOK /\ nextScan \notin DOMAIN scans
    BY DEF TypeOK, TablesOK
  <1> DEFINE Stays == \A i \in DOMAIN scans \cap DOMAIN scans' : scans'[i].scheduled = scans[i].scheduled
  <1>1. ASSUME NEW i, NEW row, NEW status \in {"pending", "running", "cancelled", "completed", "failed"},
               SetStatus(i, row, status)
        PROVE  Stays
    BY <1>0, <1>1, StatusKeeps DEF Status
  <1>2. ASSUME NEW s \in Request, StartScan(s) \/ RunDiscovery(s) PROVE Stays
    BY <1>0, <1>2 DEF StartScan, RunDiscovery, Insert
  <1>3. ASSUME NEW s \in Request,
               RunNowRead(s) \/ CancelRead(s) \/ DeleteRead(s) \/ DeleteSubnet(s)
        PROVE  Stays
    BY <1>0, <1>3 DEF RunNowRead, CancelRead, DeleteRead, DeleteSubnet, table, TablesOK, Row
  <1>4. ASSUME NEW s \in Request, Handle(s) PROVE Stays
    <2>1. CASE RunNowCommit(s) \/ CancelCommit(s)
      BY <1>1, <2>1 DEF RunNowCommit, CancelCommit
    <2>2. CASE SendTask(s) \/ DeleteCommit(s) \/ RowLost(s)
      BY <2>2 DEF SendTask, DeleteCommit, RowLost, table
    <2>3. QED BY <1>4, <2>1, <2>2 DEF Handle
  <1>5. ASSUME NEW c \in Checker, Check(c) PROVE Stays
    BY <1>0, <1>5 DEF Check, CheckSelect, CheckSend, CheckCommit, CheckLost, table, TablesOK, Row
  <1>6. ASSUME NEW w \in Coroutine, Work(w) PROVE Stays
    <2>1. CASE BeginScan(w) \/ EndScan(w) \/ EndAsset(w)
      BY <1>1, <2>1 DEF BeginScan, EndScan, EndAsset
    <2>2. CASE TakeTask(w) \/ ScanLost(w) \/ ReadRecord(w) \/ AssetConflict(w)
      BY <2>2 DEF TakeTask, ScanLost, ReadRecord, AssetConflict, table
    <2>3. QED BY <1>6, <2>1, <2>2 DEF Work, Proceed
  <1>7. CASE (\E p \in Process : Crash(p)) \/ Tick \/ UNCHANGED vars
    BY <1>7 DEF Crash, Tick, vars, table
  <1>9. ASSUME NEW w \in Worker, NEW a \in Aside, Cut(w, a) PROVE Stays
    BY <1>9 DEF Cut, table
  <1>8. QED BY <1>2, <1>3, <1>4, <1>5, <1>6, <1>7, <1>9 DEF Next, Work, Coroutine

LEMMA ChecksScheduledInductive ==
    ASSUME TypeOK, ChecksScheduled, [Next]_vars
    PROVE  ChecksScheduled'
  <1>1. SUFFICES ASSUME NEW c \in Checker, pc'[c] = "check"
                 PROVE  \A i \in DOMAIN job'[c].rows \cap DOMAIN scans' : scans'[i].scheduled
    BY DEF ChecksScheduled
  <1>0. c \in Process /\ TablesOK /\ JobOK(c) /\ c \notin Request /\ c \notin Coroutine
    BY ProcessAssumption DEF Process, TypeOK, ProcessesOK
  <1>2. DOMAIN scans' \subseteq DOMAIN scans \cup {nextScan} /\ nextScan \notin 1 .. nextScan - 1
    BY <1>0, OnlyNextIdAppears DEF TablesOK
  <1>3. ASSUME pc[c] = "check", DOMAIN job'[c].rows = DOMAIN job[c].rows
        PROVE  \A i \in DOMAIN job'[c].rows \cap DOMAIN scans' : scans'[i].scheduled
    <2>1. \A i \in DOMAIN job[c].rows \cap DOMAIN scans' : i \in DOMAIN scans
      BY <1>0, <1>2, <1>3 DEF JobOK
    <2>2. QED BY <1>3, <2>1, ScheduledStays DEF ChecksScheduled
  <1>4. CASE CheckSelect(c)
    <2>1. /\ job'[c].rows = [i \in {j \in DOMAIN scans : Due(j)} |-> scans[i]]
          /\ scans' = scans
      BY <1>0, <1>4 DEF CheckSelect, Goto, TypeOK, ProcessesOK, table
    <2>2. QED BY <2>1 DEF Due
  <1>5. CASE CheckSend(c)
    <2>1. pc[c] = "check" /\ job'[c].rows = job[c].rows
      BY <1>0, <1>5 DEF CheckSend, JobOK, TypeOK, ProcessesOK
    <2>2. QED BY <1>3, <2>1
  <1>6. CASE CheckCommit(c) \/ CheckLost(c)
    BY <1>0, <1>1, <1>6 DEF CheckCommit, CheckLost, Done, Goto, TypeOK, ProcessesOK
  <1>7. ASSUME NEW p \in Process \ {c}, Moves(p)
        PROVE  \A i \in DOMAIN job'[c].rows \cap DOMAIN scans' : scans'[i].scheduled
    <2>1. pc'[c] = pc[c] /\ job'[c] = job[c]
      BY <1>0, <1>7, OthersStay
    <2>2. QED BY <1>1, <1>3, <2>1
  <1>8. ASSUME NEW s \in Request,
               \/ StartScan(s) \/ RunDiscovery(s)
               \/ RunNowRead(s) \/ CancelRead(s) \/ DeleteRead(s)
               \/ DeleteSubnet(s) \/ Handle(s)
        PROVE  Moves(s)
    BY <1>8 DEF StartScan, RunDiscovery, RunNowRead, CancelRead, DeleteRead, DeleteSubnet, Handle,
                SendTask, RunNowCommit, CancelCommit, DeleteCommit, RowLost, Done, Goto, Moves,
                TypeOK, ProcessesOK, Process
  <1>9. ASSUME NEW d \in Checker, Check(d) PROVE Moves(d)
    BY <1>9 DEF Check, CheckSelect, CheckSend, CheckCommit, CheckLost, Done, Goto, Moves,
                TypeOK, ProcessesOK, Process
  <1>10. ASSUME NEW w \in Coroutine, Work(w) PROVE Moves(w)
    BY <1>10 DEF Work, Proceed, TakeTask, BeginScan, EndScan, ScanLost, ReadRecord, EndAsset, AssetConflict,
                 Done, Goto, Moves, TypeOK, ProcessesOK, Process
  <1>11. ASSUME NEW p \in Process, Crash(p)
         PROVE  \A i \in DOMAIN job'[c].rows \cap DOMAIN scans' : scans'[i].scheduled
    <2>1. Moves(p) /\ pc'[p] = "idle"
      BY <1>11 DEF Crash, Done, Goto, Moves, TypeOK, ProcessesOK
    <2>2. QED BY <1>1, <1>7, <2>1
  <1>12. CASE Tick \/ UNCHANGED vars
    BY <1>1, <1>3, <1>12 DEF Tick, vars
  <1>13. Request \cup Checker \cup Coroutine = Process
    BY DEF Process
  <1>15. ASSUME NEW w \in Worker, NEW a \in Aside, Cut(w, a)
         PROVE  \A i \in DOMAIN job'[c].rows \cap DOMAIN scans' : scans'[i].scheduled
    <2>1. pc'[c] = pc[c] /\ job'[c] = job[c]
      BY <1>0, <1>15, CutMoves
    <2>2. QED BY <1>1, <1>3, <2>1
  <1>14. QED
    BY <1>0, <1>4, <1>5, <1>6, <1>7, <1>8, <1>9, <1>10, <1>11, <1>12, <1>13, <1>15
    DEF Next, Check, Work, Coroutine

\* A process that dies with the task of a scan makes it a lost one.
LEMMA PendingCrash ==
    ASSUME PendingInv, NEW p \in Process, Crash(p)
    PROVE  PendingIsDispatched'
  <1>1. /\ TypeOK /\ Moves(p) /\ scans' = scans /\ queue' = queue
        /\ PendingIsDispatched /\ lost \subseteq lost'
        /\ pc[p] \in {"send", "start"} => job[p].scan \in lost'
    BY DEF Crash, PendingInv, Done, Goto, Moves, TypeOK, ProcessesOK, table
  <1>2. \A q \in Process \ {p} : pc'[q] = pc[q] /\ job'[q] = job[q]
    BY <1>1, OthersStay
  <1>3. \A i \in DOMAIN scans \ lost' : Dispatched(i) => Dispatched(i)'
    BY <1>1, <1>2 DEF Dispatched, Process, Message
  <1>4. QED BY <1>1, <1>3, PendingKept DEF Pending

LEMMA PendingCut ==
    ASSUME PendingInv, NEW w \in Worker, NEW a \in Aside, Cut(w, a)
    PROVE  PendingIsDispatched'
  <1>1. /\ TypeOK /\ scans' = scans /\ queue' = queue /\ lost' = lost
        /\ PendingIsDispatched
    BY DEF Cut, PendingInv, table
  <1>2. \A q \in Process : pc[q] \in {"send", "start"} => pc'[q] = pc[q] /\ job'[q] = job[q]
    BY <1>1, CutMoves
  <1>3. \A i \in DOMAIN scans \ lost' : Dispatched(i) => Dispatched(i)'
    BY <1>1, <1>2 DEF Dispatched, Process
  <1>4. QED BY <1>1, <1>3, PendingKept DEF Pending

LEMMA PendingInvInductive == PendingInv /\ [Next]_vars => PendingInv'
  <1> SUFFICES ASSUME PendingInv, [Next]_vars PROVE PendingInv'
    OBVIOUS
  <1>1. TypeOK' /\ ChecksScheduled'
    BY TypeInductive, ChecksScheduledInductive DEF PendingInv
  <1>2. PendingIsDispatched'
    <2>1. CASE \E s \in Request :
            \/ StartScan(s) \/ RunDiscovery(s)
            \/ RunNowRead(s) \/ CancelRead(s) \/ DeleteRead(s)
            \/ DeleteSubnet(s) \/ Handle(s)
      BY <2>1, PendingRequest
    <2>2. CASE \E c \in Checker : Check(c)
      BY <2>2, PendingChecker
    <2>3. ASSUME NEW w \in Coroutine, Work(w) PROVE PendingIsDispatched'
      BY <2>3, PendingWorker
    <2>4. ASSUME NEW w \in Worker, NEW a \in Aside, Cut(w, a) PROVE PendingIsDispatched'
      BY <2>4, PendingCut
    <2>5. CASE \E p \in Process : Crash(p)
      BY <2>5, PendingCrash
    <2>6. CASE Tick \/ UNCHANGED vars
      BY <2>6 DEF Tick, vars, table, PendingInv, PendingIsDispatched, Dispatched, BagIn, BagToSet
    <2>7. QED BY <2>1, <2>2, <2>3, <2>4, <2>5, <2>6 DEF Next, Work, Coroutine
  <1>3. QED BY <1>1, <1>2 DEF PendingInv

\* No scan that the API dispatched or re-ran is left pending, unless a process
\* died with its task: the task is sent, in the queue, or about to begin it,
\* though checks die and others cancel, delete and re-run it.
THEOREM PendingScansAreDispatched == Spec => []PendingIsDispatched
  <1>1. Init => PendingInv
    <2>1. Init => PendingIsDispatched /\ ChecksScheduled
      BY DEF Init, PendingIsDispatched, ChecksScheduled, Process
    <2>2. QED BY <2>1, InitTypeOK DEF PendingInv
  <1>2. PendingInv /\ [Next]_vars => PendingInv'
    BY PendingInvInductive
  <1>3. PendingInv => PendingIsDispatched
    BY DEF PendingInv
  <1>4. QED BY <1>1, <1>2, <1>3, PTL DEF Spec
=============================================================================
