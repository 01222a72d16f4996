--------------------------- MODULE DiscoveryScans ---------------------------
(***************************************************************************)
(* The life of a discovery scan: the discovery_scans table, the endpoints  *)
(* of api/v1/endpoints/discovery.py that write it, the Celery broker, the  *)
(* workers that run the tasks and the periodic check that dispatches       *)
(* scheduled scans (tasks/worker.py, tasks/discovery.py).                  *)
(*                                                                         *)
(* A task is sent and a row is committed in separate steps, in the order   *)
(* of the code.  The broker delivers a message once, in any order, and     *)
(* forgets it when a worker takes it (early acknowledgement).  The probes  *)
(* and their results are one nondeterministic outcome.                     *)
(***************************************************************************)
EXTENDS Naturals, FiniteSets, Bags

CONSTANTS
    Request,    \* concurrent API requests
    Checker,    \* runs of tasks.check_scheduled_scans
    Worker,     \* worker processes
    Aside,      \* places for the coroutines that the soft time limit puts aside;
                \* their number bounds how many there are at a time
    Null,
    StartBodies, \* bodies of POST /discovery/scan
    RunBodies,  \* bodies of POST /discovery/run
    Crashing,   \* the processes that may die, or lose the broker
    Conflict,   \* whether another tenant owns an asset at a scanned address
    Interval,   \* interval_minutes, in ticks
    MaxScans,   \* bound on the rows ever inserted
    MaxRuns,    \* bound on the calls of POST /discovery/{id}/run-now
    MaxCrashes, \* bound on the crashes
    MaxClock    \* bound on the clock

Coroutine == Worker \cup Aside
Process == Request \cup Checker \cup Coroutine
Kind == {"scan", "asset"}
Status == {"pending", "scheduled", "running", "completed", "failed", "cancelled"}

\* A row of discovery_scans; subnet: whether subnet_id is set, recursive:
\* is_recursive with an interval.
Row == [status : Status, scheduled : BOOLEAN, recursive : BOOLEAN,
        due : Nat \cup {Null}, subnet : BOOLEAN]

ASSUME BoundsAssumption ==
    /\ {Interval, MaxScans, MaxRuns, MaxCrashes, MaxClock} \subseteq Nat
    /\ Null \notin Nat

ASSUME ProcessAssumption ==
    /\ Request \cap Checker = {} /\ (Request \cup Checker) \cap Coroutine = {}
    /\ Worker \cap Aside = {}
    /\ Crashing \subseteq Process

ASSUME BodiesAssumption ==
    /\ StartBodies \subseteq [scheduled : BOOLEAN, recursive : BOOLEAN, due : Nat \cup {Null}]
    /\ RunBodies \subseteq [supported : BOOLEAN, subnet : BOOLEAN]
    /\ Conflict \in BOOLEAN

VARIABLES
    scans,    \* discovery_scans: a function from the ids of its rows to them
    nextScan,
    subnetUp, \* whether the scans' subnet exists
    queue,    \* the broker: a bag of messages
    clock, runs, crashes,
    pc,       \* where each process is
    job,      \* what it works on
    lost      \* history, no state of the code: the scans whose last task was
              \* never sent or died, and that no task has set to running since

table == <<scans, nextScan, subnetUp>>
count == <<clock, runs, crashes>>
vars == <<table, queue, count, pc, job, lost>>

Message(kind, i) == [kind |-> kind, scan |-> i]
Send(kind, i) == queue' = queue (+) SetToBag({Message(kind, i)})

Goto(p, where, what) ==
    /\ pc' = [pc EXCEPT ![p] = where]
    /\ job' = [job EXCEPT ![p] = what]
Done(p) == Goto(p, "idle", Null)

Init ==
    /\ scans = [i \in {} |-> Null]
    /\ nextScan = 1
    /\ subnetUp = TRUE
    /\ queue = EmptyBag
    /\ clock = 0 /\ runs = 0 /\ crashes = 0
    /\ pc = [p \in Process |-> "idle"]
    /\ job = [p \in Process |-> Null]
    /\ lost = {}

\* Mutant: the write is an upsert that inserts the row again if it is gone.
UpsertStatus(i, row, status) ==
    scans' = [j \in DOMAIN scans \cup {i} |->
                 IF j = i THEN [row EXCEPT !.status = status] ELSE scans[j]]

\* The UPDATE of a row that was read as row: a status equal to the one read
\* is not written.  If the row is gone the flush raises.
SetStatus(i, row, status) ==
    /\ i \in DOMAIN scans
    /\ scans' = [scans EXCEPT ![i].status = IF status # row.status THEN status ELSE @]

-----------------------------------------------------------------------------
(* API requests *)

Insert(row) ==
    /\ nextScan <= MaxScans
    /\ scans' = [i \in DOMAIN scans \cup {nextScan} |->
                    IF i = nextScan THEN row ELSE scans[i]]
    /\ nextScan' = nextScan + 1

\* POST /discovery/scan: the row is committed, then the task is sent.
StartScan(s) ==
    /\ pc[s] = "idle"
    /\ subnetUp
    /\ \E b \in StartBodies :
        /\ Insert([status |-> IF b.scheduled THEN "scheduled" ELSE "pending",
                   scheduled |-> b.scheduled, recursive |-> b.recursive,
                   due |-> b.due, subnet |-> TRUE])
        /\ IF b.scheduled THEN UNCHANGED <<pc, job>>
                          ELSE Goto(s, "send", Message("scan", nextScan))
    /\ UNCHANGED <<subnetUp, queue, count, lost>>

\* POST /discovery/run: the row is committed as running before the scan type
\* and its credentials are checked; a refused body sends no task.
RunDiscovery(s) ==
    /\ pc[s] = "idle"
    /\ \E b \in RunBodies :
        /\ b.subnet => subnetUp
        /\ Insert([status |-> "running", scheduled |-> FALSE, recursive |-> FALSE,
                   due |-> Null, subnet |-> b.subnet])
        /\ IF b.supported THEN Goto(s, "send", Message("asset", nextScan))
                          ELSE UNCHANGED <<pc, job>>
        /\ lost' = IF b.supported THEN lost ELSE lost \cup {nextScan}
    /\ UNCHANGED <<subnetUp, queue, count>>

SendTask(s) ==
    /\ pc[s] = "send"
    /\ Send(job[s].kind, job[s].scan)
    /\ Done(s)
    /\ UNCHANGED <<table, count, lost>>

\* POST /discovery/{scan_id}/run-now
RunNowRead(s) ==
    /\ pc[s] = "idle"
    /\ runs < MaxRuns
    /\ \E i \in DOMAIN scans :
        /\ scans[i].status # "running"
        /\ Goto(s, "runnow", [scan |-> i, row |-> scans[i]])
    /\ runs' = runs + 1
    /\ UNCHANGED <<table, queue, clock, crashes, lost>>

\* Mutant: the task is sent before the row is committed.
RunNowSendFirst(s) ==
    \/ /\ pc[s] = "runnow"
       /\ Send("scan", job[s].scan)
       /\ Goto(s, "runnowCommit", job[s])
       /\ UNCHANGED <<table, count, lost>>
    \/ /\ pc[s] = "runnowCommit"
       /\ SetStatus(job[s].scan, job[s].row, "pending")
       /\ Done(s)
       /\ UNCHANGED <<nextScan, subnetUp, queue, count, lost>>

RunNowCommit(s) ==
    /\ pc[s] = "runnow"
    /\ SetStatus(job[s].scan, job[s].row, "pending")
    /\ Goto(s, "send", Message("scan", job[s].scan))
    /\ UNCHANGED <<nextScan, subnetUp, queue, count, lost>>

\* POST /discovery/{scan_id}/cancel: a task already sent is not revoked.
CancelRead(s) ==
    /\ pc[s] = "idle"
    /\ \E i \in DOMAIN scans :
        /\ scans[i].status \in {"pending", "running", "scheduled"}
        /\ Goto(s, "cancel", [scan |-> i, row |-> scans[i]])
    /\ UNCHANGED <<table, queue, count, lost>>

CancelCommit(s) ==
    /\ pc[s] = "cancel"
    /\ SetStatus(job[s].scan, job[s].row, "cancelled")
    /\ Done(s)
    /\ UNCHANGED <<nextScan, subnetUp, queue, count, lost>>

\* DELETE /discovery/{scan_id}
DeleteRead(s) ==
    /\ pc[s] = "idle"
    /\ \E i \in DOMAIN scans :
        /\ scans[i].status # "running"
        /\ Goto(s, "delete", [scan |-> i, row |-> scans[i]])
    /\ UNCHANGED <<table, queue, count, lost>>

DeleteCommit(s) ==
    /\ pc[s] = "delete"
    /\ scans' = [i \in DOMAIN scans \ {job[s].scan} |-> scans[i]]
    /\ Done(s)
    /\ UNCHANGED <<nextScan, subnetUp, queue, count, lost>>

\* DELETE /subnets/{subnet_id}: the scans stay, their subnet_id becomes NULL.
DeleteSubnet(s) ==
    /\ pc[s] = "idle"
    /\ subnetUp
    /\ subnetUp' = FALSE
    /\ scans' = [i \in DOMAIN scans |-> [scans[i] EXCEPT !.subnet = FALSE]]
    /\ UNCHANGED <<nextScan, queue, count, pc, job, lost>>

\* The row is gone: the flush raises and the request rolls back.
RowLost(s) ==
    /\ pc[s] \in {"runnow", "cancel"}
    /\ job[s].scan \notin DOMAIN scans
    /\ Done(s)
    /\ UNCHANGED <<table, queue, count, lost>>

-----------------------------------------------------------------------------
(* tasks.check_scheduled_scans, every minute *)

Due(i) == /\ scans[i].status = "scheduled" /\ scans[i].scheduled
          /\ scans[i].due # Null /\ scans[i].due <= clock

\* Mutant: the check marks the scans as dispatched when it reads them.
CheckSelectAndMark(c) ==
    /\ pc[c] = "idle"
    /\ LET found == {i \in DOMAIN scans : Due(i)} IN
       /\ found # {}
       /\ Goto(c, "check", [now |-> clock, rows |-> [i \in found |-> scans[i]], todo |-> found])
       /\ scans' = [i \in DOMAIN scans |->
                       IF i \in found THEN [scans[i] EXCEPT !.status = "pending"] ELSE scans[i]]
    /\ UNCHANGED <<nextScan, subnetUp, queue, count, lost>>

CheckSelect(c) ==
    /\ pc[c] = "idle"
    /\ LET found == {i \in DOMAIN scans : Due(i)} IN
       /\ found # {}
       /\ Goto(c, "check", [now |-> clock, rows |-> [i \in found |-> scans[i]], todo |-> found])
    /\ UNCHANGED <<table, queue, count, lost>>

\* The tasks are sent one by one, before the commit.
CheckSend(c) ==
    /\ pc[c] = "check"
    /\ \E i \in job[c].todo :
        /\ Send("scan", i)
        /\ job' = [job EXCEPT ![c].todo = @ \ {i}]
    /\ UNCHANGED <<table, count, pc, lost>>

\* A recursive scan gets its next due time and stays scheduled: its status is
\* unchanged, hence not written.  If a row is gone the driver may report it,
\* and the commit fails (CheckLost).
CheckCommit(c) ==
    /\ pc[c] = "check"
    /\ job[c].todo = {}
    /\ scans' = [i \in DOMAIN scans |->
                    IF i \notin DOMAIN job[c].rows THEN scans[i]
                    ELSE IF scans[i].recursive
                    THEN [scans[i] EXCEPT !.due = job[c].now + Interval]
                    ELSE [scans[i] EXCEPT !.status = "pending"]]
    /\ Done(c)
    /\ UNCHANGED <<nextScan, subnetUp, queue, count, lost>>

CheckLost(c) ==
    /\ pc[c] = "check"
    /\ job[c].todo = {}
    /\ ~(DOMAIN job[c].rows \subseteq DOMAIN scans)
    /\ Done(c)
    /\ UNCHANGED <<table, queue, count, lost>>

-----------------------------------------------------------------------------
(* Workers *)

\* tasks.run_discovery_scan reads the row; if there is none the task ends.
\* The asset tasks do not read it before they have probed.
TakeTask(w) ==
    /\ pc[w] = "idle"
    /\ \E m \in BagToSet(queue) :
        /\ queue' = queue (-) SetToBag({m})
        /\ \/ m.kind = "asset" /\ Goto(w, "asset", m)
           \/ /\ m.kind = "scan"
              /\ m.scan \in DOMAIN scans
              /\ Goto(w, "start", [scan |-> m.scan, row |-> scans[m.scan]])
           \/ m.kind = "scan" /\ m.scan \notin DOMAIN scans /\ UNCHANGED <<pc, job>>
    /\ UNCHANGED <<table, count, lost>>

\* Whatever the status was, the task sets it to running and commits.
BeginScan(w) ==
    /\ pc[w] = "start"
    /\ SetStatus(job[w].scan, job[w].row, "running")
    /\ Goto(w, "probe", [job[w] EXCEPT !.row.status = "running"])
    /\ lost' = IF job[w].row.status # "running" THEN lost \ {job[w].scan} ELSE lost
    /\ UNCHANGED <<nextScan, subnetUp, queue, count>>

\* Mutant: the task returns without a commit if there is no subnet.
EndScanSubnetIgnored(w) ==
    /\ pc[w] = "probe"
    /\ IF job[w].row.subnet
       THEN \E status \in {"completed", "failed"} : SetStatus(job[w].scan, job[w].row, status)
       ELSE UNCHANGED scans
    /\ Done(w)
    /\ UNCHANGED <<nextScan, subnetUp, queue, count, lost>>

\* Without a subnet or after an exception in the coroutine the scan fails.
EndScan(w) ==
    /\ pc[w] = "probe"
    /\ \E status \in {"completed", "failed"} :
        /\ status = "completed" => job[w].row.subnet
        /\ SetStatus(job[w].scan, job[w].row, status)
    /\ Done(w)
    /\ UNCHANGED <<nextScan, subnetUp, queue, count, lost>>

\* The row is gone: the flush raises, and so does the handler's own commit.
ScanLost(w) ==
    /\ pc[w] \in {"start", "probe", "assetEnd"}
    /\ job[w].scan \notin DOMAIN scans
    /\ Done(w)
    /\ UNCHANGED <<table, queue, count, lost>>

\* The asset tasks read the row when they have probed, or failed ...
ReadRecord(w) ==
    /\ pc[w] = "asset"
    /\ IF job[w].scan \in DOMAIN scans
       THEN Goto(w, "assetEnd", [scan |-> job[w].scan, row |-> scans[job[w].scan]])
       ELSE Done(w)
    /\ UNCHANGED <<table, queue, count, lost>>

\* ... and write the outcome.
EndAsset(w) ==
    /\ pc[w] = "assetEnd"
    /\ \E status \in {"completed", "failed"} : SetStatus(job[w].scan, job[w].row, status)
    /\ Done(w)
    /\ UNCHANGED <<nextScan, subnetUp, queue, count, lost>>

\* assets.ip_address is unique over all tenants: the INSERT of a ping or full task fails, the session
\* is not rolled back and the SELECT of the record raises, which is swallowed.
AssetConflict(w) ==
    /\ Conflict
    /\ pc[w] = "asset"
    /\ Done(w)
    /\ lost' = lost \cup {job[w].scan}
    /\ UNCHANGED <<table, queue, count>>

\* The soft time limit while the event loop waits for the probes: the signal is
\* raised out of run_until_complete, not in the coroutine, so its handler does not
\* run.  The task ends and the row stays as it is.  The coroutine is left in the
\* loop: it may go on when the process runs its next tasks, or never.  (What
\* comes before and after the probes is taken to fit in the limit.)
Cut(w, a) ==
    /\ pc[w] \in {"probe", "asset"} /\ pc[a] = "idle"
    /\ pc' = [pc EXCEPT ![w] = "idle", ![a] = pc[w]]
    /\ job' = [job EXCEPT ![w] = Null, ![a] = job[w]]
    /\ UNCHANGED <<table, queue, count, lost>>

-----------------------------------------------------------------------------

\* A process dies (hard time limit, restart) or cannot reach the broker: its
\* transaction rolls back, and the message it took is not redelivered.
Crash(p) ==
    /\ p \in Crashing
    /\ crashes < MaxCrashes
    /\ pc[p] # "idle"
    /\ crashes' = crashes + 1
    /\ Done(p)
    /\ lost' = IF pc[p] \in {"send", "start", "probe", "asset", "assetEnd"}
               THEN lost \cup {job[p].scan} ELSE lost
    /\ UNCHANGED <<table, queue, clock, runs>>

Tick == /\ clock < MaxClock
        /\ clock' = clock + 1
        /\ UNCHANGED <<table, queue, runs, crashes, pc, job, lost>>

Handle(s) == SendTask(s) \/ RunNowCommit(s) \/ CancelCommit(s) \/ DeleteCommit(s) \/ RowLost(s)
Check(c) == CheckSelect(c) \/ CheckSend(c) \/ CheckCommit(c) \/ CheckLost(c)
Proceed(w) == EndScan(w) \/ ScanLost(w) \/ ReadRecord(w) \/ EndAsset(w) \/ AssetConflict(w)
Work(w) == TakeTask(w) \/ BeginScan(w) \/ Proceed(w)

Next ==
    \/ \E s \in Request :
          \/ StartScan(s) \/ RunDiscovery(s)
          \/ RunNowRead(s) \/ CancelRead(s) \/ DeleteRead(s)
          \/ DeleteSubnet(s)
          \/ Handle(s)
    \/ \E c \in Checker : Check(c)
    \/ \E w \in Worker : Work(w) \/ \E a \in Aside : Cut(w, a)
    \/ \E a \in Aside : Proceed(a)
    \/ \E p \in Process : Crash(p)
    \/ Tick

Spec == Init /\ [][Next]_vars

\* A request that has begun ends, Celery beat runs the check every minute, a
\* worker that is up takes the next message and a task ends (time limits).  That
\* a coroutine put aside goes on is not assumed.
Fairness == /\ \A s \in Request : WF_vars(Handle(s))
            /\ \A c \in Checker : WF_vars(Check(c))
            /\ \A w \in Worker : WF_vars(Work(w))
            /\ WF_vars(Tick)

FairSpec == Spec /\ Fairness

-----------------------------------------------------------------------------
(* Properties *)

TablesOK ==
    /\ nextScan \in Nat \ {0}
    /\ DOMAIN scans \subseteq 1 .. nextScan - 1
    /\ scans \in [DOMAIN scans -> Row]
    /\ subnetUp \in BOOLEAN
    /\ IsABag(queue)
    /\ DOMAIN queue \subseteq [kind : Kind, scan : 1 .. nextScan - 1]
    /\ clock \in Nat /\ runs \in Nat /\ crashes \in Nat
    /\ lost \subseteq 1 .. nextScan - 1

\* What a process works on: a message, a row it has read or a list of rows.
JobOK(p) ==
    /\ pc[p] \in {"send", "asset"} => job[p] \in [kind : Kind, scan : 1 .. nextScan - 1]
    /\ pc[p] \in {"runnow", "cancel", "delete", "start", "probe", "assetEnd"} =>
          job[p] \in [scan : 1 .. nextScan - 1, row : Row]
    /\ pc[p] = "check" =>
          /\ job[p] = [now |-> job[p].now, rows |-> job[p].rows, todo |-> job[p].todo]
          /\ job[p].now \in Nat
          /\ job[p].todo \subseteq DOMAIN job[p].rows
          /\ DOMAIN job[p].rows \subseteq 1 .. nextScan - 1

ProcessesOK ==
    /\ pc \in [Process -> {"idle", "send", "runnow", "cancel", "delete", "check",
                           "start", "probe", "asset", "assetEnd"}]
    /\ job = [p \in Process |-> job[p]]
    /\ \A p \in Process : JobOK(p)

TypeOK == TablesOK /\ ProcessesOK

Works(w, i) == pc[w] \in {"probe", "asset", "assetEnd"} /\ job[w].scan = i

\* A scan shown as running is run by a worker or by a coroutine put aside, or its
\* asset task is on its way to a worker, or it is one of the scans whose task was
\* refused, died or fell to the conflict and that no task has begun since.
\* Whatever cancels, re-runs, deletions, checks and time limits interleave, no
\* other scan is left running by tasks that all ended.
RunningIsWorkedOn ==
    \A i \in DOMAIN scans \ lost : scans[i].status = "running" =>
        \/ \E w \in Coroutine : Works(w, i)
        \/ BagIn(Message("asset", i), queue)
        \/ \E s \in Request : pc[s] = "send" /\ job[s] = Message("asset", i)

\* What a coroutine knows of its scan: a probe began by setting it to running; an
\* asset task that read another status finds it running only if a probe began.
WorkersAgree ==
    \A w \in Coroutine :
        /\ pc[w] = "probe" => job[w].row.status = "running"
        /\ /\ pc[w] = "assetEnd" /\ job[w].row.status # "running"
           /\ job[w].scan \in DOMAIN scans \ lost
           /\ scans[job[w].scan].status = "running"
           => \E v \in Coroutine : pc[v] = "probe" /\ job[v].scan = job[w].scan

\* With these two, the inductive invariant.
IInv == TypeOK /\ RunningIsWorkedOn /\ WorkersAgree

\* A worker has yet to set scan i to running, or a message will make one do it.
Dispatched(i) ==
    \/ BagIn(Message("scan", i), queue)
    \/ \E s \in Request : pc[s] = "send" /\ job[s] = Message("scan", i)
    \/ \E w \in Coroutine : pc[w] = "start" /\ job[w].scan = i /\ job[w].row.status # "running"

\* A pending scan that the API dispatched or re-ran still has a task to come,
\* whatever cancels, checks, tasks of earlier runs and lost updates interleave,
\* unless a process died with that task.  (The check commits after it has sent,
\* so the task of a scheduled scan may have ended when its status becomes pending.)
PendingIsDispatched ==
    \A i \in DOMAIN scans \ lost :
        scans[i].status = "pending" /\ ~scans[i].scheduled => Dispatched(i)

\* With TypeOK, the inductive invariant: what the check dispatches is scheduled.
ChecksScheduled ==
    \A c \in Checker : pc[c] = "check" =>
        \A i \in DOMAIN job[c].rows \cap DOMAIN scans : scans[i].scheduled

NoneReturns == \A i \in 1 .. nextScan - 1 : i \notin DOMAIN scans => i \notin DOMAIN scans'

\* No task, check or request brings a deleted scan back.
DeletedStaysDeleted == [][NoneReturns]_vars

Ended(i) == i \in DOMAIN scans => scans[i].status \in {"completed", "failed", "cancelled"}

\* A scan that the API dispatches or re-runs comes to an end, unless its task was
\* refused or put aside: the row is committed before its task is sent, so the last
\* word is the task's.  (The check sends first, so a scheduled scan may be left
\* pending by a commit after its task.)
PendingEnds ==
    \A i \in 1 .. MaxScans :
        (i \in DOMAIN scans /\ ~scans[i].scheduled /\ scans[i].status \in {"pending", "running"}) ~>
            (Ended(i) \/ i \in lost \/ \E a \in Aside : Works(a, i))

\* A scheduled scan that is due is started (or cancelled or deleted), even if
\* the check dies at any point: it sends the task before it commits.
DueIsStarted ==
    \A i \in 1 .. MaxScans :
        (i \in DOMAIN scans /\ Due(i)) ~> (Ended(i) \/ scans[i].status = "running")

\* "Cancel to stop a running scan": only a run-now takes a scan out of cancelled.
CancelIsFinal ==
    [][\A i \in DOMAIN scans \cap DOMAIN scans' :
          scans[i].status = "cancelled" /\ scans'[i].status # "cancelled" =>
              \E s \in Request : pc[s] = "runnow" /\ job[s].scan = i /\ pc'[s] # pc[s]]_vars
=============================================================================
