# SubnetIQ in TLA+

Specifications, model-checking runs and machine-checked proofs for SubnetIQ, an
IP address manager: a FastAPI application (SQLAlchemy async sessions on
PostgreSQL), Celery workers on Redis, an updater script beside the containers,
and a React frontend. Paths below are relative to `src/backend/app/` unless they
start with `src/`; `fe/` stands for `src/frontend/src/`. (`src/frontend-src` is
a second copy of `src/frontend`; the map names the first.)

## 1. Inventory

| Component | State | Operations | What makes it correct |
|---|---|---|---|
| IP records (`api/v1/endpoints/ips.py`) | `ip_addresses`, `vip_node_bindings` | create, bulk create, allocate next free, update, delete | one row per address and VRF scope, however it is spelled; an allocation takes a free host; VIP columns and bindings agree; an update keeps what it does not name |
| Expiry cleanup (`tasks/worker.py`) | `ip_addresses` | hourly release of expired allocations | only expired allocations are released |
| Approvals (`endpoints/approvals.py`) | `approval_requests`, the IP | request release, approve, reject | one pending request per IP, decided once, the release happens with the decision |
| Discovery scans (`endpoints/discovery.py`, `tasks/`) | `discovery_scans`, the broker, the workers | start, schedule, run now, run asset discovery, cancel, delete, the check of every minute, the tasks | a scan that runs is worked on and ends; a due scan starts; cancel is final |
| Browser session (`fe/shared/lib/api-client.ts`, `auth-store.ts`, `LoginPage`, `endpoints/auth.py`) | tokens in localStorage, per tab `isRefreshing`, `failedQueue` and the store | call, refresh, sign in with MFA, sign out, load | one refresh at a time, expiry is not noticed, every call is answered |
| Query cache (`fe/hooks/api/index.ts`) | cached answers, fetches, mutations | mount, fetch, poll, mutate, invalidate, set | a user's own writes are shown; the end of work is shown |
| List pages (`fe/components/ui/CrudPage.tsx`, `DataTable.tsx`, the pages) | rows, page number, filter, dialogs, calls | page, filter, open, submit, cancel | no row that was fetched is hidden, and what is not fetched is past the limit; one submit, one row; an answer closes its own dialog |
| Forms (`fe/lib/validators.ts`, `fe/types/api.ts`, every dialog) | form values, the body, the row | mount, enter, submit, save | what is sent fits the API; what is entered is stored; no refusal without a reason |
| Bulk edits and imports (`fe/pages/IpsPage.tsx`, `IpamRecordsPage.tsx`) | selection, runs, scan results | select, apply, leave; import one or all | a run ends what it began and nothing else |
| Search views (`AssetsPage`, `AuditLogPage`, `AuditPage`, `GlobalSearch`) | words, options, page, answers by key | type, choose, page | what is shown matches what is asked |
| Admin tabs (`fe/pages/AdminPage.tsx`, `services/backup.py`) | chosen archive, CONFIRM, settings | restore, save | each restore is confirmed, for its own file |
| Self update (`endpoints/update.py`, `src/updater/updater.sh`, Updates tab) | `trigger.json`, `state.json`, polls | run, advance, fail, succeed, poll, reload | the end is seen, one reload per success |
| Profile and MFA (`ProfilePage`, `endpoints/auth.py`) | the user's row, tabs of several windows | rename, change password, set up, enable, disable MFA | nobody is locked out; the name shown is the name stored |
| Roles (`core/rbac.py`, `use-permission.ts`, `navConfig.ts`) | the role in the row, in localStorage and in each window | check, offer, change | what is offered is allowed |
| Asset upsert (`tasks/discovery.py`) | `assets` | insert or update per live host | one asset per address and tenant |
| Subnets, ranges, aggregates (`endpoints/subnets.py`, `core/ip_utils.py`) | CIDR tree | create, update, delete | no overlap, parents contain children, no cycle |
| VRFs, VLANs, sites, tags, RIRs, ASNs, tenants, credentials | rows | CRUD, `ON DELETE SET NULL` or `CASCADE` | references resolve |
| Custom validation (`core/validation.py`) | rules | evaluated per create, update, delete | operators mean what they say |
| Audit and webhooks (`core/audit.py`, `core/webhooks.py`) | log rows, outgoing calls | one task per audited change | an event is sent for a committed change only |
| Rate limiter, reports, search, logs | counters, reads | - | - |

**How they interact.** Every HTTP request has one database session
(`core/database.py:33`): it commits when the handler returns and rolls back on
any exception. Workers open sessions of their own. Requests and workers share
only the tables and the broker; there are no locks and no `SELECT ... FOR
UPDATE`, and `ip_addresses` and `approval_requests` have no unique constraint.
The browser's tabs share localStorage and the server, nothing else; inside a tab
everything that runs between two awaits is atomic, and answers, timers and
unmounts come in between. The updater shares two files with the API.

**What is hard.** At `READ COMMITTED` another session commits between any two
statements of a handler, so each "check, then write" is a race unless a
constraint, a foreign key or an `UPDATE ... WHERE id` catches it. Rows are
committed before tasks are sent (API) or after (periodic check). Celery
acknowledges early, so a task that is lost is lost for good. In the browser an
answer may come when the dialog, page, tab or sign-in that asked for it is gone
or is about something else. `PROJECT.json` lists the hazards line by line.

## 2. How the code is read

Modules with database sessions:

* a `SELECT` reads the committed rows (plus, by autoflush, the session's own)
  and is its own step; several `SELECT`s are one step when nothing another
  session does between them can be told apart;
* the flush and the commit that ends a handler are one step;
* an ORM `UPDATE` writes only the columns whose value differs from the one
  *loaded* (`Flushed`, `SetStatus`), by id; if the row is gone the flush raises
  `StaleDataError` and the session rolls back;
* foreign keys are checked at that step, cascades happen in it;
* any exception (404, 409, failed validation of the response) and any crash is
  the action `Rollback`, which may be taken whenever a handler is open.

Modules of the frontend:

* a call is sent, committed by the server and handled by the browser in three
  steps; between them it may be lost or refused, and the page may be left;
* `mutate(x, {onSuccess})` runs its callback only while the component that
  called it is mounted; what follows an `await`, and the `onSuccess` of
  `useMutation`, runs regardless;
* a value of a form or of a body is one of the classes its handling tells apart
  (`ApiTypes.Value`): absent, null, blank, text, uuid, number, NaN, none, ...;
* rows and what is in them are small numbers; drawing is left out.

## 3. Modules

| Module | Models |
|---|---|
| `IpRecords` | `ips.py`, `DELETE /vrfs/{id}` and the cleanup task. One variable per table (`ips`, `bindings`, `vrfs`, `subnetVrf`), per session its `pc`, the body `req`, the rows it `loaded` and the rows it will insert (`draft`). Actions are named for the handlers: `CreateCheck`/`CreateCommit`, `BulkStart`/`BulkCheck`/`BulkCommit`, `AllocateSelect`/`AllocateCommit`, `UpdateRead`/`UpdateCommit`, `DeleteIp`, `DeleteVrf`, `CleanupSelect`/`CleanupCommit`. An address is a text that parses to a number (`Parsed`) and has one canonical spelling (`Canon`, `str()` of it): what a handler compares or stores as sent, and what it converts, is as in the code. A status is any text. |
| `Approvals` | extends `IpRecords`: the same sessions also serve `approvals.py`; a step of `IpRecords` that deletes an IP deletes its approval requests. |
| `ApprovalQueue` | what the workflow promises, without sessions; `Approvals` implements it when requests do not interleave. |
| `DiscoveryScans` | the scan table, the broker as a bag of messages, API requests, workers and the periodic check. `Aside` are the coroutines that a soft time limit has left in the event loop of a worker (`Cut`): it is raised out of `run_until_complete` and no handler of the coroutine sees it. `lost` is a history variable: the scans whose last task was refused, died or met the conflict. |
| `Session` | the interceptors of `api-client.ts`, one action per branch (`JoinQueue`, `GiveUp`, `LeadRefresh`, `Refreshed`, `RefreshFailed`, `Reject`), localStorage, per tab the flag, the queue (calls in state `waiting`) and the store; sign in with and without MFA, sign out in any tab, page loads, and tokens that expire at any moment. |
| `Hooks` | the queries and mutations of `hooks/api/index.ts`, as records: the tables each reads or writes on the server, what it invalidates and sets. Constants, no state. |
| `QueryCache` | one query and one mutation of that table over the external cache: fetches, polls, focus, age, lost answers, other users, work that ends. |
| `Pages`, `ListPages` | the pages that list rows (what they list, their dialogs and filters), and one such page at work: `SubmitDialog`, `CommitCall`, `SucceedCall`, `CancelDialog`, `PressAtOnce`, the table's page number and its clamp. A list holds what the endpoint returns to a call that names no limit (`Listed`, `ListLimit`), unless its hook names one. |
| `ApiTypes`, `FormSchemas`, `Dialogs`, `Forms` | the interfaces of `types/api.ts`, the zod schemas, the inputs of each dialog, and a dialog from mount to stored row. The tables are functions from field names, put together with `++` (the left one wins). A row may hold, in one column at a time, a value that the server takes and the dialog's schema refuses (`"other"`: an operator's role, an IPv6 address, a longer name). |
| `BulkEdits`, `Imports`, `SearchViews`, `AdminTabs`, `SelfUpdate`, `Profile`, `Permissions` | the parts of section 1 with those names. |
| `Frontend` | composes them: App.tsx shows one page, a behaviour follows one part of it. |
| `IpRecordsProofs`, `ApprovalsProofs`, `ApprovalQueueProofs`, `DiscoveryScansProofs`, `SessionProofs`, `FormsProofs` | theorems of the module of that name. |
| `PagesProofs` | theorems of `ListPages`, `BulkEdits`, `Imports`, `SearchViews`, `AdminTabs`, `SelfUpdate`, `Permissions`, `QueryCache` and `Profile`, in this order. |
| `FrontendProofs` | lifts those of the pages and the forms to `Frontend`, and proves its types part by part. |
| `MCIpRecords`, `MCApprovals`, `MCDiscoveryScans`, `MCSession`, `MCFrontend` | instances for TLC. |

Parts of the frontend share only the query cache and the server: a part that is
not followed rests in one of its first states, which keeps the product of all of
them out of the state space and loses no step of the followed one.

Definitions whose comment starts with "Mutant:" are deliberate errors, each put
before the definition it would replace; no specification uses them. They show
that a property can fail: with the mutant in place TLC refutes it.

## 4. Runs

| Run | Instance | Shows |
|---|---|---|
| `ips_serial` | one session serves requests and cleanup in turn, 2 rows, clock 0..1, a /126 with three hosts, one of which has two spellings | `TypeOK`, `VipConsistent`, `OnlyRespelledDuplicates`, `OnlyRespelledHolders`, `CleanupReleasesOnlyExpired` hold for any sequence of requests |
| `approvals_serial` | one session, 2 IPs, 3 requests of both types, a lease that expires | `ImplementsQueue`: the endpoints refine `ApprovalQueue` |
| `concurrent` | 2 sessions that serve requests on IPs, VRFs and approvals and the cleanup, 2 tenants, 2 rows, 1 approval | `ReferencesResolve`, `ApprovalsResolve`, `UpdateKeepsOtherColumns`, `ApprovalKeepsOtherColumns`, `DeletedStaysDeleted` hold under every interleaving |
| `allocate_race` | 2 sessions that allocate | **violated** (`AllocateTakesFreeHost`): two allocations get the same host |
| `decision_race` | 2 sessions that decide | **violated** (`DecidedOnce`): two reviewers decide one request |
| `scans_safety` | 2 requests, 2 workers, a coroutine put aside, the check; 1 scan, 1 run-now, 1 crash, every kind of body, refused ones too | `RunningIsWorkedOn`, `PendingIsDispatched`, `DeletedStaysDeleted` |
| `scans_liveness` | 2 requests, a worker, a coroutine put aside, a check that may die once; 1 scan of every kind, 1 run-now, asset conflicts, fairness | `PendingEnds`, `DueIsStarted` |
| `scan_cancel` | 2 requests, 2 workers, the check | **violated** (`CancelIsFinal`): the task of a cancelled scan runs |
| `session` | 2 tabs: two calls at once in one, a sign-in in the other; 2 token pairs, 1 departure | `OneRefresh`, `ExpiryInvisible`, `EverySettles` |
| `frontend_pages` | every form and search view, a page of each kind, 3 listed rows of which a call gets 2, 3 logged rows, 2 windows | what is shown, sent and offered: `RowsAreShown`, `CreatedOnce`, `ClosedByItsOwnCall`, `ImportsRegister`, `ShownMatches`, `PageHasRows`, `ConfirmServesOnce`, `SentFitsTheApi`, `SavedAsEntered`, `RefusedForAReason`, `NotLockedOut`, `ProfileShown`, `OfferedAsAllowed`, and `FrontendTypeOK` |
| `frontend_work` | every pair of a query and a mutation that concern each other, 2 bulk runs, 2 updates | what goes on behind the page: `OwnWritesAreShown`, `EndIsShown`, `TagsLostOnlyInARace`, `EndsItsOwnWork`, `OneReloadPerSuccess`, `EndIsSeen` |
| `restore_confirm` | the Backups tab, 2 archives | **violated** (`ConfirmedForItsFile`): a CONFIRM typed for one archive restores another |

**Bounds.** Two of each actor are enough for every race in the backend, which is
always between one reader and one writer of the same row. Two rows let a VIP
have a node and an address have a duplicate, or another spelling; the first of
three hosts can be the gateway, held, or free. One scan suffices for the
interleavings of its tasks: scans share no row, and when the check dies the task
of each due scan was sent or was not. One coroutine put aside goes on beside the
workers, after any of their tasks, so two tasks of a scan overlap in
`scans_liveness` too. Symmetry (`concurrent`, `scans_safety`) permutes sessions,
requests and workers, which no action tells apart, and is used with invariants
and action properties only. In `session`, two calls of one tab make a leader and
a waiter, the other tab replaces or removes the tokens under them, and two pairs
let a token expire again before its replay is answered. In `frontend_pages`
three rows under a limit of two, on pages of one, or three log rows on pages of
two, fill two pages and leave one empty after deletions or a narrower search;
two calls per verb, two runs, two imports and two polls are what it takes for
one to be overtaken by another; `MaxVisits`, `MaxMoves`, `MaxActs`, `MaxTurns`
and the like bound how often a user goes elsewhere, each enough to leave, come
back and act again. `CHECK_DEADLOCK FALSE` is set where the bounds let the
system stop with nothing left to do: the scans, `session` and the frontend.

**Fairness.** `FairSpec` of `DiscoveryScans`: a request that has begun ends
(uvicorn runs it to completion), the check is run again and again (Celery beat,
every 60 s), a worker that is up takes messages and its task ends (soft time
limit 3000 s, hard limit 3600 s), and time passes. That a coroutine put aside
goes on is not assumed, since its loop may never run again. `Session`: a call is
answered or fails (axios reports network errors), the event loop runs the
handler of an answer, and a page load that was asked for happens.
`CacheFairness`: fetches end and the interval timer fires. `UpdateFairness`: the
updater goes on, the 3 s timer fires, the oldest poll is answered,
`window.location.reload` happens. No fairness is assumed of users: nobody has to
start, cancel or press anything.

**What the serial runs do not promise.** The properties that hold one request at
a time are those a test would check, and they fail when requests interleave.
`allocate_race` shows it of allocations. With two sessions
`OnlyRespelledDuplicates` fails in the same way (both check the address before
either row is there, though ips.py:189 says "Check for duplicate address within
the same VRF scope"), and so do `CleanupReleasesOnlyExpired` (a lease renewed
after it was selected is released) and `VipConsistent` (a demotion and a binding
update of one VIP interleave: each response validates on its own). And some
promises fail without any interleaving: the duplicate check and the allocation
look for the canonical text of an address among texts stored as they were sent,
so another spelling of an IPv6 address is not found. What is left of them,
`OnlyRespelledDuplicates` and `OnlyRespelledHolders`, says that this is the only
way: a row is added for an address that is there, or held, only beside one that
is stored in another spelling than the canonical one. `ImplementsQueue` fails
with two sessions in three ways: two pending requests for one IP
(approvals.py:81 says "Guard against duplicate pending requests for the same
IP", and the guard is a `SELECT`), a request decided twice (`decision_race`),
and an approval that frees nothing, because it read an available row, has no
change to write, and the row is allocated before it commits. Serial or not, an
address that was released gets a second row in its VRF when it is allocated
again (`enforce_unique` is never read). In `DiscoveryScans`, `PendingEnds` and
`PendingIsDispatched` speak of scans that are not scheduled: the task of a
scheduled one may end before the check writes `pending`. `RunningIsWorkedOn`
excepts the scans in `lost`: a refused `POST /discovery/run` (the record is
committed as running first), a process that dies with the task, and an asset
conflict; whatever else interleaves, only these leave a scan running that nobody
works on. A scan whose task met the soft time limit counts as worked on as long
as its coroutine is in the loop, which may be for ever: no row is written when
the limit is raised. A run-now of a pending scan makes two tasks run one scan, a
scan that has just begun to run can be deleted, and a recursive scan ends as
completed and is never due again.

**What the frontend properties except, and why.** Each exception is a behaviour
of the code that the model shows; the property says that there is no other.

* `ClosedByItsOwnCall`: a dialog that was cancelled while its call was under way
  does not cancel the call, whose `onSuccess` closes whatever dialog of that
  verb is open by then; the approvals page keeps the dialogs of both verbs in
  one state, so there the answer to an approval also closes a rejection.
* `OwnWritesAreShown`: `QueryCache.Overlooked` lists the mutations that change a
  list of another page without invalidating it (deleting a site and the VLANs of
  it, approving a release and the IPs, ...), stale for up to 30 s.
* `TagsLostOnlyInARace`: a bulk edit reads, computes and writes the tags of a
  row; a write between the two is lost.
* `OneReloadPerSuccess`: a poll that still read the success of the update
  before, and is overtaken by a later one, reloads the page early.
* `PageHasRows`: rows removed by others leave a search on a page past the last.
* `RowsAreShown`: rows past the limit of an endpoint whose caller names none are
  on no page, so the IP page has the first 50 of a filter
  (hooks/api/index.ts:389 and ips.py:143) and offers no way to the rest.
* `ConfirmServesOnce`: after a failure the same CONFIRM serves again. That a
  CONFIRM is for the file it was typed for does not hold (`restore_confirm`).
* `SavedAsEntered`: `Forms.NotStored` and `NeverStored` list inputs that an edit
  dialog shows and its schema or the endpoint drops, the e-mail address of a
  user among them.
* `RefusedForAReason`: `Forms.Refusing` lists dialogs that refuse to submit
  because of an input that was left alone: a VLAN without a site, a subnet
  without site or VLAN, a site without coordinates, an ASN or aggregate without
  RIR; a webhook can neither be created with typed events nor edited; a VIP that
  is unticked keeps its type and is refused, though src/docs/ONBOARDING.md:167
  says that unticking clears the type; a row with a value that its dialog does
  not know (the role of an operator or an engineer, an IPv6 address, a value
  longer than the dialog allows) cannot be edited unless that input is changed;
  an edit of a WinRM profile needs the password it says may be left blank.
* `NotLockedOut`: the setup endpoint overwrites the secret while MFA is on.
* `ProfileShown`: saves that overlap, answers that are lost, other windows.
* `OfferedAsAllowed`: `OverOffered` lists the buttons shown to every role that
  is not read-only though the API grants them to fewer, `AskedAnyway` what pages
  read for every role though the API refuses it to some.

## 5. Proofs

TLAPS proves what follows for any number of sessions, rows, tenants, windows,
calls and answers, and any bodies, words, rows and options that satisfy the
assumptions of the module. `MaxOpened`, `MaxMoves` and the other bounds are
parameters of the theorems too, so no result depends on their values.

**IP records** (`IpRecordsProofs`). Under every interleaving: `TypeCorrect`,
`ReferentialIntegrity`, `NoLostUpdates`, `NoResurrection`, all from the
inductive invariant `IInv == TypeOK /\ ReferencesResolve /\ SessionsAgree`.
`ReferencesResolve` alone is not inductive: an update inserts bindings for a row
it loaded earlier, so one must know that the row's tenant is still the tenant of
the request. `SessionsAgree` says so: no handler ever changes `tenant_id`, and a
row is loaded under the tenant of its request.

One request at a time (`OneAtATime == \A s, t \in Actor : s = t`, the constants
of `ips_serial`): `VipsConsistent`, `DuplicatesAreSpelledApart`,
`HoldersAreSpelledApart` and `OnlyExpiredReleased`. The hypothesis is not a
convenience: section 4 says how each of the four fails with two sessions. Their
invariant is `SerialInv`: what the session read is still what the tables hold,
an expired lease that was selected is still expired (time only adds to that),
and the rows to be inserted (`DraftHolds`) are found as duplicates neither in
the table nor among each other, or are an allocation of a host that is still
free as the handler compares it. That a row which was not found is respelled is
`OverlookedIsRespelled`. For the VIPs it is the response that matters: a
demotion clears the bindings after the body was validated, and the row that is
written is valid because the response was validated too and the row it was
computed from is the row in the table.

**Approvals** (`ApprovalsProofs`, `ApprovalQueueProofs`). Under every
interleaving: `RequestsNameTheirIp` and `ApprovalsLoseNoUpdates`. They use the
row lemmas of `IpRecordsProofs` but not its invariant, since these sessions have
more states: `AInv` keeps the types of rows and sessions and adds
`RequestsAgree`, that a handler which found an IP in its tenant will insert a
request for that IP or fail. It is inductive because no step changes a
`tenant_id` or gives an id out twice (`KeepsTenants`), whatever is deleted
meanwhile. `DecisionsAgree` says the same of a decision: the request it read has
the IP and the type it read for as long as it exists, and the handler loads no
other IP; so the columns an approval writes are those of its own IP, whatever
was committed since.

One request at a time, `EndpointsImplementQueue`: the endpoints, with everything
else that touches the IPs, refine `ApprovalQueue`. Every step maps to one of its
steps or to a stutter: `RequestCommit` to `Submit`, `ApproveCommit` to
`Approve`, `RejectCommit` to `Reject`, all else to `Elsewhere` or nothing. The
invariant `QInv` adds `SerialQueue` to the above, what the session read of the
request and the IP is still so. In the abstract workflow `OnePendingRequest` and
`DecisionsAreFinal` are proved once; the refinement carries them to the
endpoints as `OneRequestPending` and `DecisionsStandAlone`. A request is refused
for another of its own *tenant* only, so the first also rests on
`ApprovalsResolve`: all requests of an IP are its own tenant's.

**Scans** (`DiscoveryScansProofs`). `TypeCorrect` (types are proved here, no run
checks them), `NoResurrection` and `RunningScansAreWorkedOn`, from `IInv ==
TypeOK /\ RunningIsWorkedOn /\ WorkersAgree`, with crashes, soft time limits,
refused runs and asset conflicts. `WorkersAgree` is needed for the asset tasks:
their last write is skipped when the outcome equals the status they read, so the
scan may stay running, and then only because a probe of the same scan began
since and is still at work. A crash or a refusal puts the scan into `lost` and
`BeginScan` takes it out again, but only if it wrote: a task that read `running`
writes nothing, so nobody may be at work on the scan.
`PendingScansAreDispatched` is the safety half of `PendingEnds`: from any number
of cancels, run-nows and stale reads, a pending scan has a task that was not yet
lost. It holds with the check too, which may die, for scans that are not
scheduled. `PendingInv` adds `ChecksScheduled`, that the check writes scheduled
scans only; and it names the one way a task passes by a pending scan, that its
worker read the row while it was running and therefore writes nothing: such a
worker does not count as `Dispatched`. In the run requests and workers may crash
but not the check, which would take TLC to its limit; in the theorems any
process may.

**Browser session** (`SessionProofs`). `TypeCorrect`, and `OneRefreshAlways`: in
every tab `isRefreshing` is set exactly while one call refreshes, and no call
waits without it. `OneRefresh` counts the refreshing calls of a tab; its
inductive form `RefreshInv` says instead that any two of them are the same call
and that the flag is set when there is one, which every branch of the
interceptor can be shown to keep tab by tab; the theorem then turns "at most
one, and one iff the flag" back into the cardinality. `ExpiryIsInvisible` rests
on `ExpiryInv == StoreOK /\ \A r \in Request : CallOK(r)`: the tokens of
localStorage are one pair, removed only with one of the excuses that
`ExpiryInvisible` names (or never there); a refresh is refused only if its token
has expired; and a replay carries a later token than the first attempt, so it is
refused only after a second expiry.

**Lists and dialogs** (`PagesProofs`, over `ListPages`). `DialogsCreateOnce` and
`AnswersKnowTheirDialog` from `ListInv`, for every page of `Pages`. It counts
what a verb may still create (`Due`): the calls under way, and one more for a
dialog that can be submitted again; what is created and due never exceeds the
dialogs opened and the answers lost. For that, a pending verb must have its
dialog open on its row or have been left (`HasItsDialog`). The first attempt
failed where the approvals page closes the dialog of the *other* verb with an
answer: that dialog is left too, which `SucceedCall` now records.
`TablesShowTheirRows`: a table shows rows if it has any, its pages together show
all that were fetched, and of the server's rows only those past the limit are on
none, for any finite set of numbered rows and any limit. Rows are placed by
rank, the number of rows below them; that every rank below the number of rows is
taken (`RanksAreTaken`) is shown by a pigeonhole argument (`FS_Injection`: rows
with different ranks are different), since induction over the set is not
available.

**Bulk edits and imports** (over `BulkEdits`, `Imports`). `EditsEndTheirOwnWork`
(`DoneAreUpdated`: a row a run was started for is still to do, failed or
updated; `AttendedRuns`: as long as no dialog was left, the one run under way is
that of the dialog and of the selection), `EditsLoseTagsInARaceOnly`
(`ReadIsOfRow`: what a run has read is the row, or older than the row), and
`ImportsAreRegistered` (`CreatedExist`, `DoneAreRegistered`: the rows of an
import are accounted for in the subnet it was started for, wherever the user has
gone).

**Searches** (over `SearchViews`). `SearchesMatch` from `SearchInv` (what is
applied is what is typed unless the timer runs, and an answer holds rows of its
own word and option only), `PagesHaveRows` from `PageInv`: as long as rows only
come, every key that was asked for has a page within what it finds (`InReach`),
so a page number that passed "Next" under an old total is still good for the new
one, and no answer claims more rows than there are.

**Admin tabs and self update.** `RestoresAreConfirmed` (`RestoreInv`: as long as
a CONFIRM stands in the dialog, the restores pressed under it are of this visit
of the tab and have not succeeded, so one that is pending disables the button
and one that ended has failed) and `ReloadsHaveASuccess` (`UpdateInv`,
`ReloadsAreDue`: who saw an update run, or has an answer under way that says so,
still has a success to come, unless that update goes on or has failed).

**Profile** (over `Profile`). `NobodyLockedOut` from `MfaInv == ProfileTypes /\
EnablingsAgree /\ NotLockedOut`. What is switched on is what `POST
/auth/mfa/enable` read before it wrote: `EnablingsAgree` says that an enabling
between the two goes by a code of an entry of the authenticator, and that the
secret of the row is still the one it checked unless a setup or a disabling came
between (`undone`). `NameIsShown` from `NameInv`: in a window whose saves were
alone, the name of the row is that of the last save that was committed, and the
window has it or its answer is on the way.

**Roles** (over `Permissions`). `OffersAreAllowed`: for each of the roles, what
the menus and buttons offer is compared with what `core/rbac.py` allows, entity
by entity, and the differences lie within `AskedAnyway` and `OverOffered`. That
is a fact about the two tables, proved by going through them; the behaviour adds
that a window which is up to date has a role that was once given.

**Query cache** (over `Hooks`, `Pages`, `QueryCache`). `WritesAreShown` for
every query and every mutation of `hooks/api/index.ts`. The dynamic half is
`CacheInv`: once a mutation that is about the query has settled without leaving
a fetch behind (`missed`), neither the cache nor an answer under way passes
older rows for fresh. The static half is the lemma `HooksCover`, proved hook by
hook: a mutation that writes a table is about every query that reads it, but for
`Reports` and `Overlooked`, and no exception concerns a list of the page that
writes (`PagesShow`, page by page). An `onSuccess` with a wrong key breaks the
second half, a fetch that is not cancelled the first.

**Forms** (`FormsProofs`). `BodiesFitTheApi`, `EntriesAreStored` and
`RefusalsAreNamed`, for every dialog and any number of inputs changed (a run
stops at two). The argument has three layers. The *tables*: `SiteTables` to
`WebhookTables` look up once what the schema, the inputs and the API type of a
dialog say of each field, in the terms of `Tables` (which values an input can
show, how the schema parses them, what the body may hold). The *invariant*
`FormsInv`: a row is one of the rows the API returns (at most one of its columns
holds what the dialog does not know), the value of an input is one that its kind
can show (`ValuesFit`), the VIP inputs follow the tick box (`VipFits`), and what
was sent, saved or refused is what the resolver made of the values (`SentFits`);
it is inductive because `Effects`, the handlers that set other inputs, keep
values within what the inputs show. The *fields*: for each value an input can
have, what the resolver makes of it, what is submitted and what is merged into
the row (`ValueOf`, `BodyOf`, `TouchedStored`, `UntouchedStored`;
`DemotedStored` for the VIP inputs, `OtherIsKept` for a value the dialog does
not know), which gives the three properties field by field. The model had to
change for it in one place: `handlePresetChange` of `fe/pages/DiscoveryPage.tsx`
unticks "scheduled" and "recursive" when the preset is switched off, which the
first attempt at `ValuesFit` showed to be missing.

**The frontend** (`FrontendProofs`). Every step of `Frontend` is a step of the
part that is followed or leaves it alone (`ListIsAPart`, `CacheIsAPart`, ...),
so the theorems above hold of `FrontendSpec`: `FrontendLocksNobodyOut`,
`FrontendIsSafe` (thirteen invariants) and `FrontendStepsAreSafe` (three action
properties). `FrontendIsTyped` proves the type invariant, bounds of the counters
included, from one lemma per part. Most parts need more than their types for
that: a success of the updater is one of the updates asked for, so
`TriesAreCounted` follows each update from its POST (`RunSent`) over the trigger
to its end; an import takes the smallest of its hosts, so `MinIsIn` shows by the
well-foundedness of `<` that a nonempty set of numbers has one; a secret names
the request that set it, and only the window that still shows the MFA tab takes
over a secret from an answer (`ProfileLinks`: the number of the visit in a
request is at most that of its window, and equal to it only on the tab it came
from).

The assumptions on the constants (`NullAssumption`, `SubnetAssumption`,
`BodyAssumption`, `ListPagesAssumption`, `SearchViewsAssumption`,
`PairsAssumption`, ...) say what the schemas validate, what the database
guarantees and that sets of rows and of windows are finite; TLC evaluates them
in every run.

**Only model-checked.** Liveness (`PendingEnds`, `DueIsStarted`, `EverySettles`,
`EndIsShown`, `EndIsSeen`): fairness and `ENABLED` are outside the prover's
reach. Every other property of a passing run is stated by a theorem; those of
the runs that expect a violation are false. `ips_serial` and `approvals_serial`
check properties whose theorems have the hypothesis `OneAtATime`, which the
constants of these runs satisfy.

## 6. Not modelled, and the plan

Abstracted in what is modelled: columns no property distinguishes (hostname, MAC
...), custom validation rules (a rejected body is not among the constants), the
rows of a dialog with two values it does not know, permissions of the callers of
`IpRecords`, `Approvals` and `DiscoveryScans`; row locks (two transactions that
would deadlock in PostgreSQL are one `Rollback`); deletion of subnets, tenants
and users under `IpRecords` and `Approvals`; what a probe finds; the row of a
query (`SearchViews` and `QueryCache` know which rows or which version an answer
has); MFA as a second call of the same tab in `session` (`MCSession` has the
constant for it, with one more call the run takes too long).

Known and not stated as a property: a refresh answered after Sign out writes
tokens back, and one that fails late removes those another tab has stored; an
edit dialog sends a whole snapshot of its row; "Saved!" of the integrations is
shown for edits made during the save; a modal of the asset discovery closes
itself two seconds later, reopened or not; a required custom field that is added
later makes edits of older rows fail; an updater that is killed leaves
`state.json` running.

Not modelled: `TenantsPage` (no route leads to it), the map, dashboard, help and
about pages (they read and draw), the download and deletion of archives, Alembic
migrations and the containers.

Left to do, in this order:

1. `SubnetTree`: create, update and delete of subnets and ranges: containment,
   overlap, parents (cycles by update), with the address arithmetic of
   `core/ip_utils.py` as operators checked against set containment.
2. `AssetUpsert`: the three asset tasks on one `assets` table, composed with
   `DiscoveryScans`.
3. `Webhooks`: dispatch before commit, retries, and what a subscriber sees.
4. `Validation`, `RateLimit`, `Backups`: pure algorithms against reference
   definitions.

Theorems to add: those of these modules.
