# DyAuthReply: a TLA+ model of its clients, workers and services

DyAuthReply answers private messages of Douyin accounts. It exists twice. The
Rust agent (`src/dyauthreply-client/agent`) runs on a user's machine: it owns
accounts by lease, receives messages, plans replies by rule and quota and sends
them; everything that must survive a crash is in one SQLite database, `CoreStore`.
The Python backend (`src/backend-django/core`) contains the older reply workers,
which do the same as server processes over a shared database and Redis, and the
services both clients depend on: the licence service, the authority over account
leases, and a task scheduler, in the web process or in one of its own.

This project models both. Of the agent: the store, and the sender over it. Of the
backend: the fleet of reply workers, the reply loop of one account, the push side
of its inbox, the account leases with the agents that hold them, the licence
service with its clients, and the scheduler.

Paths below are relative to `src/dyauthreply-client/agent/src` (`*.rs`) or
`src/backend-django` (`*.py`) unless they start with `src/`.

## Inventory

| Component | State it keeps | Operations | Interacts with | What is hard | What makes it correct |
|---|---|---|---|---|---|
| Core store (`store.rs`, `store_send_receipts.rs`) | leases, batches and segments, inbound receipts, page checkpoints, decisions | install, renew, release, invalidate a lease; prepare a batch; transition a segment; record a page; consume an inbound message; reconcile receipts | called by every task, through one mutex and IMMEDIATE transactions | crash between claim and outcome, stale tokens, receipts against outcomes, clocks set back | one owner per epoch, no open send under an old epoch, settled stays settled, one decision per message |
| Reply guards (`store_guards.rs`) | account, rule and peer scopes with counters and a reservation | reserve, require, settle | inside the store's transactions | which path settles, midnight, reservation of a batch whose outcome is unknown | the ledger matches the batches, quotas and intervals hold |
| Mutual-follow claims (`store_mutual_follow.rs`) | notices claimed in the last minutes | coalesce, record | inside the decision | two directions in any order, claims pruned between them | one reply per pair as long as its first claim is kept |
| Send capability (`store_protocol_state.rs`) | last observation of whether a credential may send | restore, record | live sender, receipts, identity check | which attempt proves what after a takeover or a new credential | evidence is of this attempt and credential |
| Live sender (`protocol/live_sender.rs`) | none; one attempt | check, sign, claim, send, persist | store, signer, HTTP, account control | awaits between checks and uses, lost outcomes | at most one request per attempt |
| Messaging (`runtime/messaging.rs`) | account slots, sessions, projections | submit, run a batch, cancel its tail, recover, reconcile | store, sender, supervisor | decisions from a batch read earlier | a batch is sent in order and stopped after a rejection |
| Hosted lease control (`runtime/hosted.rs`) | request under way, grants, deadline | send and retry a signed batch, install what it grants, drop, release, suspend | lease authority over HTTP, the store's fence | lost and late answers, deadlines, restarts, added and removed accounts | what is used is what the server reserves |
| Account lease authority (`core/license/agent_lease_service.py`) | lease rows, epoch counter of the key, last answer per agent and boot | serve a batch, replay an answer, prune | agents, licence service | retries, quota inside a batch, pruned rows, unlocked saves of the key | one holder per account, epochs never twice, quota |
| Licence service (`core/license/license_service.py`, `renewal_receipt.py`) | keys, activations, renewal receipts | activate, check in, replay, deactivate, unbind, revoke, delete | clients, lease authority | concurrent handlers and their row locks, closings of stale copies | a sequence names one credential, closed stays closed |
| Licence client (`core/client/license_auth.py`) | a state file | activate, check in, deactivate, show the status | licence service | lost answers, status readers outside the lock | business stops after the licence |
| Reply worker fleet (`core/douyin/runtime/worker.py`, `lease.py`) | tasks, leases in Redis, session rows, commands | host, renew, heartbeat, claim and execute commands, stop, shut down | Redis, database, licence client | coroutines inside the same stop, claims that outlive themselves, Redis errors, a process without Redis | no account hosted twice or unhosted for good, the panel shows what the host does |
| Account reply loop (`worker.py`, `reply_helpers.py`, `account_status.py`, `transport/http_protocol.py`) | cursors, messages, reply logs, the account's row | scan, store, recover, guard, send, record | platform, database, panel | crash between delivery and log, cursor ahead of the store, rows saved whole | a recorded answer is never repeated, every message is settled |
| Push inbound (`transport/frontier_ws.py`) | connection, two queues, signal | receive, store, hand over, reconcile over HTTP | platform, reply loop | full queues, lost frames, the same message on both sides | every message is seen, and handed over once |
| Task scheduler (`scheduler/`) | job table, entries in memory | create, update, batch, delete, execute, start, synchronise, stop, clean up | the job table, its request handlers | the row in a transaction, the entry outside of it; refused jobs, failed requests; a process apart | the schedule says what the table says |
| Automatic planning (`runtime/messaging/automation.rs`, `runtime/inbound_policy.rs`) | none | filter pending messages, claim a reply | store, rules, business settings | settings that change meanwhile | every message is decided or deferred |
| Inbound (`runtime/inbound.rs`, `runtime/messaging/frontier.rs`) | cursor, WebSocket session | fetch pages, commit, recover gaps | store | gaps, duplicates, reconnects | every message after the live start is spooled |
| Account actor, fair queue, supervisor (`runtime/account.rs`, `fair_queue.rs`, `supervisor.rs`) | mailbox and control; class queues; accounts and tasks | enqueue, coalesce, pop, update control, replace, drain | all runtime parts | control changes during work, bounds, starvation, drain | no work under a control that forbids it, every class is served |
| Timer, breakers, lanes, heartbeat (`runtime/timer.rs`, `breaker.rs`, `lanes.rs`, `heartbeat.rs`) | heap, phases, permits, revisions | schedule and drain; acquire and record; admit and finish; publish and acknowledge | supervisor | stale generations, late outcomes | a late answer changes nothing of a newer generation |
| Storage segments (`storage/`) | active writers, sealed files, catalog | append, seal, publish, delete, recover | store's catalog | crashes between file and catalog | nothing sealed is lost, deletions finish |
| The rest | settings, credentials, users, OAuth, audit, monitors, UI | | | mostly I/O | see Not modelled |

`PROJECT.json` lists every component with its status and every hazard with its
line.

## Modules

| Module | Models | Correspondence |
|---|---|---|
| `SegmentLifecycle` | `SegmentStatus`, `BatchStatus`, `SegmentTransition` and the functions over them | constant level: `ApplyTransition` is `apply_segment_transition`, `DeriveBatchStatus` is `derive_batch_status`, `SourceStatuses` is `valid_segment_transition` |
| `ReplyGuards` | `store_guards.rs` | constant level: `CanReserve`/`Reserve`, `HoldsReservation`, `Settle` |
| `CoreStore` | the store | one action per public operation, extends the two above |
| `AtMostOnceDelivery` | what sending promises | abstract: per segment, what became of its request and what is on record of it |
| `LiveSender` | `live_sender.rs`, `run_send` and its cancellations (`messaging.rs`), `execute_guarded` (`executor.rs`), dispatch, and the publication of a lease (`hosted.rs`) | processes over `CoreStore`, against an external platform; refines `AtMostOnceDelivery` |
| `AgentLeases` | `agent_lease_service.py` | one transaction under the key's lock, one action per operation of a batch |
| `HostedControl` | the request loop of `hosted.rs` | agents with requests, answers, deadlines and restarts, over `AgentLeases` |
| `Licensing` | `license_service.py`, `renewal_receipt.py`, the handlers in `license_api.py` | one action per lock, read or save of a handler |
| `LicenseClient` | `license_auth.py` | devices with a state file, over `Licensing` |
| `Scheduler` | `scheduler/api.py`, `scheduler/service.py`, its start in `scheduler/apps.py` or `start_scheduler.py` | one action per row lock, entry change, commit and failure |
| `WorkerFleet` | `worker.py`, `lease.py`, `sharding.py`, `command_publisher.py` | one action per stretch between awaits of each coroutine |
| `AccountReplies` | the reply loop, `reply_helpers.py`, `account_status.py`, the inbox scan of `http_protocol.py` | one action per await of a round |
| `PushInbound` | `frontier_ws.py` | its tasks, queues and signal |
| `MCCoreStore`, `MCLiveSender`, `MCBackend`, `MCReplyWorkers` | instances | input sets, scenes, symmetry |
| `CoreStoreProofs`, `ReplyGuardProofs` | theorems of the store: types, fences, statuses, epochs; ledger, limits, decisions, notices, cursors | the second extends the first |
| `LiveSenderProofs`, `LiveDeliveryProofs` | theorems of the sender: at most one request; verdicts, order, refinement, settling | each extends the one before and `CoreStoreProofs`; the last also `ReplyGuardProofs` |
| `LicensingProofs`, `HostedLeaseProofs`, `ReplyWorkerProofs`, `SchedulerProofs` | theorems of the backend: `Licensing` with `LicenseClient`; `AgentLeases` with `HostedControl`; `WorkerFleet`, `AccountReplies` and `PushInbound`; `Scheduler` | |

### CoreStore

A transaction is atomic: every operation takes the connection mutex, opens an
IMMEDIATE transaction, reads the clock, checks the fence, and commits at its end
or rolls back. So each operation is one action, enabled when the transaction
commits; a refused call changes nothing and has no action. All processes of all
owners are represented by their tokens: any token of `Token` may be used at any
time, which covers every stale holder, whatever its history.

| Variable | Table |
|---|---|
| `lease` | `account_leases` |
| `outbox` | `outbound_batches`, `outbound_segments`, `auto_reply_batches`; a batch is keyed by its trigger, which the table's unique index makes possible |
| `scopes` | `reply_guard_scopes` |
| `receipts`, `decided` | `inbound_receipts` of the transports, of the decision stream |
| `checkpoint`, `liveStart` | `inbound_checkpoints` of the transports, of the live-start stream |
| `claims` | `mutual_follow_claims` |
| `proto` | `account_protocol_state` |
| `claimLog` | history: every claim ever recorded, pruned ones included |
| `now` | the wall clock, which moves both ways |
| `attempted` | history for the properties: under which epoch and credential a segment's last attempt began. `PersistOutcome` also uses it as the memory of the sender, which carries the token and the credential of its attempt |

A crash needs no action: a process that dies leaves the tables as they are, and
what it was doing shows as a token nobody uses any more. What follows a crash, a
takeover with a higher epoch, is `InstallLease`.

Data is abstract: messages, responses, credentials and ids are model values. A
response stands for the route and the plan of segments. `last_error`, payload
texts, the audit rows and the timestamps no decision reads are left out.

### LiveSender

Any number of processes (one per owner) act on one store. Each keeps its own
idea of what it owns, and several may believe they own the same account.

| Variable | Code |
|---|---|
| `held`, `grant` | `Driver::leases` and the published `authorizations` of `hosted.rs`; a grant may disappear at any time, since `authorization` filters by its deadline |
| `control` | the `AccountControl` watch: the epoch, which sends lifecycle and ownership permit, and whether the send capability is not against it |
| `works`, `task` | the work an account executes; the dispatcher's busy set allows one per account |
| `jobs` | closures handed to `spawn_blocking`, which run although nobody waits any more |
| `requests` | history: every request put on the wire, with its fate at the platform |

The states of a work (`task.pc`) are the awaits of `run_send`,
`LiveSender::send`, `cancel_tail` and `cancel_prepared_if_current`:

| `pc` | Waiting for |
|---|---|
| `reading` | the batch |
| `preparing` | identity, conversation and admission of the next segment |
| `signed` | nothing but the next poll: the signature has come back |
| `claiming`, `persisting`, `cancelling` | a closure of the blocking pool (a claim, an outcome, a cancellation) |
| `claimed` | the next poll: the claim has committed, the last check is to come |
| `posting` | the answer of the platform |
| `persisted`, `failed` | the next poll after an outcome, or after an error |

`Drop` ends a work at any of them: its timeout, or the control change that
`execute_guarded` looks at before it polls the future. Between two awaits a step
is atomic for the process but not for the others. Three steps are merged with a
neighbour they commute with: the first `send_allowed`, the read of the segment
and the signature are one step, `PrepareSegment`, because all they do is give up,
which `ClaimSegment` may do as well; the read of a cancellation is one with its
closure's start; `update_send_capability` is one with the poll that calls it. A
closure that cancels several segments is one step per transaction.

A deadline is a refusal that may happen at any time, so this model keeps the
clock still (`MaxTime` = 0): expiry of a lease is `FailJob` (the store refuses)
and `DropGrant`. The credential generation of the control is not kept apart: a
work whose generation is replaced is dropped, and `Drop` allows that always.
`FailJob` is also the failing database, whatever the transaction was.

The platform takes a request and delivers or refuses it, at any time later, once.
`refused` stands for an answer the client classifies as a rejection: whether the
recipient of a message with such an answer saw it is outside the model.


### AgentLeases and HostedControl

One licence key with its activations, each an installation of the agent, and the
accounts they ask for. A sync request holds the key's row lock for its whole
transaction, so the transaction is a private copy (`tx`) that `CommitSync`
publishes and `RollbackSync` drops; each account of the batch is a step of its own
(`OpGrant`, `OpExtend`, ...), in any order, since the code takes them in the order
of the request. What the handler read before it had the lock is the time `at`: it
may be up to `LockWait` old.

| Variable | Code |
|---|---|
| `rows`, `syncs` | `AgentAccountLease`, `AgentSyncState` |
| `fence`, `keyCopy` | `agent_fence_counter`, and the copy of the key in a handler that will save every column of it (`activate_license`, `patch_license_key`) |
| `licence` | what `_authorize` and the licence service read and write of an activation |
| `calls`, `open`, `answer` | requests on their way, the connection an agent waits on, what came back on it. A call stays until a handler starts on it, so requests arrive late, in any order, after their agent gave up or restarted; one that is lost is one no handler starts on |
| `ops`, `seq`, `boot`, `started` | the request of `Driver`: its body survives a failure, its identity is replaced at `MAX_REQUEST_AGE` |
| `held`, `deadline`, `installed` | the leases of the controller, until when they may be used, and the fence in `CoreStore`, which alone survives a restart |
| `grants`, `lowered` | history |

`MayUse` is what the rest of the agent relies on: a lease held before its deadline.

### Licensing and LicenseClient

The handlers of the licence service run concurrently under READ COMMITTED; a step
is what they do between two lock acquisitions. `activate_license` locks the row of
its device and saves a key it read without a lock; a check-in locks the key first
and the row second, so the two can form a cycle, which the database ends
(`ActivateFails`, `CheckInFails`); `unbind_device` and `deactivate_activation` save
a row they loaded without a lock. A credential pair is a number (`minted`). The
devices in `Native` are the Rust agents, which name their renewals and may be
answered from a receipt; the others are Python clients. The client's operations are
serialized by a lock, its status readers are not (`ReadStatus`, `WriteStatus`).

### Scheduler

The rows of `SchedulerJob`, the entries of APScheduler by code, and up to two
requests at once. Two constants say how it is deployed:

* `AtomicRequests`: with `ATOMIC_REQUESTS` (PostgreSQL, SQL Server) a request is one
  database transaction, and a row it has written is locked until `Commit`. With MySQL
  and SQLite every statement commits at once and locks nothing.
* `InProcess`: the scheduler runs in the web process (`scheduler/apps.py`), whose
  handlers change its entries as they go (`SyncPlan`, `DropPlan`), whatever becomes of
  their transaction; or `start_scheduler.py` runs it apart. Then requests change rows
  only, and `SyncNewJobs` looks for rows created since its last look (`fresh`).

`add_job` refuses a row whose function, trigger or arguments it cannot use (`sound`),
and no caller looks at its answer: such a row has no entry, also when an update has
just removed the one before it. `Abort` is a request that fails or whose commit does:
with `AtomicRequests` its rows are as they were, but the entries it touched are not.
`CleanFails` is the same of a clean-up. `StartScheduler`, `ShutdownScheduler` and
`CrashScheduler` are its process coming and going; entries live in memory only.

`strayed` collects the codes where the code does not keep row and entry together, until
the next start reads the table again: a renamed row leaves its old entry behind; a
delete, a load or a clean-up runs beside another request for the same job; a paused job
is executed by hand; a request or clean-up fails after it has touched the entry; and,
with the scheduler apart, any change of an existing row, and a creation under way during
a synchronisation. `ScheduleMatchesTable` speaks of all other codes.

### WorkerFleet

Worker processes of one deployment. In a process the refresh loop, the renewal loop
and the command consumer are coroutines that may all be inside `_stop_account`
(`stops`), whose last await releases the lease. Leases have a TTL that `FleetTick`
runs down. Whether a process has a connection to Redis is decided when it starts
(`linked`): one that found none (`StartUnconnected`) takes every lease for its own and
renews and releases nothing for the rest of its life. With a connection, a call that
fails (`AcquireFails`, `ReleaseFails`) counts as a lease too, but the next renewal that
gets through tells the truth; a renewal that fails changes nothing. A command is a row
that one worker claims (`deploy.backend = "db"`) or a broadcast every connected worker
receives (`"redis"`). In both cases `_dispatch_command` looks first whether this worker
hosts the account (`Accepts`), and only then waits for the account's lock; a claimed row
that is for another worker is consumed as failed. The tasks of broadcast commands
outlive the loops of a process that shuts down; the database consumer does not.
`FleetUpset` is what goes wrong: crashes, shutdowns, Redis and database errors, the
operator's changes.

### AccountReplies

One account in one worker. `round.pc` is the await the loop is at: the messages of a
page are stored one by one, or trimmed from the history a first scan fills in
(`TrimHistory`), or fail to be stored (`StoreFails`), then the cursor is saved whatever
failed, then the batch is answered message by message. A send that ends in an error may
have delivered earlier segments of its reply (`PerhapsDelivered`). `cursors` has the three copies of the cursor: memory, file and
conversation. `rows` is `DouyinMessage` (new, done), `answered` the successful
`DouyinReplyLog`, `delivered` what the platform did. A panel request loads the
account's row and saves every column of it later (`PanelLoads`, `PanelSaves`).
Verdicts that depend on texts and lists (echo, blacklist, rules, cooldown) may go
either way.

### PushInbound

The two tasks of `FrontierWsDecorator` and the loop that reads them: frames go into a
bounded queue, a consumer stores them and hands them to the loop through another, and
the loop reads the inbox over HTTP when history is missing, when the interval has
passed or when a frame was dropped. A message of that page may be trimmed
(`TrimFetched`) or fail to be stored (`StoreFetchedFails`); the cursor passes it all
the same, and only a frame can still bring it.

## Runs

The runs of the agent use one account: the store's tables are keyed by account and
no operation reads two (the notice claims' total bound excepted). Each run turns
off the parts it is not about by giving them empty input sets.
`CHECK_DEADLOCK` stays on where the clock can always move. It is off where the
system may stop: a process that has lost its last lease (the epochs are bounded)
and has finished its works has nothing left to do, and neither has a backend
whose clients have used up their requests.

| Run | Question | Bounds |
|---|---|---|
| `core_lease` | does a takeover leave an open send or a wrong batch status; do epochs keep their owner; are settled segments final? | 2 owners, 2 epochs, 2 expiry times, one batch of 2 segments attempted up to twice, 2 platform ids |
| `core_guards` | does the ledger match; do quota, interval, cooldown and peer limit hold at midnight; does a pair of notices claim one reply, as long as its first claim is not pruned? | times 0..2 with midnight between 1 and 2; 2 replies, 3 policies in 2 conversations; or 3 notices in 2 conversations, 3 notice times, window 1, retention 1, none of them sent |
| `core_inbound` | is a message decided once; do cursors and receipts survive late and repeated pages? | 1 event over 2 streams, 2 generations, 2 cursors, 2 payloads, 2 possible replies, spool of 1, clock still |
| `send_takeover` | is a segment put on the wire twice; is what is on record true? | 2 owners, 2 epochs, one work each, one message |
| `send_manual` | is every step one of `AtMostOnceDelivery`; do answers of the blocking pool reach only their own work; is what was delivered confirmed at last? | 1 owner, 2 epochs, 2 works, one message; fairness |
| `send_automatic` | do segments go out in order; is a reservation released too early? | 1 owner, 2 epochs, 2 works, a reply of 2 segments, drops and cancellations |
| `backend_services` | is what an agent may use a live lease of the server; quota, epochs, revocation; sequences, receipts and closings of the licence service; does the schedule match the job table? | leases: 3 scenes (below), TTL 2, clock 0..3; licences: 2 devices, 3 and 1 requests, 3 credential pairs, one upset; scheduler: in the web process and apart, atomic requests, 2 jobs, 2 codes, 2 requests at once, 3 edits (requests, expiries, stops and crashes), rows of each status, one-time and refused ones |
| `reply_workers` | fleet: results of stale claims, double or missing hosting, a panel that shows something else, unlicensed hosting; inbox: repeated answers, cursors ahead of the store, messages handed on twice, unsettled or unseen messages | fleet: 2 workers, 1 account, 5 deployments (leases or shards, either command queue, one worker), 2 commands, claims that last 1 step of time, up to 2 upsets; replies: inboxes of up to 3 messages with 1 upset, or of 1 with 2, message 2 a notice; push: 2 or 3 messages, queues of 1, up to 1 upset; fairness |

The bounds are small because each property relates two things at most: two
owners (an old and a new one), two segments (a settled one and an open one), two
deliveries around one midnight, two notices within or outside one window. A
third owner or delivery only repeats a pair. In the sender's runs one work leaves
one closure behind, a second work (or a second owner) is what it can disturb, and
the second epoch is the takeover; the segment's attempt counter stops at 2, so an
illegal second attempt would be seen.

`reply_workers` and `backend_services` each cover several models that share no state. A
behaviour is one of a single model, chosen in the initial state, while the others have
nothing to do: exploring products of models that do not interact would show
nothing more. The scheduler is instantiated twice, for its two deployments (`Apart`).
`core_guards` (`RepliesSpec`) is one model under two ranges of inputs, replies that are
sent and notices that are not: the first is about delivery, the second about decisions.
The scenes of the leases are two agents that ask for one account
(`Rivals`), one agent with two accounts and a quota of one that adds and removes
them (`Alone`), and one agent that is started again (`Restarted`), with one (`Alone`: two) failures, restarts and licence or account changes. The counters (`seq`, `boot`, `edits`,
`upsets`, `minted`, `MaxClaims`) are bounded in guards and named. At these bounds
`TooManyBoots` never refuses (an agent boots at most twice), and neither does
`NoRoom` for want of row slots; both stay in the model.

`send_manual` assumes weak fairness of one action: the reconciliation of an
account that may receive (`Receives`). The code schedules it from the central
timer for every account (`supervisor.rs`, `RECONCILE_HEALTHY_MS`) and chains pages
until the inbox is read, and a page that cannot be committed leaves the cursor
where it was. Nothing is assumed of works, answers or the blocking pool: they may
stop for good. That the platform shows an account its own messages, and that the
spool does not stay full, is assumed with it. The property then needs a process
that keeps its lease, for otherwise nobody reconciles.

`reply_workers` assumes weak fairness of each loop of a live process (refresh,
renewal, heartbeat, command consumer, stops, the reply loop's scan and answer
steps, both push tasks), because asyncio runs every ready coroutine, and of time
(`FleetTick`, `IntervalPasses`). Nothing is assumed of processes that are down
(nobody need start them again), of the platform, of Redis or of the operator; the
number of upsets is bounded in each scene, so that what must happen eventually is
claimed for a fleet that is left alone at last. `RecoverPending(TRUE)` gets strong
fairness: it is the recovery of stored messages once its interval has passed, which
the loop passes again and again, sometimes before and sometimes after that moment;
an interval in wall-clock time passes however the rounds fall.
`StoredMessagesAreSettled` and `ManagedAccountsAreHosted` have premises of the form
<>[]: an account that stays able to reply, an account that some live worker is
supposed to host for ever. `PanelShowsTheHost` is about an account that one worker
keeps hosting alone. `DoubleHostingEnds` is about fleets that are `Coordinated` from
some time on: with leases, every live process has its connection to Redis; without,
the shards do not overlap.

Four runs show where the code does not do what the repository says of it
(`findings` in `PROJECT.json`):

| Run | What the repository says | What happens |
|---|---|---|
| `core_receipt_fence` | only a receipt of an attempt under this exact fence proves sendability | a takeover stamps its epoch on the interrupted segment, so the old owner's attempt passes |
| `core_receipt_rotation` | a receipt cannot bless a new credential | after a rotation within a lease it does |
| `workers_unconnected` | a lease makes one worker the host of an account | a worker that found no Redis when it started hosts it too, for the rest of its life |
| `send_abandoned` | after the claim a failure goes to Uncertain | a work dropped after the claim leaves the segment Sending, under the current epoch, until a receipt or a takeover |

Other departures are in the models as they are in the code, without a run of their own,
and the properties are stated around them:

* `restore` (`store_protocol_state.rs:129`, `Restored`) returns positive evidence of any
  age, where `dyauthreply-client/agent/README.md:163-164` gives it five minutes.
* Without `ATOMIC_REQUESTS` (MySQL, `application/settings.py:107`; SQLite,
  `application/settings.py:150`) two requests may change the row of a job in one order
  and its entry in the other: a job created enabled and paused at once is paused in the
  table and goes on firing. `ScheduleMatchesTable` is checked and proved for
  `AtomicRequests`; with `AtomicRequests = FALSE` TLC refutes it in a few steps.
* `_sync_new_jobs` (`scheduler/service.py:239`) looks for rows by the time of their
  insert. With the scheduler apart, a row whose transaction commits after that look is
  not found by any later one. Its code has `strayed`.
* `EpochGrantedOnce` holds as long as no handler has put the key's epoch counter back
  (`lowered`): `activate_license` (`core/license/license_service.py:326`) and
  `patch_license_key` (`core/license/license_api.py:113`) save every column of a key
  they loaded without its lock, the counter included, so a sync committed in between is
  undone in it.
* `RepeatsOnlyUnrecorded` allows one more answer for each delivered answer whose log
  was never written: the reply loop sends
  first and records afterwards.

## Proofs

Every invariant and every action property of a passing run is a theorem, for all
values of the constants that satisfy the named assumptions of the modules. Below, per
proof module, what is proved and along which argument. An inductive invariant was
checked with TLC on the instances of the runs before it was proved.

### CoreStoreProofs

`StoreTypeCorrect` is not a formality: that a scope's counter stays a natural number,
and that a page of receipts or a takeover leaves well-formed batches, depends on what
each operation writes. For the others nearly all actions are alike: they leave an
account's batches alone, replace the segments of existing batches, or add a new batch.
`OutboxStep` says so once, and the lemma that every step of `Next` is an `OutboxStep`
is proved action by action. Then:

* `FenceTheorem`: `SendingUnderCurrentFence` is inductive together with
  `TypeOK`. Its first conjunct (no segment is ahead of the lease) is the
  strengthening the takeover needs.
* `BatchStatusTheorem`: every way to write segments also derives the status.
* `ConfirmedIdTheorem` (`ConfirmedCarriesPlatformId`, which no run repeats): needs that a segment which may be started is not
  confirmed, and that a start clears the id.
* `TerminalTheorem`: no transition leaves a terminal status, receipts settle
  only open segments, a takeover only touches open ones.
* `EpochTheorem`: from the guards of the lease operations and the fence.

### ReplyGuardProofs

The same idea for the guards: `GuardStep` says that a step leaves the reply scopes of
an account and what can still be delivered of its batches alone, or reserves the scopes
for one new batch, or closes one batch and settles its scopes.

* `LedgerTheorem`, `DecisionTheorem`: `LedgerInv` is `TypeOK`, `GuardLedger`,
  `ReplyImpliesDecision` and that a scope without a row is empty. A reservation is held
  by an unsettled batch or by nobody, so whichever path closes a batch (an outcome, a
  receipt, a cancellation, a takeover) finds its own reservations.
* `QuotaTheorem`, `PeerLimitTheorem`, `SpacingTheorem`: the limits speak of delivery
  times, and the store only keeps counters per scope. `CountOf` ties the two together:
  a scope carries its policy's zone (`Zoned`) and, once used, the day and time of its
  last delivery (`Charged`); each counter is the number of deliveries of its day
  (`Counters`); a reserved batch was admitted under those counters (`Admitted`,
  `Counted`). Its hypothesis `DatedAfterClaim` (no delivery is dated before its batch
  was claimed) is a real one: a receipt may be dated up to `Slack` before the claim,
  and is then charged to the day before, whose count the claim did not look at.
  `LimitsWithoutSkew` shows that the skew is all there is: with `Slack` = 0 the
  hypothesis always holds and the limits with it. The proofs also needed that
  policies of one zone have one offset, which `GuardAssumption` states: an offset is a
  function of the zone in the code.
* `PairedNoticeTheorem`: a claim that was recorded is in the table, or one recorded
  later was more than the retention younger and pruned it; so a second claim of a pair,
  which looks into the table, can only come after such a one. The log of claims
  (`claimLog`) remembers what the table forgets.
* `CursorTheorem`, `ReceiptsTheorem`, `DecidedOnceTheorem`: from the order the
  operations write in, for clocks that move both ways.

### LiveSenderProofs

`AtMostOneRequest` is far from inductive: a request is put on the wire by a work that
believes it holds a claim, several steps after the store applied it, and the answer of
the blocking pool may arrive after that work was dropped. `SenderInv` has three parts:

* `TypeOK` of the store. Every step of `LiveNext` is an `OutboxStep` by the
  transitions the sender asks for (`LiveStores`), which leave out
  `mark_retryable`. So a segment once claimed is never claimable again
  (`TriedStays`), whatever takeover, receipt or cancellation comes.
* `ProcessInv`: the processes' state has its type, and `Awaited`: a work that has
  a job waits for it, for one at most, and a job that claims names what the work
  has in hand. A leftover of a dropped work therefore answers nobody.
* `WireInv`: every request, and every work about to send, names a claimed
  segment; a work about to send is the only one for its segment, and no request
  exists for it yet. The claim itself establishes this: it is valid only for a
  segment nobody has claimed.

The proof depends on `mark_retryable` having no caller: with it, at-most-once would
rest on the retrying caller instead.

### LiveDeliveryProofs

* `VerdictTheorem`: `TruthInv` says of every outcome on its way to the store what
  `VerdictIsTrue` says of the record: confirmed with the id of a delivered request, or
  rejected with every request refused and nobody about to make another.
* `OrderTheorem`: `OrderInv` adds that a work only has segments before it that are
  confirmed, and that the outcome a work waits for is the one its closure writes.
* `DeliveryTheorem`: every step of `LiveNext` is a step of `AtMostOnceDelivery` or a
  stutter. `VerdictStep` says that a step records at most one new verdict, and puts
  nothing on the wire when it does; `Post` and the platform's steps change one request.
* `SettledTheorem`: needs the ledger as well. `LiveSpec` does not imply the store's
  `Spec` literally (the sender persists under the credential its attempt began with,
  which may have been replaced meanwhile), so `LedgerInv` is proved again for
  `LiveNext` from the same lemmas about operations.

### LicensingProofs

* `SequenceTheorem`, `ReceiptTheorem`, `ClosedTheorem`: one
  invariant, `LedgerInv`. A row an activation has locked is the row it read, so every
  rotation starts from the row it replaces; what was published has a lower sequence
  than the next; a closing writes back a closed status whatever it loaded before. The
  clients enter only as the senders of requests.
* `BusinessTheorem`: here they matter. `TermInv` says that wherever deadlines are kept
  (the row, an answer on its way, the file, an operation's copy of it, a status
  reader's copy that may be written back late) they are those of something the service
  published, and nothing published lasts more than a term from now, or from the closing
  of its activation.

### HostedLeaseProofs

* `EpochOnceTheorem`: while the counter was not put back, every
  granted epoch is at or below it, and what the open transaction has granted lies
  between it and the transaction's own.
* `RevocationTheorem`: `TimesInv` says that the transaction
  reads a time that has passed, of an activation nobody can revoke while it holds the
  key's lock; `TermsInv` that no row lasts longer than one TTL from now. It needs that
  the clock does not go back, as does the code.
* `HeldTheorem`: `LeaseInv` adds three parts to these two.
  `ClientInv`: a body names each local account once, and what an agent asks for
  follows its desires and what it holds. `ServerInv`: every stored answer that may be
  replayed is reserved, by rows that last as long as it says, both in the table and in
  what any transaction in progress will commit; a transaction has served what it has
  answered so far. `UseInv`: an answer an agent would accept is the stored one to its
  last request, once every earlier request is settled; its deadline is bounded by the
  stored answer, its licence, every unsettled call and its own transaction. It needs
  that stored answers outlive the leases they promise (`TTL <= SyncRetention`) and
  that the end of a licence does not move back.
* `OneHolderTheorem`: so two agents never may use one platform
  account at the same time, which is what the authority is for.
* `QuotaTheorem`: live rows plus the batch's remaining capacity,
  `Places`, stay the same through every extension, grant, release and refusal of a
  batch, whatever their order.

### ReplyWorkerProofs

* `LatestClaimTheorem`: `ClaimsInv` says that what a worker
  executes under a claim of its own is the latest claim of the command, and that a
  claim it lost belongs to another worker or is over; the second half is why
  filtering on status and worker id suffices, and rests on a worker claiming only
  when it executes nothing.
* `CursorTheorem`: `ScanInv` says that every message up to either cursor was seen, and
  that a scan by user that is storing its page has seen every message up to the cursor
  it is about to save, but for what is left of the page.
* `RepeatTheorem`: `AnswerInv` accounts for every delivery as recorded, lost, or in
  hand, and says that nothing recorded is being sent.
* `HandedOnceTheorem`: `PushInv` says that a message which waits for the loop, or is in
  its scan, is in one of the two places, is stored, and was not handed over.

### SchedulerProofs

`ScheduleMatchesTable` says something only when nothing is under way, so it is nowhere
near inductive. `SchedulerInv` has three parts:

* `RowsInv`: a row has one writer, a request that switches or creates holds what it
  found, and codes are unique, those of uncommitted rows included. This is what row
  locks and the unique index give (`OwnRow`, `OwnCode`), and where the hypothesis
  `AtomicRequests` is used.
* `PlansInv`: what is scheduled under a code fits the committed row, or the row of the
  request that has put it right (`Synced`) and has not committed; a row that needs an
  entry has one, or is about to be added (`Awaited`: it is being loaded, or the next
  synchronisation will find it), or is being deleted (`Dropped`); nothing is scheduled
  under a code that belongs to no row; what a delete or a clean-up has taken is gone; and
  a scheduler that does not run has no entries.
* `AloneInv`: a row that is being loaded, deleted or cleaned up is nobody else's
  business, or its codes have strayed; with the scheduler apart, so have those of a row
  that is being changed (`ApartStrays`), and a row that is being created is found by the
  next synchronisation or has strayed (`ApartFinds`). It is what makes the exceptions of
  `strayed` sufficient: no other way of losing the agreement exists.

The theorem covers both deployments: `InProcess` is a constant it says nothing of.
At rest no request has put anything right, so what fits the committed rows is all.

### Model-checked only

The properties under fairness: `DeliveredIsConfirmed`, `DoubleHostingEnds`,
`PanelShowsTheHost`, `ManagedAccountsAreHosted`, `UnlicensedFleetStops`,
`StoredMessagesAreSettled` and `EveryMessageIsSeen`; the prover does not reason about fairness. The store itself is
passive and assumes no fairness.

## Left out

Of the store: opening, migration and backup of the database; the byte limit of a
page (its record limit is modelled); the 3000-account capacity of the protocol
state; the repair of a legacy risk observation; a change of an account's canonical
identity; local midnights that do not exist; a receipt clock that differs from
the local one by up to 30 s (the runs set `Slack` to 0; the constant is in the
model). `MarkRetryable` and `mark_inbound_processed` have no caller outside the
tests and are modelled as the operations they are.

Of the backend: the limit of 64 rows that one sync prunes (a row that stays longer
is an expired one, which a grant overwrites); several licence keys, since no
handler reads two; plans, key generation, listings and statistics; the login,
test-reply and restart commands of a worker beyond the stop and the send they are
made of; the start-up jitter and the retry pauses; profile look-ups; the
acknowledgements to the push platform; the body of a scheduled job and its log; two
schedulers at once (`/scheduler/start` in a web process while `start_scheduler.py` runs,
or in several web processes), each with entries of its own.

## Not modelled

* Automatic planning and inbound reconciliation of the agent: a filter in front of
  `ConsumeInbound` and the fetching of pages; their writes are in `CoreStore`.
* The mailbox of the account actor, the fair queue, the supervisor's registry and
  drain, the central timer, the breakers, the signer lanes, the heartbeat, the hot
  reload of credentials and the creator hold: scheduling inside one process. What
  of it changes a send (dispatch of one work per account, controls, drops) is in
  `LiveSender`.
* Storage segments: files beside the database.
* The rules engine, protocol codecs and signing (Rust and Python): pure functions
  of their input over texts and bytes.
* Users, roles, departments, menus and OAuth: administration. The check-then-save
  moves in their trees, which two requests may interleave into a cycle, are a hazard
  of theirs that no property covers.
* The WebSocket consumers, the monitors and data sources, audit and diagnostics:
  they read and show what other parts decide.
* The user interfaces: web console, browser extension, desktop shell, launcher.

The mapped lines are a small share of the repository: most of it is the
administration backend, byte-level protocol code and user interface named above,
which has little state of its own that is changed concurrently.

## Plan

Done: the store, `LiveSender` with `AtMostOnceDelivery` over it, the backend's
workers and services, and a theorem for every invariant and action property the
passing runs check.

1. `FairQueue` and `AccountActor`, then `Supervisor` with its drain composing both.
2. `InboundReconcile` and `AutomaticPlanning` in front of `ConsumeInbound`.
3. `StorageSegments` and `Retention`: crashes between file and catalog.
4. Proofs of what these modules promise, and of the duties (who must act next) that
   the liveness properties rest on.
