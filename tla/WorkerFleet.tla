----------------------------- MODULE WorkerFleet -----------------------------
(* The reply workers: which process runs which account.  Each worker has a  *)
(* refresh loop that hosts the managed accounts, a loop that renews their   *)
(* Redis leases, a heartbeat, and a command consumer.  The loops are        *)
(* coroutines of one process: they interleave wherever the code awaits, and *)
(* any of them may be inside _stop_account of the same account at once.     *)
EXTENDS Integers, FiniteSets

CONSTANTS
  Workers, Accts,
  Commands,       \* records [id, kind, acct] that may be published
  Deployments,    \* [leases, backend, owns, up]: lease_enabled, the command
                  \* backend, the accounts in the shard of each worker, the
                  \* processes that run; and the bounds [commands, upsets]:
                  \* what may be published, how many crashes, shutdowns, errors
                  \* and operator changes there are
  NoWorker, NoStop, NoJob, NoBeat,
  LeaseTTL,       \* lease_ttl
  ClaimTTL,       \* DOUYIN_DB_COMMAND_CLAIM_TTL_S
  MaxClaims       \* bound on the claims of one command

ASSUME FleetParameters ==
  /\ LeaseTTL \in Nat \ {0} /\ ClaimTTL \in Nat \ {0} /\ MaxClaims \in Nat
  /\ \A d \in Deployments : d.upsets \in Nat /\ d.up \subseteq Workers /\ d.commands \subseteq Commands
  /\ \A c \in Commands : c.kind \in {"send", "stop", "pause", "resume"} /\ c.acct \in Accts

VARIABLES
  deploy,     \* the deployment
  managed,    \* accounts the database says to host
  business,   \* client_can_use_business
  lease,      \* Redis: douyin:lease:<account>, holder and rest of its TTL
  life,       \* of each process: down, up, closing
  linked,     \* whether _redis is set, decided when the process starts
  tasks,      \* _tasks: none, running, or done and not yet recycled
  stops,      \* _stop_account under way, by worker and calling coroutine
  refresh,    \* where the refresh loop is, and its snapshots
  paused,     \* _paused_accounts
  beat,       \* the session row the heartbeat is about to write
  session,    \* DouyinSession: worker and status of an account
  queue,      \* DouyinWorkerCommand rows
  received,   \* tasks created for commands from Redis, waiting to be run
  job,        \* the command that holds an account's lock
  fleetUpsets \* how many upsets there have been

fleetVars == <<deploy, managed, business, lease, life, linked, tasks, stops, refresh,
               paused, beat, session, queue, received, job, fleetUpsets>>

Coroutines == {"refresh", "renew", "command"}

Hosted(w) == {a \in Accts : tasks[w][a] # "none"}

Running(a) == {w \in Workers : tasks[w][a] = "running"}

Up(w) == life[w] = "up"

Alive(w) == life[w] # "down"

NoLeaseHeld == [holder |-> NoWorker, left |-> 0]

Idle == [pc |-> "idle", wanted |-> {}, start |-> {}, stop |-> {}]

(* _load_managed_accounts: the managed accounts of this worker's shard.     *)
Wanted(w) == managed \cap deploy.owns[w]

RoutingActive == deploy.leases \/ \E w \in Workers : deploy.owns[w] # Accts

-----------------------------------------------------------------------------
(* _stop_account: the task is popped and cancelled; after the awaits of the *)
(* cancellation and of transport.stop the lease is released, if it is ours. *)
BeginStop(w, who, a) ==
  /\ stops[w][who] = NoStop
  /\ tasks' = [tasks EXCEPT ![w][a] = "none"]
  /\ stops' = [stops EXCEPT ![w][who] = a]

Released(w, a) ==
  IF deploy.leases /\ linked[w] /\ lease[a].holder = w THEN [lease EXCEPT ![a] = NoLeaseHeld] ELSE lease

FinishStop(w, who) ==
  /\ stops[w][who] # NoStop
  /\ lease' = Released(w, stops[w][who])
  /\ stops' = [stops EXCEPT ![w][who] = NoStop]
  /\ UNCHANGED <<deploy, managed, business, life, linked, tasks, refresh, paused, beat,
                 session, queue, received, job>>

(* release fails: the lease stays until its TTL ends. (A process without a  *)
(* connection releases nothing: FinishStop leaves the lease alone.)         *)
ReleaseFails(w, who) ==
  /\ stops[w][who] # NoStop /\ deploy.leases /\ linked[w]
  /\ stops' = [stops EXCEPT ![w][who] = NoStop]
  /\ UNCHANGED <<deploy, managed, business, lease, life, linked, tasks, refresh, paused,
                 beat, session, queue, received, job>>

-----------------------------------------------------------------------------
(* _loop_refresh_accounts.                                                  *)
Refreshing(w, pc) == Up(w) /\ refresh[w].pc = pc /\ stops[w]["refresh"] = NoStop

RefreshKept == UNCHANGED <<deploy, managed, business, life, linked, paused, beat,
                           session, queue, received, job>>

(* Faulty variant: the licence is not looked at.                            *)
AlwaysLicensed == TRUE

(* _client_business_allowed                                                 *)
BusinessAllowed == business

(* Faulty variant: a task that ended keeps its entry.                       *)
NoneEnded(w) == {}

Ended(w) == {a \in Accts : tasks[w][a] = "done"}

LoadAccounts(w) ==
  /\ Refreshing(w, "idle")
  /\ refresh' = [refresh EXCEPT ![w] =
       IF BusinessAllowed
       THEN [pc |-> "recycle", wanted |-> Wanted(w), start |-> {},
             stop |-> Ended(w)]
       ELSE [Idle EXCEPT !.pc = "remove", !.stop = Hosted(w)]]
  /\ UNCHANGED <<lease, tasks, stops>>
  /\ RefreshKept

StopNext(w, a) ==
  /\ Refreshing(w, "recycle") \/ Refreshing(w, "remove")
  /\ a \in refresh[w].stop
  /\ BeginStop(w, "refresh", a)
  /\ refresh' = [refresh EXCEPT ![w].stop = @ \ {a}]
  /\ UNCHANGED lease
  /\ RefreshKept

(* `existing` is read once, after the ended tasks were recycled.            *)
CompareAccounts(w) ==
  /\ Refreshing(w, "recycle") /\ refresh[w].stop = {}
  /\ refresh' = [refresh EXCEPT ![w] =
       [pc |-> "start", wanted |-> {}, start |-> refresh[w].wanted \ Hosted(w),
        stop |-> Hosted(w) \ refresh[w].wanted]]
  /\ UNCHANGED <<lease, tasks, stops>>
  /\ RefreshKept

Started(w, a) ==
  /\ tasks' = [tasks EXCEPT ![w][a] = "running"]
  /\ refresh' = [refresh EXCEPT ![w].pc = "start", ![w].start = @ \ {a}]

(* lease.acquire: SET NX; an own lease is found by GET and extended by a    *)
(* separate EXPIRE.  A process that could not connect to Redis when it      *)
(* started has no connection for the rest of its life: `redis is None`, and *)
(* every account is its to host.                                            *)
Guarded(w) == deploy.leases /\ linked[w]

AcquireLease(w, a) ==
  /\ Refreshing(w, "start") /\ a \in refresh[w].start
  /\ \/ /\ ~Guarded(w)
        /\ Started(w, a) /\ UNCHANGED lease
     \/ /\ Guarded(w) /\ lease[a].holder = NoWorker
        /\ lease' = [lease EXCEPT ![a] = [holder |-> w, left |-> LeaseTTL]]
        /\ Started(w, a)
     \/ /\ Guarded(w) /\ lease[a].holder = w
        /\ refresh' = [refresh EXCEPT ![w].pc = "extend", ![w].wanted = {a}]
        /\ UNCHANGED <<lease, tasks>>
     \/ /\ Guarded(w) /\ lease[a].holder \notin {w, NoWorker}
        /\ refresh' = [refresh EXCEPT ![w].start = @ \ {a}]
        /\ UNCHANGED <<lease, tasks>>
  /\ UNCHANGED stops
  /\ RefreshKept

ExtendLease(w, a) ==
  /\ Refreshing(w, "extend") /\ refresh[w].wanted = {a}
  /\ lease' = IF lease[a].holder = NoWorker THEN lease
              ELSE [lease EXCEPT ![a].left = LeaseTTL]
  /\ Started(w, a)
  /\ UNCHANGED stops
  /\ RefreshKept

(* Redis fails at one of the three calls: the account is hosted whoever has *)
(* its lease, which the SET may have taken although its answer was lost.    *)
AcquireFails(w, a) ==
  /\ Guarded(w)
  /\ \/ /\ Refreshing(w, "start") /\ a \in refresh[w].start
        /\ \/ UNCHANGED lease
           \/ /\ lease[a].holder = NoWorker
              /\ lease' = [lease EXCEPT ![a] = [holder |-> w, left |-> LeaseTTL]]
     \/ /\ Refreshing(w, "extend") /\ refresh[w].wanted = {a}
        /\ UNCHANGED lease
  /\ Started(w, a)
  /\ UNCHANGED stops
  /\ RefreshKept

RemoveUnwanted(w) ==
  /\ Refreshing(w, "start") /\ refresh[w].start = {}
  /\ refresh' = [refresh EXCEPT ![w].pc = "remove"]
  /\ UNCHANGED <<lease, tasks, stops>>
  /\ RefreshKept

EndRefresh(w) ==
  /\ Refreshing(w, "remove") /\ refresh[w].stop = {}
  /\ refresh' = [refresh EXCEPT ![w] = Idle]
  /\ UNCHANGED <<lease, tasks, stops>>
  /\ RefreshKept

-----------------------------------------------------------------------------
(* Faulty variant: a lease of another process is kept waiting for.          *)
NeverLost(w, a) == FALSE

LeaseLost(w, a) == lease[a].holder # w

(* _loop_renew_leases: a lease that is not ours any more stops the account. *)
(* A renewal that fails changes nothing and is tried again in the next      *)
(* round; a process without a connection renews nothing and never notices   *)
(* that another one has the lease.                                          *)
RenewLease(w, a) ==
  /\ Up(w) /\ Guarded(w) /\ tasks[w][a] # "none" /\ stops[w]["renew"] = NoStop
  /\ \/ LeaseLost(w, a) /\ BeginStop(w, "renew", a) /\ UNCHANGED lease
     \/ /\ lease[a].holder = w /\ lease' = [lease EXCEPT ![a].left = LeaseTTL]
        /\ UNCHANGED <<tasks, stops>>
  /\ UNCHANGED refresh
  /\ RefreshKept

(* The account's coroutine returns: the licence is gone, or the account was *)
(* deleted, or its login has expired.                                       *)
TaskReturns(w, a) ==
  /\ tasks[w][a] = "running"
  /\ tasks' = [tasks EXCEPT ![w][a] = "done"]
  /\ UNCHANGED <<lease, stops, refresh>>
  /\ RefreshKept

TaskSeesNoLicence(w, a) == ~BusinessAllowed /\ TaskReturns(w, a)

-----------------------------------------------------------------------------
(* _loop_heartbeat: the status is chosen before the row is written.         *)
Kept == UNCHANGED <<deploy, managed, business, lease, life, linked, refresh>>

Status(w, a) == IF a \in paused[w] THEN "paused" ELSE "running"

BeatRead(w, a) ==
  /\ Up(w) /\ beat[w] = NoBeat /\ tasks[w][a] # "none"
  /\ session[a] # [worker |-> w, status |-> Status(w, a)]
  /\ beat' = [beat EXCEPT ![w] = [acct |-> a, status |-> Status(w, a)]]
  /\ Kept
  /\ UNCHANGED <<tasks, stops, paused, session, queue, received, job>>

(* Faulty variant: an existing row keeps its status.                        *)
BeatenOnlyAlive(w) == [session[beat[w].acct] EXCEPT !.worker = w]

Beaten(w) == [worker |-> w, status |-> beat[w].status]

BeatWrite(w) ==
  /\ beat[w] # NoBeat
  /\ session' = [session EXCEPT ![beat[w].acct] = Beaten(w)]
  /\ beat' = [beat EXCEPT ![w] = NoBeat]
  /\ Kept
  /\ UNCHANGED <<tasks, stops, paused, queue, received, job>>

-----------------------------------------------------------------------------
(* Commands: a row that one worker claims, or a broadcast every worker      *)
(* receives and only the host of the account obeys.                         *)
Unpublished(c) == c \in deploy.commands /\ queue[c].state = "none"

Message(c) == [cmd |-> c, accepted |-> FALSE]

PublishCommand(c) ==
  /\ Unpublished(c)
  /\ queue' = [queue EXCEPT ![c].state = IF deploy.backend = "db" THEN "new" ELSE "sent"]
  /\ received' = IF deploy.backend = "db" THEN received
                 ELSE [w \in Workers |->
                         received[w] \cup {m \in {Message(c)} : Up(w) /\ linked[w]}]
  /\ Kept
  /\ UNCHANGED <<tasks, stops, paused, beat, session, job>>

Claimable(c) ==
  /\ queue[c].claims < MaxClaims
  /\ queue[c].state = "new" \/ (queue[c].state = "claimed" /\ queue[c].age >= ClaimTTL)

NewJob(c, claim) == [cmd |-> c, claim |-> claim, stage |-> "run"]

(* _dispatch_command: with several workers a command is for the one that    *)
(* hosts the account.                                                       *)
Accepts(w, c) == RoutingActive => tasks[w][c.acct] # "none"

(* _loop_db_commands takes one command at a time; one for an account hosted *)
(* elsewhere is consumed as failed without being run.                       *)
ClaimCommand(w, c) ==
  /\ Up(w) /\ deploy.backend = "db" /\ \A a \in Accts : job[w][a] = NoJob
  /\ Claimable(c)
  /\ queue' = [queue EXCEPT ![c] = [@ EXCEPT !.state = "claimed", !.owner = w, !.age = 0,
                                             !.claims = queue[c].claims + 1]]
  /\ job' = [job EXCEPT ![w][c.acct] =
       [NewJob(c, queue[c].claims + 1) EXCEPT !.stage = IF Accepts(w, c) THEN "run" ELSE "done"]]
  /\ Kept
  /\ UNCHANGED <<tasks, stops, paused, beat, session, received>>

(* A broadcast command is a task of its own: it is ignored when the account *)
(* is hosted elsewhere, and otherwise waits for the account's lock.         *)
RouteCommand(w, c) ==
  /\ Alive(w) /\ Message(c) \in received[w]
  /\ received' = [received EXCEPT ![w] =
       (@ \ {Message(c)}) \cup {m \in {[Message(c) EXCEPT !.accepted = TRUE]} : Accepts(w, c)}]
  /\ Kept
  /\ UNCHANGED <<tasks, stops, paused, beat, session, queue, job>>

DispatchCommand(w, c) ==
  /\ Alive(w) /\ job[w][c.acct] = NoJob
  /\ [Message(c) EXCEPT !.accepted = TRUE] \in received[w]
  /\ received' = [received EXCEPT ![w] = @ \ {[Message(c) EXCEPT !.accepted = TRUE]}]
  /\ job' = [job EXCEPT ![w][c.acct] = NewJob(c, 0)]
  /\ Kept
  /\ UNCHANGED <<tasks, stops, paused, beat, session, queue>>

Stage(w, a, stage) == job' = [job EXCEPT ![w][a].stage = stage]

(* _dispatch_command_locked, up to its first await.                         *)
RunCommand(w, a) ==
  /\ Alive(w) /\ job[w][a] # NoJob /\ job[w][a].stage = "run"
  /\ LET kind == job[w][a].cmd.kind
     IN  \/ /\ kind = "stop"
            /\ BeginStop(w, "command", a) /\ Stage(w, a, "stop")
            /\ UNCHANGED paused
         \/ /\ kind = "pause" /\ paused' = [paused EXCEPT ![w] = @ \cup {a}]
            /\ Stage(w, a, "write") /\ UNCHANGED <<tasks, stops>>
         \/ /\ kind = "resume" /\ paused' = [paused EXCEPT ![w] = @ \ {a}]
            /\ Stage(w, a, "write") /\ UNCHANGED <<tasks, stops>>
         \/ /\ kind = "send"
            /\ Stage(w, a, "done") /\ UNCHANGED <<tasks, stops, paused>>
  /\ Kept
  /\ UNCHANGED <<beat, session, queue, received>>

(* _set_session_status                                                      *)
WriteStatus(w, a) ==
  /\ Alive(w) /\ job[w][a] # NoJob /\ job[w][a].stage = "write"
  /\ session' = IF session[a].worker = NoWorker THEN session
                ELSE [session EXCEPT ![a].status = Status(w, a)]
  /\ Stage(w, a, "done")
  /\ Kept
  /\ UNCHANGED <<tasks, stops, paused, beat, queue, received>>

CommandStopped(w, a) ==
  /\ Alive(w) /\ job[w][a] # NoJob /\ job[w][a].stage = "stop" /\ stops[w]["command"] = NoStop
  /\ Stage(w, a, "done")
  /\ Kept
  /\ UNCHANGED <<tasks, stops, paused, beat, session, queue, received>>

(* Faulty variant: the row is found by its id alone.                        *)
MayConsumeById(w, c) == queue[c].state = "claimed"

(* _mark_worker_command_consumed: only the latest claim's owner records its *)
(* result.                                                                  *)
MayConsume(w, c) == queue[c].state = "claimed" /\ queue[c].owner = w

FinishCommand(w, a) ==
  /\ Alive(w) /\ job[w][a] # NoJob /\ job[w][a].stage = "done"
  /\ LET c == job[w][a].cmd
     IN  queue' = IF job[w][a].claim > 0 /\ MayConsume(w, c)
                  THEN [queue EXCEPT ![c].state = "done", ![c].result = job[w][a].claim]
                  ELSE queue
  /\ job' = [job EXCEPT ![w][a] = NoJob]
  /\ Kept
  /\ UNCHANGED <<tasks, stops, paused, beat, session, received>>

(* The database refuses the write: the command stays claimed.               *)
ConsumeFails(w, a) ==
  /\ Alive(w) /\ job[w][a] # NoJob /\ job[w][a].stage = "done" /\ job[w][a].claim > 0
  /\ job' = [job EXCEPT ![w][a] = NoJob]
  /\ Kept
  /\ UNCHANGED <<tasks, stops, paused, beat, session, queue, received>>

-----------------------------------------------------------------------------
(* The processes.                                                           *)
Forgotten(w) ==
  /\ stops' = [stops EXCEPT ![w] = [who \in Coroutines |-> NoStop]]
  /\ refresh' = [refresh EXCEPT ![w] = Idle]
  /\ beat' = [beat EXCEPT ![w] = NoBeat]
  /\ received' = [received EXCEPT ![w] = {}]
  /\ job' = [job EXCEPT ![w] = [a \in Accts |-> NoJob]]

(* _connect_redis is tried once, and not at all with the database backend.  *)
Starting(w, connected) ==
  /\ w \in deploy.up /\ life[w] = "down"
  /\ life' = [life EXCEPT ![w] = "up"]
  /\ linked' = [linked EXCEPT ![w] = connected]
  /\ paused' = [paused EXCEPT ![w] = {}]
  /\ UNCHANGED <<deploy, managed, business, lease, tasks, stops, refresh, beat, session,
                 queue, received, job>>

StartWorker(w) == Starting(w, deploy.backend = "redis")

StartUnconnected(w) == deploy.backend = "redis" /\ Starting(w, FALSE)

CrashWorker(w) ==
  /\ Alive(w)
  /\ life' = [life EXCEPT ![w] = "down"]
  /\ tasks' = [tasks EXCEPT ![w] = [a \in Accts |-> "none"]]
  /\ Forgotten(w)
  /\ UNCHANGED <<deploy, managed, business, lease, linked, paused, session, queue>>

(* The loops are cancelled and joined, wherever they were, the consumer of  *)
(* database commands with the command it runs.  The tasks created for Redis *)
(* commands are neither cancelled nor joined: they go on until the process  *)
(* ends.                                                                    *)
BeginShutdown(w) ==
  LET goesOn == deploy.backend = "redis"
  IN  /\ Up(w)
      /\ life' = [life EXCEPT ![w] = "closing"]
      /\ stops' = [stops EXCEPT ![w] = [who \in Coroutines |->
           IF goesOn /\ who = "command" THEN stops[w][who] ELSE NoStop]]
      /\ refresh' = [refresh EXCEPT ![w] = Idle]
      /\ beat' = [beat EXCEPT ![w] = NoBeat]
      /\ job' = IF goesOn THEN job ELSE [job EXCEPT ![w] = [a \in Accts |-> NoJob]]
      /\ UNCHANGED <<deploy, managed, business, lease, linked, tasks, paused, session,
                     queue, received>>

(* ... then every account is stopped and its session row closed.            *)
ShutdownStops(w, a) ==
  /\ life[w] = "closing" /\ tasks[w][a] # "none"
  /\ BeginStop(w, "refresh", a)
  /\ UNCHANGED <<deploy, managed, business, lease, life, linked, refresh, paused, beat,
                 session, queue, received, job>>

EndShutdown(w) ==
  /\ life[w] = "closing" /\ Hosted(w) = {} /\ stops[w]["refresh"] = NoStop
  /\ life' = [life EXCEPT ![w] = "down"]
  /\ session' = [a \in Accts |-> IF session[a].worker = w
                                 THEN [session[a] EXCEPT !.status = "stopped"] ELSE session[a]]
  /\ Forgotten(w)
  /\ UNCHANGED <<deploy, managed, business, lease, linked, tasks, paused, queue>>

(* Time: Redis expires leases, claims grow old.                             *)
Aged(l) == IF l.left <= 1 THEN NoLeaseHeld ELSE [l EXCEPT !.left = @ - 1]

FleetTick ==
  /\ lease' = [a \in Accts |-> IF lease[a].holder = NoWorker THEN lease[a] ELSE Aged(lease[a])]
  /\ queue' = [c \in Commands |-> IF queue[c].state = "claimed" /\ queue[c].age < ClaimTTL
                                  THEN [queue[c] EXCEPT !.age = @ + 1] ELSE queue[c]]
  /\ UNCHANGED <<deploy, managed, business, life, linked, tasks, stops, refresh, paused,
                 beat, session, received, job>>

Operator ==
  /\ \/ /\ \E a \in Accts : managed' = IF a \in managed THEN managed \ {a} ELSE managed \cup {a}
        /\ UNCHANGED business
     \/ business' = ~business /\ UNCHANGED managed
  /\ UNCHANGED <<deploy, lease, life, linked, tasks, stops, refresh, paused, beat, session,
                 queue, received, job>>

-----------------------------------------------------------------------------
FleetInit ==
  /\ deploy \in Deployments
  /\ managed = Accts /\ business = TRUE
  /\ lease = [a \in Accts |-> NoLeaseHeld]
  /\ life = [w \in Workers |-> "down"]
  /\ linked = [w \in Workers |-> FALSE]
  /\ tasks = [w \in Workers |-> [a \in Accts |-> "none"]]
  /\ stops = [w \in Workers |-> [who \in Coroutines |-> NoStop]]
  /\ refresh = [w \in Workers |-> Idle]
  /\ paused = [w \in Workers |-> {}]
  /\ beat = [w \in Workers |-> NoBeat]
  /\ session = [a \in Accts |-> [worker |-> NoWorker, status |-> "stopped"]]
  /\ queue = [c \in Commands |-> [state |-> "none", owner |-> NoWorker, age |-> 0,
                                  claims |-> 0, result |-> 0]]
  /\ received = [w \in Workers |-> {}]
  /\ job = [w \in Workers |-> [a \in Accts |-> NoJob]]
  /\ fleetUpsets = 0

RefreshStep(w) ==
  \/ LoadAccounts(w) \/ CompareAccounts(w) \/ RemoveUnwanted(w) \/ EndRefresh(w)
  \/ \E a \in Accts : StopNext(w, a) \/ AcquireLease(w, a) \/ ExtendLease(w, a)

CommandStep(w, a) ==
  \/ RunCommand(w, a) \/ WriteStatus(w, a) \/ CommandStopped(w, a) \/ FinishCommand(w, a)

TakeCommand(w) ==
  \E c \in Commands : ClaimCommand(w, c) \/ RouteCommand(w, c) \/ DispatchCommand(w, c)

ShutdownStep(w) == EndShutdown(w) \/ \E a \in Accts : ShutdownStops(w, a)

WorkerStep(w) ==
  \/ RefreshStep(w) \/ TakeCommand(w) \/ BeatWrite(w) \/ ShutdownStep(w)
  \/ \E who \in Coroutines : FinishStop(w, who)
  \/ \E a \in Accts : RenewLease(w, a) \/ TaskSeesNoLicence(w, a) \/ BeatRead(w, a)
                      \/ CommandStep(w, a)

FleetUpset ==
  \/ Operator
  \/ \E w \in Workers :
       \/ CrashWorker(w) \/ BeginShutdown(w) \/ StartUnconnected(w)
       \/ \E who \in Coroutines : ReleaseFails(w, who)
       \/ \E a \in Accts : AcquireFails(w, a) \/ TaskReturns(w, a) \/ ConsumeFails(w, a)

FleetNext ==
  \/ FleetTick /\ UNCHANGED fleetUpsets
  \/ (\E w \in Workers : WorkerStep(w)) /\ UNCHANGED fleetUpsets
  \/ (\E c \in Commands : PublishCommand(c)) /\ UNCHANGED fleetUpsets
  \/ (\E w \in Workers : StartWorker(w)) /\ UNCHANGED fleetUpsets
  \/ /\ fleetUpsets < deploy.upsets
     /\ fleetUpsets' = fleetUpsets + 1
     /\ FleetUpset

(* Every loop of a live process keeps running, and time passes.             *)
FleetFairness ==
  /\ WF_fleetVars(FleetTick /\ UNCHANGED fleetUpsets)
  /\ \A w \in Workers :
       /\ WF_fleetVars(RefreshStep(w) /\ UNCHANGED fleetUpsets)
       /\ WF_fleetVars(TakeCommand(w) /\ UNCHANGED fleetUpsets)
       /\ WF_fleetVars(BeatWrite(w) /\ UNCHANGED fleetUpsets)
       /\ WF_fleetVars(ShutdownStep(w) /\ UNCHANGED fleetUpsets)
       /\ \A who \in Coroutines : WF_fleetVars(FinishStop(w, who) /\ UNCHANGED fleetUpsets)
       /\ \A a \in Accts :
            /\ WF_fleetVars(RenewLease(w, a) /\ UNCHANGED fleetUpsets)
            /\ WF_fleetVars(TaskSeesNoLicence(w, a) /\ UNCHANGED fleetUpsets)
            /\ WF_fleetVars(BeatRead(w, a) /\ UNCHANGED fleetUpsets)
            /\ WF_fleetVars(CommandStep(w, a) /\ UNCHANGED fleetUpsets)

FleetSpec == FleetInit /\ [][FleetNext]_fleetVars /\ FleetFairness

-----------------------------------------------------------------------------
(* Properties.                                                              *)

(* Invariant: the result on a consumed command is that of the latest claim: *)
(* an execution whose claim went stale never overwrites its successor.      *)
ResultOfLatestClaim ==
  \A c \in Commands : queue[c].state = "done" => queue[c].result = queue[c].claims

(* Every process that runs is bound by the leases, or none is and each     *)
(* account is in the shard of one process.                                  *)
Coordinated ==
  IF deploy.leases THEN \A w \in Workers : Alive(w) => linked[w]
  ELSE \A v, w \in Workers : v # w => deploy.owns[v] \cap deploy.owns[w] = {}

OneHostEach == \A a \in Accts : Cardinality(Running(a)) <= 1

(* Temporal property: two processes that have their connection to Redis     *)
(* never keep running one account, even after a lapsed lease, a Redis that  *)
(* fails for a while or a stop that raced a restart.                        *)
DoubleHostingEnds == <>[]Coordinated => []<>OneHostEach

(* Temporal property: the same of every fleet with leases, as lease.py says *)
(* of them: "one account is hosted by one worker at a time".  A process     *)
(* that found no Redis when it started breaks it for good.                  *)
LeasesKeepOneHost == deploy.leases => []<>OneHostEach

(* Temporal property: an account that stays managed is hosted again and     *)
(* again, whichever process died while it held the account's lease.         *)
ManagedAccountsAreHosted ==
  \A a \in Accts :
    <>[](business /\ \E w \in Workers : Up(w) /\ a \in Wanted(w)) => []<>(Running(a) # {})

(* Temporal property: the panel comes to show what the host of an account   *)
(* does with it, also after a heartbeat that had read the status before a   *)
(* pause or a resume wrote its own over the command's.                      *)
PanelShowsTheHost ==
  \A w \in Workers, a \in Accts :
    <>[](Up(w) /\ tasks[w][a] # "none" /\ \A v \in Workers \ {w} : tasks[v][a] = "none")
      => []<>(/\ session[a].worker = w
              /\ session[a].status = "paused" <=> a \in paused[w])

(* Temporal property: without a licence every account stops for good.       *)
UnlicensedFleetStops ==
  <>[](~business) => <>[](\A a \in Accts : Running(a) = {})
=============================================================================
