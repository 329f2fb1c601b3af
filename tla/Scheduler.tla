------------------------------ MODULE Scheduler ------------------------------
(* The task scheduler: the SchedulerJob table, the in-memory APScheduler of *)
(* the one process that runs it, and the request handlers.  The scheduler   *)
(* runs in the web process, whose handlers keep its entries up to date, or  *)
(* in a process of its own (start_scheduler.py), which looks for new rows   *)
(* now and then.  A row names its entry in the scheduler by its code.       *)
EXTENDS Integers, FiniteSets

CONSTANTS
  Jobs, Codes,
  Requests,     \* request handlers that may run at once
  HostedJobs,   \* the jobs whose function _should_skip_job keeps out
  Wanted,       \* the rows that requests may ask for
  InProcess,    \* whether the scheduler runs in the web process
  AtomicRequests, \* whether the database is configured with ATOMIC_REQUESTS
  NoJob, NoPlan, NoRequest,
  MaxEdits      \* bound: requests, clean-ups and stops ever begun

VARIABLES
  jobs,      \* committed rows of SchedulerJob
  planned,   \* APScheduler's jobs, by code
  alive,     \* whether it is running
  loading,   \* rows that start or a synchronisation has read, not yet added
  syncing,   \* whether _sync_new_jobs runs periodically
  fresh,     \* rows inserted since _last_sync_time
  works,     \* the handlers under way
  running,   \* codes of the jobs that execute now
  cleaning,  \* one-time jobs being cleaned up
  edits,     \* how many requests have begun (only for the bound)
  strayed    \* history: codes whose row and entry were touched in a way the
             \* code does not keep together (see ScheduleMatchesTable)

schedulerVars ==
  <<jobs, planned, alive, loading, syncing, fresh, works, running, cleaning, edits, strayed>>

Statuses == {"disabled", "enabled", "paused"}

(* sound: whether add_job finds the row's function, trigger and arguments.  *)
(* It refuses any other row, and none of its callers looks at its answer.   *)
JobRows == [code : Codes, status : Statuses, once : BOOLEAN, sound : BOOLEAN]

Plans == [paused : BOOLEAN, once : BOOLEAN]

Works == [kind : {"create", "update", "delete"} \cup Statuses, tasks : SUBSET Jobs,
          row : JobRows \cup {NoJob}, todo : SUBSET Jobs, written : SUBSET Jobs]

ASSUME SchedulerParameters ==
  /\ HostedJobs \subseteq Jobs /\ MaxEdits \in Nat
  /\ Wanted \subseteq JobRows /\ {InProcess, AtomicRequests} \subseteq BOOLEAN
  /\ NoJob \notin JobRows /\ NoPlan \notin Plans /\ NoRequest \notin Works

Entry(row) == [paused |-> FALSE, once |-> row.once]

Exists(t) == jobs[t] # NoJob

(* Transactions that have written row t and not committed.                  *)
LockedBy(t) == {r \in Requests : works[r] # NoRequest /\ t \in works[r].written}

(* Without ATOMIC_REQUESTS every statement commits at once and holds no lock. *)
RowFree(t) == AtomicRequests => LockedBy(t) = {}

WorksOn(t) == {r \in Requests : works[r] # NoRequest /\ t \in works[r].tasks}

(* The codes that are at stake in what is under way on t.                   *)
CodesAt(t) ==
  (IF Exists(t) THEN {jobs[t].code} ELSE {})
    \cup {works[r].row.code : r \in {s \in WorksOn(t) : works[s].row # NoJob}}
    \cup {item.code : item \in {i \in cleaning : i.task = t}}

Deletes(t) ==
  \/ \E r \in WorksOn(t) : works[r].kind = "delete"
  \/ \E item \in cleaning : item.task = t

UniqueCode(t, row) == \A u \in Jobs \ {t} : Exists(u) => jobs[u].code # row.code

(* Codes of other transactions' uncommitted rows: an insert or update that  *)
(* would repeat one waits for its transaction.                              *)
CodeFree(t, row) ==
  \A r \in Requests :
    AtomicRequests /\ works[r] # NoRequest /\ works[r].row # NoJob
    /\ t \notin works[r].tasks /\ works[r].written # {}
      => works[r].row.code # row.code

NewStatus(t, status) == [jobs[t] EXCEPT !.status = status]

AtOnce(rows) == jobs' = IF AtomicRequests THEN jobs ELSE rows

(* The entries that are kept up to date by requests.                        *)
KeepsPlans == InProcess /\ alive

-----------------------------------------------------------------------------
(* The requests.  Every one starts with what it read.  A process apart is   *)
(* told of no change.                                                       *)
Begin(r, kind, tasks, row, written) ==
  /\ works[r] = NoRequest /\ edits < MaxEdits
  /\ edits' = edits + 1
  /\ works' = [works EXCEPT ![r] =
       [kind |-> kind, tasks |-> tasks, row |-> row,
        todo |-> tasks, written |-> written]]
  /\ strayed' = strayed
       \cup {item.code : item \in {i \in cleaning : row # NoJob /\ i.code = row.code}}
       \cup UNION {
         CodesAt(t) \cup (IF row = NoJob THEN {} ELSE {row.code}) :
           t \in {u \in tasks : \/ Deletes(u) \/ \E item \in loading : item.task = u
                                \/ kind = "delete" /\ WorksOn(u) # {}
                                \/ kind # "create" /\ ~InProcess}}
  /\ UNCHANGED <<planned, alive, loading, syncing, fresh, running, cleaning>>

(* create_scheduler_job: the code is looked up before the row is inserted.  *)
CreateJob(r, t, row) ==
  /\ ~Exists(t) /\ WorksOn(t) = {} /\ UniqueCode(t, row)
  /\ Begin(r, "create", {t}, row, {})
  /\ UNCHANGED jobs

(* update_scheduler_job and patch_scheduler_job: the row is loaded, changed *)
(* in memory, and every column of it saved.                                 *)
UpdateJob(r, t, row) ==
  /\ Exists(t) /\ UniqueCode(t, row)
  /\ Begin(r, "update", {t}, row, {})
  /\ UNCHANGED jobs

(* batch_update_scheduler_job_status: one UPDATE that locks what it finds.  *)
BatchStatus(r, tasks, status) ==
  LET found == {t \in tasks : Exists(t)}
  IN  /\ found # {} /\ \A t \in found : RowFree(t)
      /\ Begin(r, status, found, NoJob, found)
      /\ AtOnce([t \in Jobs |-> IF t \in found THEN NewStatus(t, status) ELSE jobs[t]])

(* delete_scheduler_job and delete_batch_scheduler_job.                     *)
DeleteJobs(r, tasks) ==
  /\ tasks # {} /\ \A t \in tasks : Exists(t)
  /\ Begin(r, "delete", tasks, NoJob, {})
  /\ UNCHANGED jobs

Saves(r) == works[r] # NoRequest /\ works[r].kind \in {"create", "update"}
Switches(r) == works[r] # NoRequest /\ works[r].row = NoJob /\ works[r].kind # "delete"

WorkKept == UNCHANGED <<alive, loading, syncing, running, cleaning, edits>>

(* The old code of a row that is renamed: its entry is left behind.         *)
OldCode(r, t) ==
  IF Exists(t) /\ Saves(r) /\ jobs[t].code # works[r].row.code THEN {jobs[t].code} ELSE {}

(* save, or the insert of create: waits for the row's lock.  A code that    *)
(* was taken meanwhile ends the request; a row that was deleted meanwhile   *)
(* is inserted again.                                                       *)
SaveRow(r, t) ==
  /\ Saves(r) /\ t \in works[r].tasks \ works[r].written
  /\ RowFree(t) /\ CodeFree(t, works[r].row)
  /\ \/ /\ UniqueCode(t, works[r].row)
        /\ works' = [works EXCEPT ![r].written = @ \cup {t}]
        /\ AtOnce([jobs EXCEPT ![t] = works[r].row])
        /\ fresh' = IF InProcess \/ works[r].kind # "create" THEN fresh ELSE fresh \cup {t}
        /\ strayed' = IF AtomicRequests THEN strayed ELSE strayed \cup OldCode(r, t)
     \/ /\ ~UniqueCode(t, works[r].row)
        /\ works' = [works EXCEPT ![r] = NoRequest]
        /\ UNCHANGED <<jobs, fresh, strayed>>
  /\ UNCHANGED planned /\ WorkKept

(* The row a request commits, or has committed.                             *)
Written(r, t) ==
  IF Saves(r) THEN works[r].row
  ELSE IF AtomicRequests THEN NewStatus(t, works[r].kind) ELSE jobs[t]

(* Faulty variant: modify_job leaves the entry of a row that is not enabled. *)
PlanAfterEnabling(r, row) ==
  IF row.status = "enabled" /\ row.sound THEN Entry(row) ELSE planned[row.code]

(* modify_job removes the entry of the row's code and adds it again when    *)
(* the row is enabled; create and batch only add, pause or remove.  A row   *)
(* that add_job refuses gets no entry.                                      *)
PlanAfter(r, row) ==
  IF row.status = "enabled" /\ row.sound THEN Entry(row)
  ELSE IF works[r].kind = "create" THEN planned[row.code]
  ELSE IF row.status = "enabled" /\ Switches(r) THEN planned[row.code]
  ELSE IF row.status = "paused" /\ Switches(r) /\ planned[row.code] # NoPlan
    THEN [planned[row.code] EXCEPT !.paused = TRUE]
  ELSE NoPlan

SyncPlan(r, t) ==
  /\ Saves(r) \/ Switches(r)
  /\ t \in works[r].todo \cap works[r].written
  /\ works' = [works EXCEPT ![r].todo = @ \ {t}]
  /\ LET row == Written(r, t)
     IN  planned' = IF KeepsPlans /\ row # NoJob
                    THEN [planned EXCEPT ![row.code] = PlanAfter(r, row)] ELSE planned
  /\ UNCHANGED <<jobs, fresh, strayed>> /\ WorkKept

(* delete: the entry is removed first, then the row is deleted.             *)
DropPlan(r, t) ==
  /\ works[r] # NoRequest /\ works[r].kind = "delete" /\ t \in works[r].todo
  /\ works' = [works EXCEPT ![r].todo = @ \ {t}]
  /\ planned' = IF KeepsPlans /\ Exists(t)
                THEN [planned EXCEPT ![jobs[t].code] = NoPlan] ELSE planned
  /\ UNCHANGED <<jobs, fresh, strayed>> /\ WorkKept

DeleteRow(r, t) ==
  /\ works[r] # NoRequest /\ works[r].kind = "delete"
  /\ t \in works[r].tasks \ (works[r].todo \cup works[r].written)
  /\ RowFree(t)
  /\ works' = [works EXCEPT ![r].written = @ \cup {t}]
  /\ AtOnce([jobs EXCEPT ![t] = NoJob])
  /\ UNCHANGED <<planned, fresh, strayed>> /\ WorkKept

(* The end of a request, and with ATOMIC_REQUESTS its commit.               *)
Commit(r) ==
  /\ works[r] # NoRequest /\ works[r].todo = {} /\ works[r].written = works[r].tasks
  /\ AtomicRequests =>
       /\ jobs' = [t \in Jobs |-> IF t \notin works[r].tasks THEN jobs[t]
                                  ELSE IF works[r].kind = "delete" THEN NoJob
                                  ELSE Written(r, t)]
       /\ strayed' = strayed \cup UNION {OldCode(r, t) : t \in works[r].tasks}
  /\ ~AtomicRequests => UNCHANGED <<jobs, strayed>>
  /\ works' = [works EXCEPT ![r] = NoRequest]
  /\ UNCHANGED <<planned, fresh>> /\ WorkKept

(* An error ends a request, or its commit fails: with ATOMIC_REQUESTS the   *)
(* rows are as they were, but nobody takes the entries back.                *)
Touched(r) ==
  (works[r].tasks \ works[r].todo) \cup (IF AtomicRequests THEN {} ELSE works[r].written)

Abort(r) ==
  /\ works[r] # NoRequest
  /\ strayed' = strayed \cup UNION {CodesAt(t) : t \in Touched(r)}
  /\ works' = [works EXCEPT ![r] = NoRequest]
  /\ UNCHANGED <<jobs, planned, fresh>> /\ WorkKept

(* execute_scheduler_job: run_job_now gives the entry a next run time, which *)
(* also resumes a paused one.                                               *)
ExecuteNow(t) ==
  /\ KeepsPlans /\ Exists(t) /\ planned[jobs[t].code] # NoPlan
  /\ planned' = [planned EXCEPT ![jobs[t].code].paused = FALSE]
  /\ strayed' = IF planned[jobs[t].code].paused THEN strayed \cup {jobs[t].code} ELSE strayed
  /\ UNCHANGED <<jobs, fresh, works>> /\ WorkKept

-----------------------------------------------------------------------------
UnderWay(t) == WorksOn(t) # {} \/ Deletes(t)

(* What a scan of the table for enabled rows adds one by one.               *)
Added(tasks) ==
  {[task |-> t, row |-> jobs[t]] :
     t \in {u \in tasks \ HostedJobs : Exists(u) /\ jobs[u].status = "enabled"}}

(* start runs the scheduler, which has no entries, and then adds the enabled *)
(* rows it reads.                                                           *)
StartScheduler ==
  /\ ~alive /\ alive' = TRUE
  /\ loading' = Added(Jobs)
  /\ syncing' = FALSE /\ fresh' = {}
  /\ strayed' = UNION {CodesAt(t) : t \in {u \in Jobs : UnderWay(u)}}
  /\ UNCHANGED <<jobs, planned, works, running, cleaning, edits>>

LoadJob(item) ==
  /\ loading' = loading \ {item}
  /\ planned' = IF alive /\ item.row.sound
                THEN [planned EXCEPT ![item.row.code] = Entry(item.row)] ELSE planned
  /\ UNCHANGED <<jobs, alive, syncing, fresh, works, running, cleaning, edits, strayed>>

SyncKept == UNCHANGED <<jobs, planned, alive, works, running, cleaning, edits>>

(* enable_job_sync looks for rows created from now on: a row created while  *)
(* start was adding the others is not found.                                *)
EnableSync ==
  /\ ~InProcess /\ alive /\ ~syncing /\ loading = {}
  /\ syncing' = TRUE /\ fresh' = {}
  /\ strayed' = strayed \cup UNION {CodesAt(t) : t \in fresh}
  /\ UNCHANGED loading /\ SyncKept

(* _sync_new_jobs: rows created since the last time whose code has no entry. *)
(* A row whose insert is not committed now is older than the next time.     *)
SyncNewJobs ==
  /\ alive /\ syncing /\ loading = {}
  /\ loading' = Added({t \in fresh : Exists(t) => planned[jobs[t].code] = NoPlan})
  /\ fresh' = {}
  /\ strayed' = strayed \cup UNION {CodesAt(t) : t \in {u \in fresh : UnderWay(u)}}
  /\ UNCHANGED syncing /\ SyncKept

(* A shutdown forgets every entry and waits for what runs.                  *)
ShutdownScheduler ==
  /\ alive /\ alive' = FALSE
  /\ planned' = [c \in Codes |-> NoPlan]
  /\ loading' = {} /\ syncing' = FALSE
  /\ edits < MaxEdits /\ edits' = edits + 1
  /\ UNCHANGED <<jobs, fresh, works, running, cleaning, strayed>>

(* The process dies, with the requests when they are its own.               *)
CrashScheduler ==
  /\ alive /\ alive' = FALSE
  /\ planned' = [c \in Codes |-> NoPlan]
  /\ loading' = {} /\ syncing' = FALSE /\ running' = {} /\ cleaning' = {}
  /\ works' = IF InProcess THEN [r \in Requests |-> NoRequest] ELSE works
  /\ edits < MaxEdits /\ edits' = edits + 1
  /\ UNCHANGED <<jobs, fresh, strayed>>

(* A trigger fires, at most one instance of a job at a time; a one-time     *)
(* entry is gone once it has been submitted.                                *)
Fire(c) ==
  /\ alive /\ planned[c] # NoPlan /\ ~planned[c].paused /\ c \notin running
  /\ running' = running \cup {c}
  /\ planned' = IF planned[c].once THEN [planned EXCEPT ![c] = NoPlan] ELSE planned
  /\ UNCHANGED <<jobs, alive, loading, syncing, fresh, works, cleaning, edits, strayed>>

Cleanup(t) ==
  /\ cleaning' = cleaning \cup {[task |-> t, code |-> jobs[t].code, removed |-> FALSE]}
  /\ strayed' = IF \/ WorksOn(t) # {} \/ \E item \in loading : item.task = t
                   \/ \E r \in Requests : works[r] # NoRequest /\ works[r].row # NoJob
                                         /\ works[r].row.code = jobs[t].code
                THEN strayed \cup CodesAt(t) ELSE strayed

(* _job_executed_listener: a row that is a one-time job by now is cleaned up, *)
(* unless the listener fails before.                                        *)
EndRun(c) ==
  /\ c \in running
  /\ running' = running \ {c}
  /\ \/ UNCHANGED <<cleaning, strayed>>
     \/ \E t \in Jobs : Exists(t) /\ jobs[t].code = c /\ jobs[t].once /\ Cleanup(t)
  /\ UNCHANGED <<jobs, planned, alive, loading, syncing, fresh, works, edits>>

(* cleanup_expired_jobs, of a one-time job whose date has long passed.      *)
ExpireJob(t) ==
  /\ alive /\ Exists(t) /\ jobs[t].once /\ edits < MaxEdits
  /\ edits' = edits + 1
  /\ Cleanup(t)
  /\ UNCHANGED <<jobs, planned, alive, loading, syncing, fresh, works, running>>

CleanPlan(item) ==
  /\ ~item.removed
  /\ planned' = [planned EXCEPT ![item.code] = NoPlan]
  /\ cleaning' = (cleaning \ {item}) \cup {[item EXCEPT !.removed = TRUE]}
  /\ UNCHANGED <<jobs, alive, loading, syncing, fresh, works, running, edits, strayed>>

CleanRow(item) ==
  /\ item.removed /\ RowFree(item.task)
  /\ jobs' = [jobs EXCEPT ![item.task] = NoJob]
  /\ cleaning' = cleaning \ {item}
  /\ UNCHANGED <<planned, alive, loading, syncing, fresh, works, running, edits, strayed>>

(* An error ends a clean-up: the row stays, perhaps without its entry.      *)
CleanFails(item) ==
  /\ cleaning' = cleaning \ {item}
  /\ strayed' = strayed \cup CodesAt(item.task)
  /\ UNCHANGED <<jobs, planned, alive, loading, syncing, fresh, works, running, edits>>

-----------------------------------------------------------------------------
SchedulerInit ==
  /\ jobs = [t \in Jobs |-> NoJob]
  /\ planned = [c \in Codes |-> NoPlan]
  /\ alive = FALSE /\ loading = {} /\ syncing = FALSE /\ fresh = {} /\ running = {} /\ cleaning = {}
  /\ works = [r \in Requests |-> NoRequest]
  /\ edits = 0 /\ strayed = {}

SchedulerNext ==
  \/ \E r \in Requests, t \in Jobs :
       \/ \E row \in Wanted : CreateJob(r, t, row) \/ UpdateJob(r, t, row)
       \/ SaveRow(r, t) \/ SyncPlan(r, t) \/ DropPlan(r, t) \/ DeleteRow(r, t)
  \/ \E r \in Requests, tasks \in SUBSET Jobs :
       DeleteJobs(r, tasks) \/ \E s \in Statuses : BatchStatus(r, tasks, s)
  \/ \E r \in Requests : Commit(r) \/ Abort(r)
  \/ \E t \in Jobs : ExecuteNow(t) \/ ExpireJob(t)
  \/ \E c \in Codes : Fire(c) \/ EndRun(c)
  \/ StartScheduler \/ EnableSync \/ SyncNewJobs \/ ShutdownScheduler \/ CrashScheduler
  \/ \E item \in loading : LoadJob(item)
  \/ \E item \in cleaning : CleanPlan(item) \/ CleanRow(item) \/ CleanFails(item)

SchedulerSpec == SchedulerInit /\ [][SchedulerNext]_schedulerVars

AtRest ==
  /\ alive /\ loading = {} /\ cleaning = {} /\ fresh = {}
  /\ \A r \in Requests : works[r] = NoRequest

(* What must have an entry: a one-time job may have had its turn.           *)
Needs(row) == row.status = "enabled" /\ row.sound /\ ~row.once

Fits(plan, row) ==
  /\ row.sound /\ plan.once = row.once
  /\ row.status = (IF plan.paused THEN "paused" ELSE "enabled")

(* Invariant: once every request, load and clean-up has ended, what is      *)
(* scheduled is what the table says, however requests for the same jobs     *)
(* overlapped and the scheduler was restarted.  It needs ATOMIC_REQUESTS:   *)
(* without, two requests may change row and entry in different orders.  An  *)
(* enabled row that add_job refuses has no entry.  Excepted, until the next *)
(* start, are the codes of a row that was renamed, was deleted or loaded    *)
(* while another request worked on it, or was executed by hand while        *)
(* paused; the codes of a request or clean-up that failed after it had      *)
(* touched their entries; and, with the scheduler in a process apart, those *)
(* of rows that were changed, or whose creation was under way during a      *)
(* synchronisation.                                                         *)
ScheduleMatchesTable ==
  AtRest => \A c \in Codes \ strayed :
    /\ planned[c] # NoPlan =>
         \E t \in Jobs : Exists(t) /\ jobs[t].code = c /\ Fits(planned[c], jobs[t])
    /\ \A t \in Jobs \ HostedJobs :
         Exists(t) /\ jobs[t].code = c /\ Needs(jobs[t]) => planned[c] # NoPlan
=============================================================================
