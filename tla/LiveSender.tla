----------------------------- MODULE LiveSender -----------------------------
(***************************************************************************)
(* How the agent sends: works dispatched per account (supervisor.rs,       *)
(* executor.rs), the segments of a batch in order (messaging.rs,           *)
(* run_send), and one attempt with its checks, claim, request and outcome  *)
(* (live_sender.rs), over the store and against the platform.              *)
(*                                                                         *)
(* A work is a future that yields at every await and may be dropped there, *)
(* by a control change or its timeout. What it had handed to the blocking  *)
(* pool still runs: `jobs'. Any number of processes run, one per owner,    *)
(* each with its own idea of who owns an account.                          *)
(***************************************************************************)
EXTENDS CoreStore

CONSTANTS
  Permissions,   \* bound: what lifecycle and ownership of an account permit
  MaxWorks       \* bound: works one process dispatches for an account

ASSUME LiveAssumption ==
  /\ Permissions \subseteq {"none", "manual", "all"}
  /\ MaxWorks \in Nat
  /\ MaxTime + Slack >= 1    \* the instant of a receipt, in Reconcile

VARIABLES
  held,      \* the leases a process installed: an epoch, 0 for none
  grant,     \* its published authorization: the token's epoch, 0 for none
  control,   \* its AccountControl, which works watch
  works,     \* works dispatched so far; names the current one
  task,      \* the work being executed
  jobs,      \* closures in the blocking pool
  requests   \* every request ever put on the wire, with what became of it

storeVars == vars
ownerVars == <<held, grant, control>>
liveVars == <<storeVars, ownerVars, works, task, jobs, requests>>

(* The watched facts: the epoch, the kinds of sends that lifecycle and     *)
(* ownership permit, and whether the send capability is not against it.    *)
Control == [epoch : 0..MaxEpoch, permits : Permissions \cup {"none"}, capable : BOOLEAN]

Idle == [pc |-> "idle", work |-> 0, trigger |-> NoTrigger, epoch |-> 0,
         todo |-> {}, digest |-> NoDigest, outcome |-> <<"none", "unknown">>]

LiveInit ==
  /\ Init
  /\ held = [o \in Owners |-> [a \in Accounts |-> 0]]
  /\ grant = [o \in Owners |-> [a \in Accounts |-> 0]]
  /\ control = [o \in Owners |-> [a \in Accounts |->
       [epoch |-> 0, permits |-> "none", capable |-> TRUE]]]
  /\ works = [o \in Owners |-> [a \in Accounts |-> 0]]
  /\ task = [o \in Owners |-> [a \in Accounts |-> Idle]]
  /\ jobs = {}
  /\ requests = {}

TokenOf(o, epoch) == [owner |-> o, epoch |-> epoch]

-----------------------------------------------------------------------------
(* Ownership as a process sees it (hosted.rs): the store first, then the   *)
(* control, then the authorization; backwards when it is lost.             *)

Install(o, a) ==
  /\ \E epoch \in Epochs, until \in LeaseEnds : /\ InstallLease(a, o, epoch, until)
                                                /\ held' = [held EXCEPT ![o][a] = epoch]
  /\ UNCHANGED <<grant, control, works, task, jobs, requests>>

PublishOwnership(o, a) ==
  /\ held[o][a] > 0
  /\ control[o][a].epoch # held[o][a]
  /\ control' = [control EXCEPT ![o][a].epoch = held[o][a]]
  /\ UNCHANGED <<storeVars, held, grant, works, task, jobs, requests>>

PublishGrant(o, a) ==
  /\ held[o][a] > 0
  /\ control[o][a].epoch = held[o][a]
  /\ grant' = [grant EXCEPT ![o][a] = held[o][a]]
  /\ UNCHANGED <<storeVars, held, control, works, task, jobs, requests>>

(* Removed, cleared, or past its deadline.                                 *)
DropGrant(o, a) ==
  /\ grant[o][a] > 0
  /\ grant' = [grant EXCEPT ![o][a] = 0]
  /\ UNCHANGED <<storeVars, held, control, works, task, jobs, requests>>

(* invalidate_account_lease is a no-op on another owner's row.             *)
ReleaseLocal(o, a) ==
  /\ grant[o][a] = 0
  /\ held[o][a] > 0
  /\ \/ InvalidateLease(a, TokenOf(o, held[o][a]))
     \/ /\ ~(lease[a].status = "active" /\ lease[a].owner = o /\ lease[a].epoch = held[o][a])
        /\ UNCHANGED storeVars
  /\ held' = [held EXCEPT ![o][a] = 0]
  /\ UNCHANGED <<grant, control, works, task, jobs, requests>>

(* Ownership lost or regained, automatic replies paused, draining.         *)
ChangePermission(o, a) ==
  /\ \E permits \in Permissions \ {control[o][a].permits} :
       control' = [control EXCEPT ![o][a].permits = permits]
  /\ UNCHANGED <<storeVars, held, grant, works, task, jobs, requests>>

OwnerNext(o, a) ==
  \/ Install(o, a) \/ PublishOwnership(o, a) \/ PublishGrant(o, a)
  \/ DropGrant(o, a) \/ ReleaseLocal(o, a) \/ ChangePermission(o, a)

-----------------------------------------------------------------------------
(* What a process does with its authorization besides sending.             *)

OwnToken(o, a) == TokenOf(o, grant[o][a])

Submit(o, a) ==
  /\ grant[o][a] > 0
  /\ \E trigger \in ManualTriggers, response \in Responses :
       /\ SegmentCount[response] = 1
       /\ PrepareOutboundBatch(a, OwnToken(o, a), trigger, response)
  /\ UNCHANGED <<ownerVars, works, task, jobs, requests>>

PlanReply(o, a) ==
  /\ grant[o][a] > 0
  /\ InboundNext(a, OwnToken(o, a))
  /\ UNCHANGED <<ownerVars, works, task, jobs, requests>>

Attemptable == {"unknown", "sendable"}

(* initialize_identity: the verified credential and its last observation.  *)
Identify(o, a) ==
  /\ grant[o][a] > 0
  /\ \E digest \in Digests :
       /\ RestoreSendObservation(a, OwnToken(o, a), digest)
       /\ control' = [control EXCEPT
            ![o][a].capable = RestoredCapability(a, digest) \in Attemptable]
  /\ UNCHANGED <<held, grant, works, task, jobs, requests>>

RequestOf(a, trigger, i) ==
  {r \in requests : r.account = a /\ r.trigger = trigger /\ r.ordinal = i}

(* run_reconcile finds a delivered message in the account's own inbox.     *)
Reconcile(o, a, trigger, i) ==
  /\ grant[o][a] > 0
  /\ \E r \in RequestOf(a, trigger, i) :
       /\ r.fate = "delivered"
       /\ ReconcileSentReceipts(a, OwnToken(o, a),
            [id \in {<<trigger, i>>} |-> [platformId |-> r.platformId, sentAt |-> 1]])
  /\ UNCHANGED <<ownerVars, works, task, jobs, requests>>

ProcessNext(o, a) ==
  \/ Submit(o, a) \/ PlanReply(o, a) \/ Identify(o, a)
  \/ \E trigger \in Triggers, i \in Ordinals : Reconcile(o, a, trigger, i)

-----------------------------------------------------------------------------
(* The work of a process on an account.                                    *)

Automatic(trigger) == trigger \in Events

(* AccountControl::allows, without and with the send capability.           *)
Permits(c, trigger) == c.permits = "all" \/ (c.permits = "manual" /\ ~Automatic(trigger))

Allows(c, trigger) == Permits(c, trigger) /\ c.capable

(* execute_guarded drops the future before it polls it again otherwise.    *)
MaySettle(o, a) ==
  /\ control[o][a].epoch = task[o][a].epoch
  /\ Permits(control[o][a], task[o][a].trigger)

At(o, a, pc) == task[o][a].pc = pc /\ MaySettle(o, a)

(* send_allowed; the deadline may refuse as well.                          *)
SendAllowed(o, a) ==
  /\ control[o][a].epoch = task[o][a].epoch
  /\ Allows(control[o][a], task[o][a].trigger)

Least(S) == CHOOSE i \in S : \A j \in S : i <= j

Current(o, a) == Least(task[o][a].todo)

CurrentSegment(o, a) == outbox[a][task[o][a].trigger].segs[Current(o, a)]

(* A closure of work w: what it captured when it was handed over.          *)
Job(o, a, w, op) ==
  [owner |-> o, account |-> a, op |-> op, work |-> w.work, trigger |-> w.trigger,
   epoch |-> w.epoch, todo |-> w.todo, digest |-> w.digest, outcome |-> w.outcome,
   platformId |-> NoPlatformId]

Goto(o, a, pc) == task' = [task EXCEPT ![o][a].pc = pc]

End(o, a) == task' = [task EXCEPT ![o][a] = Idle]

Submits(o, a, op, pc) ==
  /\ jobs' = jobs \cup {Job(o, a, task[o][a], op)}
  /\ Goto(o, a, pc)

(* cancel_tail: under the current fence only, an error otherwise.          *)
CancelTail(o, a) ==
  IF grant[o][a] = task[o][a].epoch
  THEN Submits(o, a, "cancel", "cancelling")
  ELSE Goto(o, a, "failed") /\ UNCHANGED jobs

(* The handler returned an error: that of a manual send is followed by     *)
(* cancel_prepared_if_current.                                             *)
EndInError(o, a) ==
  IF ~Automatic(task[o][a].trigger) /\ grant[o][a] = task[o][a].epoch
  THEN Submits(o, a, "cancel_first", "cancelling")
  ELSE End(o, a) /\ UNCHANGED jobs

Dispatch(o, a) ==
  /\ task[o][a] = Idle
  /\ works[o][a] < MaxWorks
  /\ control[o][a].epoch > 0
  /\ \E trigger \in Unfinished(a) :
       /\ Allows(control[o][a], trigger)
       /\ task' = [task EXCEPT ![o][a] =
            [Idle EXCEPT !.pc = "reading", !.work = works[o][a] + 1,
                         !.trigger = trigger, !.epoch = control[o][a].epoch]]
  /\ works' = [works EXCEPT ![o][a] = @ + 1]
  /\ UNCHANGED <<storeVars, ownerVars, jobs, requests>>

(* The future is dropped: its timeout, or a control that forbids it.       *)
Drop(o, a) ==
  /\ task[o][a] # Idle
  /\ End(o, a)
  /\ UNCHANGED <<storeVars, ownerVars, works, jobs, requests>>

(* run_send reads the batch once; the segments to send are those of then.  *)
ReadBatch(o, a) ==
  LET segs == outbox[a][task[o][a].trigger].segs
  IN  /\ At(o, a, "reading")
      /\ IF StatusesOf(segs) \cap {"sending", "uncertain"} # {}
         THEN EndInError(o, a)
         ELSE IF "rejected" \in StatusesOf(segs)
         THEN CancelTail(o, a)
         ELSE /\ task' = [task EXCEPT ![o][a].pc = "preparing",
                   ![o][a].todo = {i \in DOMAIN segs : segs[i].status # "confirmed"}]
              /\ UNCHANGED jobs
      /\ UNCHANGED <<storeVars, ownerVars, works, requests>>

(* send_admission defers or cancels, or the preparation fails.             *)
GiveUp(o, a) ==
  /\ At(o, a, "preparing")
  /\ \/ CancelTail(o, a)
     \/ EndInError(o, a)
     \/ End(o, a) /\ Automatic(task[o][a].trigger) /\ UNCHANGED jobs
  /\ UNCHANGED <<storeVars, ownerVars, works, requests>>

(* prepare_operation, then LiveSender::send up to the signature. The first *)
(* check is repeated before the claim.                                     *)
PrepareSegment(o, a) ==
  /\ At(o, a, "preparing")
  /\ IF task[o][a].todo = {}
     THEN End(o, a) /\ UNCHANGED jobs
     ELSE /\ proto[a].digest # NoDigest
          /\ IF /\ grant[o][a] = task[o][a].epoch
                /\ SendAllowed(o, a)
                /\ CurrentSegment(o, a).status \in {"prepared", "retryable"}
             THEN /\ task' = [task EXCEPT ![o][a].pc = "signed", ![o][a].digest = proto[a].digest]
                  /\ UNCHANGED jobs
             ELSE EndInError(o, a)
  /\ UNCHANGED <<storeVars, ownerVars, works, requests>>

ClaimSegment(o, a) ==
  /\ At(o, a, "signed")
  /\ \/ /\ SendAllowed(o, a)
        /\ Submits(o, a, "start", "claiming")
     \/ EndInError(o, a)
  /\ UNCHANGED <<storeVars, ownerVars, works, requests>>

(* The last check and the request are one poll of the future.              *)
Post(o, a) ==
  /\ At(o, a, "claimed")
  /\ SendAllowed(o, a)
  /\ requests' = requests \cup
       {[account |-> a, trigger |-> task[o][a].trigger, ordinal |-> Current(o, a),
         owner |-> o, work |-> task[o][a].work, fate |-> "sent",
         platformId |-> NoPlatformId]}
  /\ Goto(o, a, "posting")
  /\ UNCHANGED <<storeVars, ownerVars, works, jobs>>

Persist(o, a, outcome, platformId) ==
  /\ jobs' = jobs \cup {[Job(o, a, task[o][a], "persist")
                            EXCEPT !.outcome = outcome, !.platformId = platformId]}
  /\ task' = [task EXCEPT ![o][a].pc = "persisting", ![o][a].outcome = outcome]

(* Control or deadline refuse the claimed attempt: nothing was sent.       *)
RejectUnsent(o, a) ==
  /\ At(o, a, "claimed")
  /\ Persist(o, a, <<"reject", "none">>, NoPlatformId)
  /\ UNCHANGED <<storeVars, ownerVars, works, requests>>

(* Faulty variant: a request that was not answered was not delivered.      *)
RejectsUnanswered(fate) ==
  IF fate = "delivered" THEN {<<"confirm", "sendable">>}
  ELSE {o \in SenderOutcome : o[1] = "reject"}

(* The classified answer: the platform's verdict, or not knowing it.       *)
OutcomesOf(fate) ==
  {<<"mark_uncertain", "unknown">>} \cup
  CASE fate = "delivered" -> {<<"confirm", "sendable">>}
    [] fate = "refused" -> {o \in SenderOutcome : o[1] = "reject"}
    [] OTHER -> {}

Answered(o, a) ==
  /\ At(o, a, "posting")
  /\ \E r \in RequestOf(a, task[o][a].trigger, Current(o, a)) :
       /\ r.owner = o /\ r.work = task[o][a].work
       /\ \E outcome \in OutcomesOf(r.fate) :
            Persist(o, a, outcome,
                    IF outcome[1] = "confirm" THEN r.platformId ELSE NoPlatformId)
  /\ UNCHANGED <<storeVars, ownerVars, works, requests>>

(* Faulty variant: an unknown outcome does not stop the batch.             *)
ProceedsUnlessRejected(outcome) == TRUE

Proceeds(outcome) == outcome[2] = "sendable"

(* update_send_capability, then the next segment or the end of the batch.  *)
Continue(o, a) ==
  LET outcome == task[o][a].outcome
  IN  /\ At(o, a, "persisted")
      /\ IF outcome[2] = "none"
         THEN EndInError(o, a) /\ UNCHANGED control
         ELSE /\ control' = [control EXCEPT ![o][a].capable = outcome[2] \in Attemptable]
              /\ IF outcome[1] = "reject" THEN CancelTail(o, a)
                 ELSE IF Proceeds(outcome)
                 THEN /\ task' = [task EXCEPT ![o][a].pc = "preparing",
                                              ![o][a].todo = @ \ {Current(o, a)}]
                      /\ UNCHANGED jobs
                 ELSE EndInError(o, a)
      /\ UNCHANGED <<storeVars, held, grant, works, requests>>

(* A claim, an outcome or a cancellation was refused.                      *)
HandleError(o, a) ==
  /\ At(o, a, "failed")
  /\ EndInError(o, a)
  /\ UNCHANGED <<storeVars, ownerVars, works, requests>>

(* emergency_stop and retire_old_automatic cancel an account's batches     *)
(* beside its works.                                                       *)
StopBatch(o, a) ==
  /\ \E trigger \in Unfinished(a) :
       /\ grant[o][a] > 0
       /\ grant[o][a] = control[o][a].epoch
       /\ \A job \in jobs : job.owner = o /\ job.account = a => job.work # 0
       /\ jobs' = jobs \cup
            {Job(o, a, [Idle EXCEPT !.trigger = trigger, !.epoch = grant[o][a]], "cancel")}
  /\ UNCHANGED <<storeVars, ownerVars, works, task, requests>>

TaskNext(o, a) ==
  \/ Dispatch(o, a) \/ Drop(o, a) \/ ReadBatch(o, a) \/ GiveUp(o, a)
  \/ PrepareSegment(o, a) \/ ClaimSegment(o, a) \/ Post(o, a) \/ RejectUnsent(o, a)
  \/ Answered(o, a) \/ Continue(o, a)
  \/ HandleError(o, a) \/ StopBatch(o, a)

-----------------------------------------------------------------------------
(* The blocking pool. A job answers the work that waits for it, if that    *)
(* work is still there.                                                    *)

(* Faulty variant: whatever the account does now gets the answer.          *)
AlwaysWaiting(job) == TRUE

Waiting(job) ==
  /\ task[job.owner][job.account].work = job.work
  /\ task[job.owner][job.account].pc \in {"claiming", "persisting", "cancelling"}

Answer(job, pc) ==
  task' = IF Waiting(job) THEN [task EXCEPT ![job.owner][job.account].pc = pc] ELSE task

(* The handler is done with this job.                                      *)
Done(job) ==
  task' = IF Waiting(job) THEN [task EXCEPT ![job.owner][job.account] = Idle] ELSE task

JobToken(job) == TokenOf(job.owner, job.epoch)

(* transition_segment applies it, finds it applied, or refuses it.         *)
Transition(job, transition, platformId, observation) ==
  TransitionSegment(job.account, JobToken(job), job.trigger, Least(job.todo),
                    transition, platformId, observation)

Repeated(job, transition, platformId) ==
  RepeatTransition(job.account, JobToken(job), job.trigger, Least(job.todo),
                   transition, platformId)

StartOf(job) == IF Automatic(job.trigger) THEN "start_automatic" ELSE "start"

RunStart(job) ==
  /\ job.op = "start"
  /\ jobs' = jobs \ {job}
  /\ \/ /\ Transition(job, StartOf(job), NoPlatformId, NoObservation)
        /\ Answer(job, "claimed")
     \/ /\ Repeated(job, StartOf(job), NoPlatformId)
        /\ Answer(job, "failed")

RunPersist(job) ==
  LET capability == IF job.outcome[2] = "none" THEN "unknown" ELSE job.outcome[2]
      observation == [digest |-> job.digest, capability |-> capability]
  IN  /\ job.op = "persist"
      /\ jobs' = jobs \ {job}
      /\ \/ Transition(job, job.outcome[1], job.platformId, observation)
         \/ Repeated(job, job.outcome[1], job.platformId)
      /\ Answer(job, "persisted")

(* cancel_tail reads the batch and then cancels segment by segment.        *)
Remaining(job, todo) ==
  IF todo = {}
  THEN jobs' = jobs \ {job} /\ Done(job)
  ELSE /\ jobs' = (jobs \ {job}) \cup {[job EXCEPT !.op = "cancelling", !.todo = todo]}
       /\ UNCHANGED task

RunCancel(job) ==
  LET segs == outbox[job.account][job.trigger].segs
  IN  \/ /\ job.op = "cancel"
         /\ Remaining(job, {i \in DOMAIN segs : segs[i].status \in {"prepared", "retryable"}})
         /\ UNCHANGED storeVars
      \/ /\ job.op = "cancelling"
         /\ \/ Transition(job, "cancel_prepared", NoPlatformId, NoObservation)
            \/ Repeated(job, "cancel_prepared", NoPlatformId)
         /\ Remaining(job, job.todo \ {Least(job.todo)})

RunCancelFirst(job) ==
  /\ job.op = "cancel_first"
  /\ jobs' = jobs \ {job}
  /\ IF outbox[job.account][job.trigger].segs[1].status = "prepared"
     THEN Transition([job EXCEPT !.todo = {1}], "cancel_prepared", NoPlatformId, NoObservation)
     ELSE UNCHANGED storeVars
  /\ Done(job)

(* Refused by the store: the fence, the expiry of the lease, a transition  *)
(* that is not valid, or a failing database.                               *)
FailJob(job) ==
  /\ jobs' = jobs \ {job}
  /\ IF job.op = "cancel_first" THEN Done(job) ELSE Answer(job, "failed")
  /\ UNCHANGED storeVars

JobNext ==
  \E job \in jobs :
    /\ \/ RunStart(job) \/ RunPersist(job) \/ RunCancel(job) \/ RunCancelFirst(job)
       \/ FailJob(job)
    /\ UNCHANGED <<ownerVars, works, requests>>

-----------------------------------------------------------------------------
(* The platform: it delivers a request or refuses it, at any time.         *)

Fate(r, fate, platformId) ==
  /\ requests' = (requests \ {r}) \cup {[r EXCEPT !.fate = fate, !.platformId = platformId]}
  /\ UNCHANGED <<storeVars, ownerVars, works, task, jobs>>

PlatformNext ==
  \E r \in requests :
    /\ r.fate = "sent"
    /\ \/ \E id \in PlatformIds :
            /\ \A q \in requests : q.platformId # id
            /\ Fate(r, "delivered", id)
       \/ Fate(r, "refused", NoPlatformId)

LiveNext ==
  \/ \E o \in Owners, a \in Accounts :
       OwnerNext(o, a) \/ ProcessNext(o, a) \/ TaskNext(o, a)
  \/ JobNext
  \/ PlatformNext

LiveSpec == LiveInit /\ [][LiveNext]_liveVars

(* AccountControl::allows, of the reconciliation.                          *)
Receives(o, a) ==
  /\ control[o][a].epoch = grant[o][a]
  /\ control[o][a].permits # "none"
  /\ control[o][a].capable

(* The timer repeats the reconciliation of an account that may receive.    *)
Fairness ==
  \A o \in Owners, a \in Accounts, trigger \in Triggers, i \in Ordinals :
    WF_liveVars(Reconcile(o, a, trigger, i) /\ Receives(o, a))

FairLiveSpec == LiveSpec /\ Fairness

-----------------------------------------------------------------------------
(* The abstract specification this one implements.                         *)

IsSegment(a, t, i) == outbox[a][t] # NoBatch /\ i \in DOMAIN outbox[a][t].segs

StatusOf(a, t, i) == IF IsSegment(a, t, i) THEN outbox[a][t].segs[i].status ELSE "none"

WireOf(a, t, i) ==
  LET R == RequestOf(a, t, i)
  IN  IF R = {} THEN "unsent"
      ELSE IF Cardinality(R) = 1 THEN (CHOOSE r \in R : TRUE).fate
      ELSE "duplicated"

VerdictOf(a, t, i) ==
  IF StatusOf(a, t, i) \in TerminalSegment THEN StatusOf(a, t, i) ELSE "open"

AllSegments == Accounts \X Triggers \X Ordinals

Delivery == INSTANCE AtMostOnceDelivery WITH
  Segments <- AllSegments,
  Before <- [s \in AllSegments |-> {<<s[1], s[2], j>> : j \in 1..(s[3] - 1)}],
  wire <- [s \in AllSegments |-> WireOf(s[1], s[2], s[3])],
  verdict <- [s \in AllSegments |-> VerdictOf(s[1], s[2], s[3])]

-----------------------------------------------------------------------------
(* Properties. *)

(* A work in hand names its batch and, from the first check to the outcome *)
(* of an attempt, a segment of it; no answer of the blocking pool reaches  *)
(* a work it was not meant for.                                            *)
WorkInHand(w, a) ==
  /\ w = Idle \/ (w.trigger \in Batches(a) /\ w.work > 0 /\ w.epoch \in Epochs)
  /\ w.pc \in {"signed", "claiming", "claimed", "posting", "persisting", "persisted"} =>
       w.todo # {} /\ w.todo \subseteq DOMAIN outbox[a][w.trigger].segs

(* The processes' own state has its type.                                  *)
LiveTypeOK ==
  /\ held \in [Owners -> [Accounts -> 0..MaxEpoch]]
  /\ grant \in [Owners -> [Accounts -> 0..MaxEpoch]]
  /\ control \in [Owners -> [Accounts -> Control]]
  /\ works \in [Owners -> [Accounts -> 0..MaxWorks]]
  /\ \A o \in Owners, a \in Accounts : WorkInHand(task[o][a], a)
  /\ \A job \in jobs : job.trigger \in Batches(job.account)
  /\ \A r \in requests : IsSegment(r.account, r.trigger, r.ordinal)

(* No segment is ever put on the wire twice, by whichever processes, works *)
(* and leftovers in the blocking pool attempt it.                          *)
AtMostOneRequest ==
  \A r, q \in requests :
    (r.account = q.account /\ r.trigger = q.trigger /\ r.ordinal = q.ordinal) => r = q

(* What is on record is true: a confirmed segment was delivered under the  *)
(* id on record, and a rejected one never was and never will be, although  *)
(* its request may be answered late, or after a takeover.                  *)
VerdictIsTrue ==
  \A a \in Accounts : \A id \in SegmentId(a) :
    LET seg == outbox[a][id[1]].segs[id[2]]
        R   == RequestOf(a, id[1], id[2])
    IN  /\ seg.status = "confirmed" =>
             \E r \in R : r.fate = "delivered" /\ r.platformId = seg.platformId
        /\ seg.status = "rejected" => \A r \in R : r.fate = "refused"

(* The segments of a batch go out in their order: one is put on the wire   *)
(* only when those before it are confirmed, although the batch was read    *)
(* before, and a new work may have begun meanwhile.                        *)
RequestsInOrder ==
  \A r \in requests : \A j \in 1..(r.ordinal - 1) :
    StatusOf(r.account, r.trigger, j) = "confirmed"

(* The reservation of an automatic reply is released only when none of its *)
(* requests can still be delivered uncounted.                              *)
SettledBatchIsQuiet ==
  \A r \in requests :
    outbox[r.account][r.trigger].settled =>
      \/ r.fate = "refused"
      \/ /\ r.fate = "delivered"
         /\ StatusOf(r.account, r.trigger, r.ordinal) = "confirmed"

(* Every step is one of AtMostOnceDelivery's, or stutters.                 *)
ImplementsDelivery == Delivery!Spec

OwnsForGood(o, a) ==
  <>[](/\ lease[a].owner = o
       /\ lease[a].status = "active"
       /\ held[o][a] = lease[a].epoch
       /\ grant[o][a] = lease[a].epoch
       /\ Receives(o, a))

(* A delivered segment is confirmed at last, whatever became of the work   *)
(* that sent it, by a process that keeps the account and may receive.      *)
DeliveredIsConfirmed ==
  \A o \in Owners, a \in Accounts, t \in Triggers, i \in Ordinals :
    OwnsForGood(o, a) =>
      (WireOf(a, t, i) = "delivered" ~> StatusOf(a, t, i) = "confirmed")

Attempting(o, a, t, i) ==
  \/ /\ task[o][a].trigger = t
     /\ i \in task[o][a].todo
     /\ task[o][a].pc \in {"claimed", "posting", "persisting"}
  \/ \E job \in jobs : /\ job.account = a /\ job.trigger = t
                       /\ job.op = "persist" /\ i \in job.todo

(* "... 再原子领取 StartAttempt，故障进入 Uncertain" (docs/architecture/      *)
(* rust-client-runtime-v2.md:273): an attempt that failed is Uncertain, so *)
(* a Sending segment has an attempt that goes on.                          *)
FailedAttemptIsUncertain ==
  \A a \in Accounts : \A id \in SegmentId(a) :
    StatusOf(a, id[1], id[2]) = "sending" =>
      \E o \in Owners : Attempting(o, a, id[1], id[2])
=============================================================================
