-------------------------- MODULE LiveSenderProofs --------------------------
(***************************************************************************)
(* AtMostOneRequest for any processes, accounts, plans and number of       *)
(* works. A request is put on the wire only by a work whose claim of the   *)
(* segment the store applied, and a segment the store has seen claimed is  *)
(* never claimable again: no transition the sender asks for leads back to  *)
(* Prepared or Retryable, and a takeover does not either.                  *)
(***************************************************************************)
EXTENDS LiveSender, CoreStoreProofs

-----------------------------------------------------------------------------
(* The inductive invariant.                                                *)

Waits == {"claiming", "persisting", "cancelling"}
Places ==
  {"idle", "reading", "preparing", "signed", "claimed", "posting", "persisted",
   "failed"} \cup Waits
Verdicts == SenderOutcome \cup {<<"reject", "none">>, <<"none", "unknown">>}

Task ==
  [pc : Places, work : Nat, trigger : Triggers \cup {NoTrigger}, epoch : 0..MaxEpoch,
   todo : SUBSET Ordinals, digest : Digests \cup {NoDigest}, outcome : Verdicts]

Closure ==
  [owner : Owners, account : Accounts,
   op : {"start", "persist", "cancel", "cancelling", "cancel_first"},
   work : Nat, trigger : Triggers, epoch : Epochs, todo : SUBSET Ordinals,
   digest : Digests \cup {NoDigest}, outcome : Verdicts,
   platformId : PlatformIds \cup {NoPlatformId}]

Request ==
  [account : Accounts, trigger : Triggers, ordinal : Ordinals, owner : Owners,
   work : Nat, fate : {"sent", "delivered", "refused"},
   platformId : PlatformIds \cup {NoPlatformId}]

(* Where a work is between its first check and the outcome of an attempt.  *)
Attempts == {"signed", "claiming", "claimed", "posting", "persisting", "persisted"}

(* A work in hand has a stored batch, a token, and a name that was issued. *)
Busy(rows, w, issued) ==
  \/ w = Idle
  \/ /\ w.pc # "idle"
     /\ w.trigger \in Triggers
     /\ rows[w.trigger] # NoBatch
     /\ w.todo \subseteq DOMAIN rows[w.trigger].segs
     /\ w.epoch \in Epochs
     /\ w.work \in 1..issued
     /\ w.pc \in Attempts => w.todo # {}

OwnershipType ==
  /\ held \in [Owners -> [Accounts -> 0..MaxEpoch]]
  /\ grant \in [Owners -> [Accounts -> 0..MaxEpoch]]
  /\ control \in [Owners -> [Accounts -> Control]]
  /\ works \in [Owners -> [Accounts -> 0..MaxWorks]]

TaskType ==
  /\ task \in [Owners -> [Accounts -> Task]]
  /\ \A o \in Owners, a \in Accounts : Busy(outbox[a], task[o][a], works[o][a])

(* What a job would write when it is the outcome of an attempt.            *)
WritesOutcome(job) ==
  job.op = "persist" => /\ job.outcome[1] \in {"confirm", "mark_uncertain", "reject"}
                        /\ job.platformId \in IdsFor(job.outcome[1])

JobType ==
  \A job \in jobs : /\ job \in Closure
                    /\ outbox[job.account][job.trigger] # NoBatch
                    /\ WritesOutcome(job)
                    /\ job.work <= works[job.owner][job.account]

RequestType ==
  \A r \in requests : r \in Request /\ (r.fate = "delivered" => r.platformId \in PlatformIds)

(* Job is the one the current work waits for.                              *)
AnswersCurrent(job) ==
  job.work > 0 /\ job.work = task[job.owner][job.account].work

SameWork(job, other) ==
  job.owner = other.owner /\ job.account = other.account /\ job.work = other.work

(* A work that has a job waits for it, for one at most, and what a claim   *)
(* names is what the work has in hand.                                     *)
Awaited ==
  \A job \in jobs : AnswersCurrent(job) =>
    /\ task[job.owner][job.account].pc \in Waits
    /\ job.op = "persist" => task[job.owner][job.account].pc = "persisting"
    /\ job.op = "start" =>
         /\ task[job.owner][job.account].pc = "claiming"
         /\ task[job.owner][job.account].trigger = job.trigger
         /\ task[job.owner][job.account].todo = job.todo
    /\ \A other \in jobs : SameWork(job, other) => job = other

WorkInv == TaskType /\ JobType /\ Awaited

ProcessInv == OwnershipType /\ RequestType /\ WorkInv

(* The store has seen segment i claimed.                                   *)
Tried(a, t, i) ==
  /\ outbox[a][t] # NoBatch
  /\ i \in DOMAIN outbox[a][t].segs
  /\ outbox[a][t].segs[i].status \notin {"prepared", "retryable"}

(* A work about to put segment i on the wire.                              *)
Claims(w, t, i) == w.pc = "claimed" /\ w.trigger = t /\ Least(w.todo) = i

Unsent(a, t, i) == RequestOf(a, t, i) = {}

RequestsTried == \A r \in requests : Tried(r.account, r.trigger, r.ordinal)

ClaimsTried ==
  \A o \in Owners, a \in Accounts :
    task[o][a].pc = "claimed" =>
      /\ Tried(a, task[o][a].trigger, Current(o, a))
      /\ Unsent(a, task[o][a].trigger, Current(o, a))

ClaimsApart ==
  \A o, p \in Owners, a \in Accounts :
    (task[o][a].pc = "claimed" /\ Claims(task[p][a], task[o][a].trigger, Current(o, a))) =>
      o = p

WireInv == RequestsTried /\ ClaimsTried /\ ClaimsApart /\ AtMostOneRequest

SenderInv == TypeOK /\ ProcessInv /\ WireInv

-----------------------------------------------------------------------------
(* The store's part: which transitions the sender asks for.                *)

SenderTransition == SegmentTransition \ {"mark_retryable"}

(* What was claimed stays so.                                              *)
LEMMA TriedStays ==
  ASSUME TypeOK, TypeOK', OutboxStep(SenderTransition),
         NEW a \in Accounts, NEW t \in Triggers, NEW i, Tried(a, t, i)
  PROVE  Tried(a, t, i)'
<1> DEFINE before == outbox[a][t].segs[i]
           after  == outbox'[a][t].segs[i]
<1>1. /\ Stored(outbox[a][t])
      /\ before \in Segment
  BY StoredSegments DEF TypeOK, Tried
<1>2. CASE Kept(a, t)
  BY <1>2 DEF Kept, Tried
<1>3. CASE Rewritten(SenderTransition, a, t)
  <2>1. CASE after = before
    BY <1>3, <2>1 DEF Rewritten, Tried
  <2>2. CASE Applied(SenderTransition, a, before, after)
    <3>1. PICK transition \in SenderTransition :
            /\ before.status \in SourceStatuses[transition]
            /\ after.status = TargetStatus[transition]
      BY <2>2 DEF Applied, ValidTransition, ApplyTransition
    <3>2. after.status \notin {"prepared", "retryable"}
      BY <3>1 DEF Tried, SenderTransition, SegmentTransition, StartTransitions,
                  SourceStatuses, TargetStatus
    <3> QED
      BY <1>3, <3>2 DEF Rewritten, Tried
  <2> QED
    BY <1>3, <2>1, <2>2 DEF Rewritten, Tried
<1>4. CASE Recovered(a, t)
  <2> DEFINE epoch == lease'[a].epoch
  <2>1. outbox'[a][t] = RecoverBatch(outbox[a][t], epoch)
    BY <1>4 DEF Recovered
  <2>2. /\ epoch \in Nat
        /\ now \in 0..MaxTime
    BY StoreAssumption DEF TypeOK, LeaseType, Lease
  <2>3. outbox'[a][t] # NoBatch
    BY <1>1, <2>1, <2>2, RecoverBatchStored, NoBatchAssumption DEF Stored
  <2> HIDE DEF epoch
  <2>4. /\ DOMAIN outbox'[a][t].segs = DOMAIN outbox[a][t].segs
        /\ after = RecoverInterrupted(before, epoch, now)
    BY <1>1, <2>1, <2>2, RecoverBatchSegments DEF Tried
  <2>5. after.status \notin {"prepared", "retryable"}
    BY <1>1, <2>4 DEF RecoverInterrupted, Segment, Tried
  <2> QED
    BY <2>3, <2>4, <2>5 DEF Tried
<1> QED
  BY <1>2, <1>3, <1>4 DEF OutboxStep, BatchStep, Created, Tried

StoreStep == TypeOK' /\ OutboxStep(SenderTransition)

LEMMA StoreUnchanged ==
  ASSUME TypeOK, UNCHANGED storeVars
  PROVE  StoreStep
<1>1. TypeOK'
  BY NextType DEF storeVars
<1>2. OutboxStep({})
  BY UnchangedOutboxStep DEF storeVars, vars
<1> QED
  BY <1>1, <1>2, WiderStep DEF StoreStep

LEMMA SegmentOrdinals ==
  ASSUME TypeOK, NEW a \in Accounts, NEW t \in Triggers, outbox[a][t] # NoBatch,
         NEW i \in DOMAIN outbox[a][t].segs
  PROVE  i \in Ordinals
<1>1. PICK n \in Ordinals : outbox[a][t].segs \in [1..n -> Segment]
  BY DEF TypeOK, OutboxType, Stored, IsBatch, BatchOf
<1>2. i \in 1..n
  BY <1>1
<1>3. MaxSegments \in Nat
  BY StoreAssumption
<1> QED
  BY <1>2, <1>3 DEF Ordinals

(* A token a process presents is one, once it has an epoch.                *)
LEMMA TokenOfType ==
  ASSUME NEW o \in Owners, NEW epoch \in 0..MaxEpoch, epoch > 0
  PROVE  TokenOf(o, epoch) \in Token
BY StoreAssumption DEF TokenOf, Token, Epochs

LEMMA OwnerStores ==
  ASSUME TypeOK, OwnershipType, NEW o \in Owners, NEW a \in Accounts, OwnerNext(o, a)
  PROVE  StoreStep
<1>1. ASSUME NEW epoch \in Epochs, NEW until \in LeaseEnds, InstallLease(a, o, epoch, until)
      PROVE  StoreStep
  <2>1. TypeOK' /\ OutboxStep({})
    BY <1>1, InstallLeaseType, InstallStep
  <2> QED
    BY <2>1, WiderStep DEF StoreStep
<1>2. ASSUME held[o][a] > 0, InvalidateLease(a, TokenOf(o, held[o][a]))
      PROVE  StoreStep
  <2>1. TokenOf(o, held[o][a]) \in Token
    BY <1>2, TokenOfType DEF OwnershipType
  <2>2. LeaseNext(a)
    BY <1>2, <2>1 DEF LeaseNext
  <2>3. TypeOK' /\ OutboxStep({})
    BY <2>2, LeaseNextType, LeaseStep
  <2> QED
    BY <2>3, WiderStep DEF StoreStep
<1> QED
  BY <1>1, <1>2, StoreUnchanged
  DEF OwnerNext, Install, PublishOwnership, PublishGrant, DropGrant, ReleaseLocal,
      ChangePermission

(* The page of one receipt that an account finds in its inbox.             *)
ReceiptPage(t, i, r) == [id \in {<<t, i>>} |-> [platformId |-> r.platformId, sentAt |-> 1]]

LEMMA ReconcileOperates ==
  ASSUME TypeOK, RequestType, NEW o \in Owners, NEW a \in Accounts,
         NEW t \in Triggers, NEW i \in Ordinals, Reconcile(o, a, t, i)
  PROVE  \E r \in RequestOf(a, t, i) :
           /\ r.fate = "delivered"
           /\ ReceiptPage(t, i, r) \in EvidencePage(a)
           /\ ReconcileSentReceipts(a, OwnToken(o, a), ReceiptPage(t, i, r))
<1>1. PICK r \in RequestOf(a, t, i) :
        /\ r.fate = "delivered"
        /\ ReconcileSentReceipts(a, OwnToken(o, a), ReceiptPage(t, i, r))
  BY DEF Reconcile, ReceiptPage
<1> DEFINE item == [platformId |-> r.platformId, sentAt |-> 1]
<1>2. r \in requests
  BY DEF RequestOf
<1>3. item \in Evidence
  BY <1>1, <1>2, StoreAssumption, LiveAssumption DEF RequestType, Evidence
<1>4. {<<t, i>>} \subseteq SegmentId(a)
  BY <1>1 DEF ReconcileSentReceipts, ReceiptPage
<1>5. ReceiptPage(t, i, r) = [id \in {<<t, i>>} |-> item]
  BY DEF ReceiptPage
<1> HIDE DEF item
<1>6. ReceiptPage(t, i, r) \in [{<<t, i>>} -> Evidence]
  BY <1>3, <1>5
<1>7. ReceiptPage(t, i, r) \in EvidencePage(a)
  BY <1>4, <1>6 DEF EvidencePage
<1> QED
  BY <1>1, <1>7

LEMMA ProcessStores ==
  ASSUME TypeOK, OwnershipType, RequestType, NEW o \in Owners, NEW a \in Accounts,
         ProcessNext(o, a)
  PROVE  StoreStep
<1>1. OwnToken(o, a) \in Token
  <2>1. grant[o][a] > 0
    BY DEF ProcessNext, Submit, PlanReply, Identify, Reconcile
  <2> QED
    BY <2>1, TokenOfType DEF OwnToken, OwnershipType
<1> DEFINE tok == OwnToken(o, a)
<1> HIDE DEF tok
<1>2. ASSUME NEW trigger \in ManualTriggers, NEW response \in Responses,
             PrepareOutboundBatch(a, tok, trigger, response)
      PROVE  StoreStep
  <2>1. TypeOK' /\ OutboxStep({})
    BY <1>1, <1>2, PrepareOutboundBatchType, PrepareStep DEF tok
  <2> QED
    BY <2>1, WiderStep DEF StoreStep
<1>3. CASE InboundNext(a, tok)
  <2>1. TypeOK' /\ OutboxStep({})
    BY <1>1, <1>3, InboundNextType, InboundStep DEF tok
  <2> QED
    BY <2>1, WiderStep DEF StoreStep
<1>4. ASSUME NEW digest \in Digests, RestoreSendObservation(a, tok, digest)
      PROVE  StoreStep
  <2>1. OutboxNext(a, tok)
    BY <1>4 DEF OutboxNext
  <2>2. TypeOK'
    BY <1>1, <2>1, OutboxNextType DEF tok
  <2>3. OutboxStep({})
    BY <1>4, ObservedStep DEF RestoreSendObservation, outVars
  <2> QED
    BY <2>2, <2>3, WiderStep DEF StoreStep
<1>5. ASSUME NEW page \in EvidencePage(a), ReconcileSentReceipts(a, tok, page)
      PROVE  StoreStep
  <2>1. TypeOK' /\ OutboxStep({"confirm"})
    BY <1>1, <1>5, ReconcileSentReceiptsType, ReconcileStep DEF tok
  <2>2. {"confirm"} \subseteq SenderTransition
    BY DEF SenderTransition, SegmentTransition
  <2> QED
    BY <2>1, <2>2, WiderStep DEF StoreStep
<1>6. ASSUME NEW trigger \in Triggers, NEW i \in Ordinals, Reconcile(o, a, trigger, i)
      PROVE  StoreStep
  BY <1>5, <1>6, ReconcileOperates DEF tok
<1> QED
  BY <1>2, <1>3, <1>4, <1>6 DEF ProcessNext, Submit, PlanReply, Identify, tok

(* A transition a job asks for, applied or found applied.                  *)
LEMMA JobTransition ==
  ASSUME TypeOK, NEW job, job.owner \in Owners, job.account \in Accounts,
         job.epoch \in Epochs, job.trigger \in Triggers,
         NEW transition \in SenderTransition, NEW platformId \in IdsFor(transition),
         NEW observation \in [digest : Digests \cup {NoDigest}, capability : Capability],
         \/ Transition(job, transition, platformId, observation)
         \/ Repeated(job, transition, platformId)
  PROVE  StoreStep
<1> DEFINE a == job.account
           tok == JobToken(job)
           i == Least(job.todo)
<1>1. /\ tok \in Token
      /\ transition \in SegmentTransition
      /\ platformId \in PlatformIds \cup {NoPlatformId}
  BY DEF JobToken, TokenOf, Token, SenderTransition, IdsFor
<1>2. i \in Ordinals
  <2>1. outbox[a][job.trigger] # NoBatch /\ i \in DOMAIN outbox[a][job.trigger].segs
    BY DEF Transition, Repeated, TransitionSegment, RepeatTransition
  <2> QED
    BY <2>1, SegmentOrdinals
<1> HIDE DEF a, tok, i
<1>3. CASE TransitionSegment(a, tok, job.trigger, i, transition, platformId, observation)
  <2>1. TypeOK'
    BY <1>1, <1>2, <1>3, TransitionSegmentType DEF a
  <2>2. OutboxStep({transition})
    BY <1>1, <1>2, <1>3, TransitionStep DEF a
  <2> QED
    BY <2>1, <2>2, WiderStep DEF StoreStep
<1>4. CASE RepeatTransition(a, tok, job.trigger, i, transition, platformId)
  <2>1. OutboxNext(a, tok)
    BY <1>1, <1>2, <1>4 DEF OutboxNext
  <2>2. TypeOK'
    BY <1>1, <2>1, OutboxNextType DEF a
  <2>3. OutboxStep({})
    BY <1>4, ObservedStep DEF RepeatTransition, outVars, a
  <2> QED
    BY <2>2, <2>3, WiderStep DEF StoreStep
<1> QED
  BY <1>3, <1>4 DEF Transition, Repeated, a, tok, i

JobStep(job) ==
  \/ RunStart(job) \/ RunPersist(job) \/ RunCancel(job) \/ RunCancelFirst(job)
  \/ FailJob(job)

LEMMA JobStores ==
  ASSUME TypeOK, NEW job \in Closure, WritesOutcome(job), JobStep(job)
  PROVE  StoreStep
<1>1. /\ job.owner \in Owners /\ job.account \in Accounts /\ job.epoch \in Epochs
      /\ job.trigger \in Triggers
      /\ NoPlatformId \in IdsFor("start") /\ NoPlatformId \in IdsFor("start_automatic")
      /\ NoPlatformId \in IdsFor("cancel_prepared")
      /\ NoObservation \in [digest : Digests \cup {NoDigest}, capability : Capability]
      /\ {"start", "start_automatic", "cancel_prepared"} \subseteq SenderTransition
  BY DEF Closure, IdsFor, NoObservation, Capability, SenderTransition, SegmentTransition,
         StartTransitions
<1>2. CASE RunStart(job)
  <2>1. StartOf(job) \in {"start", "start_automatic"}
    BY DEF StartOf
  <2> QED
    BY <1>1, <1>2, <2>1, JobTransition DEF RunStart
<1>3. CASE RunPersist(job)
  <2> DEFINE capability == IF job.outcome[2] = "none" THEN "unknown" ELSE job.outcome[2]
             observation == [digest |-> job.digest, capability |-> capability]
  <2>1. /\ job.outcome[1] \in SenderTransition
        /\ job.platformId \in IdsFor(job.outcome[1])
    BY <1>3 DEF RunPersist, WritesOutcome, SenderTransition, SegmentTransition
  <2>2. job.outcome \in Verdicts /\ job.digest \in Digests \cup {NoDigest}
    BY DEF Closure
  <2>3. \/ job.outcome[2] \in Capability
        \/ job.outcome[2] = "none"
    BY <2>2 DEF Verdicts, SenderOutcome, Capability
  <2>4. observation \in [digest : Digests \cup {NoDigest}, capability : Capability]
    BY <2>2, <2>3 DEF Capability
  <2>5. \/ Transition(job, job.outcome[1], job.platformId, observation)
        \/ Repeated(job, job.outcome[1], job.platformId)
    BY <1>3 DEF RunPersist
  <2> HIDE DEF observation
  <2> QED
    BY <1>1, <2>1, <2>4, <2>5, JobTransition
<1>4. CASE RunCancel(job)
  BY <1>1, <1>4, JobTransition, StoreUnchanged DEF RunCancel
<1>5. CASE RunCancelFirst(job)
  <2> DEFINE first == [job EXCEPT !.todo = {1}]
  <2>1. /\ first.owner = job.owner /\ first.account = job.account
        /\ first.epoch = job.epoch /\ first.trigger = job.trigger
    BY DEF Closure
  <2>2. CASE Transition(first, "cancel_prepared", NoPlatformId, NoObservation)
    <3> HIDE DEF first
    <3> QED
      BY <1>1, <2>1, <2>2, JobTransition
  <2> QED
    BY <1>5, <2>2, StoreUnchanged DEF RunCancelFirst
<1> QED
  BY <1>2, <1>3, <1>4, <1>5, StoreUnchanged DEF JobStep, FailJob

LEMMA LiveStores ==
  ASSUME TypeOK, ProcessInv, [LiveNext]_liveVars
  PROVE  StoreStep
<1>1. ASSUME NEW o \in Owners, NEW a \in Accounts,
             OwnerNext(o, a) \/ ProcessNext(o, a) \/ TaskNext(o, a)
      PROVE  StoreStep
  <2>1. CASE OwnerNext(o, a)
    BY <2>1, OwnerStores DEF ProcessInv
  <2>2. CASE ProcessNext(o, a)
    BY <2>2, ProcessStores DEF ProcessInv
  <2>3. CASE TaskNext(o, a)
    <3>1. UNCHANGED storeVars
      BY <2>3 DEF TaskNext, Dispatch, Drop, ReadBatch, GiveUp, PrepareSegment, ClaimSegment,
                  Post, RejectUnsent, Answered, Continue, HandleError, StopBatch
    <3> QED
      BY <3>1, StoreUnchanged
  <2> QED
    BY <1>1, <2>1, <2>2, <2>3
<1>2. CASE JobNext
  BY <1>2, JobStores DEF JobNext, JobStep, ProcessInv, WorkInv, JobType
<1>3. CASE PlatformNext \/ UNCHANGED liveVars
  BY <1>3, StoreUnchanged DEF PlatformNext, Fate, liveVars
<1> QED
  BY <1>1, <1>2, <1>3 DEF LiveNext

-----------------------------------------------------------------------------
(* The processes' part: what a step does to works and jobs.                *)

(* Batches stay, with their segments.                                      *)
LEMMA BatchesStay ==
  ASSUME TypeOK, StoreStep, NEW a \in Accounts, NEW t \in Triggers, outbox[a][t] # NoBatch
  PROVE  /\ outbox'[a][t] # NoBatch
         /\ DOMAIN outbox'[a][t].segs = DOMAIN outbox[a][t].segs
<1>1. CASE Kept(a, t) \/ Rewritten(SenderTransition, a, t)
  BY <1>1 DEF Kept, Rewritten
<1>2. CASE Recovered(a, t)
  <2> DEFINE epoch == lease'[a].epoch
  <2>1. outbox'[a][t] = RecoverBatch(outbox[a][t], epoch)
    BY <1>2 DEF Recovered
  <2>2. /\ epoch \in Nat
        /\ now \in 0..MaxTime
        /\ Stored(outbox[a][t])
    BY StoreAssumption DEF StoreStep, TypeOK, LeaseType, Lease, OutboxType
  <2> HIDE DEF epoch
  <2>3. outbox'[a][t] # NoBatch
    BY <2>1, <2>2, RecoverBatchStored, NoBatchAssumption DEF Stored
  <2> QED
    BY <2>1, <2>2, <2>3, RecoverBatchSegments
<1> QED
  BY <1>1, <1>2 DEF StoreStep, OutboxStep, BatchStep, Created

LEMMA BusyStays ==
  ASSUME TypeOK, StoreStep, NEW a \in Accounts, NEW w \in Task, NEW issued,
         Busy(outbox[a], w, issued)
  PROVE  Busy(outbox'[a], w, issued)
BY BatchesStay DEF Busy

LEMMA IdleTask == Idle \in Task
BY StoreAssumption DEF Idle, Task, Places, Verdicts

Running(w) == w.pc \notin Waits \cup {"idle"}

Keeps(w, v) == v.work = w.work /\ v.trigger = w.trigger /\ v.epoch = w.epoch

(* The current work goes on with w, or ends.                               *)
Becomes(o, a, w) ==
  /\ w \in Task
  /\ task' = [task EXCEPT ![o][a] = w]
  /\ UNCHANGED <<outbox, works>>

Moved(o, a) ==
  /\ jobs' = jobs
  /\ \E w \in Task :
       /\ Becomes(o, a, w)
       /\ w.pc # "claimed"
       /\ Busy(outbox[a], w, works[o][a])
       /\ w = Idle \/ (Running(task[o][a]) /\ Keeps(task[o][a], w))

Submitted(o, a) ==
  \E w \in Task, job \in Closure :
    /\ Becomes(o, a, w)
    /\ Busy(outbox[a], w, works[o][a])
    /\ Running(task[o][a])
    /\ Keeps(task[o][a], w)
    /\ w.pc \in Waits
    /\ jobs' = jobs \cup {job}
    /\ job.owner = o /\ job.account = a /\ job.work = w.work /\ job.trigger = w.trigger
    /\ WritesOutcome(job)
    /\ job.op = "persist" => w.pc = "persisting"
    /\ job.op = "start" => w.pc = "claiming" /\ w.todo = job.todo

LEMMA TaskFields ==
  ASSUME WorkInv, NEW o \in Owners, NEW a \in Accounts, task[o][a] # Idle
  PROVE  /\ task[o][a] \in Task
         /\ task[o][a].trigger \in Triggers
         /\ task[o][a].epoch \in Epochs
         /\ Busy(outbox[a], task[o][a], works[o][a])
BY DEF WorkInv, TaskType, Busy

LEMMA EndMoves ==
  ASSUME WorkInv, NEW o \in Owners, NEW a \in Accounts,
         End(o, a), UNCHANGED <<outbox, works, jobs>>
  PROVE  Moved(o, a)
BY IdleTask DEF End, Moved, Becomes, Busy, Idle

LEMMA GotoMoves ==
  ASSUME WorkInv, NEW o \in Owners, NEW a \in Accounts, Running(task[o][a]),
         NEW pc \in Places \ {"idle", "claimed"},
         pc \in Attempts => task[o][a].pc \in Attempts,
         Goto(o, a, pc), UNCHANGED <<outbox, works, jobs>>
  PROVE  Moved(o, a)
<1> DEFINE w == [task[o][a] EXCEPT !.pc = pc]
<1>1. /\ task[o][a] \in Task /\ Busy(outbox[a], task[o][a], works[o][a])
      /\ task[o][a] # Idle
  BY DEF WorkInv, TaskType, Running, Idle
<1>2. /\ w \in Task
      /\ w.pc = pc
      /\ Keeps(task[o][a], w) /\ w.todo = task[o][a].todo
  BY <1>1 DEF Task, Keeps
<1>3. task' = [task EXCEPT ![o][a] = w]
  BY DEF Goto
<1> HIDE DEF w
<1>4. Busy(outbox[a], w, works[o][a])
  BY <1>1, <1>2 DEF Busy, Keeps
<1> QED
  BY <1>2, <1>3, <1>4 DEF Moved, Becomes

LEMMA JobOfWork ==
  ASSUME WorkInv, NEW o \in Owners, NEW a \in Accounts, Running(task[o][a]),
         NEW op \in {"start", "persist", "cancel", "cancel_first"}
  PROVE  LET job == Job(o, a, task[o][a], op)
         IN  /\ job \in Closure
             /\ job.owner = o /\ job.account = a /\ job.op = op
             /\ job.work = task[o][a].work /\ job.trigger = task[o][a].trigger
             /\ job.todo = task[o][a].todo
<1>1. task[o][a] # Idle
  BY DEF Running, Idle
<1> QED
  BY <1>1, TaskFields DEF Job, Closure, Task

LEMMA SubmitsSubmits ==
  ASSUME WorkInv, NEW o \in Owners, NEW a \in Accounts, Running(task[o][a]),
         NEW op \in {"start", "cancel", "cancel_first"}, NEW pc \in Waits,
         op = "start" => pc = "claiming",
         pc \in Attempts => task[o][a].pc \in Attempts,
         Submits(o, a, op, pc), UNCHANGED <<outbox, works>>
  PROVE  Submitted(o, a)
<1> DEFINE w == [task[o][a] EXCEPT !.pc = pc]
           job == Job(o, a, task[o][a], op)
<1>1. /\ task[o][a] \in Task /\ Busy(outbox[a], task[o][a], works[o][a])
      /\ task[o][a] # Idle
  BY DEF WorkInv, TaskType, Running, Idle
<1>2. /\ w \in Task
      /\ w.pc = pc
      /\ Keeps(task[o][a], w) /\ w.todo = task[o][a].todo
  BY <1>1 DEF Task, Keeps, Places
<1>3. /\ task' = [task EXCEPT ![o][a] = w]
      /\ jobs' = jobs \cup {job}
  BY DEF Submits, Goto
<1>4. /\ job \in Closure
      /\ job.owner = o /\ job.account = a /\ job.op = op
      /\ job.work = task[o][a].work /\ job.trigger = task[o][a].trigger
      /\ job.todo = task[o][a].todo
  BY JobOfWork
<1> HIDE DEF w, job
<1>5. Busy(outbox[a], w, works[o][a])
  BY <1>1, <1>2 DEF Busy, Keeps, Waits
<1>6. WritesOutcome(job)
  BY <1>4 DEF WritesOutcome
<1> QED
  BY <1>2, <1>3, <1>4, <1>5, <1>6 DEF Submitted, Becomes, Keeps

LEMMA CancelTailShape ==
  ASSUME WorkInv, NEW o \in Owners, NEW a \in Accounts, Running(task[o][a]),
         CancelTail(o, a), UNCHANGED <<outbox, works>>
  PROVE  Moved(o, a) \/ Submitted(o, a)
<1>1. CASE Submits(o, a, "cancel", "cancelling")
  BY <1>1, SubmitsSubmits DEF Waits, Attempts
<1>2. CASE Goto(o, a, "failed") /\ UNCHANGED jobs
  BY <1>2, GotoMoves DEF Places, Attempts
<1> QED
  BY <1>1, <1>2 DEF CancelTail

LEMMA EndInErrorShape ==
  ASSUME WorkInv, NEW o \in Owners, NEW a \in Accounts, Running(task[o][a]),
         EndInError(o, a), UNCHANGED <<outbox, works>>
  PROVE  Moved(o, a) \/ Submitted(o, a)
<1>1. CASE Submits(o, a, "cancel_first", "cancelling")
  BY <1>1, SubmitsSubmits DEF Waits, Attempts
<1>2. CASE End(o, a) /\ UNCHANGED jobs
  BY <1>2, EndMoves
<1> QED
  BY <1>1, <1>2 DEF EndInError

LEMMA PersistShape ==
  ASSUME WorkInv, NEW o \in Owners, NEW a \in Accounts, Running(task[o][a]),
         task[o][a].pc \in Attempts,
         NEW outcome \in Verdicts, outcome[1] \in {"confirm", "mark_uncertain", "reject"},
         NEW platformId \in IdsFor(outcome[1]),
         Persist(o, a, outcome, platformId), UNCHANGED <<outbox, works>>
  PROVE  Submitted(o, a)
<1> DEFINE w == [task[o][a] EXCEPT !.pc = "persisting", !.outcome = outcome]
           plain == Job(o, a, task[o][a], "persist")
           job == [plain EXCEPT !.outcome = outcome, !.platformId = platformId]
<1>1. /\ task[o][a] \in Task /\ Busy(outbox[a], task[o][a], works[o][a])
      /\ task[o][a] # Idle
  BY DEF WorkInv, TaskType, Running, Idle
<1>2. /\ w \in Task
      /\ w.pc = "persisting"
      /\ Keeps(task[o][a], w) /\ w.todo = task[o][a].todo
  BY <1>1 DEF Task, Keeps, Places, Waits
<1>3. /\ task' = [task EXCEPT ![o][a] = w]
      /\ jobs' = jobs \cup {job}
  BY <1>1 DEF Persist, WorkInv, TaskType, Task
<1>4. /\ plain \in Closure
      /\ plain.owner = o /\ plain.account = a /\ plain.op = "persist"
      /\ plain.work = task[o][a].work /\ plain.trigger = task[o][a].trigger
  BY JobOfWork
<1>5. platformId \in PlatformIds \cup {NoPlatformId}
  BY DEF IdsFor
<1> HIDE DEF w, plain
<1>6. /\ job \in Closure
      /\ job.owner = o /\ job.account = a /\ job.op = "persist"
      /\ job.work = task[o][a].work /\ job.trigger = task[o][a].trigger
      /\ job.outcome = outcome /\ job.platformId = platformId
  BY <1>4, <1>5 DEF Closure
<1> HIDE DEF job
<1>7. Busy(outbox[a], w, works[o][a])
  BY <1>1, <1>2 DEF Busy, Keeps
<1>8. WritesOutcome(job)
  BY <1>6 DEF WritesOutcome
<1> QED
  BY <1>2, <1>3, <1>6, <1>7, <1>8 DEF Submitted, Becomes, Keeps, Waits

Proceeding(o, a) ==
  \/ Drop(o, a) \/ ReadBatch(o, a) \/ GiveUp(o, a) \/ PrepareSegment(o, a)
  \/ ClaimSegment(o, a) \/ Post(o, a) \/ RejectUnsent(o, a) \/ Answered(o, a)
  \/ Continue(o, a) \/ HandleError(o, a)

(* A step of a work in hand.                                               *)
LEMMA StepShape ==
  ASSUME TypeOK, RequestType, WorkInv, NEW o \in Owners, NEW a \in Accounts, Proceeding(o, a)
  PROVE  Moved(o, a) \/ Submitted(o, a)
<1>1. UNCHANGED <<outbox, works>>
  BY DEF Proceeding, Drop, ReadBatch, GiveUp, PrepareSegment, ClaimSegment, Post, RejectUnsent,
         Answered, Continue, HandleError, storeVars, vars, outVars
<1>2. CASE Drop(o, a)
  BY <1>1, <1>2, EndMoves DEF Drop
<1>3. CASE \E pc : At(o, a, pc) /\ Running(task[o][a])
                   /\ (CancelTail(o, a) \/ EndInError(o, a) \/ (End(o, a) /\ UNCHANGED jobs))
  BY <1>1, <1>3, CancelTailShape, EndInErrorShape, EndMoves
<1>4. CASE ReadBatch(o, a)
  <2> DEFINE segs == outbox[a][task[o][a].trigger].segs
             w == [task[o][a] EXCEPT !.pc = "preparing",
                     !.todo = {i \in DOMAIN segs : segs[i].status # "confirmed"}]
  <2>0. At(o, a, "reading")
    BY <1>4 DEF ReadBatch
  <2>1. /\ At(o, a, "reading")
        /\ Running(task[o][a])
        /\ task[o][a] # Idle
    BY <2>0 DEF At, Running, Waits, Idle
  <2>2. CASE EndInError(o, a) \/ CancelTail(o, a)
    BY <1>3, <2>1, <2>2
  <2>3. CASE /\ jobs' = jobs
             /\ task' = [task EXCEPT ![o][a].pc = "preparing",
                   ![o][a].todo = {i \in DOMAIN segs : segs[i].status # "confirmed"}]
    <3>1. /\ task[o][a] \in Task /\ Busy(outbox[a], task[o][a], works[o][a])
      BY <2>1, TaskFields
    <3>2. DOMAIN segs \subseteq Ordinals
      BY <2>1, <3>1, SegmentOrdinals DEF Busy
    <3>3. /\ w \in Task
          /\ w.pc = "preparing"
          /\ Keeps(task[o][a], w)
          /\ w.todo \subseteq DOMAIN segs
      BY <3>1, <3>2 DEF Task, Keeps, Places
    <3>4. task' = [task EXCEPT ![o][a] = w]
      BY <2>3 DEF WorkInv, TaskType, Task
    <3> HIDE DEF w
    <3>5. Busy(outbox[a], w, works[o][a])
      BY <2>1, <3>1, <3>3 DEF Busy, Keeps, Attempts
    <3> QED
      BY <1>1, <2>1, <2>3, <3>3, <3>4, <3>5 DEF Moved, Becomes
  <2> QED
    BY <1>4, <2>2, <2>3 DEF ReadBatch
<1>5. CASE GiveUp(o, a)
  BY <1>3, <1>5 DEF GiveUp, At, Running, Waits
<1>6. CASE PrepareSegment(o, a)
  <2>1. /\ At(o, a, "preparing")
        /\ Running(task[o][a])
        /\ task[o][a] # Idle
    BY <1>6 DEF PrepareSegment, At, Running, Waits, Idle
  <2>2. CASE EndInError(o, a) \/ (End(o, a) /\ UNCHANGED jobs)
    BY <1>3, <2>1, <2>2
  <2>3. CASE /\ task[o][a].todo # {}
             /\ jobs' = jobs
             /\ task' = [task EXCEPT ![o][a].pc = "signed", ![o][a].digest = proto[a].digest]
    <3> DEFINE w == [task[o][a] EXCEPT !.pc = "signed", !.digest = proto[a].digest]
    <3>1. /\ task[o][a] \in Task /\ Busy(outbox[a], task[o][a], works[o][a])
      BY <2>1, TaskFields
    <3>2. proto[a].digest \in Digests \cup {NoDigest}
      BY DEF TypeOK, ProtoType
    <3>3. /\ w \in Task
          /\ w.pc = "signed"
          /\ Keeps(task[o][a], w)
          /\ w.todo = task[o][a].todo
      BY <3>1, <3>2 DEF Task, Keeps, Places
    <3>4. task' = [task EXCEPT ![o][a] = w]
      BY <2>3 DEF WorkInv, TaskType, Task
    <3> HIDE DEF w
    <3>5. Busy(outbox[a], w, works[o][a])
      BY <2>1, <2>3, <3>1, <3>3 DEF Busy, Keeps
    <3> QED
      BY <1>1, <2>1, <2>3, <3>3, <3>4, <3>5 DEF Moved, Becomes
  <2> QED
    BY <1>6, <2>2, <2>3 DEF PrepareSegment
<1>7. CASE ClaimSegment(o, a)
  <2>1. /\ At(o, a, "signed")
        /\ Running(task[o][a]) /\ task[o][a].pc \in Attempts
    BY <1>7 DEF ClaimSegment, At, Running, Waits, Attempts
  <2>2. CASE Submits(o, a, "start", "claiming")
    BY <1>1, <2>1, <2>2, SubmitsSubmits DEF Waits
  <2> QED
    BY <1>3, <1>7, <2>1, <2>2 DEF ClaimSegment
<1>8. CASE Post(o, a)
  <2>1. Running(task[o][a]) /\ task[o][a].pc \in Attempts
    BY <1>8 DEF Post, At, Running, Waits, Attempts
  <2>2. Goto(o, a, "posting") /\ UNCHANGED jobs
    BY <1>8 DEF Post
  <2> QED
    BY <1>1, <2>1, <2>2, GotoMoves DEF Places
<1>9. CASE RejectUnsent(o, a)
  <2>1. Running(task[o][a]) /\ task[o][a].pc \in Attempts
    BY <1>9 DEF RejectUnsent, At, Running, Waits, Attempts
  <2> DEFINE outcome == <<"reject", "none">>
  <2>2. /\ outcome \in Verdicts /\ outcome[1] = "reject"
        /\ NoPlatformId \in IdsFor(outcome[1])
        /\ Persist(o, a, outcome, NoPlatformId)
    BY <1>9 DEF RejectUnsent, Verdicts, IdsFor
  <2> HIDE DEF outcome
  <2> QED
    BY <1>1, <2>1, <2>2, PersistShape
<1>10. CASE Answered(o, a)
  <2>1. Running(task[o][a]) /\ task[o][a].pc \in Attempts
    BY <1>10 DEF Answered, At, Running, Waits, Attempts
  <2>2. PICK r \in requests : \E outcome \in OutcomesOf(r.fate) :
          Persist(o, a, outcome, IF outcome[1] = "confirm" THEN r.platformId ELSE NoPlatformId)
    BY <1>10 DEF Answered, RequestOf
  <2>3. PICK outcome \in OutcomesOf(r.fate) :
          Persist(o, a, outcome, IF outcome[1] = "confirm" THEN r.platformId ELSE NoPlatformId)
    BY <2>2
  <2> DEFINE platformId == IF outcome[1] = "confirm" THEN r.platformId ELSE NoPlatformId
  <2>4. /\ outcome \in Verdicts
        /\ outcome[1] \in {"confirm", "mark_uncertain", "reject"}
        /\ outcome[1] = "confirm" => r.fate = "delivered"
    BY DEF OutcomesOf, SenderOutcome, Verdicts
  <2>5. platformId \in IdsFor(outcome[1])
    BY <2>4 DEF RequestType, IdsFor
  <2>6. Persist(o, a, outcome, platformId)
    BY <2>3
  <2> HIDE DEF platformId
  <2> QED
    BY <1>1, <2>1, <2>4, <2>5, <2>6, PersistShape
<1>11. CASE Continue(o, a)
  <2>1. /\ At(o, a, "persisted")
        /\ Running(task[o][a])
        /\ task[o][a] # Idle
    BY <1>11 DEF Continue, At, Running, Waits, Idle
  <2>2. CASE EndInError(o, a) \/ CancelTail(o, a)
    BY <1>3, <2>1, <2>2
  <2>3. CASE /\ jobs' = jobs
             /\ task' = [task EXCEPT ![o][a].pc = "preparing",
                                     ![o][a].todo = @ \ {Current(o, a)}]
    <3> DEFINE w == [task[o][a] EXCEPT !.pc = "preparing", !.todo = @ \ {Current(o, a)}]
    <3>1. /\ task[o][a] \in Task /\ Busy(outbox[a], task[o][a], works[o][a])
      BY <2>1, TaskFields
    <3>2. /\ w \in Task
          /\ w.pc = "preparing"
          /\ Keeps(task[o][a], w)
          /\ w.todo \subseteq task[o][a].todo
      BY <3>1 DEF Task, Keeps, Places
    <3>3. task' = [task EXCEPT ![o][a] = w]
      BY <2>3 DEF WorkInv, TaskType, Task
    <3> HIDE DEF w
    <3>4. Busy(outbox[a], w, works[o][a])
      BY <2>1, <3>1, <3>2 DEF Busy, Keeps, Attempts
    <3> QED
      BY <1>1, <2>1, <2>3, <3>2, <3>3, <3>4 DEF Moved, Becomes
  <2> QED
    BY <1>11, <2>2, <2>3 DEF Continue
<1>12. CASE HandleError(o, a)
  BY <1>3, <1>12 DEF HandleError, At, Running, Waits
<1> QED
  BY <1>2, <1>4, <1>5, <1>6, <1>7, <1>8, <1>9, <1>10, <1>11, <1>12 DEF Proceeding

LEMMA MovedKeeps ==
  ASSUME WorkInv, NEW o \in Owners, NEW a \in Accounts, Moved(o, a)
  PROVE  WorkInv'
<1>1. PICK w \in Task :
        /\ Becomes(o, a, w)
        /\ Busy(outbox[a], w, works[o][a])
        /\ w = Idle \/ (Running(task[o][a]) /\ Keeps(task[o][a], w))
  BY DEF Moved
<1>2. /\ task' \in [Owners -> [Accounts -> Task]]
      /\ task'[o][a] = w
      /\ \A p \in Owners, b \in Accounts : ~(p = o /\ b = a) => task'[p][b] = task[p][b]
      /\ outbox' = outbox /\ works' = works /\ jobs' = jobs
  BY <1>1 DEF Becomes, WorkInv, TaskType, Moved
<1>3. TaskType'
  BY <1>1, <1>2 DEF WorkInv, TaskType
<1>4. JobType'
  BY <1>2 DEF WorkInv, JobType
<1>5. ASSUME NEW job \in jobs, job.owner = o, job.account = a, job.work > 0
      PROVE  job.work # w.work
  BY <1>1, <1>5 DEF WorkInv, Awaited, AnswersCurrent, Running, Keeps, Idle
<1>6. ASSUME NEW job \in jobs, AnswersCurrent(job)'
      PROVE  /\ AnswersCurrent(job)
             /\ task'[job.owner][job.account] = task[job.owner][job.account]
  <2>1. job.owner \in Owners /\ job.account \in Accounts
    BY DEF WorkInv, JobType, Closure
  <2> QED
    BY <1>2, <1>5, <1>6, <2>1 DEF AnswersCurrent
<1>7. Awaited'
  BY <1>2, <1>6 DEF WorkInv, Awaited
<1> QED
  BY <1>3, <1>4, <1>7 DEF WorkInv

LEMMA SubmittedKeeps ==
  ASSUME WorkInv, NEW o \in Owners, NEW a \in Accounts, Submitted(o, a)
  PROVE  WorkInv'
<1>1. PICK w \in Task, new \in Closure :
        /\ Becomes(o, a, w)
        /\ Busy(outbox[a], w, works[o][a])
        /\ Running(task[o][a])
        /\ Keeps(task[o][a], w)
        /\ w.pc \in Waits
        /\ jobs' = jobs \cup {new}
        /\ new.owner = o /\ new.account = a /\ new.work = w.work /\ new.trigger = w.trigger
        /\ WritesOutcome(new)
        /\ new.op = "persist" => w.pc = "persisting"
        /\ new.op = "start" => w.pc = "claiming" /\ w.todo = new.todo
  BY DEF Submitted
<1>2. /\ task' \in [Owners -> [Accounts -> Task]]
      /\ task'[o][a] = w
      /\ \A p \in Owners, b \in Accounts : ~(p = o /\ b = a) => task'[p][b] = task[p][b]
      /\ outbox' = outbox /\ works' = works
  BY <1>1 DEF Becomes, WorkInv, TaskType
<1>3. /\ outbox[a][new.trigger] # NoBatch
      /\ new.work \in 1..works[o][a]
  BY <1>1 DEF Busy, Idle, Waits
<1>4. TaskType'
  BY <1>1, <1>2 DEF WorkInv, TaskType
<1>5. JobType'
  <2>1. new.work <= works[o][a]
    BY <1>3
  <2>2. \A job \in jobs' : job \in jobs \/ job = new
    BY <1>1
  <2> QED
    BY <1>1, <1>2, <1>3, <2>1, <2>2 DEF WorkInv, JobType
<1>6. ASSUME NEW job \in jobs, job.owner = o, job.account = a, job.work > 0
      PROVE  job.work # w.work
  BY <1>1, <1>6 DEF WorkInv, Awaited, AnswersCurrent, Running, Keeps
<1>7. ASSUME NEW job \in jobs, AnswersCurrent(job)'
      PROVE  /\ AnswersCurrent(job)
             /\ task'[job.owner][job.account] = task[job.owner][job.account]
             /\ ~SameWork(job, new)
  <2>1. job.owner \in Owners /\ job.account \in Accounts
    BY DEF WorkInv, JobType, Closure
  <2> QED
    BY <1>1, <1>2, <1>6, <1>7, <2>1 DEF AnswersCurrent, SameWork
<1>8. ASSUME NEW job \in jobs, SameWork(new, job)
      PROVE  FALSE
  <2>1. job.work > 0
    BY <1>3, <1>8 DEF SameWork, WorkInv, JobType, Closure
  <2> QED
    BY <1>1, <1>6, <1>8, <2>1 DEF SameWork
<1>9. Awaited'
  <2> SUFFICES ASSUME NEW job \in jobs', AnswersCurrent(job)'
               PROVE  /\ task'[job.owner][job.account].pc \in Waits
                      /\ job.op = "persist" =>
                           task'[job.owner][job.account].pc = "persisting"
                      /\ job.op = "start" =>
                           /\ task'[job.owner][job.account].pc = "claiming"
                           /\ task'[job.owner][job.account].trigger = job.trigger
                           /\ task'[job.owner][job.account].todo = job.todo
                      /\ \A other \in jobs' : SameWork(job, other) => job = other
    BY DEF Awaited, SameWork
  <2>1. CASE job \in jobs
    BY <1>1, <1>7, <2>1 DEF WorkInv, Awaited
  <2>2. CASE job = new
    BY <1>1, <1>2, <1>8, <2>2
  <2> QED
    BY <1>1, <2>1, <2>2
<1> QED
  BY <1>4, <1>5, <1>9 DEF WorkInv

LEMMA DispatchKeeps ==
  ASSUME WorkInv, OwnershipType, NEW o \in Owners, NEW a \in Accounts, Dispatch(o, a)
  PROVE  WorkInv'
<1>1. PICK trigger \in Unfinished(a) :
        task' = [task EXCEPT ![o][a] =
          [Idle EXCEPT !.pc = "reading", !.work = works[o][a] + 1,
                       !.trigger = trigger, !.epoch = control[o][a].epoch]]
  BY DEF Dispatch
<1> DEFINE w == [Idle EXCEPT !.pc = "reading", !.work = works[o][a] + 1,
                             !.trigger = trigger, !.epoch = control[o][a].epoch]
           issued == works[o][a] + 1
<1>2. /\ works[o][a] \in Nat /\ issued \in Nat
      /\ control[o][a].epoch \in Epochs /\ control[o][a].epoch \in 0..MaxEpoch
  BY LiveAssumption, StoreAssumption DEF OwnershipType, Control, Dispatch, Epochs
<1>3. /\ trigger \in Triggers
      /\ outbox[a][trigger] # NoBatch
  BY DEF Unfinished
<1>4. /\ w \in Task
      /\ w.pc = "reading" /\ w.work = issued /\ w.trigger = trigger
      /\ w.epoch \in Epochs /\ w.todo = {}
  <2>1. Idle.todo = {}
    BY DEF Idle
  <2>2. /\ w \in Task
        /\ w.pc = "reading" /\ w.work = issued /\ w.trigger = trigger
        /\ w.epoch = control[o][a].epoch /\ w.todo = Idle.todo
    <3> HIDE DEF issued
    <3> QED
      BY <1>2, <1>3, IdleTask DEF Task, Places, issued
  <2> QED
    BY <1>2, <2>1, <2>2
<1> HIDE DEF w
<1>5. /\ task' = [task EXCEPT ![o][a] = w]
      /\ works' = [works EXCEPT ![o][a] = issued]
      /\ outbox' = outbox /\ jobs' = jobs
  BY <1>1 DEF w, Dispatch, storeVars, vars, outVars
<1>6. /\ task' \in [Owners -> [Accounts -> Task]]
      /\ task'[o][a] = w /\ works'[o][a] = issued
      /\ \A p \in Owners, b \in Accounts :
           ~(p = o /\ b = a) => task'[p][b] = task[p][b] /\ works'[p][b] = works[p][b]
  BY <1>4, <1>5 DEF WorkInv, TaskType, OwnershipType
<1>7. Busy(outbox[a], w, issued)
  BY <1>2, <1>3, <1>4 DEF Busy, Attempts
<1>8. TaskType'
  BY <1>5, <1>6, <1>7 DEF WorkInv, TaskType
<1>9. ASSUME NEW job \in jobs
      PROVE  /\ job.work \in Nat
             /\ job.owner \in Owners /\ job.account \in Accounts
             /\ job.work <= works[job.owner][job.account]
             /\ works[job.owner][job.account] \in Nat
  BY LiveAssumption DEF WorkInv, JobType, Closure, OwnershipType
<1>10. JobType'
  <2>1. ASSUME NEW job \in jobs
        PROVE  job.work <= works'[job.owner][job.account]
    BY <1>2, <1>6, <1>9
  <2> QED
    BY <1>5, <2>1 DEF WorkInv, JobType
<1>11. ASSUME NEW job \in jobs, AnswersCurrent(job)'
       PROVE  /\ AnswersCurrent(job)
              /\ task'[job.owner][job.account] = task[job.owner][job.account]
  <2>1. ~(job.owner = o /\ job.account = a)
    BY <1>2, <1>4, <1>6, <1>9, <1>11 DEF AnswersCurrent
  <2> QED
    BY <1>6, <1>9, <1>11, <2>1 DEF AnswersCurrent
<1>12. Awaited'
  BY <1>5, <1>11 DEF WorkInv, Awaited
<1> QED
  BY <1>8, <1>10, <1>12 DEF WorkInv

LEMMA StopBatchKeeps ==
  ASSUME WorkInv, OwnershipType, NEW o \in Owners, NEW a \in Accounts, StopBatch(o, a)
  PROVE  WorkInv'
<1>1. PICK trigger \in Unfinished(a) :
        jobs' = jobs \cup
          {Job(o, a, [Idle EXCEPT !.trigger = trigger, !.epoch = grant[o][a]], "cancel")}
  BY DEF StopBatch
<1> DEFINE w == [Idle EXCEPT !.trigger = trigger, !.epoch = grant[o][a]]
           new == Job(o, a, w, "cancel")
<1>2. grant[o][a] \in Epochs /\ grant[o][a] \in 0..MaxEpoch
  BY StoreAssumption DEF OwnershipType, StopBatch, Epochs
<1>3. /\ trigger \in Triggers
      /\ outbox[a][trigger] # NoBatch
  BY DEF Unfinished
<1>4. Idle.work = 0
  BY DEF Idle
<1>5. /\ w \in Task
      /\ w.work = Idle.work /\ w.trigger = trigger /\ w.epoch = grant[o][a]
  BY <1>2, <1>3, IdleTask DEF Task
<1> HIDE DEF w
<1>6. /\ new \in Closure
      /\ new.owner = o /\ new.account = a /\ new.op = "cancel"
      /\ new.work = 0 /\ new.trigger = trigger
  BY <1>2, <1>3, <1>4, <1>5 DEF Job, Closure, Task
<1>7. jobs' = jobs \cup {new}
  BY <1>1 DEF w
<1> HIDE DEF new
<1>8. UNCHANGED <<outbox, works, task>>
  BY DEF StopBatch, storeVars, vars, outVars
<1>9. TaskType'
  BY <1>8 DEF WorkInv, TaskType
<1>10. JobType'
  <2>1. works[o][a] \in Nat
    BY LiveAssumption DEF OwnershipType
  <2>2. WritesOutcome(new) /\ new.work <= works[o][a]
    BY <1>6, <2>1 DEF WritesOutcome
  <2>3. \A job \in jobs' : job \in jobs \/ job = new
    BY <1>7
  <2> QED
    BY <1>3, <1>6, <1>8, <2>2, <2>3 DEF WorkInv, JobType
<1>11. Awaited'
  <2>1. \A job \in jobs' : job \in jobs \/ job = new
    BY <1>7
  <2>2. \A job \in jobs' : AnswersCurrent(job)' =>
          job \in jobs /\ AnswersCurrent(job) /\ ~SameWork(job, new)
    BY <1>6, <1>8, <2>1 DEF AnswersCurrent, SameWork
  <2> QED
    BY <1>8, <2>1, <2>2 DEF WorkInv, Awaited
<1> QED
  BY <1>9, <1>10, <1>11 DEF WorkInv

(* A step of the store that leaves works and jobs alone.                   *)
LEMMA StoreKeeps ==
  ASSUME TypeOK, WorkInv, StoreStep, UNCHANGED <<works, task, jobs>>
  PROVE  WorkInv'
<1>1. TaskType'
  <2>1. \A o \in Owners, a \in Accounts : Busy(outbox'[a], task[o][a], works[o][a])
    BY BusyStays DEF WorkInv, TaskType
  <2> QED
    BY <2>1 DEF WorkInv, TaskType
<1>2. JobType'
  <2>1. \A job \in jobs : outbox'[job.account][job.trigger] # NoBatch
    BY BatchesStay DEF WorkInv, JobType, Closure
  <2> QED
    BY <2>1 DEF WorkInv, JobType
<1>3. Awaited'
  BY DEF WorkInv, Awaited, AnswersCurrent
<1> QED
  BY <1>1, <1>2, <1>3 DEF WorkInv

(* What a job makes of the work that waits for it, if it does.             *)
Answers(job) ==
  \E w \in Task :
    /\ task' = IF Waiting(job) THEN [task EXCEPT ![job.owner][job.account] = w] ELSE task
    /\ Waiting(job) =>
         LET v == task[job.owner][job.account]
         IN  w = Idle \/ (/\ Keeps(v, w) /\ w.todo = v.todo
                          /\ w.pc \in {"claimed", "persisted", "failed"}
                          /\ w.pc \in Attempts => v.pc \in Attempts)

(* A job ends, or goes on with the rest of its segments.                   *)
JobShape(job) ==
  \/ jobs' = jobs \ {job} /\ Answers(job)
  \/ /\ task' = task
     /\ \E rest \in Closure :
          /\ jobs' = (jobs \ {job}) \cup {rest}
          /\ SameWork(rest, job) /\ rest.trigger = job.trigger
          /\ rest.op = "cancelling"

LEMMA JobKeeps ==
  ASSUME TypeOK, WorkInv, StoreStep, works' = works, NEW job \in jobs, JobShape(job)
  PROVE  WorkInv'
<1> DEFINE o == job.owner
           a == job.account
<1>1. /\ job \in Closure /\ o \in Owners /\ a \in Accounts
      /\ job.work <= works[o][a] /\ job.work \in Nat
  BY DEF WorkInv, JobType, Closure
<1>2. \A p \in Owners, b \in Accounts : Busy(outbox'[b], task[p][b], works[p][b])
  BY BusyStays DEF WorkInv, TaskType
<1>3. \A other \in jobs : /\ other \in Closure
                          /\ outbox'[other.account][other.trigger] # NoBatch
                          /\ WritesOutcome(other)
                          /\ other.work <= works[other.owner][other.account]
  BY BatchesStay DEF WorkInv, JobType, Closure
<1>4. CASE jobs' = jobs \ {job} /\ task' = task
  BY <1>2, <1>3, <1>4 DEF WorkInv, TaskType, JobType, Awaited, AnswersCurrent
<1>5. CASE jobs' = jobs \ {job} /\ Waiting(job) /\ Answers(job)
  <2>1. PICK w \in Task :
          /\ task' = [task EXCEPT ![o][a] = w]
          /\ \/ w = Idle
             \/ /\ Keeps(task[o][a], w) /\ w.todo = task[o][a].todo
                /\ w.pc \in {"claimed", "persisted", "failed"}
                /\ w.pc \in Attempts => task[o][a].pc \in Attempts
    BY <1>5 DEF Answers
  <2>2. /\ task' \in [Owners -> [Accounts -> Task]]
        /\ task'[o][a] = w
        /\ \A p \in Owners, b \in Accounts : ~(p = o /\ b = a) => task'[p][b] = task[p][b]
    BY <1>1, <2>1 DEF WorkInv, TaskType
  <2>3. /\ task[o][a].work = job.work
        /\ task[o][a] # Idle
    BY <1>5 DEF Waiting, Idle
  <2>4. Busy(outbox'[a], w, works[o][a])
    BY <1>1, <1>2, <2>1, <2>3 DEF Busy, Keeps
  <2>5. TaskType'
    BY <1>2, <2>2, <2>4 DEF TaskType
  <2>6. JobType'
    BY <1>3, <1>5 DEF JobType
  <2>7. ASSUME NEW other \in jobs', AnswersCurrent(other)'
        PROVE  /\ other \in jobs
               /\ AnswersCurrent(other)
               /\ task'[other.owner][other.account] = task[other.owner][other.account]
    <3>1. other \in jobs /\ other # job /\ other.owner \in Owners /\ other.account \in Accounts
      BY <1>3, <1>5 DEF Closure
    <3>2. CASE other.owner = o /\ other.account = a
      <4>1. other.work > 0 /\ other.work = w.work
        BY <2>2, <2>7, <3>2 DEF AnswersCurrent
      <4>2. other.work = task[o][a].work
        BY <2>1, <4>1 DEF Keeps, Idle
      <4>3. AnswersCurrent(other) /\ SameWork(other, job)
        BY <2>3, <3>2, <4>1, <4>2 DEF AnswersCurrent, SameWork
      <4> QED
        BY <3>1, <4>3 DEF WorkInv, Awaited
    <3> QED
      BY <2>2, <2>7, <3>1, <3>2 DEF AnswersCurrent
  <2>8. Awaited'
    BY <1>5, <2>7 DEF WorkInv, Awaited
  <2> QED
    BY <2>5, <2>6, <2>8 DEF WorkInv
<1>6. CASE /\ task' = task
           /\ \E rest \in Closure :
                /\ jobs' = (jobs \ {job}) \cup {rest}
                /\ SameWork(rest, job) /\ rest.trigger = job.trigger
                /\ rest.op = "cancelling"
  <2>1. PICK rest \in Closure :
          /\ jobs' = (jobs \ {job}) \cup {rest}
          /\ SameWork(rest, job) /\ rest.trigger = job.trigger
          /\ rest.op = "cancelling"
    BY <1>6
  <2>2. TaskType'
    BY <1>2, <1>6 DEF WorkInv, TaskType
  <2>3. JobType'
    BY <1>3, <2>1 DEF JobType, SameWork, WritesOutcome
  <2>4. Awaited'
    <3>1. AnswersCurrent(rest)' => AnswersCurrent(job)
      BY <1>6, <2>1 DEF AnswersCurrent, SameWork
    <3>2. \A other \in jobs : AnswersCurrent(other)' => AnswersCurrent(other)
      BY <1>6 DEF AnswersCurrent
    <3>3. \A other \in jobs \ {job} :
            AnswersCurrent(other)' => ~SameWork(other, rest) /\ ~SameWork(rest, other)
      BY <2>1, <3>2 DEF WorkInv, Awaited, SameWork
    <3>4. AnswersCurrent(rest)' => \A other \in jobs \ {job} : ~SameWork(rest, other)
      BY <2>1, <3>1 DEF WorkInv, Awaited, SameWork
    <3>5. \A other \in jobs' : other \in jobs \ {job} \/ other = rest
      BY <2>1
    <3>6. \A other \in jobs' : AnswersCurrent(other)' =>
            \A third \in jobs' : SameWork(other, third) => other = third
      BY <3>2, <3>3, <3>4, <3>5 DEF WorkInv, Awaited
    <3>7. \A other \in jobs' : AnswersCurrent(other)' =>
            /\ task[other.owner][other.account].pc \in Waits
            /\ other.op = "persist" => task[other.owner][other.account].pc = "persisting"
            /\ other.op = "start" =>
                 /\ task[other.owner][other.account].pc = "claiming"
                 /\ task[other.owner][other.account].trigger = other.trigger
                 /\ task[other.owner][other.account].todo = other.todo
      BY <2>1, <3>1, <3>2, <3>5 DEF WorkInv, Awaited, SameWork
    <3> QED
      BY <1>6, <3>6, <3>7 DEF Awaited
  <2> QED
    BY <2>2, <2>3, <2>4 DEF WorkInv
<1> QED
  BY <1>4, <1>5, <1>6 DEF JobShape, Answers

LEMMA WaitingCurrent ==
  ASSUME WorkInv, NEW job \in jobs, Waiting(job)
  PROVE  AnswersCurrent(job)
BY DEF WorkInv, TaskType, JobType, Closure, Busy, Waiting, AnswersCurrent, Idle, Waits

LEMMA AnswerShape ==
  ASSUME WorkInv, NEW job \in jobs, NEW pc \in {"claimed", "persisted", "failed"},
         pc = "claimed" => job.op = "start", pc = "persisted" => job.op = "persist",
         Answer(job, pc)
  PROVE  Answers(job)
<1> DEFINE v == task[job.owner][job.account]
           w == [v EXCEPT !.pc = pc]
<1>1. v \in Task
  BY DEF WorkInv, TaskType, JobType, Closure
<1>2. w \in Task /\ w.pc = pc /\ Keeps(v, w) /\ w.todo = v.todo
  BY <1>1 DEF Task, Keeps, Places
<1>3. ASSUME Waiting(job), pc \in Attempts
      PROVE  v.pc \in Attempts
  <2>1. AnswersCurrent(job)
    BY <1>3, WaitingCurrent
  <2>2. /\ job.op = "persist" => v.pc = "persisting"
        /\ job.op = "start" => v.pc = "claiming"
    BY <2>1 DEF WorkInv, Awaited
  <2> QED
    BY <1>3, <2>2 DEF Attempts
<1>4. task' = IF Waiting(job) THEN [task EXCEPT ![job.owner][job.account] = w] ELSE task
  BY DEF Answer
<1> HIDE DEF w, v
<1> QED
  BY <1>2, <1>3, <1>4 DEF Answers, v

LEMMA DoneShape ==
  ASSUME NEW job \in jobs, Done(job)
  PROVE  Answers(job)
BY IdleTask DEF Done, Answers

LEMMA JobStepShape ==
  ASSUME TypeOK, WorkInv, NEW job \in jobs, JobStep(job)
  PROVE  JobShape(job)
<1>1. job \in Closure /\ outbox[job.account][job.trigger] # NoBatch
  BY DEF WorkInv, JobType
<1>2. CASE RunStart(job)
  BY <1>2, AnswerShape DEF RunStart, JobShape
<1>3. CASE RunPersist(job)
  BY <1>3, AnswerShape DEF RunPersist, JobShape
<1>4. ASSUME NEW todo \in SUBSET Ordinals, Remaining(job, todo)
      PROVE  JobShape(job)
  <2>1. CASE jobs' = jobs \ {job} /\ Done(job)
    BY <2>1, DoneShape DEF JobShape
  <2>2. CASE /\ jobs' = (jobs \ {job}) \cup {[job EXCEPT !.op = "cancelling", !.todo = todo]}
             /\ UNCHANGED task
    <3> DEFINE rest == [job EXCEPT !.op = "cancelling", !.todo = todo]
    <3>1. /\ rest \in Closure
          /\ SameWork(rest, job) /\ rest.trigger = job.trigger
          /\ rest.op = "cancelling"
      BY <1>1 DEF Closure, SameWork
    <3> HIDE DEF rest
    <3> QED
      BY <2>2, <3>1 DEF JobShape, rest
  <2> QED
    BY <1>4, <2>1, <2>2 DEF Remaining
<1>5. CASE RunCancel(job)
  <2> DEFINE segs == outbox[job.account][job.trigger].segs
             open == {i \in DOMAIN segs : segs[i].status \in {"prepared", "retryable"}}
  <2>1. open \in SUBSET Ordinals
    BY <1>1, SegmentOrdinals DEF Closure
  <2>2. job.todo \ {Least(job.todo)} \in SUBSET Ordinals
    BY <1>1 DEF Closure
  <2>3. Remaining(job, open) \/ Remaining(job, job.todo \ {Least(job.todo)})
    BY <1>5 DEF RunCancel
  <2> HIDE DEF open
  <2> QED
    BY <1>4, <2>1, <2>2, <2>3
<1>6. CASE RunCancelFirst(job)
  BY <1>6, DoneShape DEF RunCancelFirst, JobShape
<1>7. CASE FailJob(job)
  <2>1. CASE Done(job)
    BY <1>7, <2>1, DoneShape DEF FailJob, JobShape
  <2>2. CASE Answer(job, "failed")
    BY <1>7, <2>2, AnswerShape DEF FailJob, JobShape
  <2> QED
    BY <1>7, <2>1, <2>2 DEF FailJob
<1> QED
  BY <1>2, <1>3, <1>5, <1>6, <1>7 DEF JobStep

(* Of records like those of Control, whatever the values of their fields.  *)
LEMMA FieldKept ==
  ASSUME NEW E, NEW P, NEW C, NEW r \in [epoch : E, permits : P, capable : C]
  PROVE  /\ \A e \in E : [r EXCEPT !.epoch = e] \in [epoch : E, permits : P, capable : C]
         /\ \A p \in P : [r EXCEPT !.permits = p] \in [epoch : E, permits : P, capable : C]
         /\ \A c \in C : [r EXCEPT !.capable = c] \in [epoch : E, permits : P, capable : C]
OBVIOUS

LEMMA ControlFields ==
  ASSUME NEW r \in Control
  PROVE  /\ \A e \in 0..MaxEpoch : [r EXCEPT !.epoch = e] \in Control
         /\ \A p \in Permissions \cup {"none"} : [r EXCEPT !.permits = p] \in Control
         /\ \A c \in BOOLEAN : [r EXCEPT !.capable = c] \in Control
BY FieldKept, Zenon DEF Control

LEMMA ControlKept ==
  ASSUME OwnershipType, NEW o \in Owners, NEW a \in Accounts, NEW c \in Control,
         control' = [control EXCEPT ![o][a] = c]
  PROVE  control' \in [Owners -> [Accounts -> Control]]
BY DEF OwnershipType

LEMMA CapableKept ==
  ASSUME OwnershipType, NEW o \in Owners, NEW a \in Accounts, NEW capable \in BOOLEAN,
         control' = [control EXCEPT ![o][a].capable = capable]
  PROVE  control' \in [Owners -> [Accounts -> Control]]
<1> DEFINE c == [control[o][a] EXCEPT !.capable = capable]
<1>1. c \in Control
  BY ControlFields DEF OwnershipType
<1>2. control' = [control EXCEPT ![o][a] = c]
  OBVIOUS
<1> HIDE DEF c
<1> QED
  BY <1>1, <1>2, ControlKept

LEMMA OwnerKeepsOwnership ==
  ASSUME OwnershipType, NEW o \in Owners, NEW a \in Accounts, OwnerNext(o, a)
  PROVE  OwnershipType'
<1>1. CASE Install(o, a)
  <2>1. PICK epoch \in Epochs : held' = [held EXCEPT ![o][a] = epoch]
    BY <1>1 DEF Install
  <2>2. epoch \in 0..MaxEpoch
    BY StoreAssumption DEF Epochs
  <2> QED
    BY <1>1, <2>1, <2>2 DEF Install, OwnershipType
<1>2. CASE PublishOwnership(o, a)
  <2> DEFINE c == [control[o][a] EXCEPT !.epoch = held[o][a]]
  <2>1. held[o][a] \in 0..MaxEpoch /\ control[o][a] \in Control
    BY DEF OwnershipType
  <2>3. c \in Control
    BY <2>1, ControlFields
  <2>2. control' = [control EXCEPT ![o][a] = c]
    BY <1>2 DEF PublishOwnership
  <2> HIDE DEF c
  <2> QED
    BY <1>2, <2>2, <2>3, ControlKept DEF PublishOwnership, OwnershipType
<1>3. CASE PublishGrant(o, a) \/ DropGrant(o, a)
  <2>1. held[o][a] \in 0..MaxEpoch /\ 0 \in 0..MaxEpoch
    BY StoreAssumption DEF OwnershipType
  <2>2. PICK epoch \in 0..MaxEpoch : grant' = [grant EXCEPT ![o][a] = epoch]
    <3>1. CASE PublishGrant(o, a)
      BY <2>1, <3>1 DEF PublishGrant
    <3>2. CASE DropGrant(o, a)
      BY <2>1, <3>2 DEF DropGrant
    <3> QED
      BY <1>3, <3>1, <3>2
  <2> QED
    BY <1>3, <2>2 DEF PublishGrant, DropGrant, OwnershipType
<1>4. CASE ReleaseLocal(o, a)
  BY <1>4, StoreAssumption DEF ReleaseLocal, OwnershipType
<1>5. CASE ChangePermission(o, a)
  <2>1. PICK permits \in Permissions : control' = [control EXCEPT ![o][a].permits = permits]
    BY <1>5 DEF ChangePermission
  <2> DEFINE c == [control[o][a] EXCEPT !.permits = permits]
  <2>2. c \in Control
    BY ControlFields DEF OwnershipType
  <2>3. control' = [control EXCEPT ![o][a] = c]
    BY <2>1
  <2> HIDE DEF c
  <2> QED
    BY <1>5, <2>2, <2>3, ControlKept DEF ChangePermission, OwnershipType
<1> QED
  BY <1>1, <1>2, <1>3, <1>4, <1>5 DEF OwnerNext

LEMMA OwnershipKept ==
  ASSUME OwnershipType, LiveNext
  PROVE  OwnershipType'
<1>1. ASSUME NEW o \in Owners, NEW a \in Accounts, ProcessNext(o, a)
      PROVE  OwnershipType'
  <2>1. CASE Identify(o, a)
    <3>1. PICK digest \in Digests :
            control' = [control EXCEPT
              ![o][a].capable = RestoredCapability(a, digest) \in Attemptable]
      BY <2>1 DEF Identify
    <3> DEFINE capable == RestoredCapability(a, digest) \in Attemptable
    <3>2. capable \in BOOLEAN
      OBVIOUS
    <3>3. control' = [control EXCEPT ![o][a].capable = capable]
      BY <3>1
    <3> HIDE DEF capable
    <3> QED
      BY <2>1, <3>2, <3>3, CapableKept DEF Identify, OwnershipType
  <2> QED
    BY <1>1, <2>1
    DEF ProcessNext, Submit, PlanReply, Reconcile, OwnershipType, ownerVars
<1>2. ASSUME NEW o \in Owners, NEW a \in Accounts, TaskNext(o, a)
      PROVE  OwnershipType'
  <2>1. CASE Dispatch(o, a)
    BY <2>1, LiveAssumption DEF Dispatch, OwnershipType, ownerVars
  <2>2. CASE Continue(o, a)
    <3> DEFINE capable == task[o][a].outcome[2] \in Attemptable
    <3>1. /\ UNCHANGED <<held, grant, works>>
          /\ \/ UNCHANGED control
             \/ control' = [control EXCEPT ![o][a].capable = capable]
      BY <2>2 DEF Continue
    <3>2. capable \in BOOLEAN
      OBVIOUS
    <3> HIDE DEF capable
    <3> QED
      BY <3>1, <3>2, CapableKept DEF OwnershipType
  <2> QED
    BY <1>2, <2>1, <2>2
    DEF OwnershipType, TaskNext, Drop, ReadBatch, GiveUp, PrepareSegment, ClaimSegment, Post,
        RejectUnsent, Answered, HandleError, StopBatch, ownerVars
<1>3. CASE JobNext \/ PlatformNext
  BY <1>3 DEF OwnershipType, JobNext, PlatformNext, Fate, ownerVars
<1> QED
  BY <1>1, <1>2, <1>3, OwnerKeepsOwnership DEF LiveNext

LEMMA PostedRequest ==
  ASSUME TypeOK, WorkInv, ClaimsTried, NEW o \in Owners, NEW a \in Accounts, Post(o, a)
  PROVE  \E r \in Request :
           /\ requests' = requests \cup {r}
           /\ r.account = a /\ r.trigger = task[o][a].trigger /\ r.ordinal = Current(o, a)
           /\ r.fate = "sent"
<1> DEFINE r == [account |-> a, trigger |-> task[o][a].trigger, ordinal |-> Current(o, a),
                 owner |-> o, work |-> task[o][a].work, fate |-> "sent",
                 platformId |-> NoPlatformId]
<1>1. task[o][a].pc = "claimed"
  BY DEF Post, At
<1>2. task[o][a] \in Task /\ task[o][a].trigger \in Triggers
  BY <1>1, TaskFields DEF Idle
<1>3. Current(o, a) \in Ordinals
  BY <1>1, <1>2, SegmentOrdinals DEF ClaimsTried, Tried
<1>4. /\ r \in Request
      /\ r.account = a /\ r.trigger = task[o][a].trigger /\ r.ordinal = Current(o, a)
      /\ r.fate = "sent"
  BY <1>2, <1>3 DEF Request, Task
<1>5. requests' = requests \cup {r}
  BY DEF Post
<1> HIDE DEF r
<1> QED
  BY <1>4, <1>5

LEMMA AnsweredRequest ==
  ASSUME RequestType, PlatformNext
  PROVE  \E r \in requests, q \in Request :
           /\ requests' = (requests \ {r}) \cup {q}
           /\ q.account = r.account /\ q.trigger = r.trigger /\ q.ordinal = r.ordinal
           /\ q.fate = "delivered" => q.platformId \in PlatformIds
<1>1. PICK r \in requests, fate \in {"delivered", "refused"},
           platformId \in PlatformIds \cup {NoPlatformId} :
        /\ Fate(r, fate, platformId)
        /\ fate = "delivered" => platformId \in PlatformIds
  BY DEF PlatformNext
<1> DEFINE q == [r EXCEPT !.fate = fate, !.platformId = platformId]
<1>2. r \in Request
  BY DEF RequestType
<1>3. /\ q \in Request
      /\ q.account = r.account /\ q.trigger = r.trigger /\ q.ordinal = r.ordinal
      /\ q.fate = fate /\ q.platformId = platformId
  BY <1>2 DEF Request
<1>4. requests' = (requests \ {r}) \cup {q}
  BY <1>1 DEF Fate
<1> HIDE DEF q
<1> QED
  BY <1>1, <1>3, <1>4

(* The three ways a step treats the requests.                              *)
LEMMA RequestSteps ==
  ASSUME LiveNext
  PROVE  \/ \E o \in Owners, a \in Accounts : Post(o, a)
         \/ PlatformNext
         \/ requests' = requests
<1>1. ASSUME NEW o \in Owners, NEW a \in Accounts, OwnerNext(o, a)
      PROVE  requests' = requests
  BY <1>1 DEF OwnerNext, Install, PublishOwnership, PublishGrant, DropGrant, ReleaseLocal,
              ChangePermission
<1>2. ASSUME NEW o \in Owners, NEW a \in Accounts, ProcessNext(o, a)
      PROVE  requests' = requests
  BY <1>2 DEF ProcessNext, Submit, PlanReply, Identify, Reconcile
<1>3. ASSUME NEW o \in Owners, NEW a \in Accounts, TaskNext(o, a), ~Post(o, a)
      PROVE  requests' = requests
  BY <1>3 DEF TaskNext, Dispatch, Drop, ReadBatch, GiveUp, PrepareSegment, ClaimSegment,
              RejectUnsent, Answered, Continue, HandleError, StopBatch
<1>4. CASE JobNext
  BY <1>4 DEF JobNext
<1> QED
  BY <1>1, <1>2, <1>3, <1>4 DEF LiveNext

LEMMA RequestsKept ==
  ASSUME TypeOK, RequestType, WorkInv, ClaimsTried, LiveNext
  PROVE  RequestType'
<1>1. ASSUME NEW o \in Owners, NEW a \in Accounts, Post(o, a)
      PROVE  RequestType'
  BY <1>1, PostedRequest DEF RequestType
<1>2. CASE PlatformNext
  BY <1>2, AnsweredRequest DEF RequestType
<1>3. CASE requests' = requests
  BY <1>3 DEF RequestType
<1> QED
  BY <1>1, <1>2, <1>3, RequestSteps

LEMMA ProcessKept ==
  ASSUME TypeOK, ProcessInv, ClaimsTried, [LiveNext]_liveVars
  PROVE  ProcessInv'
<1>1. StoreStep
  BY LiveStores
<1>2. CASE UNCHANGED liveVars
  <2>1. WorkInv'
    BY <1>1, <1>2, StoreKeeps DEF liveVars, ProcessInv
  <2> QED
    BY <1>2, <2>1 DEF liveVars, ownerVars, ProcessInv, OwnershipType, RequestType
<1>3. ASSUME LiveNext
      PROVE  WorkInv'
  <2>1. ASSUME NEW o \in Owners, NEW a \in Accounts, OwnerNext(o, a) \/ ProcessNext(o, a)
        PROVE  WorkInv'
    <3>1. UNCHANGED <<works, task, jobs>>
      BY <2>1 DEF OwnerNext, Install, PublishOwnership, PublishGrant, DropGrant, ReleaseLocal,
                  ChangePermission, ProcessNext, Submit, PlanReply, Identify, Reconcile
    <3> QED
      BY <1>1, <3>1, StoreKeeps DEF ProcessInv
  <2>2. ASSUME NEW o \in Owners, NEW a \in Accounts, TaskNext(o, a)
        PROVE  WorkInv'
    <3>1. CASE Dispatch(o, a)
      BY <3>1, DispatchKeeps DEF ProcessInv
    <3>2. CASE StopBatch(o, a)
      BY <3>2, StopBatchKeeps DEF ProcessInv
    <3>3. CASE Proceeding(o, a)
      BY <3>3, StepShape, MovedKeeps, SubmittedKeeps DEF ProcessInv
    <3> QED
      BY <2>2, <3>1, <3>2, <3>3 DEF TaskNext, Proceeding
  <2>3. CASE JobNext
    <3>1. PICK job \in jobs : JobStep(job) /\ works' = works
      BY <2>3 DEF JobNext, JobStep
    <3>2. JobShape(job)
      BY <3>1, JobStepShape DEF ProcessInv
    <3> QED
      BY <1>1, <3>1, <3>2, JobKeeps DEF ProcessInv
  <2>4. CASE PlatformNext
    BY <1>1, <2>4, StoreKeeps DEF PlatformNext, Fate, ProcessInv
  <2> QED
    BY <1>3, <2>1, <2>2, <2>3, <2>4 DEF LiveNext
<1> QED
  BY <1>2, <1>3, OwnershipKept, RequestsKept DEF ProcessInv

-----------------------------------------------------------------------------
(* The wire's part.                                                        *)

NoNewClaim ==
  \A o \in Owners, a \in Accounts :
    task'[o][a].pc = "claimed" => task'[o][a] = task[o][a]

LEMMA WireKept ==
  ASSUME TypeOK, StoreStep, ProcessInv, WireInv, NoNewClaim, requests' = requests
  PROVE  WireInv'
<1>1. ASSUME NEW a \in Accounts, NEW t \in Triggers, NEW i, Tried(a, t, i)
      PROVE  Tried(a, t, i)'
  BY <1>1, TriedStays DEF StoreStep
<1>2. RequestsTried'
  <2> SUFFICES ASSUME NEW r \in requests
               PROVE  Tried(r.account, r.trigger, r.ordinal)'
    BY DEF RequestsTried, Tried
  <2>1. /\ r.account \in Accounts /\ r.trigger \in Triggers
        /\ Tried(r.account, r.trigger, r.ordinal)
    BY DEF ProcessInv, RequestType, Request, WireInv, RequestsTried
  <2> QED
    BY <1>1, <2>1 DEF Tried
<1>3. ASSUME NEW o \in Owners, NEW a \in Accounts, task'[o][a].pc = "claimed"
      PROVE  /\ task'[o][a] = task[o][a]
             /\ task[o][a].trigger \in Triggers
             /\ Tried(a, task[o][a].trigger, Current(o, a))
             /\ Unsent(a, task[o][a].trigger, Current(o, a))
  <2>1. task'[o][a] = task[o][a] /\ task[o][a].pc = "claimed"
    BY <1>3 DEF NoNewClaim
  <2> QED
    BY <2>1, TaskFields DEF ProcessInv, WireInv, ClaimsTried, Idle
<1>4. ClaimsTried'
  <2> SUFFICES ASSUME NEW o \in Owners, NEW a \in Accounts, task'[o][a].pc = "claimed"
               PROVE  /\ Tried(a, task[o][a].trigger, Current(o, a))'
                      /\ Unsent(a, task[o][a].trigger, Current(o, a))'
    BY DEF ClaimsTried
  <2> DEFINE t == task[o][a].trigger
             i == Current(o, a)
  <2>1. /\ task'[o][a] = task[o][a]
        /\ t \in Triggers /\ Tried(a, t, i) /\ Unsent(a, t, i)
    BY <1>3
  <2>2. t' = t /\ i' = i
    BY <2>1 DEF Current
  <2> HIDE DEF t, i
  <2>3. /\ outbox'[a][t] # NoBatch
        /\ i \in DOMAIN outbox'[a][t].segs
        /\ outbox'[a][t].segs[i].status \notin {"prepared", "retryable"}
    BY <1>1, <2>1 DEF Tried
  <2>4. Tried(a, t, i)' /\ Unsent(a, t, i)'
    BY <2>1, <2>2, <2>3 DEF Tried, Unsent, RequestOf
  <2> QED
    BY <2>4 DEF t, i
<1>5. ClaimsApart'
  BY <1>3 DEF WireInv, ClaimsApart, Claims, Current
<1>6. AtMostOneRequest'
  BY DEF WireInv, AtMostOneRequest
<1> QED
  BY <1>2, <1>4, <1>5, <1>6 DEF WireInv

LEMMA ShapesClaimNothing ==
  ASSUME WorkInv, NEW o \in Owners, NEW a \in Accounts, Moved(o, a) \/ Submitted(o, a)
  PROVE  NoNewClaim
<1>1. PICK w \in Task : task' = [task EXCEPT ![o][a] = w] /\ w.pc # "claimed"
  BY DEF Moved, Submitted, Becomes, Waits
<1> QED
  BY <1>1 DEF WorkInv, TaskType, NoNewClaim

LEMMA PostKeepsWire ==
  ASSUME TypeOK, ProcessInv, WireInv, NEW o \in Owners, NEW a \in Accounts, Post(o, a)
  PROVE  WireInv'
<1> DEFINE t == task[o][a].trigger
           i == Current(o, a)
<1>1. task[o][a].pc = "claimed"
  BY DEF Post, At
<1>2. Tried(a, t, i) /\ Unsent(a, t, i)
  BY <1>1 DEF WireInv, ClaimsTried
<1>3. PICK r \in Request :
        /\ requests' = requests \cup {r}
        /\ r.account = a /\ r.trigger = t /\ r.ordinal = i
  BY PostedRequest DEF ProcessInv, WireInv
<1>4. outbox' = outbox
  BY DEF Post, storeVars, vars, outVars
<1>5. task' = [task EXCEPT ![o][a].pc = "posting"]
  BY DEF Post, Goto
<1>6. ASSUME NEW p \in Owners, NEW b \in Accounts, task'[p][b].pc = "claimed"
      PROVE  task'[p][b] = task[p][b] /\ ~(p = o /\ b = a)
  BY <1>5, <1>6 DEF ProcessInv, WorkInv, TaskType, Task
<1>7. RequestsTried'
  BY <1>2, <1>3, <1>4 DEF WireInv, RequestsTried, Tried
<1>8. AtMostOneRequest'
  BY <1>2, <1>3 DEF WireInv, AtMostOneRequest, Unsent, RequestOf
<1>9. ClaimsTried'
  <2> SUFFICES ASSUME NEW p \in Owners, NEW b \in Accounts, task'[p][b].pc = "claimed"
               PROVE  /\ Tried(b, task[p][b].trigger, Current(p, b))'
                      /\ Unsent(b, task[p][b].trigger, Current(p, b))'
    BY DEF ClaimsTried
  <2>1. /\ task'[p][b] = task[p][b]
        /\ Current(p, b)' = Current(p, b)
        /\ ~(p = o /\ b = a)
    BY <1>6 DEF Current
  <2>2. /\ Tried(b, task[p][b].trigger, Current(p, b))
        /\ Unsent(b, task[p][b].trigger, Current(p, b))
    BY <2>1 DEF WireInv, ClaimsTried
  <2>3. ~(b = a /\ task[p][b].trigger = t /\ Current(p, b) = i)
    BY <1>1, <2>1 DEF WireInv, ClaimsApart, Claims, Current
  <2> HIDE DEF t, i
  <2>4. Unsent(b, task[p][b].trigger, Current(p, b))'
    BY <1>3, <2>1, <2>2, <2>3 DEF Unsent, RequestOf
  <2>5. Tried(b, task[p][b].trigger, Current(p, b))'
    BY <1>4, <2>1, <2>2 DEF Tried
  <2> QED
    BY <2>4, <2>5
<1>10. ClaimsApart'
  BY <1>6 DEF WireInv, ClaimsApart, Claims, Current
<1> QED
  BY <1>7, <1>8, <1>9, <1>10 DEF WireInv

LEMMA PlatformKeepsWire ==
  ASSUME TypeOK, ProcessInv, WireInv, PlatformNext
  PROVE  WireInv'
<1>1. PICK r \in requests, q \in Request :
        /\ requests' = (requests \ {r}) \cup {q}
        /\ q.account = r.account /\ q.trigger = r.trigger /\ q.ordinal = r.ordinal
  BY AnsweredRequest DEF ProcessInv
<1>2. outbox' = outbox /\ task' = task
  BY DEF PlatformNext, Fate, storeVars, vars, outVars
<1>3. RequestsTried'
  BY <1>1, <1>2 DEF WireInv, RequestsTried, Tried
<1>4. AtMostOneRequest'
  BY <1>1 DEF WireInv, AtMostOneRequest
<1>5. ClaimsTried'
  <2>1. ASSUME NEW o \in Owners, NEW a \in Accounts, task[o][a].pc = "claimed"
        PROVE  /\ Tried(a, task[o][a].trigger, Current(o, a))'
               /\ Unsent(a, task[o][a].trigger, Current(o, a))'
    <3>1. /\ Tried(a, task[o][a].trigger, Current(o, a))
          /\ Unsent(a, task[o][a].trigger, Current(o, a))
      BY <2>1 DEF WireInv, ClaimsTried
    <3>2. Current(o, a)' = Current(o, a)
      BY <1>2 DEF Current
    <3>3. Tried(a, task[o][a].trigger, Current(o, a))'
      BY <1>2, <3>1, <3>2 DEF Tried
    <3>4. Unsent(a, task[o][a].trigger, Current(o, a))'
      BY <1>1, <1>2, <3>1, <3>2 DEF Unsent, RequestOf
    <3> QED
      BY <3>3, <3>4
  <2> QED
    BY <1>2, <2>1 DEF ClaimsTried
<1>6. ClaimsApart'
  BY <1>2 DEF WireInv, ClaimsApart, Claims, Current
<1> QED
  BY <1>3, <1>4, <1>5, <1>6 DEF WireInv

LEMMA ClaimTries ==
  ASSUME TypeOK, NEW a \in Accounts, NEW tok \in Token, NEW t \in Triggers,
         NEW i, NEW transition \in {"start", "start_automatic"},
         TransitionSegment(a, tok, t, i, transition, NoPlatformId, NoObservation)
  PROVE  /\ ~Tried(a, t, i) /\ Tried(a, t, i)'
         /\ outbox'[a][t].segs[i].status = "sending"
<1>1. /\ outbox[a][t] # NoBatch /\ i \in DOMAIN outbox[a][t].segs
      /\ outbox[a][t].segs[i].status \in SourceStatuses[transition]
  BY DEF TransitionSegment, ValidTransition
<1>2. i \in Ordinals
  BY <1>1, SegmentOrdinals
<1>3. transition \in SegmentTransition /\ NoPlatformId \in IdsFor(transition)
  BY DEF SegmentTransition, StartTransitions, IdsFor
<1>4. /\ outbox'[a][t] # NoBatch
      /\ i \in DOMAIN outbox'[a][t].segs
      /\ outbox'[a][t].segs[i].status = TargetStatus[transition]
  BY <1>2, <1>3, TransitionStep, ZenonT(60)
<1> QED
  BY <1>1, <1>4 DEF Tried, SourceStatuses, TargetStatus

(* The store applies a claim: nobody else has it, and nothing was sent.    *)
LEMMA StartKeepsWire ==
  ASSUME TypeOK, ProcessInv, WireInv, NEW job \in jobs, requests' = requests,
         job.op = "start",
         Transition(job, StartOf(job), NoPlatformId, NoObservation),
         Answer(job, "claimed"), Waiting(job)
  PROVE  WireInv'
<1> DEFINE o == job.owner
           a == job.account
           t == job.trigger
           i == Least(job.todo)
<1>1. /\ o \in Owners /\ a \in Accounts /\ t \in Triggers /\ job.epoch \in Epochs
  BY DEF ProcessInv, WorkInv, JobType, Closure
<1>2. StartOf(job) \in {"start", "start_automatic"}
  BY DEF StartOf
<1>3. StoreStep
  <2>1. /\ StartOf(job) \in SenderTransition
        /\ NoPlatformId \in IdsFor(StartOf(job))
        /\ NoObservation \in [digest : Digests \cup {NoDigest}, capability : Capability]
    BY <1>2 DEF IdsFor, NoObservation, Capability, SenderTransition, SegmentTransition,
                StartTransitions
  <2> QED
    BY <1>1, <2>1, JobTransition
<1>4. ~Tried(a, t, i) /\ Tried(a, t, i)'
  <2>1. JobToken(job) \in Token
    BY <1>1 DEF JobToken, TokenOf, Token
  <2>2. TransitionSegment(a, JobToken(job), t, i, StartOf(job), NoPlatformId, NoObservation)
    BY DEF Transition
  <2> HIDE DEF a, t, i
  <2> QED
    BY <1>1, <1>2, <2>1, <2>2, ClaimTries
<1>5. /\ task[o][a] \in Task
      /\ task[o][a].trigger = t /\ task[o][a].todo = job.todo
  BY <1>1, WaitingCurrent DEF ProcessInv, WorkInv, TaskType, Awaited
<1>6. task' = [task EXCEPT ![o][a].pc = "claimed"]
  BY DEF Answer
<1>7. /\ task'[o][a].trigger = t /\ Current(o, a)' = i
      /\ \A p \in Owners, b \in Accounts : ~(p = o /\ b = a) => task'[p][b] = task[p][b]
  BY <1>1, <1>5, <1>6 DEF ProcessInv, WorkInv, TaskType, Task, Current
<1> HIDE DEF o, a, t, i
<1>8. ASSUME NEW b \in Accounts, NEW u \in Triggers, NEW j, Tried(b, u, j)
      PROVE  Tried(b, u, j)'
  BY <1>3, <1>8, TriedStays DEF StoreStep
<1>9. RequestsTried'
  <2> SUFFICES ASSUME NEW r \in requests
               PROVE  Tried(r.account, r.trigger, r.ordinal)'
    BY DEF RequestsTried, Tried
  <2>1. /\ r.account \in Accounts /\ r.trigger \in Triggers
        /\ Tried(r.account, r.trigger, r.ordinal)
    BY DEF ProcessInv, RequestType, Request, WireInv, RequestsTried
  <2> QED
    BY <1>8, <2>1 DEF Tried
<1>10. AtMostOneRequest'
  BY DEF WireInv, AtMostOneRequest
<1>11. Unsent(a, t, i)
  BY <1>4 DEF WireInv, RequestsTried, Unsent, RequestOf
<1>12. ASSUME NEW p \in Owners, NEW b \in Accounts, task'[p][b].pc = "claimed",
              ~(p = o /\ b = a)
       PROVE  /\ task'[p][b] = task[p][b]
              /\ Current(p, b)' = Current(p, b)
              /\ task[p][b].trigger \in Triggers
              /\ Tried(b, task[p][b].trigger, Current(p, b))
              /\ Unsent(b, task[p][b].trigger, Current(p, b))
  <2>1. task'[p][b] = task[p][b] /\ task[p][b].pc = "claimed"
    BY <1>7, <1>12
  <2> QED
    BY <2>1, TaskFields DEF ProcessInv, WireInv, ClaimsTried, Current, Idle
<1>13. ClaimsTried'
  <2> SUFFICES ASSUME NEW p \in Owners, NEW b \in Accounts, task'[p][b].pc = "claimed"
               PROVE  /\ Tried(b, task[p][b].trigger, Current(p, b))'
                      /\ Unsent(b, task[p][b].trigger, Current(p, b))'
    BY DEF ClaimsTried
  <2>1. CASE p = o /\ b = a
    <3>1. Tried(a, task[o][a].trigger, Current(o, a))'
      BY <1>4, <1>7 DEF Tried
    <3>2. Unsent(a, task[o][a].trigger, Current(o, a))'
      BY <1>7, <1>11 DEF Unsent, RequestOf
    <3> QED
      BY <2>1, <3>1, <3>2
  <2>2. CASE ~(p = o /\ b = a)
    <3>1. Tried(b, task[p][b].trigger, Current(p, b))'
      BY <1>8, <1>12, <2>2 DEF Tried
    <3>2. Unsent(b, task[p][b].trigger, Current(p, b))'
      BY <1>12, <2>2 DEF Unsent, RequestOf
    <3> QED
      BY <3>1, <3>2
  <2> QED
    BY <2>1, <2>2
<1>14. ClaimsApart'
  <2> SUFFICES ASSUME NEW p \in Owners, NEW q \in Owners, NEW b \in Accounts,
                      task'[p][b].pc = "claimed", task'[q][b].pc = "claimed",
                      task'[q][b].trigger = task'[p][b].trigger,
                      Current(q, b)' = Current(p, b)'
               PROVE  p = q
    BY DEF ClaimsApart, Claims, Current
  <2>1. CASE b = a /\ (p = o \/ q = o)
    BY <1>4, <1>7, <1>12, <2>1
  <2>2. CASE ~(b = a /\ (p = o \/ q = o))
    <3>1. /\ task'[p][b] = task[p][b] /\ task'[q][b] = task[q][b]
          /\ Current(p, b)' = Current(p, b) /\ Current(q, b)' = Current(q, b)
      BY <1>12, <2>2
    <3> QED
      BY <3>1 DEF WireInv, ClaimsApart, Claims, Current
  <2> QED
    BY <2>1, <2>2
<1> QED
  BY <1>9, <1>10, <1>13, <1>14 DEF WireInv

LEMMA JobKeepsWire ==
  ASSUME TypeOK, ProcessInv, WireInv, NEW job \in jobs, JobStep(job), requests' = requests
  PROVE  WireInv'
<1>1. StoreStep
  BY JobStores DEF ProcessInv, WorkInv, JobType
<1>2. \A pc \in {"persisted", "failed"} : Answer(job, pc) => NoNewClaim
  <2>1. \A o \in Owners, a \in Accounts : task[o][a] \in Task
    BY DEF ProcessInv, WorkInv, TaskType
  <2> QED
    BY <2>1 DEF Answer, NoNewClaim, ProcessInv, WorkInv, TaskType, Task
<1>3. Done(job) \/ UNCHANGED task => NoNewClaim
  BY DEF Done, NoNewClaim, Idle, ProcessInv, WorkInv, TaskType
<1>4. CASE NoNewClaim
  BY <1>1, <1>4, WireKept
<1>5. CASE /\ job.op = "start"
           /\ Transition(job, StartOf(job), NoPlatformId, NoObservation)
           /\ Answer(job, "claimed")
  <2>1. CASE Waiting(job)
    BY <1>5, <2>1, StartKeepsWire
  <2>2. CASE ~Waiting(job)
    BY <1>3, <1>4, <1>5, <2>2 DEF Answer
  <2> QED
    BY <2>1, <2>2
<1> QED
  BY <1>2, <1>3, <1>4, <1>5
  DEF JobStep, RunStart, RunPersist, RunCancel, Remaining, RunCancelFirst, FailJob

LEMMA WireStep ==
  ASSUME TypeOK, ProcessInv, WireInv, [LiveNext]_liveVars
  PROVE  WireInv'
<1>1. StoreStep
  BY LiveStores
<1>2. ASSUME NoNewClaim, requests' = requests
      PROVE  WireInv'
  BY <1>1, <1>2, WireKept
<1>3. ASSUME task' = task
      PROVE  NoNewClaim
  BY <1>3 DEF NoNewClaim
<1>4. CASE UNCHANGED liveVars
  BY <1>2, <1>3, <1>4 DEF liveVars
<1>5. ASSUME NEW o \in Owners, NEW a \in Accounts, OwnerNext(o, a) \/ ProcessNext(o, a)
      PROVE  WireInv'
  <2>1. task' = task /\ requests' = requests
    BY <1>5 DEF OwnerNext, Install, PublishOwnership, PublishGrant, DropGrant, ReleaseLocal,
                ChangePermission, ProcessNext, Submit, PlanReply, Identify, Reconcile
  <2> QED
    BY <1>2, <1>3, <2>1
<1>6. ASSUME NEW o \in Owners, NEW a \in Accounts, TaskNext(o, a)
      PROVE  WireInv'
  <2>1. CASE Post(o, a)
    BY <2>1, PostKeepsWire
  <2>2. CASE Dispatch(o, a)
    <3>1. NoNewClaim /\ requests' = requests
      BY <2>2 DEF Dispatch, NoNewClaim, Idle, ProcessInv, WorkInv, TaskType
    <3> QED
      BY <1>2, <3>1
  <2>3. CASE StopBatch(o, a)
    BY <1>2, <1>3, <2>3 DEF StopBatch
  <2>4. CASE Proceeding(o, a) /\ ~Post(o, a)
    <3>1. requests' = requests
      BY <2>4 DEF Proceeding, Drop, ReadBatch, GiveUp, PrepareSegment, ClaimSegment,
                  RejectUnsent, Answered, Continue, HandleError
    <3>2. NoNewClaim
      BY <2>4, StepShape, ShapesClaimNothing DEF ProcessInv
    <3> QED
      BY <1>2, <3>1, <3>2
  <2> QED
    BY <1>6, <2>1, <2>2, <2>3, <2>4 DEF TaskNext, Proceeding
<1>7. CASE JobNext
  BY <1>7, JobKeepsWire DEF JobNext, JobStep
<1>8. CASE PlatformNext
  BY <1>8, PlatformKeepsWire
<1> QED
  BY <1>4, <1>5, <1>6, <1>7, <1>8 DEF LiveNext

-----------------------------------------------------------------------------
LEMMA LiveInitInv == LiveInit => SenderInv
<1> SUFFICES ASSUME LiveInit
             PROVE  SenderInv
  OBVIOUS
<1>1. TypeOK
  BY InitType DEF LiveInit
<1>2. OwnershipType
  <2> DEFINE none == [epoch |-> 0, permits |-> "none", capable |-> TRUE]
  <2>1. none \in Control
    BY StoreAssumption DEF Control
  <2>2. control = [o \in Owners |-> [a \in Accounts |-> none]]
    BY DEF LiveInit
  <2> HIDE DEF none
  <2>3. control \in [Owners -> [Accounts -> Control]]
    BY <2>1, <2>2
  <2> QED
    BY <2>3, StoreAssumption, LiveAssumption DEF LiveInit, OwnershipType
<1>3. TaskType
  BY IdleTask DEF LiveInit, TaskType, Busy
<1>4. JobType /\ Awaited /\ RequestType
  BY DEF LiveInit, JobType, Awaited, RequestType
<1>5. WireInv
  BY <1>3 DEF LiveInit, WireInv, RequestsTried, ClaimsTried, ClaimsApart, AtMostOneRequest, Idle
<1> QED
  BY <1>1, <1>2, <1>3, <1>4, <1>5 DEF SenderInv, ProcessInv, WorkInv

LEMMA SenderInductive == SenderInv /\ [LiveNext]_liveVars => SenderInv'
<1> SUFFICES ASSUME SenderInv, [LiveNext]_liveVars
             PROVE  SenderInv'
  OBVIOUS
<1>1. StoreStep
  BY LiveStores DEF SenderInv
<1>2. ProcessInv'
  BY ProcessKept DEF SenderInv, WireInv
<1>3. WireInv'
  BY WireStep DEF SenderInv
<1> QED
  BY <1>1, <1>2, <1>3 DEF SenderInv, StoreStep

LEMMA SenderCorrect == LiveSpec => []SenderInv
BY LiveInitInv, SenderInductive, PTL DEF LiveSpec

(* LiveTypeOK in every reachable state: a work always has its batch, and   *)
(* from the first check to the outcome of an attempt a segment of it.      *)
THEOREM LiveTypeTheorem == LiveSpec => []LiveTypeOK
<1>1. SenderInv => LiveTypeOK
  <2> SUFFICES ASSUME SenderInv
               PROVE  LiveTypeOK
    OBVIOUS
  <2>1. ASSUME NEW o \in Owners, NEW a \in Accounts
        PROVE  WorkInHand(task[o][a], a)
    <3>1. Busy(outbox[a], task[o][a], works[o][a]) /\ task[o][a] \in Task
      BY DEF SenderInv, ProcessInv, WorkInv, TaskType
    <3>2. works[o][a] \in Nat
      BY LiveAssumption DEF SenderInv, ProcessInv, OwnershipType
    <3>3. CASE task[o][a] = Idle
      BY <3>3 DEF WorkInHand, Idle
    <3>4. CASE task[o][a] # Idle
      BY <3>1, <3>2, <3>4 DEF WorkInHand, Busy, Batches, Attempts
    <3> QED
      BY <3>3, <3>4
  <2>2. \A job \in jobs : job.trigger \in Batches(job.account)
    BY DEF SenderInv, ProcessInv, WorkInv, JobType, Closure, Batches
  <2>3. \A r \in requests : IsSegment(r.account, r.trigger, r.ordinal)
    BY DEF SenderInv, WireInv, RequestsTried, Tried, IsSegment
  <2> QED
    BY <2>1, <2>2, <2>3 DEF LiveTypeOK, SenderInv, ProcessInv, OwnershipType
<1> QED
  BY <1>1, SenderCorrect, PTL

(* AtMostOneRequest in every reachable state, for any number of processes, *)
(* works and leftovers in the blocking pool: StartAttempt is durable       *)
(* before the request, so no segment is put on the wire twice.             *)
THEOREM AtMostOneRequestTheorem == LiveSpec => []AtMostOneRequest
<1>1. SenderInv => AtMostOneRequest
  BY DEF SenderInv, WireInv
<1> QED
  BY <1>1, SenderCorrect, PTL
=============================================================================
