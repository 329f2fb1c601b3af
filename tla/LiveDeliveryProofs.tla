------------------------- MODULE LiveDeliveryProofs -------------------------
(***************************************************************************)
(* What is on record of a send is true, the segments of a batch go out in  *)
(* their order, and LiveSender implements AtMostOnceDelivery: for any      *)
(* processes, accounts, plans and number of works.                         *)
(***************************************************************************)
EXTENDS LiveSenderProofs, ReplyGuardProofs

-----------------------------------------------------------------------------
(* The inductive invariants.                                               *)

(* The platform delivered segment i, under this id.                        *)
Backed(a, t, i, platformId) ==
  \E r \in RequestOf(a, t, i) : r.fate = "delivered" /\ r.platformId = platformId

(* It never did, and nobody will put the segment on the wire.              *)
Dead(a, t, i) ==
  /\ \A r \in RequestOf(a, t, i) : r.fate = "refused"
  /\ \A o \in Owners : ~Claims(task[o][a], t, i)

(* The outcome a job is about to write.                                    *)
TrueOutcome(job, a, t, i) ==
  /\ Tried(a, t, i)
  /\ job.outcome[1] = "confirm" => Backed(a, t, i, job.platformId)
  /\ job.outcome[1] = "reject" => Dead(a, t, i)

OutcomesTrue ==
  \A job \in jobs :
    job.op = "persist" => TrueOutcome(job, job.account, job.trigger, Least(job.todo))

TrueVerdict(a, t, i) ==
  /\ outbox[a][t].segs[i].status = "confirmed" =>
       Backed(a, t, i, outbox[a][t].segs[i].platformId)
  /\ outbox[a][t].segs[i].status = "rejected" => Dead(a, t, i)

VerdictsTrue ==
  \A a \in Accounts, t \in Triggers, i \in Ordinals :
    IsSegment(a, t, i) => TrueVerdict(a, t, i)

TruthInv == OutcomesTrue /\ VerdictsTrue

(* The segments a work is done with, or has left out, are confirmed.       *)
ConfirmedBut(a, t, todo) ==
  \A j \in DOMAIN outbox[a][t].segs \ todo : outbox[a][t].segs[j].status = "confirmed"

Ordered(w, a) ==
  /\ w.pc \in Attempts \cup {"preparing"} => ConfirmedBut(a, w.trigger, w.todo)
  /\ (w.pc = "persisted" /\ w.outcome[1] = "confirm") =>
       outbox[a][w.trigger].segs[Least(w.todo)].status = "confirmed"

WorksOrdered == \A o \in Owners, a \in Accounts : Ordered(task[o][a], a)

(* The outcome a work waits for is its own.                                *)
AwaitsItsOutcome(job) ==
  /\ task[job.owner][job.account].trigger = job.trigger
  /\ task[job.owner][job.account].todo = job.todo
  /\ task[job.owner][job.account].outcome = job.outcome

OutcomesAwaited ==
  \A job \in jobs :
    (job.op = "persist" /\ AnswersCurrent(job)) => AwaitsItsOutcome(job)

OrderInv == WorksOrdered /\ OutcomesAwaited /\ RequestsInOrder

-----------------------------------------------------------------------------
(* What the store's operations do to verdicts.                             *)

Terminal(a, t, i) ==
  IsSegment(a, t, i) /\ outbox[a][t].segs[i].status \in TerminalSegment

(* No verdict is reached on segment i, and none is changed.                *)
SameVerdict(a, t, i) ==
  \/ /\ IsSegment(a, t, i) /\ IsSegment(a, t, i)'
     /\ outbox'[a][t].segs[i].status = outbox[a][t].segs[i].status
     /\ outbox'[a][t].segs[i].platformId = outbox[a][t].segs[i].platformId
  \/ ~Terminal(a, t, i) /\ ~Terminal(a, t, i)'

(* A verdict is reached, and it is true.                                   *)
Reached(a, t, i) ==
  /\ IsSegment(a, t, i) /\ IsSegment(a, t, i)'
  /\ ~Terminal(a, t, i)
  /\ \/ /\ outbox'[a][t].segs[i].status = "confirmed"
        /\ Backed(a, t, i, outbox'[a][t].segs[i].platformId)
     \/ /\ outbox'[a][t].segs[i].status = "rejected"
        /\ Dead(a, t, i)

SameBut(a, t, i) ==
  \A b \in Accounts, u \in Triggers, j \in Ordinals :
    ~(b = a /\ u = t /\ j = i) => SameVerdict(b, u, j)

AllSame == \A a \in Accounts, t \in Triggers, i \in Ordinals : SameVerdict(a, t, i)

OneReached(a, t, i) == Reached(a, t, i) /\ SameBut(a, t, i)

LEMMA KeptVerdict ==
  ASSUME NEW a \in Accounts, NEW t \in Triggers, NEW i \in Ordinals, Kept(a, t)
  PROVE  SameVerdict(a, t, i)
BY DEF Kept, SameVerdict, IsSegment, Terminal

LEMMA QuietVerdicts ==
  ASSUME TypeOK, TypeOK', OutboxStep({})
  PROVE  AllSame
<1> SUFFICES ASSUME NEW a \in Accounts, NEW t \in Triggers, NEW i \in Ordinals
             PROVE  SameVerdict(a, t, i)
  BY DEF AllSame
<1>1. CASE Kept(a, t)
  BY <1>1, KeptVerdict
<1>2. CASE Created(a, t)
  BY <1>2 DEF Created, SameVerdict, IsSegment, Terminal, NewSegment, TerminalSegment
<1>3. CASE Rewritten({}, a, t)
  BY <1>3 DEF Rewritten, Applied, SameVerdict, IsSegment, Terminal
<1>4. CASE Recovered(a, t)
  <2> DEFINE epoch == lease'[a].epoch
  <2>1. outbox'[a][t] = RecoverBatch(outbox[a][t], epoch)
    BY <1>4 DEF Recovered
  <2>2. epoch \in Nat /\ now \in 0..MaxTime
    BY StoreAssumption DEF TypeOK, LeaseType, Lease
  <2> HIDE DEF epoch
  <2>3. CASE outbox[a][t] = NoBatch
    BY <2>1, <2>3 DEF RecoverBatch, SameVerdict, IsSegment, Terminal
  <2>4. CASE outbox[a][t] # NoBatch
    <3>1. Stored(outbox[a][t])
      BY <2>4 DEF TypeOK, OutboxType
    <3>2. outbox'[a][t] # NoBatch
      BY <2>1, <2>2, <3>1, RecoverBatchStored, NoBatchAssumption DEF Stored
    <3>3. /\ DOMAIN outbox'[a][t].segs = DOMAIN outbox[a][t].segs
          /\ \A j \in DOMAIN outbox[a][t].segs :
               outbox'[a][t].segs[j] = RecoverInterrupted(outbox[a][t].segs[j], epoch, now)
      BY <2>1, <2>2, <3>1, RecoverBatchSegments
    <3>4. \A j \in DOMAIN outbox[a][t].segs : outbox[a][t].segs[j] \in Segment
      BY <2>4, StoredSegments DEF TypeOK
    <3>5. CASE i \in DOMAIN outbox[a][t].segs
      <4> DEFINE seg == outbox[a][t].segs[i]
      <4>1. seg \in Segment /\ outbox'[a][t].segs[i] = RecoverInterrupted(seg, epoch, now)
        BY <3>3, <3>4, <3>5
      <4>2. IsSegment(a, t, i) /\ IsSegment(a, t, i)'
        BY <2>4, <3>2, <3>3, <3>5 DEF IsSegment
      <4>3. CASE outbox'[a][t].segs[i] = seg
        BY <4>2, <4>3 DEF SameVerdict
      <4>4. CASE outbox'[a][t].segs[i] # seg
        <5>1. /\ seg.status = "sending"
              /\ outbox'[a][t].segs[i].status = "uncertain"
          BY <4>1, <4>4 DEF RecoverInterrupted, Segment
        <5> QED
          BY <5>1 DEF SameVerdict, Terminal, TerminalSegment
      <4> QED
        BY <4>3, <4>4
    <3>6. CASE i \notin DOMAIN outbox[a][t].segs
      BY <3>3, <3>6 DEF SameVerdict, IsSegment, Terminal
    <3> QED
      BY <3>5, <3>6
  <2> QED
    BY <2>3, <2>4
<1> QED
  BY <1>1, <1>2, <1>3, <1>4 DEF OutboxStep, BatchStep

LEMMA TouchedVerdicts ==
  ASSUME NEW a \in Accounts, NEW t \in Triggers, NEW i \in Ordinals, OnlyTouches(a, t, i)
  PROVE  IsSegment(a, t, i) /\ IsSegment(a, t, i)' /\ SameBut(a, t, i)
<1>1. IsSegment(a, t, i) /\ IsSegment(a, t, i)'
  BY DEF OnlyTouches, IsSegment
<1>2. ASSUME NEW b \in Accounts, NEW u \in Triggers, NEW j \in Ordinals,
             ~(b = a /\ u = t /\ j = i)
      PROVE  SameVerdict(b, u, j)
  <2>1. CASE b = a /\ u = t
    BY <1>2, <2>1 DEF OnlyTouches, SameVerdict, IsSegment, Terminal
  <2>2. CASE ~(b = a /\ u = t)
    BY <2>2, KeptVerdict DEF OnlyTouches
  <2> QED
    BY <2>1, <2>2
<1> QED
  BY <1>1, <1>2 DEF SameBut

(* Nothing was sent of a segment that was not claimed, nor will be by a    *)
(* work that claimed it before.                                            *)
LEMMA UntriedDead ==
  ASSUME WireInv, NEW a \in Accounts, NEW t, NEW i, ~Tried(a, t, i)
  PROVE  Dead(a, t, i)
<1>1. RequestOf(a, t, i) = {}
  BY DEF WireInv, RequestsTried, RequestOf
<1>2. \A o \in Owners : ~Claims(task[o][a], t, i)
  BY DEF WireInv, ClaimsTried, Claims, Current
<1> QED
  BY <1>1, <1>2 DEF Dead

LEMMA TransitionVerdict ==
  ASSUME TypeOK, WireInv, NEW a \in Accounts, NEW tok \in Token, NEW t \in Triggers,
         NEW i \in Ordinals, NEW transition \in SenderTransition,
         NEW platformId \in IdsFor(transition), NEW observation,
         TransitionSegment(a, tok, t, i, transition, platformId, observation),
         transition = "confirm" => Backed(a, t, i, platformId),
         transition = "reject" => Dead(a, t, i)
  PROVE  AllSame \/ OneReached(a, t, i)
<1> DEFINE before == outbox[a][t].segs[i]
           after  == outbox'[a][t].segs[i]
<1>1. /\ OnlyTouches(a, t, i)
      /\ before.status \in SourceStatuses[transition]
      /\ after = ApplyTransition(before, transition, platformId, tok.epoch, now)
  <2>1. transition \in SegmentTransition
    BY DEF SenderTransition
  <2> QED
    BY <2>1, TransitionEffect
<1>2. IsSegment(a, t, i) /\ IsSegment(a, t, i)' /\ SameBut(a, t, i)
  BY <1>1, TouchedVerdicts
<1>3. /\ after.status = TargetStatus[transition]
      /\ transition = "confirm" => after.platformId = platformId
  BY <1>1 DEF ApplyTransition, StartTransitions
<1>4. ~Terminal(a, t, i)
  BY <1>1 DEF Terminal, TerminalSegment, SourceStatuses, SenderTransition, SegmentTransition,
              StartTransitions
<1>5. CASE transition = "confirm"
  BY <1>2, <1>3, <1>4, <1>5 DEF OneReached, Reached, TargetStatus
<1>6. CASE transition = "reject"
  BY <1>2, <1>3, <1>4, <1>6 DEF OneReached, Reached, TargetStatus
<1>7. CASE transition = "cancel_prepared"
  <2>1. ~Tried(a, t, i)
    BY <1>1, <1>7 DEF Tried, SourceStatuses
  <2>2. Dead(a, t, i)
    BY <2>1, UntriedDead
  <2> QED
    BY <1>2, <1>3, <1>4, <1>7, <2>2 DEF OneReached, Reached, TargetStatus
<1>8. CASE transition \in {"start", "start_automatic", "mark_uncertain"}
  <2>1. ~Terminal(a, t, i)'
    BY <1>3, <1>8 DEF Terminal, TerminalSegment, TargetStatus
  <2>2. SameVerdict(a, t, i)
    BY <1>4, <2>1 DEF SameVerdict
  <2> QED
    BY <1>2, <2>2 DEF AllSame, SameBut
<1> QED
  BY <1>5, <1>6, <1>7, <1>8 DEF SenderTransition, SegmentTransition, StartTransitions
LEMMA UnchangedVerdicts ==
  ASSUME TypeOK, outbox' = outbox
  PROVE  AllSame
BY KeptVerdict DEF AllSame, Kept

(* What a job asks for, applied or found applied.                          *)
LEMMA JobVerdict ==
  ASSUME TypeOK, WireInv, NEW job, job.owner \in Owners, job.account \in Accounts,
         job.epoch \in Epochs, job.trigger \in Triggers,
         NEW transition \in SenderTransition, NEW platformId \in IdsFor(transition),
         NEW observation,
         \/ Transition(job, transition, platformId, observation)
         \/ Repeated(job, transition, platformId),
         transition = "confirm" =>
           Backed(job.account, job.trigger, Least(job.todo), platformId),
         transition = "reject" => Dead(job.account, job.trigger, Least(job.todo))
  PROVE  \/ AllSame
         \/ /\ Least(job.todo) \in Ordinals
            /\ OneReached(job.account, job.trigger, Least(job.todo))
<1> DEFINE a == job.account
           tok == JobToken(job)
           i == Least(job.todo)
<1>1. CASE Transition(job, transition, platformId, observation)
  <2>1. /\ TransitionSegment(a, tok, job.trigger, i, transition, platformId, observation)
        /\ outbox[a][job.trigger] # NoBatch /\ i \in DOMAIN outbox[a][job.trigger].segs
    BY <1>1 DEF Transition, TransitionSegment
  <2>2. i \in Ordinals
    BY <2>1, SegmentOrdinals
  <2>3. tok \in Token
    BY DEF JobToken, TokenOf, Token
  <2> HIDE DEF a, tok, i
  <2>4. AllSame \/ OneReached(a, job.trigger, i)
    BY <2>1, <2>2, <2>3, TransitionVerdict DEF a, i
  <2> QED
    BY <2>2, <2>4 DEF a, i
<1>2. CASE Repeated(job, transition, platformId)
  <2>1. outbox' = outbox
    BY <1>2 DEF Repeated, RepeatTransition, outVars
  <2> QED
    BY <2>1, UnchangedVerdicts
<1> QED
  BY <1>1, <1>2

SomeReached == \E a \in Accounts, t \in Triggers, i \in Ordinals : OneReached(a, t, i)

LEMMA JobVerdicts ==
  ASSUME TypeOK, ProcessInv, WireInv, OutcomesTrue, NEW job \in jobs, JobStep(job)
  PROVE  AllSame \/ SomeReached
<1>1. /\ job.owner \in Owners /\ job.account \in Accounts /\ job.epoch \in Epochs
      /\ job.trigger \in Triggers
      /\ NoPlatformId \in IdsFor("start") /\ NoPlatformId \in IdsFor("start_automatic")
      /\ NoPlatformId \in IdsFor("cancel_prepared")
      /\ {"start", "start_automatic", "cancel_prepared"} \subseteq SenderTransition
  BY DEF ProcessInv, WorkInv, JobType, Closure, IdsFor, SenderTransition, SegmentTransition,
         StartTransitions
<1>2. CASE RunStart(job)
  <2>1. StartOf(job) \in {"start", "start_automatic"}
    BY DEF StartOf
  <2>2. \/ Transition(job, StartOf(job), NoPlatformId, NoObservation)
        \/ Repeated(job, StartOf(job), NoPlatformId)
    BY <1>2 DEF RunStart
  <2> QED
    BY <1>1, <2>1, <2>2, JobVerdict DEF SomeReached
<1>3. CASE RunPersist(job)
  <2> DEFINE capability == IF job.outcome[2] = "none" THEN "unknown" ELSE job.outcome[2]
             observation == [digest |-> job.digest, capability |-> capability]
  <2>1. /\ job.op = "persist"
        /\ \/ Transition(job, job.outcome[1], job.platformId, observation)
           \/ Repeated(job, job.outcome[1], job.platformId)
    BY <1>3 DEF RunPersist
  <2> HIDE DEF observation
  <2>2. /\ job.outcome[1] \in SenderTransition
        /\ job.platformId \in IdsFor(job.outcome[1])
    BY <2>1 DEF ProcessInv, WorkInv, JobType, WritesOutcome, SenderTransition,
                SegmentTransition
  <2>3. TrueOutcome(job, job.account, job.trigger, Least(job.todo))
    BY <2>1 DEF OutcomesTrue
  <2> QED
    BY <1>1, <2>1, <2>2, <2>3, JobVerdict DEF TrueOutcome, SomeReached
<1>4. CASE UNCHANGED storeVars
  BY <1>4, UnchangedVerdicts DEF storeVars, vars, outVars
<1>5. CASE RunCancel(job)
  <2>1. CASE \/ Transition(job, "cancel_prepared", NoPlatformId, NoObservation)
             \/ Repeated(job, "cancel_prepared", NoPlatformId)
    BY <1>1, <2>1, JobVerdict DEF SomeReached
  <2> QED
    BY <1>4, <1>5, <2>1 DEF RunCancel
<1>6. CASE RunCancelFirst(job)
  <2> DEFINE first == [job EXCEPT !.todo = {1}]
  <2>1. /\ first.owner = job.owner /\ first.account = job.account
        /\ first.epoch = job.epoch /\ first.trigger = job.trigger
    BY DEF ProcessInv, WorkInv, JobType, Closure
  <2>2. CASE Transition(first, "cancel_prepared", NoPlatformId, NoObservation)
    <3> HIDE DEF first
    <3> QED
      BY <1>1, <2>1, <2>2, JobVerdict DEF SomeReached
  <2> QED
    BY <1>4, <1>6, <2>2 DEF RunCancelFirst
<1> QED
  BY <1>2, <1>3, <1>4, <1>5, <1>6 DEF JobStep, FailJob

LEMMA ReconcileVerdicts ==
  ASSUME TypeOK, ProcessInv, NEW o \in Owners, NEW a \in Accounts,
         NEW t \in Triggers, NEW i \in Ordinals, Reconcile(o, a, t, i)
  PROVE  AllSame \/ OneReached(a, t, i)
<1>1. PICK r \in RequestOf(a, t, i) :
        /\ r.fate = "delivered"
        /\ ReceiptPage(t, i, r) \in EvidencePage(a)
        /\ ReconcileSentReceipts(a, OwnToken(o, a), ReceiptPage(t, i, r))
  BY ReconcileOperates DEF ProcessInv
<1> DEFINE page == ReceiptPage(t, i, r)
<1>2. OwnToken(o, a) \in Token
  BY TokenOfType DEF Reconcile, OwnToken, ProcessInv, OwnershipType
<1>3. DOMAIN page = {<<t, i>>} /\ page[<<t, i>>].platformId = r.platformId
  BY DEF ReceiptPage
<1> HIDE DEF page
<1>4. /\ \A b \in Accounts \ {a}, u \in Triggers : outbox'[b][u] = outbox[b][u]
      /\ \A u \in Triggers : \/ Kept(a, u)
                             \/ /\ Rewritten({"confirm"}, a, u)
                                /\ \A j \in DOMAIN outbox[a][u].segs : ByEvidence(a, page, u, j)
  BY <1>1, <1>2, ReconcileEffect DEF page
<1>5. ASSUME NEW u \in Triggers, NEW j \in Ordinals,
             Rewritten({"confirm"}, a, u),
             j \in DOMAIN outbox[a][u].segs => outbox'[a][u].segs[j] = outbox[a][u].segs[j]
      PROVE  SameVerdict(a, u, j)
  BY <1>5 DEF Rewritten, SameVerdict, IsSegment, Terminal
<1>6. ASSUME NEW b \in Accounts, NEW u \in Triggers, NEW j \in Ordinals,
             ~(b = a /\ u = t /\ j = i)
      PROVE  SameVerdict(b, u, j)
  <2>1. CASE b # a
    BY <1>4, <2>1, KeptVerdict DEF Kept
  <2>2. CASE b = a /\ Kept(a, u)
    BY <2>2, KeptVerdict
  <2>3. CASE b = a /\ ~Kept(a, u)
    <3>1. <<u, j>> # <<t, i>>
      BY <1>6, <2>3
    <3>2. j \in DOMAIN outbox[a][u].segs => outbox'[a][u].segs[j] = outbox[a][u].segs[j]
      BY <1>3, <1>4, <2>3, <3>1 DEF ByEvidence
    <3> QED
      BY <1>4, <1>5, <2>3, <3>2
  <2> QED
    BY <2>1, <2>2, <2>3
<1>7. CASE SameVerdict(a, t, i)
  BY <1>6, <1>7 DEF AllSame
<1>8. CASE ~SameVerdict(a, t, i)
  <2>1. ~Kept(a, t)
    BY <1>8, KeptVerdict
  <2>2. /\ Rewritten({"confirm"}, a, t)
        /\ i \in DOMAIN outbox[a][t].segs
        /\ outbox'[a][t].segs[i] # outbox[a][t].segs[i]
    BY <1>4, <1>5, <1>8, <2>1
  <2>3. ByEvidence(a, page, t, i)
    BY <1>4, <2>1, <2>2
  <2>4. /\ outbox[a][t].segs[i].status \in {"sending", "uncertain"}
        /\ outbox'[a][t].segs[i].status = "confirmed"
        /\ outbox'[a][t].segs[i].platformId = r.platformId
    BY <1>3, <2>2, <2>3 DEF ByEvidence
  <2>5. IsSegment(a, t, i) /\ IsSegment(a, t, i)' /\ ~Terminal(a, t, i)
    BY <2>2, <2>4 DEF Rewritten, IsSegment, Terminal, TerminalSegment
  <2>6. Backed(a, t, i, outbox'[a][t].segs[i].platformId)
    BY <1>1, <2>4 DEF Backed
  <2> QED
    BY <1>6, <2>4, <2>5, <2>6 DEF OneReached, Reached, SameBut
<1> QED
  BY <1>7, <1>8

(* A step reaches the verdict of one segment at most, and a true one.      *)
LEMMA VerdictStep ==
  ASSUME SenderInv, OutcomesTrue, [LiveNext]_liveVars
  PROVE  AllSame \/ (SomeReached /\ requests' = requests)
<1>0. TypeOK /\ ProcessInv /\ WireInv
  BY DEF SenderInv
<1>1. TypeOK'
  BY <1>0, LiveStores DEF StoreStep
<1>2. CASE outbox' = outbox
  BY <1>0, <1>2, UnchangedVerdicts
<1>3. ASSUME NEW o \in Owners, NEW a \in Accounts, OwnerNext(o, a)
      PROVE  AllSame
  <2>1. CASE Install(o, a)
    <3>1. OutboxStep({})
      BY <1>0, <2>1, InstallStep DEF Install
    <3> QED
      BY <1>0, <1>1, <3>1, QuietVerdicts
  <2>2. CASE ~Install(o, a)
    <3>1. outbox' = outbox
      BY <1>3, <2>2 DEF OwnerNext, PublishOwnership, PublishGrant, DropGrant, ReleaseLocal,
                        ChangePermission, InvalidateLease, storeVars, vars, outVars
    <3> QED
      BY <1>0, <3>1, UnchangedVerdicts
  <2> QED
    BY <2>1, <2>2
<1>4. ASSUME NEW o \in Owners, NEW a \in Accounts, ProcessNext(o, a)
      PROVE  AllSame \/ (SomeReached /\ requests' = requests)
  <2>1. OwnToken(o, a) \in Token
    <3>1. grant[o][a] > 0
      BY <1>4 DEF ProcessNext, Submit, PlanReply, Identify, Reconcile
    <3> QED
      BY <1>0, <3>1, TokenOfType DEF OwnToken, ProcessInv, OwnershipType
  <2>2. CASE Submit(o, a)
    <3>1. OutboxStep({})
      BY <1>0, <2>1, <2>2, PrepareStep DEF Submit
    <3> QED
      BY <1>0, <1>1, <3>1, QuietVerdicts
  <2>3. CASE PlanReply(o, a)
    <3>1. OutboxStep({})
      BY <1>0, <2>1, <2>3, InboundStep DEF PlanReply
    <3> QED
      BY <1>0, <1>1, <3>1, QuietVerdicts
  <2>4. CASE Identify(o, a)
    <3>1. outbox' = outbox
      BY <2>4 DEF Identify, RestoreSendObservation, outVars
    <3> QED
      BY <1>0, <3>1, UnchangedVerdicts
  <2>5. ASSUME NEW t \in Triggers, NEW i \in Ordinals, Reconcile(o, a, t, i)
        PROVE  AllSame \/ (SomeReached /\ requests' = requests)
    <3>1. requests' = requests
      BY <2>5 DEF Reconcile
    <3> QED
      BY <1>0, <2>5, <3>1, ReconcileVerdicts DEF SomeReached
  <2> QED
    BY <1>4, <2>2, <2>3, <2>4, <2>5 DEF ProcessNext
<1>5. ASSUME NEW o \in Owners, NEW a \in Accounts, TaskNext(o, a)
      PROVE  AllSame
  <2>1. outbox' = outbox
    BY <1>5 DEF TaskNext, Dispatch, Drop, ReadBatch, GiveUp, PrepareSegment, ClaimSegment,
                Post, RejectUnsent, Answered, Continue, HandleError, StopBatch,
                storeVars, vars, outVars
  <2> QED
    BY <1>0, <2>1, UnchangedVerdicts
<1>6. CASE JobNext
  BY <1>0, <1>6, JobVerdicts DEF JobNext, JobStep
<1>7. CASE PlatformNext \/ UNCHANGED liveVars
  BY <1>2, <1>7 DEF PlatformNext, Fate, liveVars, storeVars, vars, outVars
<1> QED
  BY <1>3, <1>4, <1>5, <1>6, <1>7 DEF LiveNext

-----------------------------------------------------------------------------
(* What a step does to requests, claims and outcomes.                      *)

LEMMA BackedStays ==
  ASSUME LiveNext, NEW a, NEW t, NEW i, NEW platformId, Backed(a, t, i, platformId)
  PROVE  Backed(a, t, i, platformId)'
<1>1. PICK r \in RequestOf(a, t, i) : r.fate = "delivered" /\ r.platformId = platformId
  BY DEF Backed
<1>2. r \in requests'
  <2>1. ASSUME NEW o \in Owners, NEW b \in Accounts, Post(o, b)
        PROVE  r \in requests'
    BY <1>1, <2>1 DEF Post, RequestOf
  <2>2. CASE PlatformNext
    BY <1>1, <2>2 DEF PlatformNext, Fate, RequestOf
  <2> QED
    BY <1>1, <2>1, <2>2, RequestSteps DEF RequestOf
<1> QED
  BY <1>1, <1>2 DEF Backed, RequestOf

(* A claim that a step makes is that of a segment nobody had claimed.      *)
LEMMA NewClaims ==
  ASSUME SenderInv, LiveNext, NEW o \in Owners, NEW a \in Accounts, NEW t, NEW i,
         Claims(task'[o][a], t, i)
  PROVE  \/ Claims(task[o][a], t, i)
         \/ ~Tried(a, t, i) /\ outbox'[a][t].segs[i].status = "sending"
<1>0. TypeOK /\ ProcessInv /\ WireInv
  BY DEF SenderInv
<1>1. CASE NoNewClaim
  BY <1>1 DEF NoNewClaim, Claims
<1>2. ASSUME NEW p \in Owners, NEW b \in Accounts, OwnerNext(p, b) \/ ProcessNext(p, b)
      PROVE  NoNewClaim
  BY <1>2 DEF OwnerNext, Install, PublishOwnership, PublishGrant, DropGrant, ReleaseLocal,
              ChangePermission, ProcessNext, Submit, PlanReply, Identify, Reconcile, NoNewClaim
<1>3. ASSUME NEW p \in Owners, NEW b \in Accounts, TaskNext(p, b)
      PROVE  NoNewClaim
  <2>1. CASE Dispatch(p, b)
    BY <1>0, <2>1 DEF Dispatch, NoNewClaim, Idle, ProcessInv, WorkInv, TaskType
  <2>2. CASE StopBatch(p, b)
    BY <2>2 DEF StopBatch, NoNewClaim
  <2>3. CASE Proceeding(p, b)
    BY <1>0, <2>3, StepShape, ShapesClaimNothing DEF ProcessInv
  <2> QED
    BY <1>3, <2>1, <2>2, <2>3 DEF TaskNext, Proceeding
<1>4. CASE PlatformNext
  BY <1>4 DEF PlatformNext, Fate, NoNewClaim
<1>5. CASE JobNext
  <2>1. PICK job \in jobs : JobStep(job)
    BY <1>5 DEF JobNext, JobStep
  <2>2. \A pc \in {"persisted", "failed"} : Answer(job, pc) => NoNewClaim
    <3>1. \A p \in Owners, b \in Accounts : task[p][b] \in Task
      BY <1>0 DEF ProcessInv, WorkInv, TaskType
    <3> QED
      BY <1>0, <3>1 DEF Answer, NoNewClaim, ProcessInv, WorkInv, TaskType, Task
  <2>3. Done(job) \/ UNCHANGED task => NoNewClaim
    BY <1>0 DEF Done, NoNewClaim, Idle, ProcessInv, WorkInv, TaskType
  <2>4. \/ NoNewClaim
        \/ /\ job.op = "start"
           /\ Transition(job, StartOf(job), NoPlatformId, NoObservation)
           /\ Answer(job, "claimed")
    BY <2>1, <2>2, <2>3
    DEF JobStep, RunStart, RunPersist, RunCancel, Remaining, RunCancelFirst, FailJob
  <2>5. CASE /\ job.op = "start"
             /\ Transition(job, StartOf(job), NoPlatformId, NoObservation)
             /\ Answer(job, "claimed")
             /\ ~Claims(task[o][a], t, i)
    <3>1. job.owner \in Owners /\ job.account \in Accounts /\ job.trigger \in Triggers
          /\ job.epoch \in Epochs
      BY <1>0 DEF ProcessInv, WorkInv, JobType, Closure
    <3>2. /\ Waiting(job) /\ o = job.owner /\ a = job.account
          /\ task' = [task EXCEPT ![o][a].pc = "claimed"]
      <4>1. task' # task
        BY <2>5
      <4>2. /\ Waiting(job)
            /\ task' = [task EXCEPT ![job.owner][job.account].pc = "claimed"]
        BY <2>5, <4>1 DEF Answer
      <4>3. ~(o = job.owner /\ a = job.account) => task'[o][a] = task[o][a]
        BY <1>0, <3>1, <4>2 DEF ProcessInv, WorkInv, TaskType
      <4> QED
        BY <2>5, <4>2, <4>3
    <3>3. /\ task[o][a] \in Task
          /\ task[o][a].trigger = job.trigger /\ task[o][a].todo = job.todo
      BY <1>0, <2>5, <3>2, WaitingCurrent DEF ProcessInv, WorkInv, TaskType, Awaited
    <3>4. task'[o][a].trigger = job.trigger /\ task'[o][a].todo = job.todo
      BY <1>0, <3>2, <3>3 DEF ProcessInv, WorkInv, TaskType, Task
    <3>5. t = job.trigger /\ i = Least(job.todo)
      BY <3>4 DEF Claims
    <3>6. TransitionSegment(a, JobToken(job), t, i, StartOf(job), NoPlatformId, NoObservation)
      BY <2>5, <3>2, <3>5 DEF Transition
    <3>7. /\ JobToken(job) \in Token
          /\ StartOf(job) \in {"start", "start_automatic"}
      BY <3>1 DEF JobToken, TokenOf, Token, StartOf
    <3>8. i \in Ordinals
      <4>1. outbox[a][t] # NoBatch /\ i \in DOMAIN outbox[a][t].segs
        BY <3>6 DEF TransitionSegment
      <4> QED
        BY <1>0, <3>1, <3>5, <4>1, SegmentOrdinals
    <3> QED
      BY <1>0, <3>1, <3>5, <3>6, <3>7, <3>8, ClaimTries
  <2> QED
    BY <1>1, <2>4, <2>5
<1> QED
  BY <1>1, <1>2, <1>3, <1>4, <1>5 DEF LiveNext

LEMMA DeadStays ==
  ASSUME SenderInv, LiveNext, NEW a \in Accounts, NEW t, NEW i, Dead(a, t, i),
         Tried(a, t, i) \/ outbox'[a][t].segs[i].status = "rejected"
  PROVE  Dead(a, t, i)'
<1>1. \A o \in Owners : ~Claims(task'[o][a], t, i)
  BY NewClaims DEF Dead
<1>2. \A r \in requests' :
        (r.account = a /\ r.trigger = t /\ r.ordinal = i) => r.fate = "refused"
  <2>1. ASSUME NEW o \in Owners, NEW b \in Accounts, Post(o, b)
        PROVE  \A r \in requests' :
                 (r.account = a /\ r.trigger = t /\ r.ordinal = i) => r.fate = "refused"
    <3>1. PICK r \in Request :
            /\ requests' = requests \cup {r}
            /\ r.account = b /\ r.trigger = task[o][b].trigger /\ r.ordinal = Current(o, b)
      BY <2>1, PostedRequest DEF SenderInv, ProcessInv, WireInv
    <3>2. ~(b = a /\ task[o][b].trigger = t /\ Current(o, b) = i)
      BY <2>1 DEF Dead, Claims, Current, Post, At
    <3> QED
      BY <3>1, <3>2 DEF Dead, RequestOf
  <2>2. CASE PlatformNext
    <3>1. PICK r \in requests, fate \in {"delivered", "refused"},
               platformId \in PlatformIds \cup {NoPlatformId} :
            r.fate = "sent" /\ Fate(r, fate, platformId)
      BY <2>2 DEF PlatformNext
    <3> DEFINE q == [r EXCEPT !.fate = fate, !.platformId = platformId]
    <3>2. requests' = (requests \ {r}) \cup {q}
      BY <3>1 DEF Fate
    <3>3. q.account = r.account /\ q.trigger = r.trigger /\ q.ordinal = r.ordinal
      BY DEF SenderInv, ProcessInv, RequestType, Request
    <3> HIDE DEF q
    <3> QED
      BY <3>1, <3>2, <3>3 DEF Dead, RequestOf
  <2> QED
    BY <2>1, <2>2, RequestSteps DEF Dead, RequestOf
<1>3. \A o \in Owners : ~Claims(task[o][a], t, i)'
  BY <1>1 DEF Claims
<1> QED
  BY <1>2, <1>3 DEF Dead, RequestOf

(* The outcome of an attempt is what the platform said, or not knowing it. *)
LEMMA AnsweredOutcome ==
  ASSUME SenderInv, NEW o \in Owners, NEW a \in Accounts,
         RejectUnsent(o, a) \/ Answered(o, a)
  PROVE  \E outcome \in Verdicts, platformId \in PlatformIds \cup {NoPlatformId} :
           /\ Persist(o, a, outcome, platformId)
           /\ Tried(a, task[o][a].trigger, Current(o, a))
           /\ outcome[1] = "confirm" =>
                Backed(a, task[o][a].trigger, Current(o, a), platformId)
           /\ outcome[1] = "reject" =>
                /\ \A r \in RequestOf(a, task[o][a].trigger, Current(o, a)) :
                     r.fate = "refused"
                /\ \A p \in Owners \ {o} :
                     ~Claims(task[p][a], task[o][a].trigger, Current(o, a))
<1> DEFINE t == task[o][a].trigger
           i == Current(o, a)
<1>0. TypeOK /\ ProcessInv /\ WireInv
  BY DEF SenderInv
<1>1. CASE RejectUnsent(o, a)
  <2>1. task[o][a].pc = "claimed" /\ Persist(o, a, <<"reject", "none">>, NoPlatformId)
    BY <1>1 DEF RejectUnsent, At
  <2>2. Tried(a, t, i) /\ Unsent(a, t, i)
    BY <1>0, <2>1 DEF WireInv, ClaimsTried
  <2>3. \A p \in Owners \ {o} : ~Claims(task[p][a], t, i)
    BY <1>0, <2>1 DEF WireInv, ClaimsApart
  <2>4. <<"reject", "none">> \in Verdicts
    BY DEF Verdicts
  <2>5. <<"reject", "none">>[1] # "confirm"
    OBVIOUS
  <2>6. \A r \in RequestOf(a, t, i) : r.fate = "refused"
    BY <2>2 DEF Unsent
  <2> HIDE DEF t, i
  <2> QED
    BY <2>1, <2>2, <2>3, <2>4, <2>5, <2>6 DEF t, i
<1>2. CASE Answered(o, a)
  <2>1. PICK r \in RequestOf(a, t, i) :
          \E outcome \in OutcomesOf(r.fate) :
            Persist(o, a, outcome, IF outcome[1] = "confirm" THEN r.platformId ELSE NoPlatformId)
    BY <1>2 DEF Answered
  <2>2. PICK outcome \in OutcomesOf(r.fate) :
          Persist(o, a, outcome, IF outcome[1] = "confirm" THEN r.platformId ELSE NoPlatformId)
    BY <2>1
  <2> DEFINE platformId == IF outcome[1] = "confirm" THEN r.platformId ELSE NoPlatformId
  <2>3. r \in requests /\ r.account = a /\ r.trigger = t /\ r.ordinal = i /\ r \in Request
    BY <1>0 DEF RequestOf, ProcessInv, RequestType
  <2>4. /\ outcome \in Verdicts
        /\ outcome[1] = "confirm" => r.fate = "delivered"
        /\ outcome[1] = "reject" => r.fate = "refused"
    BY <2>3 DEF OutcomesOf, Verdicts, SenderOutcome, Request
  <2>5. platformId \in PlatformIds \cup {NoPlatformId}
    BY <2>3 DEF Request
  <2>6. Tried(a, t, i)
    BY <1>0, <2>3 DEF WireInv, RequestsTried
  <2>7. \A q \in RequestOf(a, t, i) : q = r
    BY <1>0, <2>3 DEF WireInv, AtMostOneRequest, RequestOf
  <2>8. \A p \in Owners : ~Claims(task[p][a], t, i)
    <3> HIDE DEF t, i
    <3>1. ~Unsent(a, t, i)
      BY <2>1 DEF Unsent
    <3> QED
      BY <1>0, <3>1 DEF WireInv, ClaimsTried, Claims, Current
  <2>9. outcome[1] = "confirm" => Backed(a, t, i, platformId)
    BY <2>1, <2>4 DEF Backed
  <2>10. Persist(o, a, outcome, platformId)
    BY <2>2
  <2> HIDE DEF t, i, platformId
  <2> QED
    BY <2>4, <2>5, <2>6, <2>7, <2>8, <2>9, <2>10 DEF t, i
<1> QED
  BY <1>1, <1>2

NotAnswered ==
  \A o \in Owners, a \in Accounts : ~RejectUnsent(o, a) /\ ~Answered(o, a)

(* Outcomes reach the blocking pool by those two steps only.               *)
LEMMA OldOutcomes ==
  ASSUME SenderInv, LiveNext, NotAnswered
  PROVE  \A job \in jobs' : job.op = "persist" => job \in jobs
<1>1. ASSUME NEW o \in Owners, NEW a \in Accounts, NEW op \in {"start", "cancel", "cancel_first"},
             NEW pc, Submits(o, a, op, pc)
      PROVE  \A job \in jobs' : job.op = "persist" => job \in jobs
  BY <1>1 DEF Submits, Job
<1>2. ASSUME NEW o \in Owners, NEW a \in Accounts, CancelTail(o, a) \/ EndInError(o, a)
      PROVE  \A job \in jobs' : job.op = "persist" => job \in jobs
  BY <1>1, <1>2 DEF CancelTail, EndInError
<1>3. ASSUME NEW o \in Owners, NEW a \in Accounts, OwnerNext(o, a) \/ ProcessNext(o, a)
      PROVE  jobs' = jobs
  BY <1>3 DEF OwnerNext, Install, PublishOwnership, PublishGrant, DropGrant, ReleaseLocal,
              ChangePermission, ProcessNext, Submit, PlanReply, Identify, Reconcile
<1>4. ASSUME NEW o \in Owners, NEW a \in Accounts, TaskNext(o, a)
      PROVE  \A job \in jobs' : job.op = "persist" => job \in jobs
  <2>1. CASE Dispatch(o, a) \/ Drop(o, a) \/ Post(o, a)
    BY <2>1 DEF Dispatch, Drop, Post
  <2>2. CASE ReadBatch(o, a) \/ GiveUp(o, a) \/ HandleError(o, a)
    BY <1>2, <2>2 DEF ReadBatch, GiveUp, HandleError
  <2>3. CASE PrepareSegment(o, a)
    BY <1>2, <2>3 DEF PrepareSegment
  <2>4. CASE ClaimSegment(o, a)
    BY <1>1, <1>2, <2>4 DEF ClaimSegment
  <2>5. CASE Continue(o, a)
    BY <1>2, <2>5 DEF Continue
  <2>6. CASE StopBatch(o, a)
    BY <2>6 DEF StopBatch, Job
  <2> QED
    BY <1>4, <2>1, <2>2, <2>3, <2>4, <2>5, <2>6 DEF TaskNext, NotAnswered
<1>5. CASE JobNext
  <2>1. PICK job \in jobs : JobStep(job)
    BY <1>5 DEF JobNext, JobStep
  <2>2. ASSUME NEW todo, Remaining(job, todo)
        PROVE  \A other \in jobs' : other.op = "persist" => other \in jobs
    <3>1. [job EXCEPT !.op = "cancelling", !.todo = todo].op # "persist"
      BY DEF SenderInv, ProcessInv, WorkInv, JobType, Closure
    <3> QED
      BY <2>2, <3>1 DEF Remaining
  <2>3. CASE RunCancel(job)
    BY <2>2, <2>3 DEF RunCancel
  <2> QED
    BY <2>1, <2>3 DEF JobStep, RunStart, RunPersist, RunCancelFirst, FailJob
<1>6. CASE PlatformNext
  BY <1>6 DEF PlatformNext, Fate
<1> QED
  BY <1>3, <1>4, <1>5, <1>6 DEF LiveNext

(* The job that an answer leaves behind.                                   *)
LEMMA PersistedJob ==
  ASSUME SenderInv, NEW o \in Owners, NEW a \in Accounts, task[o][a] # Idle,
         NEW outcome \in Verdicts, NEW platformId \in PlatformIds \cup {NoPlatformId},
         Persist(o, a, outcome, platformId)
  PROVE  /\ \A p \in Owners, b \in Accounts :
              ~(p = o /\ b = a) => task'[p][b] = task[p][b]
         /\ task'[o][a].pc = "persisting" /\ task'[o][a].outcome = outcome
         /\ task'[o][a].trigger = task[o][a].trigger
         /\ task'[o][a].todo = task[o][a].todo
         /\ \E job \in Closure :
              /\ jobs' = jobs \cup {job}
              /\ job.owner = o /\ job.account = a
              /\ job.trigger = task[o][a].trigger /\ job.todo = task[o][a].todo
              /\ job.outcome = outcome /\ job.platformId = platformId
<1>1. task[o][a] \in Task /\ task[o][a].trigger \in Triggers /\ task[o][a].epoch \in Epochs
  BY TaskFields DEF SenderInv, ProcessInv
<1>2. /\ \A p \in Owners, b \in Accounts : ~(p = o /\ b = a) => task'[p][b] = task[p][b]
      /\ task'[o][a].pc = "persisting" /\ task'[o][a].outcome = outcome
      /\ task'[o][a].trigger = task[o][a].trigger
      /\ task'[o][a].todo = task[o][a].todo
  BY <1>1 DEF Persist, SenderInv, ProcessInv, WorkInv, TaskType, Task
<1> DEFINE job == [Job(o, a, task[o][a], "persist")
                     EXCEPT !.outcome = outcome, !.platformId = platformId]
<1>3. /\ job \in Closure
      /\ job.owner = o /\ job.account = a
      /\ job.trigger = task[o][a].trigger /\ job.todo = task[o][a].todo
      /\ job.outcome = outcome /\ job.platformId = platformId
  BY <1>1 DEF Job, Closure, Task
<1>4. jobs' = jobs \cup {job}
  BY DEF Persist
<1> HIDE DEF job
<1> QED
  BY <1>2, <1>3, <1>4

LEMMA OutcomesStay ==
  ASSUME SenderInv, SenderInv', OutcomesTrue, LiveNext
  PROVE  OutcomesTrue'
<1>0. TypeOK /\ ProcessInv /\ WireInv /\ StoreStep
  BY LiveStores DEF SenderInv
<1>1. ASSUME NEW job \in jobs, job.op = "persist"
      PROVE  TrueOutcome(job, job.account, job.trigger, Least(job.todo))'
  <2> DEFINE a == job.account
             t == job.trigger
             i == Least(job.todo)
  <2>1. a \in Accounts /\ t \in Triggers
    BY <1>0 DEF ProcessInv, WorkInv, JobType, Closure
  <2>2. TrueOutcome(job, a, t, i)
    BY <1>1 DEF OutcomesTrue
  <2> HIDE DEF a, t, i
  <2>3. Tried(a, t, i)'
    BY <1>0, <2>1, <2>2, TriedStays DEF StoreStep, TrueOutcome
  <2>4. job.outcome[1] = "confirm" => Backed(a, t, i, job.platformId)'
    BY <2>2, BackedStays DEF TrueOutcome
  <2>5. job.outcome[1] = "reject" => Dead(a, t, i)'
    BY <2>1, <2>2, DeadStays DEF TrueOutcome
  <2>6. TrueOutcome(job, a, t, i)'
    BY <2>3, <2>4, <2>5 DEF TrueOutcome
  <2> QED
    BY <2>6 DEF a, t, i
<1>2. CASE NotAnswered
  BY <1>1, <1>2, OldOutcomes DEF OutcomesTrue
<1>3. ASSUME NEW o \in Owners, NEW a \in Accounts, RejectUnsent(o, a) \/ Answered(o, a)
      PROVE  OutcomesTrue'
  <2>0. PICK t, i : t = task[o][a].trigger /\ i = Current(o, a)
    OBVIOUS
  <2>1. PICK outcome \in Verdicts, platformId \in PlatformIds \cup {NoPlatformId} :
           /\ Persist(o, a, outcome, platformId)
           /\ Tried(a, t, i)
           /\ outcome[1] = "confirm" => Backed(a, t, i, platformId)
           /\ outcome[1] = "reject" =>
                /\ \A r \in RequestOf(a, t, i) : r.fate = "refused"
                /\ \A p \in Owners \ {o} : ~Claims(task[p][a], t, i)
    BY <1>3, <2>0, AnsweredOutcome
  <2>2. /\ outbox' = outbox /\ requests' = requests
        /\ task[o][a] # Idle
    BY <1>3 DEF RejectUnsent, Answered, At, Idle, storeVars, vars, outVars
  <2>3. /\ \A p \in Owners, b \in Accounts : ~(p = o /\ b = a) => task'[p][b] = task[p][b]
        /\ task'[o][a].pc = "persisting"
    BY <2>1, <2>2, PersistedJob
  <2>4. PICK job \in Closure :
          /\ jobs' = jobs \cup {job}
          /\ job.account = a /\ job.trigger = t /\ job.todo = task[o][a].todo
          /\ job.outcome = outcome /\ job.platformId = platformId
    BY <2>0, <2>1, <2>2, PersistedJob
  <2>5. i = Least(job.todo)
    BY <2>0, <2>4 DEF Current
  <2>6. outcome[1] = "reject" => \A p \in Owners : ~Claims(task'[p][a], t, i)
    BY <2>1, <2>3 DEF Claims
  <2>7. Tried(a, t, i)'
    BY <2>1, <2>2 DEF Tried
  <2>8. outcome[1] = "confirm" => Backed(a, t, i, platformId)'
    BY <2>1, <2>2 DEF Backed, RequestOf
  <2>9. outcome[1] = "reject" => Dead(a, t, i)'
    BY <2>1, <2>2, <2>6 DEF Dead, RequestOf, Claims
  <2>10. TrueOutcome(job, a, t, i)'
    BY <2>4, <2>7, <2>8, <2>9 DEF TrueOutcome
  <2>11. TrueOutcome(job, job.account, job.trigger, Least(job.todo))'
    BY <2>4, <2>5, <2>10
  <2> QED
    BY <1>1, <2>4, <2>11 DEF OutcomesTrue
<1> QED
  BY <1>2, <1>3 DEF NotAnswered

LEMMA VerdictsStay ==
  ASSUME SenderInv, TruthInv, LiveNext
  PROVE  VerdictsTrue'
<1> SUFFICES ASSUME NEW a \in Accounts, NEW t \in Triggers, NEW i \in Ordinals,
                    IsSegment(a, t, i)'
             PROVE  TrueVerdict(a, t, i)'
  BY DEF VerdictsTrue
<1> DEFINE before == outbox[a][t].segs[i]
           after  == outbox'[a][t].segs[i]
<1>1. ASSUME Backed(a, t, i, after.platformId)
      PROVE  Backed(a, t, i, outbox[a][t].segs[i].platformId)'
  <2> DEFINE id == after.platformId
  <2>1. PICK r \in RequestOf(a, t, i) : r.fate = "delivered" /\ r.platformId = id
    BY <1>1 DEF Backed
  <2>2. Backed(a, t, i, r.platformId)
    BY <2>1 DEF Backed
  <2>3. Backed(a, t, i, r.platformId)'
    BY <2>2, BackedStays
  <2> QED
    BY <2>1, <2>3 DEF Backed
<1>2. CASE SameVerdict(a, t, i)
  <2>1. CASE /\ IsSegment(a, t, i)
             /\ after.status = before.status /\ after.platformId = before.platformId
    <3>1. TrueVerdict(a, t, i)
      BY <2>1 DEF TruthInv, VerdictsTrue
    <3>2. after.status = "confirmed" => Backed(a, t, i, after.platformId)
      BY <2>1, <3>1 DEF TrueVerdict
    <3>3. after.status = "rejected" => Dead(a, t, i)'
      BY <2>1, <3>1, DeadStays DEF TrueVerdict
    <3> QED
      BY <1>1, <3>2, <3>3 DEF TrueVerdict
  <2>2. CASE ~Terminal(a, t, i)'
    BY <2>2 DEF Terminal, TerminalSegment, TrueVerdict
  <2> QED
    BY <1>2, <2>1, <2>2 DEF SameVerdict
<1>3. CASE Reached(a, t, i)
  <2>1. CASE after.status = "confirmed" /\ Backed(a, t, i, after.platformId)
    BY <1>1, <2>1 DEF TrueVerdict
  <2>2. CASE after.status = "rejected" /\ Dead(a, t, i)
    <3>1. Dead(a, t, i)'
      BY <2>2, DeadStays
    <3> QED
      BY <2>2, <3>1 DEF TrueVerdict
  <2> QED
    BY <1>3, <2>1, <2>2 DEF Reached
<1>4. SameVerdict(a, t, i) \/ Reached(a, t, i)
  BY VerdictStep DEF TruthInv, AllSame, SomeReached, OneReached, SameBut
<1> QED
  BY <1>2, <1>3, <1>4

LEMMA TruthStutter ==
  ASSUME TruthInv, UNCHANGED liveVars
  PROVE  TruthInv'
<1>1. outbox' = outbox /\ task' = task /\ jobs' = jobs /\ requests' = requests
  BY DEF liveVars, storeVars, vars, outVars
<1>2. OutcomesTrue'
  <2> SUFFICES ASSUME NEW job \in jobs, job.op = "persist"
               PROVE  TrueOutcome(job, job.account, job.trigger, Least(job.todo))'
    BY <1>1 DEF OutcomesTrue
  <2>1. TrueOutcome(job, job.account, job.trigger, Least(job.todo))
    BY DEF TruthInv, OutcomesTrue
  <2> QED
    BY <1>1, <2>1 DEF TrueOutcome, Tried, Backed, Dead, RequestOf
<1>3. VerdictsTrue'
  <2> SUFFICES ASSUME NEW a \in Accounts, NEW t \in Triggers, NEW i \in Ordinals,
                      IsSegment(a, t, i)'
               PROVE  TrueVerdict(a, t, i)'
    BY DEF VerdictsTrue
  <2>1. TrueVerdict(a, t, i)
    BY <1>1 DEF IsSegment, TruthInv, VerdictsTrue
  <2> QED
    BY <1>1, <2>1 DEF TrueVerdict, Backed, Dead, RequestOf
<1> QED
  BY <1>2, <1>3 DEF TruthInv

LEMMA TruthAlways == LiveSpec => [](SenderInv /\ TruthInv)
<1>1. LiveInit => SenderInv /\ TruthInv
  BY LiveInitInv
  DEF LiveInit, Init, TruthInv, OutcomesTrue, VerdictsTrue, IsSegment
<1>2. SenderInv /\ TruthInv /\ [LiveNext]_liveVars => (SenderInv /\ TruthInv)'
  BY SenderInductive, OutcomesStay, VerdictsStay, TruthStutter DEF TruthInv
<1> QED
  BY <1>1, <1>2, PTL DEF LiveSpec

(* VerdictIsTrue in every reachable state, for any processes, takeovers,   *)
(* works and leftovers in the blocking pool: the outcome persist_outcome   *)
(* writes, a receipt that confirms and a cancellation that rejects never   *)
(* say what the platform did not do.                                       *)
THEOREM VerdictTheorem == LiveSpec => []VerdictIsTrue
<1>1. TruthInv => VerdictIsTrue
  <2> SUFFICES ASSUME TruthInv, NEW a \in Accounts, NEW id \in SegmentId(a)
               PROVE  /\ outbox[a][id[1]].segs[id[2]].status = "confirmed" =>
                           \E r \in RequestOf(a, id[1], id[2]) :
                             /\ r.fate = "delivered"
                             /\ r.platformId = outbox[a][id[1]].segs[id[2]].platformId
                      /\ outbox[a][id[1]].segs[id[2]].status = "rejected" =>
                           \A r \in RequestOf(a, id[1], id[2]) : r.fate = "refused"
    BY DEF VerdictIsTrue
  <2>1. id[1] \in Triggers /\ id[2] \in Ordinals /\ IsSegment(a, id[1], id[2])
    BY DEF SegmentId, IsSegment
  <2>2. TrueVerdict(a, id[1], id[2])
    BY <2>1 DEF TruthInv, VerdictsTrue
  <2> QED
    BY <2>2 DEF TrueVerdict, Backed, Dead
<1> QED
  BY <1>1, TruthAlways, PTL

-----------------------------------------------------------------------------
(* The order of the requests.                                              *)

(* A step keeps what is confirmed.                                         *)
LEMMA ConfirmedStays ==
  ASSUME SenderInv, OutcomesTrue, [LiveNext]_liveVars,
         NEW a \in Accounts, NEW t \in Triggers, NEW i \in Ordinals,
         StatusOf(a, t, i) = "confirmed"
  PROVE  StatusOf(a, t, i)' = "confirmed"
<1>1. Terminal(a, t, i)
  BY DEF StatusOf, Terminal, TerminalSegment
<1>2. ~Reached(a, t, i)
  BY <1>1 DEF Reached
<1>3. SameVerdict(a, t, i)
  BY <1>2, VerdictStep DEF AllSame, SomeReached, OneReached, SameBut
<1> QED
  BY <1>1, <1>3 DEF SameVerdict, StatusOf, IsSegment

LEMMA ConfirmedButStays ==
  ASSUME SenderInv, OutcomesTrue, [LiveNext]_liveVars,
         NEW a \in Accounts, NEW t \in Triggers, outbox[a][t] # NoBatch,
         NEW todo, ConfirmedBut(a, t, todo)
  PROVE  ConfirmedBut(a, t, todo)'
<1>0. TypeOK /\ StoreStep
  BY LiveStores DEF SenderInv
<1>1. DOMAIN outbox'[a][t].segs = DOMAIN outbox[a][t].segs /\ outbox'[a][t] # NoBatch
  BY <1>0, BatchesStay
<1>2. ASSUME NEW j \in DOMAIN outbox[a][t].segs \ todo
      PROVE  outbox'[a][t].segs[j].status = "confirmed"
  <2>1. j \in Ordinals
    BY <1>0, SegmentOrdinals
  <2>2. StatusOf(a, t, j) = "confirmed"
    BY DEF ConfirmedBut, StatusOf, IsSegment
  <2>3. StatusOf(a, t, j)' = "confirmed"
    BY <2>1, <2>2, ConfirmedStays
  <2> QED
    BY <1>1, <2>3 DEF StatusOf, IsSegment
<1> QED
  BY <1>1, <1>2 DEF ConfirmedBut

Underway(w) == w.pc \in Attempts \cup {"preparing"}

LEMMA LeastMember ==
  ASSUME NEW S \in SUBSET Nat, S # {}
  PROVE  Least(S) \in S /\ \A j \in S : Least(S) <= j
BY SmallestExists DEF Least

(* The work in hand is kept: so is its order.                              *)
LEMMA OrderedStays ==
  ASSUME SenderInv, OutcomesTrue, [LiveNext]_liveVars,
         NEW o \in Owners, NEW a \in Accounts, Ordered(task[o][a], a),
         NEW v, v = task[o][a]
  PROVE  Ordered(v, a)'
<1>1. CASE Underway(task[o][a])
  <2>1. /\ task[o][a] \in Task /\ task[o][a].trigger \in Triggers
        /\ Busy(outbox[a], task[o][a], 0) \/ outbox[a][task[o][a].trigger] # NoBatch
        /\ task[o][a] # Idle
    BY <1>1, TaskFields DEF SenderInv, ProcessInv, Underway, Attempts, Idle, Busy
  <2>2. /\ v.trigger \in Triggers /\ outbox[a][v.trigger] # NoBatch
        /\ v.todo \subseteq DOMAIN outbox[a][v.trigger].segs
        /\ v.pc \in Attempts => v.todo # {}
        /\ v.todo \in SUBSET Ordinals
    BY <2>1, TaskFields DEF SenderInv, ProcessInv, Busy, Task
  <2>3. ConfirmedBut(a, v.trigger, v.todo)
    BY <1>1 DEF Ordered, Underway
  <2>4. ConfirmedBut(a, v.trigger, v.todo)'
    BY <2>2, <2>3, ConfirmedButStays
  <2>5. ASSUME v.pc = "persisted", v.outcome[1] = "confirm"
        PROVE  outbox'[a][v.trigger].segs[Least(v.todo)].status = "confirmed"
    <3>1. Ordinals \subseteq Nat
      BY StoreAssumption DEF Ordinals
    <3>2. Least(v.todo) \in v.todo
      BY <2>2, <2>5, <3>1, LeastMember DEF Attempts
    <3>3. StatusOf(a, v.trigger, Least(v.todo)) = "confirmed"
      BY <2>2, <2>5, <3>2 DEF Ordered, StatusOf, IsSegment
    <3>4. StatusOf(a, v.trigger, Least(v.todo))' = "confirmed"
      BY <2>2, <3>2, <3>3, ConfirmedStays
    <3> QED
      BY <3>4 DEF StatusOf, IsSegment
  <2> QED
    BY <2>4, <2>5 DEF Ordered
<1>2. CASE ~Underway(task[o][a])
  BY <1>2 DEF Underway, Ordered, Attempts
<1> QED
  BY <1>1, <1>2

(* A work goes on with what it had in hand.                                *)
LEMMA CarriesOn ==
  ASSUME NEW a, NEW w, NEW v, Underway(w), Ordered(w, a),
         v.trigger = w.trigger, v.todo = w.todo, v.pc # "persisted"
  PROVE  Ordered(v, a)
BY DEF Ordered, Underway

LEMMA NothingUnderway ==
  ASSUME NEW a, NEW v, ~Underway(v)
  PROVE  Ordered(v, a)
BY DEF Ordered, Underway, Attempts

LEMMA EndsUnderway ==
  ASSUME SenderInv, NEW o \in Owners, NEW a \in Accounts,
         CancelTail(o, a) \/ EndInError(o, a) \/ End(o, a)
  PROVE  ~Underway(task'[o][a])
BY DEF CancelTail, EndInError, End, Submits, Goto, Idle, Underway, Attempts,
       SenderInv, ProcessInv, WorkInv, TaskType, Task

LEMMA GoesTo ==
  ASSUME SenderInv, NEW o \in Owners, NEW a \in Accounts, NEW pc, Goto(o, a, pc)
  PROVE  /\ task'[o][a].pc = pc
         /\ task'[o][a].trigger = task[o][a].trigger
         /\ task'[o][a].todo = task[o][a].todo
BY DEF Goto, SenderInv, ProcessInv, WorkInv, TaskType, Task

(* A step of a work keeps its own order.                                   *)
LEMMA WorkOrdered ==
  ASSUME SenderInv, WorksOrdered, NEW o \in Owners, NEW a \in Accounts, TaskNext(o, a)
  PROVE  Ordered(task'[o][a], a)
<1> DEFINE w == task[o][a]
<1>0. w \in Task /\ Ordered(w, a)
  BY DEF SenderInv, ProcessInv, WorkInv, TaskType, WorksOrdered
<1>1. CASE CancelTail(o, a) \/ EndInError(o, a) \/ End(o, a)
  BY <1>1, EndsUnderway, NothingUnderway
<1>2. ASSUME NEW pc, pc # "persisted", Underway(w), Goto(o, a, pc)
      PROVE  Ordered(task'[o][a], a)
  BY <1>0, <1>2, GoesTo, CarriesOn
<1>3. CASE Dispatch(o, a)
  <2>1. task'[o][a].pc = "reading"
    BY <1>3 DEF Dispatch, Idle, SenderInv, ProcessInv, WorkInv, TaskType
  <2> QED
    BY <2>1, NothingUnderway DEF Underway, Attempts
<1>4. CASE Drop(o, a) \/ HandleError(o, a)
  BY <1>1, <1>4 DEF Drop, HandleError
<1>5. CASE ReadBatch(o, a)
  <2> DEFINE segs == outbox[a][w.trigger].segs
             open == {i \in DOMAIN segs : segs[i].status # "confirmed"}
  <2>1. CASE task' = [task EXCEPT ![o][a].pc = "preparing", ![o][a].todo = open]
    <3>1. /\ task'[o][a].pc = "preparing" /\ task'[o][a].todo = open
          /\ task'[o][a].trigger = w.trigger
      <4> HIDE DEF open
      <4> QED
        BY <1>0, <2>1 DEF SenderInv, ProcessInv, WorkInv, TaskType, Task
    <3>2. ConfirmedBut(a, w.trigger, open)
      BY DEF ConfirmedBut
    <3> HIDE DEF open
    <3> QED
      BY <3>1, <3>2 DEF Ordered
  <2> QED
    BY <1>1, <1>5, <2>1 DEF ReadBatch
<1>6. CASE GiveUp(o, a)
  BY <1>1, <1>6 DEF GiveUp
<1>7. CASE PrepareSegment(o, a)
  <2>1. w.pc = "preparing"
    BY <1>7 DEF PrepareSegment, At
  <2>2. CASE task' = [task EXCEPT ![o][a].pc = "signed", ![o][a].digest = proto[a].digest]
    <3>1. /\ task'[o][a].pc = "signed" /\ task'[o][a].todo = w.todo
          /\ task'[o][a].trigger = w.trigger
      BY <1>0, <2>2 DEF SenderInv, ProcessInv, WorkInv, TaskType, Task
    <3> QED
      BY <1>0, <2>1, <3>1, CarriesOn DEF Underway
  <2> QED
    BY <1>1, <1>7, <2>2 DEF PrepareSegment
<1>8. CASE ClaimSegment(o, a)
  <2>1. Underway(w)
    BY <1>8 DEF ClaimSegment, At, Underway, Attempts
  <2> QED
    BY <1>1, <1>2, <1>8, <2>1 DEF ClaimSegment, Submits
<1>9. CASE Post(o, a)
  <2>1. Underway(w)
    BY <1>9 DEF Post, At, Underway, Attempts
  <2> QED
    BY <1>2, <1>9, <2>1 DEF Post
<1>10. CASE RejectUnsent(o, a) \/ Answered(o, a)
  <2>1. Underway(w) /\ w # Idle
    BY <1>10 DEF RejectUnsent, Answered, At, Underway, Attempts, Idle
  <2>2. PICK outcome \in Verdicts, platformId \in PlatformIds \cup {NoPlatformId} :
          Persist(o, a, outcome, platformId)
    BY <1>10, AnsweredOutcome
  <2>3. /\ task'[o][a].pc = "persisting"
        /\ task'[o][a].trigger = w.trigger
        /\ task'[o][a].todo = w.todo
    BY <2>1, <2>2, PersistedJob
  <2> QED
    BY <1>0, <2>1, <2>3, CarriesOn
<1>11. CASE Continue(o, a)
  <2>1. CASE /\ w.outcome[1] # "reject" /\ Proceeds(w.outcome)
             /\ task' = [task EXCEPT ![o][a].pc = "preparing",
                                     ![o][a].todo = @ \ {Current(o, a)}]
    <3>1. w.pc = "persisted"
      BY <1>11 DEF Continue, At
    <3>2. w.outcome[1] = "confirm"
      BY <1>0, <2>1 DEF Proceeds, Task, Verdicts, SenderOutcome
    <3>3. /\ task'[o][a].pc = "preparing"
          /\ task'[o][a].todo = w.todo \ {Current(o, a)}
          /\ task'[o][a].trigger = w.trigger
      <4>1. \A i : [w EXCEPT !.pc = "preparing", !.todo = @ \ {i}].todo = w.todo \ {i}
        BY <1>0 DEF Task
      <4> QED
        BY <1>0, <2>1, <4>1 DEF SenderInv, ProcessInv, WorkInv, TaskType, Task
    <3>4. ConfirmedBut(a, w.trigger, w.todo \ {Current(o, a)})
      BY <1>0, <3>1, <3>2 DEF Ordered, ConfirmedBut, Attempts, Current
    <3> QED
      BY <3>3, <3>4 DEF Ordered
  <2> QED
    BY <1>1, <1>11, <2>1 DEF Continue
<1>12. CASE StopBatch(o, a)
  BY <1>0, <1>12 DEF StopBatch
<1> QED
  BY <1>3, <1>4, <1>5, <1>6, <1>7, <1>8, <1>9, <1>10, <1>11, <1>12 DEF TaskNext

LEMMA OthersUntouched ==
  ASSUME SenderInv, NEW o \in Owners, NEW a \in Accounts, TaskNext(o, a)
  PROVE  \A p \in Owners, b \in Accounts : ~(p = o /\ b = a) => task'[p][b] = task[p][b]
<1>1. CASE Dispatch(o, a)
  BY <1>1 DEF Dispatch, SenderInv, ProcessInv, WorkInv, TaskType
<1>2. CASE StopBatch(o, a)
  BY <1>2 DEF StopBatch
<1>3. CASE Proceeding(o, a)
  <2>1. PICK w \in Task : task' = [task EXCEPT ![o][a] = w]
    BY <1>3, StepShape DEF SenderInv, ProcessInv, Moved, Submitted, Becomes
  <2> QED
    BY <2>1 DEF SenderInv, ProcessInv, WorkInv, TaskType
<1> QED
  BY <1>1, <1>2, <1>3 DEF TaskNext, Proceeding

(* The work that waits for a job of the pool.                              *)
LEMMA Awaiting ==
  ASSUME SenderInv, NEW job \in jobs, Waiting(job)
  PROVE  /\ job.owner \in Owners /\ job.account \in Accounts
         /\ AnswersCurrent(job)
         /\ task[job.owner][job.account] \in Task
         /\ task[job.owner][job.account] # Idle
         /\ job.op = "start" => task[job.owner][job.account].pc = "claiming"
         /\ job.op = "persist" => task[job.owner][job.account].pc = "persisting"
BY WaitingCurrent
DEF SenderInv, ProcessInv, WorkInv, TaskType, JobType, Closure, Awaited, Waiting, Idle, Waits

LEMMA AnswerGoes ==
  ASSUME SenderInv, NEW job \in jobs, NEW pc, Answer(job, pc), Waiting(job)
  PROVE  LET o == job.owner
             a == job.account
         IN  /\ task'[o][a].pc = pc
             /\ task'[o][a].trigger = task[o][a].trigger
             /\ task'[o][a].todo = task[o][a].todo
             /\ task'[o][a].outcome = task[o][a].outcome
             /\ task'[o][a].work = task[o][a].work
             /\ \A p \in Owners, b \in Accounts : ~(p = o /\ b = a) => task'[p][b] = task[p][b]
BY Awaiting DEF Answer, SenderInv, ProcessInv, WorkInv, TaskType, Task

(* A recorded confirmation, applied or found applied.                      *)
LEMMA ConfirmRecorded ==
  ASSUME TypeOK, NEW job \in Closure, WritesOutcome(job), RunPersist(job),
         job.outcome[1] = "confirm"
  PROVE  outbox'[job.account][job.trigger].segs[Least(job.todo)].status = "confirmed"
<1> DEFINE a == job.account
           t == job.trigger
           tok == JobToken(job)
           i == Least(job.todo)
<1>1. \/ \E observation : TransitionSegment(a, tok, t, i, "confirm", job.platformId, observation)
      \/ RepeatTransition(a, tok, t, i, "confirm", job.platformId)
  BY DEF RunPersist, Transition, Repeated
<1>2. /\ a \in Accounts /\ t \in Triggers /\ tok \in Token
      /\ "confirm" \in SegmentTransition /\ job.platformId \in IdsFor("confirm")
  BY DEF Closure, JobToken, TokenOf, Token, SegmentTransition, WritesOutcome, RunPersist
<1>3. TargetStatus["confirm"] = "confirmed"
  BY DEF TargetStatus
<1> HIDE DEF a, t, tok, i
<1>4. ASSUME NEW observation,
             TransitionSegment(a, tok, t, i, "confirm", job.platformId, observation)
      PROVE  outbox'[a][t].segs[i].status = "confirmed"
  <2>1. i \in Ordinals
    BY <1>2, <1>4, SegmentOrdinals DEF TransitionSegment
  <2> QED
    BY <1>2, <1>3, <1>4, <2>1, TransitionStep, ZenonT(60)
<1>5. ASSUME RepeatTransition(a, tok, t, i, "confirm", job.platformId)
      PROVE  outbox'[a][t].segs[i].status = "confirmed"
  BY <1>3, <1>5 DEF RepeatTransition, outVars
<1>6. outbox'[a][t].segs[i].status = "confirmed"
  BY <1>1, <1>4, <1>5
<1> QED
  BY <1>6 DEF a, t, i

LEMMA JobOrdered ==
  ASSUME SenderInv, SenderInv', OutcomesTrue, OrderInv, LiveNext,
         NEW job \in jobs, JobStep(job), NEW p \in Owners, NEW b \in Accounts
  PROVE  Ordered(task[p][b], b)'
<1> DEFINE o == job.owner
           a == job.account
<1>0. TypeOK /\ job \in Closure /\ WritesOutcome(job) /\ o \in Owners /\ a \in Accounts
  BY DEF SenderInv, ProcessInv, WorkInv, JobType, Closure
<1>1. PICK v : v = task'[p][b]
  OBVIOUS
<1>2. SUFFICES Ordered(v, b)'
  BY <1>1 DEF Ordered, ConfirmedBut
<1>3. CASE v = task[p][b]
  BY <1>3, OrderedStays DEF OrderInv, WorksOrdered
<1>4. CASE ~Underway(v)
  BY <1>4 DEF Underway, Ordered, Attempts
<1>5. ASSUME NEW pc \in {"claimed", "persisted"}, Answer(job, pc), Waiting(job),
             p = o, b = a,
             pc = "claimed" => RunStart(job), pc = "persisted" => RunPersist(job)
      PROVE  Ordered(v, b)'
  <2> DEFINE w == task[o][a]
  <2>1. /\ w \in Task /\ w # Idle /\ AnswersCurrent(job)
        /\ Underway(w) /\ w.pc # "persisted"
    BY <1>0, <1>5, Awaiting DEF RunStart, RunPersist, Underway, Attempts
  <2>2. /\ v.pc = pc /\ v.trigger = w.trigger /\ v.todo = w.todo /\ v.outcome = w.outcome
    BY <1>1, <1>5, AnswerGoes
  <2>3. /\ w.trigger \in Triggers /\ outbox[a][w.trigger] # NoBatch
        /\ ConfirmedBut(a, w.trigger, w.todo)
    BY <1>0, <2>1, TaskFields
    DEF SenderInv, ProcessInv, Busy, OrderInv, WorksOrdered, Ordered, Underway
  <2> HIDE DEF w, o, a
  <2>4. ConfirmedBut(a, v.trigger, v.todo)'
    <3>1. ConfirmedBut(a, v.trigger, v.todo)
      BY <2>2, <2>3
    <3>2. v.trigger \in Triggers /\ outbox[a][v.trigger] # NoBatch
      BY <2>2, <2>3
    <3> QED
      BY <1>0, <3>1, <3>2, ConfirmedButStays
  <2>5. CASE pc = "claimed"
    BY <1>5, <2>2, <2>4, <2>5 DEF Ordered
  <2>6. CASE pc = "persisted"
    <3>1. /\ RunPersist(job) /\ job.op = "persist"
      BY <1>5, <2>6 DEF RunPersist
    <3>2. w.trigger = job.trigger /\ w.todo = job.todo /\ w.outcome = job.outcome
      BY <2>1, <3>1 DEF OrderInv, OutcomesAwaited, AwaitsItsOutcome, w, o, a
    <3>3. v.outcome[1] = "confirm" =>
            outbox'[a][v.trigger].segs[Least(v.todo)].status = "confirmed"
      BY <1>0, <2>2, <3>1, <3>2, ConfirmRecorded DEF a
    <3> QED
      BY <1>5, <2>4, <3>3 DEF Ordered
  <2> QED
    BY <2>5, <2>6
<1>6. \/ v = task[p][b]
      \/ ~Underway(v)
      \/ \E pc \in {"claimed", "persisted"} :
           /\ Answer(job, pc) /\ Waiting(job) /\ p = o /\ b = a
           /\ pc = "claimed" => RunStart(job)
           /\ pc = "persisted" => RunPersist(job)
  <2>1. Done(job) => v = task[p][b] \/ ~Underway(v)
    BY <1>0, <1>1 DEF Done, Underway, Attempts, Idle, SenderInv, ProcessInv, WorkInv, TaskType
  <2>2. \A pc : Answer(job, pc) => \/ v = task[p][b]
                                   \/ Waiting(job) /\ p = o /\ b = a
    BY <1>0, <1>1 DEF Answer, SenderInv, ProcessInv, WorkInv, TaskType
  <2>3. Answer(job, "failed") /\ Waiting(job) /\ p = o /\ b = a => ~Underway(v)
    BY <1>1, AnswerGoes DEF Underway, Attempts
  <2>4. CASE RunStart(job)
    BY <2>2, <2>3, <2>4 DEF RunStart
  <2>5. CASE RunPersist(job)
    BY <2>2, <2>5 DEF RunPersist
  <2>6. CASE RunCancel(job) \/ RunCancelFirst(job) \/ FailJob(job)
    BY <1>1, <2>1, <2>2, <2>3, <2>6 DEF RunCancel, Remaining, RunCancelFirst, FailJob
  <2> QED
    BY <2>4, <2>5, <2>6 DEF JobStep
<1> QED
  BY <1>3, <1>4, <1>5, <1>6

LEMMA WorksOrderedStay ==
  ASSUME SenderInv, SenderInv', OutcomesTrue, OrderInv, LiveNext
  PROVE  WorksOrdered'
<1> SUFFICES ASSUME NEW p \in Owners, NEW b \in Accounts
             PROVE  Ordered(task[p][b], b)'
  BY DEF WorksOrdered
<1>1. CASE task'[p][b] = task[p][b]
  <2>1. PICK v : v = task[p][b]
    OBVIOUS
  <2>2. Ordered(v, b)'
    BY <2>1, OrderedStays DEF OrderInv, WorksOrdered
  <2> QED
    BY <1>1, <2>1, <2>2 DEF Ordered, ConfirmedBut
<1>2. ASSUME NEW o \in Owners, NEW a \in Accounts, TaskNext(o, a), p = o, b = a
      PROVE  Ordered(task[p][b], b)'
  <2>1. outbox' = outbox
    BY <1>2 DEF TaskNext, Dispatch, Drop, ReadBatch, GiveUp, PrepareSegment, ClaimSegment,
                Post, RejectUnsent, Answered, Continue, HandleError, StopBatch,
                storeVars, vars, outVars
  <2>2. Ordered(task'[o][a], a)
    BY <1>2, WorkOrdered DEF OrderInv
  <2> QED
    BY <1>2, <2>1, <2>2 DEF Ordered, ConfirmedBut
<1>3. CASE JobNext
  BY <1>3, JobOrdered DEF JobNext, JobStep
<1>4. ASSUME NEW o \in Owners, NEW a \in Accounts, OwnerNext(o, a) \/ ProcessNext(o, a)
      PROVE  task' = task
  BY <1>4 DEF OwnerNext, Install, PublishOwnership, PublishGrant, DropGrant, ReleaseLocal,
              ChangePermission, ProcessNext, Submit, PlanReply, Identify, Reconcile
<1>5. CASE PlatformNext
  BY <1>1, <1>5 DEF PlatformNext, Fate
<1> QED
  BY <1>1, <1>2, <1>3, <1>4, <1>5, OthersUntouched DEF LiveNext

(* A work that goes on waiting has not moved.                              *)
LEMMA StillWaits ==
  ASSUME SenderInv, SenderInv', LiveNext, NEW job \in jobs, job \in jobs',
         AnswersCurrent(job)'
  PROVE  task'[job.owner][job.account] = task[job.owner][job.account]
<1> DEFINE o == job.owner
           a == job.account
<1>0. /\ TypeOK /\ RequestType /\ WorkInv
      /\ o \in Owners /\ a \in Accounts
      /\ task \in [Owners -> [Accounts -> Task]]
  BY DEF SenderInv, ProcessInv, WorkInv, JobType, Closure, TaskType
<1>1. /\ task'[o][a].pc \in Waits
      /\ job.work > 0 /\ job.work = task'[o][a].work
  BY DEF SenderInv, ProcessInv, WorkInv, Awaited, AnswersCurrent
<1>2. job.work = task[o][a].work => task[o][a].pc \in Waits
  BY <1>1 DEF SenderInv, ProcessInv, WorkInv, Awaited, AnswersCurrent
<1> HIDE DEF o, a
<1>3. ASSUME NEW p \in Owners, NEW b \in Accounts, OwnerNext(p, b) \/ ProcessNext(p, b)
      PROVE  task' = task
  BY <1>3 DEF OwnerNext, Install, PublishOwnership, PublishGrant, DropGrant, ReleaseLocal,
              ChangePermission, ProcessNext, Submit, PlanReply, Identify, Reconcile
<1>4. ASSUME NEW p \in Owners, NEW b \in Accounts, TaskNext(p, b)
      PROVE  task'[o][a] = task[o][a]
  <2>1. CASE ~(p = o /\ b = a)
    BY <1>0, <1>4, <2>1, OthersUntouched
  <2>2. CASE p = o /\ b = a /\ Dispatch(p, b)
    <3>1. task'[o][a].pc = "reading"
      BY <1>0, <2>2 DEF Dispatch, Idle
    <3> QED
      BY <1>1, <3>1 DEF Waits
  <2>3. CASE StopBatch(p, b)
    BY <2>3 DEF StopBatch
  <2>4. CASE p = o /\ b = a /\ Proceeding(p, b)
    <3>1. Moved(o, a) \/ Submitted(o, a)
      BY <1>0, <2>4, StepShape
    <3>2. PICK w \in Task :
            /\ task' = [task EXCEPT ![o][a] = w]
            /\ w = Idle \/ (Running(task[o][a]) /\ Keeps(task[o][a], w))
      BY <3>1 DEF Moved, Submitted, Becomes
    <3>3. task'[o][a] = w
      BY <1>0, <3>2
    <3>4. w # Idle
      BY <1>1, <3>3 DEF Idle, Waits
    <3> QED
      BY <1>1, <1>2, <3>2, <3>3, <3>4 DEF Running, Keeps
  <2> QED
    BY <1>4, <2>1, <2>2, <2>3, <2>4 DEF TaskNext, Proceeding
<1>5. ASSUME JobNext
      PROVE  task'[o][a] = task[o][a]
  <2>1. PICK other \in jobs : JobStep(other)
    BY <1>5 DEF JobNext, JobStep
  <2>2. JobShape(other)
    BY <1>0, <2>1, JobStepShape
  <2>3. CASE task' = task
    BY <2>3
  <2>4. CASE Answers(other) /\ Waiting(other)
    <3>1. PICK w \in Task :
            /\ task' = [task EXCEPT ![other.owner][other.account] = w]
            /\ w = Idle \/ w.pc \in {"claimed", "persisted", "failed"}
      BY <2>4 DEF Answers
    <3>2. w.pc \notin Waits
      BY <3>1 DEF Idle, Waits
    <3>3. other.owner \in Owners /\ other.account \in Accounts
      BY <1>0 DEF WorkInv, JobType, Closure
    <3>4. task'[other.owner][other.account] = w
      BY <1>0, <3>1, <3>3
    <3>5. ~(other.owner = o /\ other.account = a)
      BY <1>1, <3>2, <3>4
    <3> QED
      BY <1>0, <3>1, <3>3, <3>5
  <2> QED
    BY <2>2, <2>3, <2>4 DEF JobShape, Answers
<1>6. PlatformNext => task' = task
  BY DEF PlatformNext, Fate
<1>7. task'[o][a] = task[o][a]
  BY <1>3, <1>4, <1>5, <1>6 DEF LiveNext
<1> QED
  BY <1>7 DEF o, a

LEMMA OutcomesAwaitedStay ==
  ASSUME SenderInv, SenderInv', OutcomesAwaited, LiveNext
  PROVE  OutcomesAwaited'
<1>1. ASSUME NEW job \in jobs, job \in jobs', job.op = "persist", AnswersCurrent(job)'
      PROVE  AwaitsItsOutcome(job)'
  <2>1. task'[job.owner][job.account] = task[job.owner][job.account]
    BY <1>1, StillWaits
  <2>2. AnswersCurrent(job)
    BY <1>1, <2>1 DEF AnswersCurrent
  <2> QED
    BY <1>1, <2>1, <2>2 DEF OutcomesAwaited, AwaitsItsOutcome
<1>2. CASE NotAnswered
  BY <1>1, <1>2, OldOutcomes DEF OutcomesAwaited
<1>3. ASSUME NEW o \in Owners, NEW a \in Accounts, RejectUnsent(o, a) \/ Answered(o, a)
      PROVE  OutcomesAwaited'
  <2>1. PICK outcome \in Verdicts, platformId \in PlatformIds \cup {NoPlatformId} :
          Persist(o, a, outcome, platformId)
    BY <1>3, AnsweredOutcome
  <2>2. task[o][a] # Idle
    BY <1>3 DEF RejectUnsent, Answered, At, Idle
  <2>3. /\ task'[o][a].outcome = outcome
        /\ task'[o][a].trigger = task[o][a].trigger
        /\ task'[o][a].todo = task[o][a].todo
    BY <2>1, <2>2, PersistedJob
  <2>4. PICK job \in Closure :
          /\ jobs' = jobs \cup {job}
          /\ job.owner = o /\ job.account = a
          /\ job.trigger = task[o][a].trigger /\ job.todo = task[o][a].todo
          /\ job.outcome = outcome
    BY <2>1, <2>2, PersistedJob
  <2>5. AwaitsItsOutcome(job)'
    BY <2>3, <2>4 DEF AwaitsItsOutcome
  <2> QED
    BY <1>1, <2>4, <2>5 DEF OutcomesAwaited
<1> QED
  BY <1>2, <1>3 DEF NotAnswered

LEMMA OrderOfRequests ==
  ASSUME SenderInv, OutcomesTrue, OrderInv, LiveNext
  PROVE  RequestsInOrder'
<1>0. /\ TypeOK /\ WorkInv /\ ClaimsTried /\ RequestType
      /\ \A r \in requests : r \in Request
  BY DEF SenderInv, ProcessInv, WireInv, RequestType
<1>1. ASSUME NEW r, r.account \in Accounts, r.trigger \in Triggers, r.ordinal \in Ordinals,
             NEW j \in 1..(r.ordinal - 1),
             StatusOf(r.account, r.trigger, j) = "confirmed"
      PROVE  StatusOf(r.account, r.trigger, j)' = "confirmed"
  <2>1. j \in Ordinals
    BY <1>1, StoreAssumption DEF Ordinals
  <2>2. PICK a, t : a = r.account /\ t = r.trigger
    OBVIOUS
  <2>3. StatusOf(a, t, j)' = "confirmed"
    BY <1>1, <2>1, <2>2, ConfirmedStays
  <2> QED
    BY <2>2, <2>3
<1>2. ASSUME NEW r \in requests, NEW j \in 1..(r.ordinal - 1)
      PROVE  StatusOf(r.account, r.trigger, j)' = "confirmed"
  <2>1. StatusOf(r.account, r.trigger, j) = "confirmed"
    BY DEF OrderInv, RequestsInOrder
  <2> QED
    BY <1>0, <1>1, <2>1 DEF Request
<1>3. ASSUME NEW o \in Owners, NEW a \in Accounts, Post(o, a)
      PROVE  RequestsInOrder'
  <2>1. PICK r \in Request :
          /\ requests' = requests \cup {r}
          /\ r.account = a /\ r.trigger = task[o][a].trigger /\ r.ordinal = Current(o, a)
    BY <1>0, <1>3, PostedRequest
  <2>2. /\ task[o][a].pc = "claimed" /\ task[o][a] # Idle
    BY <1>3 DEF Post, At, Idle
  <2>3. /\ task[o][a] \in Task
        /\ task[o][a].todo # {}
        /\ outbox[a][r.trigger] # NoBatch
        /\ ConfirmedBut(a, r.trigger, task[o][a].todo)
    BY <1>0, <2>1, <2>2, TaskFields DEF Busy, Attempts, OrderInv, WorksOrdered, Ordered
  <2>4. ASSUME NEW j \in 1..(r.ordinal - 1)
        PROVE  StatusOf(a, r.trigger, j) = "confirmed"
    <3>1. task[o][a].todo \in SUBSET Nat
      BY <2>3, StoreAssumption DEF Task, Ordinals
    <3>2. j < Current(o, a) /\ j \in Nat /\ Current(o, a) \in Nat
      BY <2>1, StoreAssumption DEF Request, Ordinals
    <3>3. j \notin task[o][a].todo
      BY <2>3, <3>1, <3>2, LeastMember DEF Current
    <3>4. PICK n \in Ordinals : outbox[a][r.trigger].segs \in [1..n -> Segment]
      BY <1>0, <2>3 DEF TypeOK, OutboxType, Stored, IsBatch, BatchOf, Request
    <3>5. r.ordinal \in 1..n
      BY <1>0, <2>1, <2>2, <3>4 DEF ClaimsTried, Tried
    <3>6. j \in DOMAIN outbox[a][r.trigger].segs
      BY <3>4, <3>5 DEF Ordinals
    <3> QED
      BY <2>3, <3>3, <3>6 DEF ConfirmedBut, StatusOf, IsSegment
  <2>5. \A j \in 1..(r.ordinal - 1) : StatusOf(r.account, r.trigger, j)' = "confirmed"
    BY <1>1, <2>1, <2>4 DEF Request
  <2> QED
    BY <1>2, <2>1, <2>5 DEF RequestsInOrder
<1>4. CASE PlatformNext
  <2>1. PICK r \in requests, q \in Request :
          /\ requests' = (requests \ {r}) \cup {q}
          /\ q.account = r.account /\ q.trigger = r.trigger /\ q.ordinal = r.ordinal
    BY <1>0, <1>4, AnsweredRequest
  <2>2. \A j \in 1..(q.ordinal - 1) : StatusOf(q.account, q.trigger, j)' = "confirmed"
    BY <1>2, <2>1
  <2> QED
    BY <1>2, <2>1, <2>2 DEF RequestsInOrder
<1>5. CASE requests' = requests
  BY <1>2, <1>5 DEF RequestsInOrder
<1> QED
  BY <1>3, <1>4, <1>5, RequestSteps

LEMMA OrderStutter ==
  ASSUME OrderInv, UNCHANGED liveVars
  PROVE  OrderInv'
BY DEF OrderInv, WorksOrdered, Ordered, ConfirmedBut, OutcomesAwaited, AnswersCurrent,
       AwaitsItsOutcome, RequestsInOrder, StatusOf, IsSegment, liveVars, storeVars, vars, outVars

LEMMA OrderAlways == LiveSpec => [](SenderInv /\ TruthInv /\ OrderInv)
<1>1. LiveInit => OrderInv
  BY DEF LiveInit, OrderInv, WorksOrdered, Ordered, Idle, Attempts, OutcomesAwaited,
         RequestsInOrder
<1>2. ASSUME SenderInv, SenderInv', TruthInv, OrderInv, [LiveNext]_liveVars
      PROVE  OrderInv'
  <2>1. CASE LiveNext
    <3>1. OutcomesTrue /\ OutcomesAwaited
      BY <1>2 DEF TruthInv, OrderInv
    <3>2. WorksOrdered'
      BY <1>2, <2>1, <3>1, WorksOrderedStay
    <3>3. OutcomesAwaited'
      BY <1>2, <2>1, <3>1, OutcomesAwaitedStay
    <3>4. RequestsInOrder'
      BY <1>2, <2>1, <3>1, OrderOfRequests
    <3> QED
      BY <3>2, <3>3, <3>4 DEF OrderInv
  <2> QED
    BY <1>2, <2>1, OrderStutter
<1> QED
  BY <1>1, <1>2, TruthAlways, PTL DEF LiveSpec

(* RequestsInOrder in every reachable state: run_send puts a segment on    *)
(* the wire only when those before it are confirmed, whatever batch it     *)
(* read, whichever work came before it and whatever answers arrived late.  *)
THEOREM OrderTheorem == LiveSpec => []RequestsInOrder
<1>1. OrderInv => RequestsInOrder
  BY DEF OrderInv
<1> QED
  BY <1>1, OrderAlways, PTL

-----------------------------------------------------------------------------
(* The refinement of AtMostOnceDelivery.                                   *)

WireAt(s) == WireOf(s[1], s[2], s[3])

VerdictAt(s) == VerdictOf(s[1], s[2], s[3])

AbstractWire == [s \in AllSegments |-> WireAt(s)]

AbstractVerdict == [s \in AllSegments |-> VerdictAt(s)]

LEMMA SegmentTriples ==
  ASSUME NEW s \in AllSegments
  PROVE  /\ s[1] \in Accounts /\ s[2] \in Triggers /\ s[3] \in Ordinals
         /\ s = <<s[1], s[2], s[3]>>
BY DEF AllSegments

LEMMA WireUnsent ==
  ASSUME NEW a, NEW t, NEW i, RequestOf(a, t, i) = {}
  PROVE  WireOf(a, t, i) = "unsent"
BY DEF WireOf

LEMMA WireOfRequest ==
  ASSUME AtMostOneRequest, NEW a, NEW t, NEW i, NEW r \in RequestOf(a, t, i)
  PROVE  WireOf(a, t, i) = r.fate
<1>1. RequestOf(a, t, i) = {r}
  BY DEF AtMostOneRequest, RequestOf
<1>2. Cardinality({r}) = 1 /\ (CHOOSE q \in {r} : TRUE) = r
  BY FS_Singleton
<1> QED
  BY <1>1, <1>2 DEF WireOf

(* What the requests of a segment do not change, its wire does not.        *)
LEMMA WireStays ==
  ASSUME NEW a, NEW t, NEW i, RequestOf(a, t, i)' = RequestOf(a, t, i)
  PROVE  WireOf(a, t, i)' = WireOf(a, t, i)
BY DEF WireOf

LEMMA VerdictStays ==
  ASSUME NEW a, NEW t, NEW i, SameVerdict(a, t, i)
  PROVE  VerdictOf(a, t, i)' = VerdictOf(a, t, i)
BY DEF SameVerdict, VerdictOf, StatusOf, Terminal, TerminalSegment

(* Steps of the abstract specification, of the refined state.              *)
LEMMA AbstractPost ==
  ASSUME NEW x \in AllSegments, WireAt(x) = "unsent", VerdictAt(x) = "open",
         \A j \in 1..(x[3] - 1) : VerdictAt(<<x[1], x[2], j>>) = "confirmed",
         WireAt(x)' = "sent",
         \A s \in AllSegments : s # x => WireAt(s)' = WireAt(s),
         \A s \in AllSegments : VerdictAt(s)' = VerdictAt(s)
  PROVE  Delivery!Next
<1> DEFINE before == [s \in AllSegments |-> {<<s[1], s[2], j>> : j \in 1..(s[3] - 1)}]
<1>1. \A b \in before[x] : b \in AllSegments /\ VerdictAt(b) = "confirmed"
  <2>1. x[1] \in Accounts /\ x[2] \in Triggers /\ x[3] \in Ordinals
    BY SegmentTriples
  <2>2. \A j \in 1..(x[3] - 1) : j \in Ordinals
    BY <2>1, StoreAssumption DEF Ordinals
  <2>3. \A j \in 1..(x[3] - 1) : <<x[1], x[2], j>> \in AllSegments
    BY <2>1, <2>2 DEF AllSegments
  <2> QED
    BY <2>3
<1>2. AbstractWire[x] = "unsent" /\ AbstractVerdict[x] = "open"
  BY DEF AbstractWire, AbstractVerdict
<1>3. \A b \in before[x] : AbstractVerdict[b] = "confirmed"
  BY <1>1 DEF AbstractVerdict
<1>4. AbstractWire' = [AbstractWire EXCEPT ![x] = "sent"]
  BY DEF AbstractWire
<1>5. AbstractVerdict' = AbstractVerdict
  BY DEF AbstractVerdict
<1> HIDE DEF before
<1>6. Delivery!Post(x)
  BY <1>2, <1>3, <1>4, <1>5
  DEF Delivery!Post, before, AbstractWire, AbstractVerdict, WireAt, VerdictAt
<1> QED
  BY <1>6 DEF Delivery!Next

LEMMA AbstractArrive ==
  ASSUME NEW x \in AllSegments, WireAt(x) = "sent",
         WireAt(x)' \in {"delivered", "refused"},
         \A s \in AllSegments : s # x => WireAt(s)' = WireAt(s),
         \A s \in AllSegments : VerdictAt(s)' = VerdictAt(s)
  PROVE  Delivery!Next
<1>1. AbstractWire[x] = "sent"
  BY DEF AbstractWire
<1>2. PICK fate \in {"delivered", "refused"} : WireAt(x)' = fate
  OBVIOUS
<1>3. AbstractWire' = [AbstractWire EXCEPT ![x] = fate]
  BY <1>2 DEF AbstractWire
<1>4. AbstractVerdict' = AbstractVerdict
  BY DEF AbstractVerdict
<1>5. Delivery!Arrive(x)
  BY <1>1, <1>3, <1>4 DEF Delivery!Arrive, AbstractWire, AbstractVerdict, WireAt, VerdictAt
<1> QED
  BY <1>5 DEF Delivery!Next

LEMMA AbstractJudge ==
  ASSUME NEW x \in AllSegments, VerdictAt(x) = "open",
         \/ VerdictAt(x)' = "confirmed" /\ WireAt(x) = "delivered"
         \/ VerdictAt(x)' = "rejected" /\ WireAt(x) \in {"unsent", "refused"},
         \A s \in AllSegments : s # x => VerdictAt(s)' = VerdictAt(s),
         \A s \in AllSegments : WireAt(s)' = WireAt(s)
  PROVE  Delivery!Next
<1>1. AbstractWire[x] = WireAt(x) /\ AbstractVerdict[x] = "open"
  BY DEF AbstractWire, AbstractVerdict
<1>2. PICK verdict : VerdictAt(x)' = verdict
  OBVIOUS
<1>3. AbstractVerdict' = [AbstractVerdict EXCEPT ![x] = verdict]
  BY <1>2 DEF AbstractVerdict
<1>4. AbstractWire' = AbstractWire
  BY DEF AbstractWire
<1>5. Delivery!Confirm(x) \/ Delivery!Reject(x)
  BY <1>1, <1>2, <1>3, <1>4
  DEF Delivery!Confirm, Delivery!Reject, AbstractWire, AbstractVerdict, WireAt, VerdictAt
<1> QED
  BY <1>5 DEF Delivery!Next

LEMMA AbstractStutter ==
  ASSUME \A s \in AllSegments : WireAt(s)' = WireAt(s) /\ VerdictAt(s)' = VerdictAt(s)
  PROVE  AbstractWire' = AbstractWire /\ AbstractVerdict' = AbstractVerdict
BY DEF AbstractWire, AbstractVerdict

(* A confirmed or rejected segment is not about to be put on the wire.     *)
LEMMA ClaimedIsOpen ==
  ASSUME TruthInv, NEW o \in Owners, NEW a \in Accounts, NEW t \in Triggers,
         NEW i \in Ordinals, Claims(task[o][a], t, i), Unsent(a, t, i)
  PROVE  VerdictOf(a, t, i) = "open"
<1>1. IsSegment(a, t, i) => TrueVerdict(a, t, i)
  BY DEF TruthInv, VerdictsTrue
<1>2. ~Dead(a, t, i)
  BY DEF Dead
<1>3. \A platformId : ~Backed(a, t, i, platformId)
  BY DEF Backed, Unsent
<1> QED
  BY <1>1, <1>2, <1>3 DEF TrueVerdict, VerdictOf, StatusOf, TerminalSegment

LEMMA PostRefines ==
  ASSUME SenderInv, SenderInv', TruthInv, RequestsInOrder',
         NEW o \in Owners, NEW a \in Accounts, Post(o, a)
  PROVE  Delivery!Next
<1>0. /\ TypeOK /\ WorkInv /\ ClaimsTried /\ RequestType
      /\ AtMostOneRequest /\ AtMostOneRequest'
  BY DEF SenderInv, ProcessInv, WireInv
<1>1. PICK t, i : t = task[o][a].trigger /\ i = Current(o, a)
  OBVIOUS
<1>2. PICK r \in Request :
        /\ requests' = requests \cup {r}
        /\ r.account = a /\ r.trigger = t /\ r.ordinal = i /\ r.fate = "sent"
  BY <1>0, <1>1, PostedRequest
<1>3. t \in Triggers /\ i \in Ordinals
  BY <1>2 DEF Request
<1>4. Unsent(a, t, i) /\ Claims(task[o][a], t, i)
  BY <1>0, <1>1 DEF ClaimsTried, Claims, Current, Post, At
<1>5. outbox' = outbox
  BY DEF Post, storeVars, vars, outVars
<1>6. PICK x : x = <<a, t, i>>
  OBVIOUS
<1>7. /\ x \in AllSegments
      /\ x[1] = a /\ x[2] = t /\ x[3] = i
  BY <1>3, <1>6 DEF AllSegments
<1>8. WireAt(x) = "unsent" /\ VerdictAt(x) = "open"
  BY <1>3, <1>4, <1>7, WireUnsent, ClaimedIsOpen DEF WireAt, VerdictAt, Unsent
<1>9. ASSUME NEW j \in 1..(i - 1)
      PROVE  VerdictOf(a, t, j) = "confirmed"
  <2>1. StatusOf(r.account, r.trigger, j)' = "confirmed"
    BY <1>2 DEF RequestsInOrder
  <2>2. StatusOf(a, t, j)' = "confirmed"
    BY <1>2, <2>1
  <2> QED
    BY <1>5, <2>2 DEF StatusOf, IsSegment, VerdictOf, TerminalSegment
<1>10. \A j \in 1..(x[3] - 1) : VerdictAt(<<x[1], x[2], j>>) = "confirmed"
  BY <1>7, <1>9 DEF VerdictAt
<1>11. WireAt(x)' = "sent"
  <2>1. r \in RequestOf(a, t, i)'
    BY <1>2 DEF RequestOf
  <2>2. WireOf(a, t, i)' = r.fate
    <3>1. RequestOf(a, t, i)' = {r}
      BY <1>0, <2>1 DEF AtMostOneRequest, RequestOf
    <3>2. Cardinality({r}) = 1 /\ (CHOOSE q \in {r} : TRUE) = r
      BY FS_Singleton
    <3> QED
      BY <3>1, <3>2 DEF WireOf
  <2> QED
    BY <1>2, <1>7, <2>2 DEF WireAt
<1>12. ASSUME NEW s \in AllSegments, s # x
       PROVE  WireAt(s)' = WireAt(s)
  <2>1. ~(s[1] = a /\ s[2] = t /\ s[3] = i)
    BY <1>6, <1>12, SegmentTriples
  <2>2. RequestOf(s[1], s[2], s[3])' = RequestOf(s[1], s[2], s[3])
    BY <1>2, <2>1 DEF RequestOf
  <2> QED
    BY <2>2, WireStays DEF WireAt
<1>13. \A s \in AllSegments : VerdictAt(s)' = VerdictAt(s)
  BY <1>5 DEF VerdictAt, VerdictOf, StatusOf, IsSegment
<1> QED
  BY <1>7, <1>8, <1>10, <1>11, <1>12, <1>13, AbstractPost

LEMMA PlatformRefines ==
  ASSUME SenderInv, SenderInv', PlatformNext
  PROVE  Delivery!Next
<1>0. RequestType /\ AtMostOneRequest /\ AtMostOneRequest'
  BY DEF SenderInv, ProcessInv, WireInv
<1>1. PICK r \in requests, fate \in {"delivered", "refused"},
           platformId \in PlatformIds \cup {NoPlatformId} :
        r.fate = "sent" /\ Fate(r, fate, platformId)
  BY DEF PlatformNext
<1> DEFINE q == [r EXCEPT !.fate = fate, !.platformId = platformId]
<1>2. requests' = (requests \ {r}) \cup {q} /\ outbox' = outbox
  BY <1>1 DEF Fate, storeVars, vars, outVars
<1>3. /\ q.account = r.account /\ q.trigger = r.trigger /\ q.ordinal = r.ordinal
      /\ q.fate = fate /\ r \in Request
  BY <1>0 DEF RequestType, Request
<1> HIDE DEF q
<1>4. PICK a \in Accounts, t \in Triggers, i \in Ordinals :
        a = r.account /\ t = r.trigger /\ i = r.ordinal
  BY <1>3 DEF Request
<1>5. PICK x : x = <<a, t, i>>
  OBVIOUS
<1>6. /\ x \in AllSegments
      /\ x[1] = a /\ x[2] = t /\ x[3] = i
  BY <1>5 DEF AllSegments
<1>7. WireAt(x) = "sent"
  <2>1. r \in RequestOf(a, t, i)
    BY <1>4 DEF RequestOf
  <2> QED
    BY <1>0, <1>1, <1>6, <2>1, WireOfRequest DEF WireAt
<1>8. WireAt(x)' = fate
  <2>1. RequestOf(a, t, i)' = {q}
    BY <1>0, <1>2, <1>3, <1>4 DEF AtMostOneRequest, RequestOf
  <2>2. Cardinality({q}) = 1 /\ (CHOOSE p \in {q} : TRUE) = q
    BY FS_Singleton
  <2> QED
    BY <1>3, <1>6, <2>1, <2>2 DEF WireAt, WireOf
<1>9. ASSUME NEW s \in AllSegments, s # x
      PROVE  WireAt(s)' = WireAt(s)
  <2>1. ~(s[1] = a /\ s[2] = t /\ s[3] = i)
    BY <1>5, <1>9, SegmentTriples
  <2>2. RequestOf(s[1], s[2], s[3])' = RequestOf(s[1], s[2], s[3])
    BY <1>2, <1>3, <1>4, <2>1 DEF RequestOf
  <2> QED
    BY <2>2, WireStays DEF WireAt
<1>10. \A s \in AllSegments : VerdictAt(s)' = VerdictAt(s)
  BY <1>2 DEF VerdictAt, VerdictOf, StatusOf, IsSegment
<1> QED
  BY <1>6, <1>7, <1>8, <1>9, <1>10, AbstractArrive

LEMMA ReachedRefines ==
  ASSUME SenderInv, SomeReached, requests' = requests
  PROVE  Delivery!Next
<1>1. PICK a \in Accounts, t \in Triggers, i \in Ordinals : OneReached(a, t, i)
  BY DEF SomeReached
<1>2. PICK x : x = <<a, t, i>>
  OBVIOUS
<1>3. /\ x \in AllSegments
      /\ x[1] = a /\ x[2] = t /\ x[3] = i
  BY <1>2 DEF AllSegments
<1>4. AtMostOneRequest
  BY DEF SenderInv, WireInv
<1>5. VerdictAt(x) = "open"
  BY <1>1, <1>3 DEF OneReached, Reached, Terminal, VerdictAt, VerdictOf, StatusOf, TerminalSegment
<1>6. ASSUME outbox'[a][t].segs[i].status = "confirmed",
             Backed(a, t, i, outbox'[a][t].segs[i].platformId)
      PROVE  VerdictAt(x)' = "confirmed" /\ WireAt(x) = "delivered"
  <2>1. PICK r \in RequestOf(a, t, i) : r.fate = "delivered"
    BY <1>6 DEF Backed
  <2>2. WireAt(x) = "delivered"
    BY <1>3, <1>4, <2>1, WireOfRequest DEF WireAt
  <2>3. VerdictAt(x)' = "confirmed"
    BY <1>1, <1>3, <1>6
    DEF OneReached, Reached, VerdictAt, VerdictOf, StatusOf, IsSegment, TerminalSegment
  <2> QED
    BY <2>2, <2>3
<1>7. ASSUME outbox'[a][t].segs[i].status = "rejected", Dead(a, t, i)
      PROVE  VerdictAt(x)' = "rejected" /\ WireAt(x) \in {"unsent", "refused"}
  <2>1. WireAt(x) \in {"unsent", "refused"}
    BY <1>3, <1>4, <1>7, WireUnsent, WireOfRequest DEF WireAt, Dead
  <2>2. VerdictAt(x)' = "rejected"
    BY <1>1, <1>3, <1>7
    DEF OneReached, Reached, VerdictAt, VerdictOf, StatusOf, IsSegment, TerminalSegment
  <2> QED
    BY <2>1, <2>2
<1>8. \/ VerdictAt(x)' = "confirmed" /\ WireAt(x) = "delivered"
      \/ VerdictAt(x)' = "rejected" /\ WireAt(x) \in {"unsent", "refused"}
  BY <1>1, <1>6, <1>7 DEF OneReached, Reached
<1>9. ASSUME NEW s \in AllSegments, s # x
      PROVE  VerdictAt(s)' = VerdictAt(s)
  <2>1. /\ s[1] \in Accounts /\ s[2] \in Triggers /\ s[3] \in Ordinals
        /\ ~(s[1] = a /\ s[2] = t /\ s[3] = i)
    BY <1>2, <1>9, SegmentTriples
  <2>2. SameVerdict(s[1], s[2], s[3])
    BY <1>1, <2>1 DEF OneReached, SameBut
  <2> QED
    BY <2>2, VerdictStays DEF VerdictAt
<1>10. \A s \in AllSegments : WireAt(s)' = WireAt(s)
  BY WireStays DEF WireAt, RequestOf
<1> QED
  BY <1>3, <1>5, <1>8, <1>9, <1>10, AbstractJudge

LEMMA QuietRefines ==
  ASSUME AllSame, requests' = requests
  PROVE  AbstractWire' = AbstractWire /\ AbstractVerdict' = AbstractVerdict
<1>1. ASSUME NEW s \in AllSegments
      PROVE  WireAt(s)' = WireAt(s) /\ VerdictAt(s)' = VerdictAt(s)
  <2>1. SameVerdict(s[1], s[2], s[3])
    BY SegmentTriples DEF AllSame
  <2>2. RequestOf(s[1], s[2], s[3])' = RequestOf(s[1], s[2], s[3])
    BY DEF RequestOf
  <2> QED
    BY <2>1, <2>2, VerdictStays, WireStays DEF WireAt, VerdictAt
<1> QED
  BY <1>1, AbstractStutter

(* ImplementsDelivery: the sending of any number of processes, with their  *)
(* works, their takeovers and what they left in the blocking pool, puts    *)
(* each segment on the wire at most once, in its order, and records what   *)
(* became of it.                                                           *)
THEOREM DeliveryTheorem == LiveSpec => ImplementsDelivery
<1>1. LiveInit => Delivery!Init
  <2> SUFFICES ASSUME LiveInit
               PROVE  Delivery!Init
    OBVIOUS
  <2>1. requests = {} /\ \A a \in Accounts, t \in Triggers : outbox[a][t] = NoBatch
    BY DEF LiveInit, Init
  <2>2. \A s \in AllSegments : WireOf(s[1], s[2], s[3]) = "unsent"
    BY <2>1, WireUnsent DEF RequestOf
  <2>3. \A s \in AllSegments : VerdictOf(s[1], s[2], s[3]) = "open"
    BY <2>1, SegmentTriples DEF VerdictOf, StatusOf, IsSegment, TerminalSegment
  <2> QED
    BY <2>2, <2>3 DEF Delivery!Init
<1>2. ASSUME SenderInv, SenderInv', TruthInv, OrderInv', [LiveNext]_liveVars
      PROVE  [Delivery!Next]_<<AbstractWire, AbstractVerdict>>
  <2>1. AllSame \/ (SomeReached /\ requests' = requests)
    BY <1>2, VerdictStep DEF TruthInv
  <2>2. CASE \E o \in Owners, a \in Accounts : Post(o, a)
    BY <1>2, <2>2, PostRefines DEF OrderInv
  <2>3. CASE PlatformNext
    BY <1>2, <2>3, PlatformRefines
  <2>4. CASE requests' = requests
    BY <1>2, <2>1, <2>4, ReachedRefines, QuietRefines
  <2> QED
    BY <1>2, <2>2, <2>3, <2>4, RequestSteps DEF liveVars
<1>3. ASSUME SenderInv, SenderInv', TruthInv, OrderInv', [LiveNext]_liveVars
      PROVE  [Delivery!Next]_<<[s \in AllSegments |-> WireOf(s[1], s[2], s[3])],
                               [s \in AllSegments |-> VerdictOf(s[1], s[2], s[3])]>>
  BY <1>2, <1>3 DEF AbstractWire, AbstractVerdict, WireAt, VerdictAt
<1> QED
  BY <1>1, <1>3, OrderAlways, PTL DEF LiveSpec, ImplementsDelivery, Delivery!Spec

-----------------------------------------------------------------------------
(* The reply guards, under the processes that send.                        *)

LEMMA UnchangedGuard ==
  ASSUME LedgerInv, UNCHANGED storeVars, NEW b \in Accounts
  PROVE  GuardStep(b)
BY NextGuard DEF storeVars

LEMMA OwnerGuard ==
  ASSUME LedgerInv, OwnershipType, NEW o \in Owners, NEW a \in Accounts, OwnerNext(o, a),
         NEW b \in Accounts
  PROVE  GuardStep(b)
<1>1. ASSUME NEW epoch \in Epochs, NEW until \in LeaseEnds, InstallLease(a, o, epoch, until)
      PROVE  GuardStep(b)
  BY <1>1, InstallGuard
<1>2. ASSUME held[o][a] > 0, InvalidateLease(a, TokenOf(o, held[o][a]))
      PROVE  GuardStep(b)
  <2>1. TokenOf(o, held[o][a]) \in Token
    BY <1>2, TokenOfType DEF OwnershipType
  <2>2. LeaseNext(a)
    BY <1>2, <2>1 DEF LeaseNext
  <2> QED
    BY <2>2, LeaseGuard
<1> QED
  BY <1>1, <1>2, UnchangedGuard
  DEF OwnerNext, Install, PublishOwnership, PublishGrant, DropGrant, ReleaseLocal,
      ChangePermission

LEMMA ProcessGuard ==
  ASSUME LedgerInv, ProcessInv, NEW o \in Owners, NEW a \in Accounts, ProcessNext(o, a),
         NEW b \in Accounts
  PROVE  GuardStep(b)
<1>1. TypeOK
  BY DEF LedgerInv
<1>2. OwnToken(o, a) \in Token
  <2>1. grant[o][a] > 0
    BY DEF ProcessNext, Submit, PlanReply, Identify, Reconcile
  <2> QED
    BY <2>1, TokenOfType DEF OwnToken, ProcessInv, OwnershipType
<1>3. CASE Submit(o, a)
  BY <1>2, <1>3, PrepareGuard DEF Submit
<1>4. CASE PlanReply(o, a)
  BY <1>2, <1>4, InboundGuard DEF PlanReply
<1>5. CASE Identify(o, a)
  <2>1. outbox' = outbox /\ scopes' = scopes /\ decided' = decided
    BY <1>5 DEF Identify, RestoreSendObservation, outVars, inVars
  <2> QED
    BY <2>1, IdleGuard
<1>6. ASSUME NEW t \in Triggers, NEW i \in Ordinals, Reconcile(o, a, t, i)
      PROVE  GuardStep(b)
  BY <1>1, <1>2, <1>6, ReconcileOperates, ReconcileGuard DEF ProcessInv
<1> QED
  BY <1>3, <1>4, <1>5, <1>6 DEF ProcessNext

LEMMA AskedGuard ==
  ASSUME LedgerInv, NEW job, job.owner \in Owners, job.account \in Accounts,
         job.epoch \in Epochs, job.trigger \in Triggers,
         NEW transition \in SenderTransition, NEW platformId \in IdsFor(transition),
         NEW observation,
         \/ Transition(job, transition, platformId, observation)
         \/ Repeated(job, transition, platformId),
         NEW b \in Accounts
  PROVE  GuardStep(b)
<1> DEFINE a == job.account
           tok == JobToken(job)
           i == Least(job.todo)
<1>1. /\ TypeOK
      /\ tok \in Token
      /\ transition \in SegmentTransition
      /\ platformId \in PlatformIds \cup {NoPlatformId}
  BY DEF JobToken, TokenOf, Token, SenderTransition, IdsFor, LedgerInv
<1>2. CASE Transition(job, transition, platformId, observation)
  <2>1. TransitionSegment(a, tok, job.trigger, i, transition, platformId, observation)
    BY <1>2 DEF Transition
  <2>2. outbox[a][job.trigger] # NoBatch /\ i \in DOMAIN outbox[a][job.trigger].segs
    BY <2>1 DEF TransitionSegment
  <2>3. i \in Ordinals
    BY <1>1, <2>2, SegmentOrdinals
  <2> HIDE DEF a, tok, i
  <2>4. a \in Accounts
    BY DEF a
  <2> QED
    BY <1>1, <2>1, <2>3, <2>4, TransitionGuard
<1>3. CASE Repeated(job, transition, platformId)
  BY <1>3, IdleGuard DEF Repeated, RepeatTransition, outVars, inVars
<1> QED
  BY <1>2, <1>3

LEMMA JobGuard ==
  ASSUME LedgerInv, NEW job \in Closure, WritesOutcome(job), JobStep(job), NEW b \in Accounts
  PROVE  GuardStep(b)
<1>1. /\ job.owner \in Owners /\ job.account \in Accounts /\ job.epoch \in Epochs
      /\ job.trigger \in Triggers
      /\ NoPlatformId \in IdsFor("start") /\ NoPlatformId \in IdsFor("start_automatic")
      /\ NoPlatformId \in IdsFor("cancel_prepared")
      /\ {"start", "start_automatic", "cancel_prepared"} \subseteq SenderTransition
  BY DEF Closure, IdsFor, SenderTransition, SegmentTransition, StartTransitions
<1>2. CASE RunStart(job)
  <2>1. StartOf(job) \in {"start", "start_automatic"}
    BY DEF StartOf
  <2> QED
    BY <1>1, <1>2, <2>1, AskedGuard DEF RunStart
<1>3. CASE RunPersist(job)
  <2>1. /\ job.outcome[1] \in SenderTransition
        /\ job.platformId \in IdsFor(job.outcome[1])
    BY <1>3 DEF RunPersist, WritesOutcome, SenderTransition, SegmentTransition
  <2>2. PICK observation :
          \/ Transition(job, job.outcome[1], job.platformId, observation)
          \/ Repeated(job, job.outcome[1], job.platformId)
    BY <1>3 DEF RunPersist
  <2> QED
    BY <1>1, <2>1, <2>2, AskedGuard
<1>4. CASE RunCancel(job)
  BY <1>1, <1>4, AskedGuard, UnchangedGuard DEF RunCancel
<1>5. CASE RunCancelFirst(job)
  <2> DEFINE first == [job EXCEPT !.todo = {1}]
  <2>1. /\ first.owner = job.owner /\ first.account = job.account
        /\ first.epoch = job.epoch /\ first.trigger = job.trigger
    BY DEF Closure
  <2>2. CASE Transition(first, "cancel_prepared", NoPlatformId, NoObservation)
    <3> HIDE DEF first
    <3> QED
      BY <1>1, <2>1, <2>2, AskedGuard
  <2> QED
    BY <1>5, <2>2, UnchangedGuard DEF RunCancelFirst
<1> QED
  BY <1>2, <1>3, <1>4, <1>5, UnchangedGuard DEF JobStep, FailJob

LEMMA LiveGuard ==
  ASSUME LedgerInv, ProcessInv, [LiveNext]_liveVars, NEW b \in Accounts
  PROVE  GuardStep(b)
<1>1. ASSUME NEW o \in Owners, NEW a \in Accounts, TaskNext(o, a)
      PROVE  GuardStep(b)
  <2>1. UNCHANGED storeVars
    BY <1>1 DEF TaskNext, Dispatch, Drop, ReadBatch, GiveUp, PrepareSegment, ClaimSegment,
                Post, RejectUnsent, Answered, Continue, HandleError, StopBatch
  <2> QED
    BY <2>1, UnchangedGuard
<1>2. CASE JobNext
  BY <1>2, JobGuard DEF JobNext, JobStep, ProcessInv, WorkInv, JobType
<1>3. CASE PlatformNext \/ UNCHANGED liveVars
  BY <1>3, UnchangedGuard DEF PlatformNext, Fate, liveVars
<1> QED
  BY <1>1, <1>2, <1>3, OwnerGuard, ProcessGuard DEF LiveNext, ProcessInv

LEMMA LiveLedger == LiveSpec => [](SenderInv /\ TruthInv /\ LedgerInv)
<1>1. LiveInit => LedgerInv
  BY LedgerInit DEF LiveInit
<1>2. ASSUME SenderInv, LedgerInv, [LiveNext]_liveVars
      PROVE  LedgerInv'
  <2>1. TypeOK'
    BY <1>2, LiveStores DEF SenderInv, StoreStep
  <2>2. \A b \in Accounts : GuardStep(b)
    BY <1>2, LiveGuard DEF SenderInv
  <2> QED
    BY <1>2, <2>1, <2>2, GuardStepKeeps
<1> QED
  BY <1>1, <1>2, TruthAlways, PTL DEF LiveSpec

(* SettledBatchIsQuiet in every reachable state: the scopes of an          *)
(* automatic reply are released only when each of its requests was         *)
(* refused, or delivered and counted. A batch is settled when all its      *)
(* segments have a verdict, and a verdict is true.                         *)
THEOREM SettledTheorem == LiveSpec => []SettledBatchIsQuiet
<1>1. ASSUME SenderInv, TruthInv, LedgerInv
      PROVE  SettledBatchIsQuiet
  <2> SUFFICES ASSUME NEW r \in requests, outbox[r.account][r.trigger].settled
               PROVE  \/ r.fate = "refused"
                      \/ /\ r.fate = "delivered"
                         /\ StatusOf(r.account, r.trigger, r.ordinal) = "confirmed"
    BY DEF SettledBatchIsQuiet
  <2> DEFINE a == r.account
             t == r.trigger
             i == r.ordinal
             seg == outbox[a][t].segs[i]
  <2>1. /\ a \in Accounts /\ t \in Triggers /\ i \in Ordinals
        /\ r \in RequestOf(a, t, i)
    BY <1>1 DEF SenderInv, ProcessInv, RequestType, Request, RequestOf
  <2>2. outbox[a][t] # NoBatch /\ i \in DOMAIN outbox[a][t].segs
    BY <1>1 DEF SenderInv, WireInv, RequestsTried, Tried
  <2>3. AllTerminal(outbox[a][t].segs)
    BY <1>1, <2>1, <2>2 DEF LedgerInv, GuardLedger, Batches
  <2>4. seg.status \in {"confirmed", "rejected"}
    BY <2>2, <2>3 DEF AllTerminal, StatusesOf, TerminalSegment
  <2>5. TrueVerdict(a, t, i)
    BY <1>1, <2>1, <2>2 DEF TruthInv, VerdictsTrue, IsSegment
  <2>6. \A q \in RequestOf(a, t, i) : q = r
    BY <1>1 DEF SenderInv, WireInv, AtMostOneRequest, RequestOf
  <2> QED
    BY <2>1, <2>2, <2>4, <2>5, <2>6 DEF TrueVerdict, Backed, Dead, StatusOf, IsSegment
<1> QED
  BY <1>1, LiveLedger, PTL
=============================================================================
