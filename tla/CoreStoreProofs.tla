--------------------------- MODULE CoreStoreProofs ---------------------------
(***************************************************************************)
(* CoreStore for every value of its constants: what its operators return,  *)
(* type correctness, the fence of open sends, batch statuses, platform     *)
(* ids, terminal segments and the owners of epochs.                        *)
(***************************************************************************)
EXTENDS CoreStore, TLAPS, WellFoundedInduction

-----------------------------------------------------------------------------
(* Segments and batches: what the operators of SegmentLifecycle and the    *)
(* batch operators of CoreStore return.                                    *)

LEMMA ApplyTransitionType ==
  ASSUME NEW seg \in Segment, NEW transition \in SegmentTransition,
         NEW platformId \in PlatformIds \cup {NoPlatformId},
         NEW epoch \in Nat, NEW at \in Nat
  PROVE  ApplyTransition(seg, transition, platformId, epoch, at) \in Segment
BY DEF ApplyTransition, Segment, SegmentStatus, SegmentTransition,
       StartTransitions, TargetStatus

LEMMA RecoverInterruptedType ==
  ASSUME NEW seg \in Segment, NEW epoch \in Nat, NEW at \in Nat
  PROVE  RecoverInterrupted(seg, epoch, at) \in Segment
BY DEF RecoverInterrupted, Segment, SegmentStatus

LEMMA DeriveBatchStatusType ==
  ASSUME NEW n \in Ordinals, NEW segs \in [1..n -> Segment]
  PROVE  DeriveBatchStatus(segs) \in BatchStatus
<1> DEFINE S == StatusesOf(segs)
<1>1. 1 \in 1..n
  BY DEF Ordinals
<1>2. segs[1].status \in S
  BY <1>1 DEF StatusesOf
<1>3. S \subseteq SegmentStatus /\ S # {}
  BY <1>2 DEF StatusesOf, Segment
<1> HIDE DEF S
<1> QED
  BY <1>3 DEF S, DeriveBatchStatus, BatchStatus, SegmentStatus

LEMMA WithSegmentsType ==
  ASSUME NEW n \in Ordinals, NEW batch \in BatchOf(n), NEW segs \in [1..n -> Segment]
  PROVE  WithSegments(batch, segs) \in BatchOf(n)
<1>1. DeriveBatchStatus(segs) \in BatchStatus
  BY DeriveBatchStatusType
<1> QED
  BY <1>1 DEF WithSegments, BatchOf

LEMMA RecoverBatchType ==
  ASSUME NEW batch, IsBatch(batch), NEW epoch \in Nat, now \in Nat
  PROVE  IsBatch(RecoverBatch(batch, epoch))
<1>1. PICK n \in Ordinals : batch \in BatchOf(n)
  BY DEF IsBatch
<1> DEFINE segs == [i \in DOMAIN batch.segs |-> RecoverInterrupted(batch.segs[i], epoch, now)]
<1>2. batch.segs \in [1..n -> Segment]
  BY <1>1 DEF BatchOf
<1>3. segs \in [1..n -> Segment]
  BY <1>2, RecoverInterruptedType
<1>4. WithSegments(batch, segs) \in BatchOf(n)
  BY <1>1, <1>3, WithSegmentsType
<1> QED
  BY <1>1, <1>4 DEF RecoverBatch, IsBatch

LEMMA NewSegmentType ==
  ASSUME NEW epoch \in Nat, NEW at \in Nat
  PROVE  NewSegment(epoch, at) \in Segment
BY DEF NewSegment, Segment, SegmentStatus

LEMMA NewBatchType ==
  ASSUME NEW a \in Accounts, NEW tok \in Token, NEW response \in Responses, now \in Nat
  PROVE  IsBatch(NewBatch(a, tok, response))
<1> DEFINE n == SegmentCount[response]
<1>1. n \in Ordinals
  BY StoreAssumption DEF Ordinals
<1>2. tok.epoch \in Nat
  BY StoreAssumption DEF Token, Epochs
<1>3. [i \in 1..n |-> NewSegment(tok.epoch, now)] \in [1..n -> Segment]
  BY <1>2, NewSegmentType
<1> HIDE DEF n
<1>4. NewBatch(a, tok, response) \in BatchOf(n)
  BY <1>3 DEF NewBatch, BatchOf, BatchStatus, SegmentStatus, n
<1> QED
  BY <1>1, <1>4 DEF IsBatch
-----------------------------------------------------------------------------
(* Guard scopes.                                                           *)

(* Every non-empty set of naturals has a smallest element.                 *)
LEMMA SmallestExists ==
  ASSUME NEW S \in SUBSET Nat, S # {}
  PROVE  \E m \in S : \A d \in S : m <= d
<1> DEFINE R == {p \in Nat \X Nat : p[1] < p[2]}
<1>1. R = OpToRel(<, Nat)
  BY Zenon DEF OpToRel
<1>2. IsWellFoundedOn(R, Nat)
  BY <1>1, NatLessThanWellFounded, Zenon
<1> HIDE DEF R
<1>3. PICK x \in S : \A y \in S : ~(<<y, x>> \in R)
  BY <1>2, WFMin
<1>4. ASSUME NEW y \in S
      PROVE  x <= y
  <2>1. x \in Nat /\ y \in Nat
    OBVIOUS
  <2>2. ~(<<y, x>>[1] < <<y, x>>[2])
    BY <1>3, <2>1, Zenon DEF R
  <2> QED
    BY <2>1, <2>2
<1> QED
  BY <1>4

(* A bounded non-empty set of naturals has a largest element.              *)
LEMMA LargestExists ==
  ASSUME NEW bound \in Nat, NEW S \in SUBSET (0..bound), S # {}
  PROVE  \E m \in S : \A d \in S : d <= m
<1> DEFINE T == {j \in 0..bound : bound - j \in S}
<1>1. T \in SUBSET Nat
  OBVIOUS
<1>2. T # {}
  <2>1. PICK s \in S : TRUE
    OBVIOUS
  <2>2. bound - s \in T
    BY <2>1
  <2> QED
    BY <2>2
<1>3. PICK k \in T : \A j \in T : k <= j
  <2> HIDE DEF T
  <2> QED
    BY <1>1, <1>2, SmallestExists
<1>4. \A d \in S : d <= bound - k
  <2> TAKE d \in S
  <2>1. bound - d \in T
    OBVIOUS
  <2> QED
    BY <2>1, <1>3
<1>5. bound - k \in S
  OBVIOUS
<1> QED
  BY <1>4, <1>5
LEMMA DeliveriesType ==
  ASSUME NEW batch, Stored(batch)
  PROVE  Deliveries(batch) \in SUBSET (0..MaxTime)
<1>1. PICK n \in Ordinals : batch.segs \in [1..n -> Segment]
  BY DEF Stored, IsBatch, BatchOf
<1>2. ASSUME NEW i \in DOMAIN batch.segs
      PROVE  batch.segs[i].updated \in 0..MaxTime
  <2>1. batch.segs[i] \in Segment
    BY <1>1
  <2>2. batch.segs[i].updated \in Nat
    BY <2>1 DEF Segment
  <2> QED
    BY <2>2, StoreAssumption DEF Stored
<1> QED
  BY <1>2 DEF Deliveries

LEMMA DayType ==
  ASSUME NEW p \in Policies, NEW at \in Nat
  PROVE  Day(p, at) \in Nat
BY GuardAssumption DEF Day

LEMMA SettleType ==
  ASSUME NEW rows \in [GuardScopes -> Scope], NEW p \in Policies,
         NEW deliveries \in SUBSET (0..MaxTime)
  PROVE  Settle(rows, p, deliveries) \in [GuardScopes -> Scope]
<1>1. ASSUME NEW scope \in Scope
      PROVE  Release(scope) \in Scope
  BY <1>1 DEF Release, Scope
<1>2. ASSUME NEW scope \in Scope, NEW at \in Nat
      PROVE  Charge(scope, p, at) \in Scope
  <2>1. Day(p, at) \in Nat
    BY DayType
  <2> QED
    BY <2>1 DEF Charge, Scope
<1> DEFINE largest == CHOOSE m \in deliveries : \A d \in deliveries : d <= m
<1>3. ASSUME deliveries # {}
      PROVE  largest \in Nat
  <2>1. \E m \in deliveries : \A d \in deliveries : d <= m
    BY <1>3, LargestExists, StoreAssumption
  <2>2. largest \in deliveries
    BY <2>1
  <2> HIDE DEF largest
  <2> QED
    BY <2>2
<1> QED
  BY <1>1, <1>2, <1>3 DEF Settle

LEMMA CommitBatchesType ==
  ASSUME OutboxType, ScopesType, NEW a \in Accounts, NEW batches,
         \A t \in Triggers : batches[t] = NoBatch \/ Stored(batches[t]),
         NEW touched \in SUBSET Triggers, \A t \in touched : batches[t] # NoBatch,
         CommitBatches(a, batches, touched)
  PROVE  OutboxType' /\ ScopesType'
<1> DEFINE settling == Settling(batches, touched)
<1>1. ASSUME NEW t \in settling
      PROVE  t \in Triggers /\ Stored(batches[t]) /\ batches[t].policy \in Policies
  BY DEF Settling, Stored, IsBatch, BatchOf
<1>2. ASSUME NEW t \in settling
      PROVE  Stored([batches[t] EXCEPT !.settled = TRUE])
  BY <1>1 DEF Stored, IsBatch, BatchOf
<1>3. OutboxType'
  BY <1>1, <1>2 DEF OutboxType, CommitBatches
<1>4. SettledScopes(a, batches, settling) \in [GuardScopes -> Scope]
  BY <1>1, SettleType, DeliveriesType DEF SettledScopes, ScopesType
<1>5. ScopesType'
  BY <1>4 DEF ScopesType, CommitBatches
<1> QED
  BY <1>3, <1>5

-----------------------------------------------------------------------------
(* Type correctness: what each kind of update keeps.                       *)

LEMMA ObserveType ==
  ASSUME LeaseType, NEW a \in Accounts, now \in Nat, Observe(a)
  PROVE  LeaseType'
BY DEF LeaseType, Lease, Observe

(* Storing one well-formed batch.                                          *)
LEMMA StoreBatchType ==
  ASSUME OutboxType, NEW a \in Accounts, NEW t \in Triggers, NEW batch,
         batch = NoBatch \/ Stored(batch),
         outbox' = [outbox EXCEPT ![a][t] = batch]
  PROVE  OutboxType'
BY DEF OutboxType

LEMMA NewBatchStored ==
  ASSUME NEW a \in Accounts, NEW tok \in Token, NEW response \in Responses,
         now \in 0..MaxTime
  PROVE  Stored(NewBatch(a, tok, response))
<1>1. now \in Nat /\ now <= MaxTime
  BY StoreAssumption
<1>2. IsBatch(NewBatch(a, tok, response))
  BY <1>1, NewBatchType
<1> QED
  BY <1>1, <1>2 DEF Stored, NewBatch, NewSegment

(* Rewriting a stored batch's segments.                                    *)
LEMMA WithSegmentsStored ==
  ASSUME NEW batch, Stored(batch), NEW segs,
         DOMAIN segs = DOMAIN batch.segs,
         segs = [i \in DOMAIN segs |-> segs[i]],
         \A i \in DOMAIN segs : segs[i] \in Segment /\ segs[i].updated <= MaxTime
  PROVE  Stored(WithSegments(batch, segs))
<1>1. PICK n \in Ordinals : batch \in BatchOf(n)
  BY DEF Stored, IsBatch
<1>2. segs \in [1..n -> Segment]
  BY <1>1 DEF BatchOf
<1>3. WithSegments(batch, segs) \in BatchOf(n)
  BY <1>1, <1>2, WithSegmentsType
<1>4. WithSegments(batch, segs).segs = segs
  BY <1>1 DEF WithSegments, BatchOf
<1> QED
  BY <1>3, <1>4 DEF Stored, IsBatch

LEMMA RecoverBatchStored ==
  ASSUME NEW batch, Stored(batch), NEW epoch \in Nat, now \in 0..MaxTime
  PROVE  Stored(RecoverBatch(batch, epoch))
<1> DEFINE segs == [i \in DOMAIN batch.segs |-> RecoverInterrupted(batch.segs[i], epoch, now)]
<1>1. ASSUME NEW i \in DOMAIN batch.segs
      PROVE  segs[i] \in Segment /\ segs[i].updated <= MaxTime
  <2>1. now \in Nat /\ now <= MaxTime
    BY StoreAssumption
  <2>2. batch.segs[i] \in Segment /\ batch.segs[i].updated <= MaxTime
    BY DEF Stored, IsBatch, BatchOf
  <2>3. segs[i] \in Segment
    BY <2>1, <2>2, RecoverInterruptedType
  <2> QED
    BY <2>1, <2>2, <2>3 DEF RecoverInterrupted, Segment
<1>2. Stored(WithSegments(batch, segs))
  <2> HIDE DEF segs
  <2> QED
    BY <1>1, WithSegmentsStored DEF segs
<1> QED
  BY <1>2 DEF RecoverBatch

-----------------------------------------------------------------------------
(* Type correctness, one lemma per operation with work to do.              *)

LEMMA InstallLeaseType ==
  ASSUME TypeOK, NEW a \in Accounts, NEW owner \in Owners, NEW epoch \in Epochs,
         NEW until \in LeaseEnds, InstallLease(a, owner, epoch, until)
  PROVE  TypeOK'
<1>1. now \in Nat /\ epoch \in 0..MaxEpoch /\ epoch \in Nat /\ until \in Nat
  BY StoreAssumption DEF TypeOK, Epochs
<1>2. LeaseType'
  BY <1>1 DEF TypeOK, LeaseType, Lease, InstallLease
<1>3. OutboxType'
  <2>1. \A t \in Triggers : \/ RecoverBatch(outbox[a][t], epoch) = NoBatch
                            \/ Stored(RecoverBatch(outbox[a][t], epoch))
    BY <1>1, RecoverBatchStored DEF TypeOK, OutboxType, RecoverBatch
  <2> QED
    BY <2>1 DEF TypeOK, OutboxType, InstallLease
<1> QED
  BY <1>2, <1>3 DEF TypeOK, InstallLease, ScopesType, InboundType, ProtoType, inVars

LEMMA PrepareOutboundBatchType ==
  ASSUME TypeOK, NEW a \in Accounts, NEW tok \in Token,
         NEW trigger \in ManualTriggers, NEW response \in Responses,
         PrepareOutboundBatch(a, tok, trigger, response)
  PROVE  TypeOK'
<1>1. now \in Nat /\ trigger \in Triggers
  BY StoreAssumption DEF TypeOK, Triggers
<1>2. LeaseType'
  BY <1>1, ObserveType DEF TypeOK, PrepareOutboundBatch
<1>3. Stored(NewBatch(a, tok, response))
  BY NewBatchStored DEF TypeOK
<1>4. OutboxType'
  <2>1. CASE UNCHANGED outbox
    BY <2>1 DEF TypeOK, OutboxType
  <2>2. CASE outbox' = [outbox EXCEPT ![a][trigger] = NewBatch(a, tok, response)]
    BY <2>2, <1>1, <1>3, StoreBatchType DEF TypeOK
  <2> QED
    BY <2>1, <2>2 DEF PrepareOutboundBatch
<1> QED
  BY <1>2, <1>4
  DEF TypeOK, PrepareOutboundBatch, ScopesType, InboundType, ProtoType, inVars

LEMMA TransitionSegmentType ==
  ASSUME TypeOK, NEW a \in Accounts, NEW tok \in Token, NEW trigger \in Triggers,
         NEW i \in Ordinals, NEW transition \in SegmentTransition,
         NEW platformId \in PlatformIds \cup {NoPlatformId},
         NEW observation \in [digest : Digests \cup {NoDigest}, capability : Capability],
         TransitionSegment(a, tok, trigger, i, transition, platformId, observation)
  PROVE  TypeOK'
<1> DEFINE batch == outbox[a][trigger]
           next  == ApplyTransition(batch.segs[i], transition, platformId, tok.epoch, now)
           segs  == [batch.segs EXCEPT ![i] = next]
           batches == [outbox[a] EXCEPT ![trigger] = WithSegments(batch, segs)]
<1>1. now \in Nat /\ now <= MaxTime /\ tok.epoch \in Nat
  BY StoreAssumption DEF TypeOK, Token, Epochs
<1>2. batch # NoBatch /\ i \in DOMAIN batch.segs
  BY DEF TransitionSegment
<1>3. Stored(batch)
  BY <1>2 DEF TypeOK, OutboxType
<1>4. PICK n \in Ordinals : batch.segs \in [1..n -> Segment]
  BY <1>3 DEF Stored, IsBatch, BatchOf
<1>5. next \in Segment /\ next.updated <= MaxTime
  <2>1. batch.segs[i] \in Segment
    BY <1>2, <1>4
  <2>2. next \in Segment
    BY <1>1, <2>1, ApplyTransitionType
  <2> QED
    BY <1>1, <2>2 DEF ApplyTransition
<1>6. /\ DOMAIN segs = DOMAIN batch.segs
      /\ segs = [j \in DOMAIN segs |-> segs[j]]
      /\ \A j \in DOMAIN segs : segs[j] \in Segment /\ segs[j].updated <= MaxTime
  <2> HIDE DEF next
  <2> QED
    BY <1>2, <1>3, <1>4, <1>5 DEF Stored
<1>7. Stored(WithSegments(batch, segs))
  <2> HIDE DEF segs
  <2> QED
    BY <1>3, <1>6, WithSegmentsStored
<1>8. \A t \in Triggers : batches[t] = NoBatch \/ Stored(batches[t])
  <2> HIDE DEF segs
  <2> QED
    BY <1>7 DEF TypeOK, OutboxType
<1>9. batches[trigger] # NoBatch
  <2> HIDE DEF segs
  <2> QED
    BY <1>7, NoBatchAssumption DEF TypeOK, OutboxType, Stored
<1>10. CommitBatches(a, batches, {trigger})
  BY DEF TransitionSegment
<1>11. OutboxType' /\ ScopesType'
  <2> HIDE DEF batches
  <2> QED
    BY <1>8, <1>9, <1>10, CommitBatchesType DEF TypeOK
<1>12. LeaseType'
  BY <1>1, ObserveType DEF TypeOK, TransitionSegment
<1>13. ProtoType'
  <2>1. proto' \in [Accounts -> [digest : Digests \cup {NoDigest},
                                 capability : Capability, observed : Nat]]
    <3>1. RecordObservation(a, observation)
      BY DEF TransitionSegment
    <3>2. [digest |-> observation.digest, capability |-> observation.capability,
           observed |-> now] \in
             [digest : Digests \cup {NoDigest}, capability : Capability, observed : Nat]
      BY <1>1
    <3> QED
      BY <3>1, <3>2 DEF RecordObservation, TypeOK, ProtoType
  <2>2. attempted' \in [Accounts -> [Triggers -> [Ordinals ->
                          [epoch : Nat, digest : Digests \cup {NoDigest}]]]]
    <3>1. [epoch |-> tok.epoch, digest |-> proto[a].digest] \in
             [epoch : Nat, digest : Digests \cup {NoDigest}]
      BY <1>1 DEF TypeOK, ProtoType
    <3> QED
      BY <3>1 DEF TransitionSegment, TypeOK, ProtoType
  <2> QED
    BY <2>1, <2>2 DEF ProtoType
<1> QED
  BY <1>11, <1>12, <1>13 DEF TypeOK, TransitionSegment, InboundType, inVars

LEMMA PersistOutcomeType ==
  ASSUME TypeOK, NEW a \in Accounts, NEW tok \in Token, NEW trigger \in Triggers,
         NEW i \in Ordinals, PersistOutcome(a, tok, trigger, i)
  PROVE  TypeOK'
<1>1. PICK outcome \in SenderOutcome : \E platformId \in IdsFor(outcome[1]) :
        TransitionSegment(a, tok, trigger, i, outcome[1], platformId,
          [digest |-> attempted[a][trigger][i].digest, capability |-> outcome[2]])
  BY DEF PersistOutcome
<1>2. PICK platformId \in IdsFor(outcome[1]) :
        TransitionSegment(a, tok, trigger, i, outcome[1], platformId,
          [digest |-> attempted[a][trigger][i].digest, capability |-> outcome[2]])
  BY <1>1
<1>3. outcome[1] \in SegmentTransition /\ outcome[2] \in Capability
  BY DEF SenderOutcome, SegmentTransition, StartTransitions, Capability
<1>4. platformId \in PlatformIds \cup {NoPlatformId}
  BY DEF IdsFor
<1>5. attempted[a][trigger][i].digest \in Digests \cup {NoDigest}
  BY DEF TypeOK, ProtoType
<1>6. [digest |-> attempted[a][trigger][i].digest, capability |-> outcome[2]] \in
        [digest : Digests \cup {NoDigest}, capability : Capability]
  BY <1>3, <1>5
<1> QED
  BY <1>2, <1>3, <1>4, <1>6, TransitionSegmentType

LEMMA ReconcileSentReceiptsType ==
  ASSUME TypeOK, NEW a \in Accounts, NEW tok \in Token, NEW page \in EvidencePage(a),
         ReconcileSentReceipts(a, tok, page)
  PROVE  TypeOK'
<1> DEFINE hits    == {id \in DOMAIN page : Settles(a, id, page[id])}
           touched == {id[1] : id \in hits}
           settled(t, i) ==
             IF <<t, i>> \notin hits THEN outbox[a][t].segs[i]
             ELSE ApplyTransition(outbox[a][t].segs[i], "confirm",
                    page[<<t, i>>].platformId, tok.epoch,
                    Earlier(page[<<t, i>>].sentAt, now))
           segs(t) == [i \in DOMAIN outbox[a][t].segs |-> settled(t, i)]
           batches == [t \in Triggers |->
                         IF t \notin touched THEN outbox[a][t]
                         ELSE WithSegments(outbox[a][t], segs(t))]
<1>1. now \in Nat /\ now <= MaxTime /\ tok.epoch \in Nat
  BY StoreAssumption DEF TypeOK, Token, Epochs
<1>2. \A id \in DOMAIN page :
        /\ id \in SegmentId(a)
        /\ page[id].platformId \in PlatformIds
        /\ page[id].sentAt \in Nat
  <2>1. PICK ids \in SUBSET SegmentId(a) : page \in [ids -> Evidence]
    BY DEF EvidencePage
  <2>2. ASSUME NEW id \in ids
        PROVE  page[id].platformId \in PlatformIds /\ page[id].sentAt \in Nat
    <3>1. page[id] \in Evidence
      BY <2>1
    <3> QED
      BY <3>1, StoreAssumption DEF Evidence
  <2> QED
    BY <2>1, <2>2
<1>3. touched \in SUBSET Triggers /\ \A t \in touched : outbox[a][t] # NoBatch
  BY <1>2 DEF SegmentId
<1>4. ASSUME NEW t \in touched
      PROVE  Stored(WithSegments(outbox[a][t], segs(t)))
  <2>1. Stored(outbox[a][t])
    BY <1>3 DEF TypeOK, OutboxType
  <2>2. ASSUME NEW i \in DOMAIN outbox[a][t].segs
        PROVE  settled(t, i) \in Segment /\ settled(t, i).updated <= MaxTime
    <3>1. outbox[a][t].segs[i] \in Segment /\ outbox[a][t].segs[i].updated <= MaxTime
      BY <2>1 DEF Stored, IsBatch, BatchOf
    <3>2. CASE <<t, i>> \notin hits
      BY <3>1, <3>2
    <3>3. CASE <<t, i>> \in hits
      <4> DEFINE at == Earlier(page[<<t, i>>].sentAt, now)
      <4>1. at \in Nat /\ at <= MaxTime
        BY <1>1, <1>2, <3>3, StoreAssumption DEF Earlier
      <4>2. "confirm" \in SegmentTransition
        BY DEF SegmentTransition
      <4>3. page[<<t, i>>].platformId \in PlatformIds \cup {NoPlatformId}
        BY <1>2, <3>3
      <4> HIDE DEF at, hits
      <4>4. ApplyTransition(outbox[a][t].segs[i], "confirm",
              page[<<t, i>>].platformId, tok.epoch, at) \in Segment
        BY <1>1, <3>1, <4>1, <4>2, <4>3, ApplyTransitionType
      <4>5. ApplyTransition(outbox[a][t].segs[i], "confirm",
              page[<<t, i>>].platformId, tok.epoch, at).updated = at
        BY DEF ApplyTransition
      <4> QED
        BY <3>3, <4>1, <4>4, <4>5 DEF at
    <3> QED
      BY <3>2, <3>3
  <2>3. /\ DOMAIN segs(t) = DOMAIN outbox[a][t].segs
        /\ segs(t) = [i \in DOMAIN segs(t) |-> segs(t)[i]]
        /\ \A i \in DOMAIN segs(t) : segs(t)[i] \in Segment /\ segs(t)[i].updated <= MaxTime
    <3> HIDE DEF settled
    <3> QED
      BY <2>2
  <2> HIDE DEF segs
  <2> QED
    BY <2>1, <2>3, WithSegmentsStored
<1>5. \A t \in Triggers : batches[t] = NoBatch \/ Stored(batches[t])
  <2> HIDE DEF segs, touched
  <2> QED
    BY <1>4 DEF TypeOK, OutboxType
<1>6. \A t \in touched : batches[t] # NoBatch
  <2> HIDE DEF segs, touched
  <2> QED
    BY <1>3, <1>4, NoBatchAssumption DEF Stored
<1>7. CommitBatches(a, batches, touched)
  BY DEF ReconcileSentReceipts
<1>8. OutboxType' /\ ScopesType'
  <2> HIDE DEF batches, touched
  <2> QED
    BY <1>3, <1>5, <1>6, <1>7, CommitBatchesType DEF TypeOK
<1>9. LeaseType'
  BY <1>1, ObserveType DEF TypeOK, ReconcileSentReceipts
<1>10. ProtoType'
  <2>1. /\ \/ proto' = proto
           \/ proto' = [proto EXCEPT ![a].capability = "sendable", ![a].observed = now]
        /\ attempted' = attempted
    BY DEF ReconcileSentReceipts
  <2>2. CASE proto' = proto
    BY <2>1, <2>2 DEF TypeOK, ProtoType
  <2>3. CASE proto' = [proto EXCEPT ![a].capability = "sendable", ![a].observed = now]
    BY <1>1, <2>1, <2>3 DEF TypeOK, ProtoType, Capability
  <2> QED
    BY <2>1, <2>2, <2>3
<1> QED
  BY <1>8, <1>9, <1>10 DEF TypeOK, ReconcileSentReceipts, InboundType, inVars

LEMMA RecordInboundPageType ==
  ASSUME TypeOK, NEW a \in Accounts, NEW tok \in Token, NEW stream \in Streams,
         NEW generation \in 1..MaxGeneration, NEW cursor \in 0..MaxCheckpoint,
         NEW events \in SUBSET Events, NEW drafts \in [events -> Hashes],
         RecordInboundPage(a, tok, stream, generation, cursor, drafts)
  PROVE  TypeOK'
<1>1. now \in Nat /\ generation \in Nat /\ cursor \in Nat
  BY StoreAssumption DEF TypeOK
<1>2. LeaseType'
  BY <1>1, ObserveType DEF TypeOK, RecordInboundPage
<1>3. receipts' \in [Accounts -> [InboundKey ->
                      [status : {"none", "pending", "processed"}, hash : Hashes]]]
  <2> DEFINE onPage == {key \in InboundKey : /\ key.stream = stream
                                             /\ key.generation = generation
                                             /\ key.event \in DOMAIN drafts}
             fresh  == FreshOn(a, onPage)
             row(key) == IF key \in fresh
                         THEN [status |-> "pending", hash |-> drafts[key.event]]
                         ELSE receipts[a][key]
  <2>1. receipts' = [receipts EXCEPT ![a] = [key \in InboundKey |-> row(key)]]
    BY DEF RecordInboundPage
  <2>2. \A key \in InboundKey :
          row(key) \in [status : {"none", "pending", "processed"}, hash : Hashes]
    BY DEF TypeOK, InboundType, FreshOn
  <2> HIDE DEF row
  <2> QED
    BY <2>1, <2>2 DEF TypeOK, InboundType
<1>4. checkpoint' \in [Accounts -> [Streams -> [generation : Nat, cursor : Nat]]]
  BY <1>1 DEF RecordInboundPage, TypeOK, InboundType
<1>5. UNCHANGED <<now, outVars, decided, liveStart, claims, claimLog, proto>>
  BY DEF RecordInboundPage
<1>6. InboundType'
  BY <1>3, <1>4, <1>5 DEF TypeOK, InboundType
<1> QED
  BY <1>2, <1>5, <1>6 DEF TypeOK, OutboxType, ScopesType, ProtoType, outVars

LEMMA ConsumeReceiptType ==
  ASSUME InboundType, NEW a \in Accounts, NEW key \in InboundKey, ConsumeReceipt(a, key)
  PROVE  receipts' \in [Accounts -> [InboundKey ->
                          [status : {"none", "pending", "processed"}, hash : Hashes]]]
<1>1. receipts[a][key] \in [status : {"none", "pending", "processed"}, hash : Hashes]
  BY DEF InboundType
<1>2. [receipts[a][key] EXCEPT !.status = "processed"] \in
        [status : {"none", "pending", "processed"}, hash : Hashes]
  BY <1>1
<1>3. receipts' = [receipts EXCEPT ![a] = [receipts[a] EXCEPT ![key] =
                     [receipts[a][key] EXCEPT !.status = "processed"]]]
  BY DEF InboundType, ConsumeReceipt
<1> QED
  BY <1>2, <1>3 DEF InboundType

LEMMA ReserveType ==
  ASSUME NEW rows \in [GuardScopes -> Scope], NEW p \in Policies, NEW t \in Triggers
  PROVE  Reserve(rows, p, t) \in [GuardScopes -> Scope]
<1>1. ASSUME NEW scope \in Scope
      PROVE  [scope EXCEPT !.zone = IF @ = NoZone THEN p.zone ELSE @,
                           !.reserved = t] \in Scope
  BY <1>1 DEF Scope
<1> QED
  BY <1>1 DEF Reserve

LEMMA ConsumeInboundType ==
  ASSUME TypeOK, NEW a \in Accounts, NEW tok \in Token, NEW key \in InboundKey,
         NEW hash \in Hashes, NEW reply \in Reply \cup {NoReply},
         NEW policy \in Policies \cup {NoPolicy},
         ConsumeInbound(a, tok, key, hash, reply, policy)
  PROVE  TypeOK'
<1> DEFINE event == key.event
           plan  == Coalesce(a, reply, policy)
           fresh == plan # NoReply /\ outbox[a][event] = NoBatch
           batch == IF fresh THEN NewBatch(a, tok, plan.response) ELSE outbox[a][event]
<1>1. now \in Nat /\ event \in Events /\ event \in Triggers
  BY StoreAssumption DEF TypeOK, InboundKey, Triggers
<1>2. plan \in Reply \cup {NoReply}
  BY DEF Coalesce
<1>3. batch = NoBatch \/ Stored(batch)
  <2>1. CASE fresh
    <3>1. plan.response \in Responses
      BY <1>2, <2>1 DEF Reply
    <3>2. now \in 0..MaxTime
      BY DEF TypeOK
    <3> HIDE DEF plan
    <3> QED
      BY <2>1, <3>1, <3>2, NewBatchStored
  <2>2. CASE ~fresh
    <3> HIDE DEF fresh
    <3> QED
      BY <1>1, <2>2 DEF TypeOK, OutboxType
  <2> QED
    BY <2>1, <2>2
<1>4. /\ \/ /\ outbox' = [outbox EXCEPT ![a][event] = batch]
            /\ UNCHANGED <<scopes, claims, claimLog>>
         \/ /\ policy \in Policies
            /\ batch # NoBatch
            /\ \/ /\ outbox' = [outbox EXCEPT ![a][event] = [batch EXCEPT !.policy = policy]]
                  /\ scopes' = [scopes EXCEPT ![a] = Reserve(@, policy, event)]
               \/ UNCHANGED <<outbox, scopes>>
            /\ ClaimNotice(a, plan, policy)
      /\ decided' = [decided EXCEPT ![a] = @ \cup {event}]
      /\ ConsumeReceipt(a, key)
      /\ Observe(a)
      /\ UNCHANGED <<now, attempted, checkpoint, liveStart, proto>>
  BY DEF ConsumeInbound, Decide
<1> HIDE DEF batch, plan
<1>5. OutboxType'
  <2>1. CASE outbox' = [outbox EXCEPT ![a][event] = batch]
    BY <1>1, <1>3, <2>1, StoreBatchType DEF TypeOK
  <2>2. CASE /\ policy \in Policies /\ batch # NoBatch
             /\ outbox' = [outbox EXCEPT ![a][event] = [batch EXCEPT !.policy = policy]]
    <3>1. Stored([batch EXCEPT !.policy = policy])
      BY <1>3, <2>2 DEF Stored, IsBatch, BatchOf
    <3> QED
      BY <1>1, <2>2, <3>1, StoreBatchType DEF TypeOK
  <2>3. CASE UNCHANGED outbox
    BY <2>3 DEF TypeOK, OutboxType
  <2> QED
    BY <1>4, <2>1, <2>2, <2>3
<1>6. ScopesType'
  <2>1. CASE UNCHANGED scopes
    BY <2>1 DEF TypeOK, ScopesType
  <2>2. CASE /\ policy \in Policies
             /\ scopes' = [scopes EXCEPT ![a] = Reserve(@, policy, event)]
    BY <1>1, <2>2, ReserveType DEF TypeOK, ScopesType
  <2> QED
    BY <1>4, <2>1, <2>2
<1>7. claims' \subseteq Claim /\ claimLog' \in Seq(Claim)
  <2>1. CASE UNCHANGED <<claims, claimLog>>
    BY <2>1 DEF TypeOK, InboundType
  <2>2. CASE policy \in Policies /\ ClaimNotice(a, plan, policy)
    <3>1. CASE plan = NoReply \/ plan.mutualAt = NoNotice
      BY <2>1, <2>2, <3>1 DEF ClaimNotice
    <3>2. CASE ~(plan = NoReply \/ plan.mutualAt = NoNotice)
      <4> DEFINE row == [account |-> a, conversation |-> policy.conversation,
                         at |-> plan.mutualAt, created |-> now]
      <4>1. plan.mutualAt \in Nat
        BY <1>2, <3>2, StoreAssumption DEF Reply
      <4>2. row \in Claim
        BY <1>1, <2>2, <4>1 DEF Claim
      <4>3. claims' = LiveClaims \cup {row} /\ claimLog' = Append(claimLog, row)
        BY <2>2, <3>2 DEF ClaimNotice
      <4>4. claims \subseteq Claim /\ claimLog \in Seq(Claim)
        BY DEF TypeOK, InboundType
      <4> HIDE DEF row
      <4> QED
        BY <4>2, <4>3, <4>4 DEF LiveClaims
    <3> QED
      BY <3>1, <3>2
  <2> QED
    BY <1>4, <2>1, <2>2
<1>8. InboundType'
  BY <1>1, <1>4, <1>7, ConsumeReceiptType DEF TypeOK, InboundType
<1>9. LeaseType'
  BY <1>1, <1>4, ObserveType DEF TypeOK
<1> QED
  BY <1>4, <1>5, <1>6, <1>8, <1>9 DEF TypeOK, ProtoType

-----------------------------------------------------------------------------
(* Type correctness.                                                       *)

LEMMA InitType == Init => TypeOK
<1> SUFFICES ASSUME Init
             PROVE  TypeOK
  OBVIOUS
<1>1. now \in 0..MaxTime
  BY StoreAssumption DEF Init
<1>2. LeaseType
  <2>1. (CHOOSE o \in Owners : TRUE) \in Owners
    BY StoreAssumption
  <2>2. 0 \in 0..MaxEpoch
    BY StoreAssumption
  <2> QED
    BY <2>1, <2>2 DEF Init, LeaseType, Lease
<1>3. OutboxType
  BY DEF Init, OutboxType
<1>4. ScopesType
  BY DEF Init, ScopesType, Scope, EmptyScope
<1>5. InboundType
  <2>1. (CHOOSE h \in Hashes : TRUE) \in Hashes
    BY StoreAssumption
  <2> QED
    BY <2>1 DEF Init, InboundType
<1>6. ProtoType
  BY DEF Init, ProtoType, Capability
<1> QED
  BY <1>1, <1>2, <1>3, <1>4, <1>5, <1>6 DEF TypeOK

LEMMA LeaseNextType ==
  ASSUME TypeOK, NEW a \in Accounts, LeaseNext(a)
  PROVE  TypeOK'
<1>1. now \in Nat
  BY StoreAssumption DEF TypeOK
<1>2. ASSUME LeaseType', UNCHANGED <<now, outVars, inVars, proto>>
      PROVE  TypeOK'
  BY <1>2 DEF TypeOK, OutboxType, ScopesType, InboundType, ProtoType, outVars, inVars
<1>3. ASSUME NEW owner \in Owners, NEW epoch \in Epochs, NEW until \in LeaseEnds,
             InstallLease(a, owner, epoch, until)
      PROVE  TypeOK'
  BY <1>3, InstallLeaseType
<1>4. ASSUME NEW owner \in Owners, NEW until \in LeaseEnds, ExtendLease(a, owner, until)
      PROVE  TypeOK'
  <2>1. LeaseType'
    BY <1>1, <1>4, StoreAssumption DEF ExtendLease, TypeOK, LeaseType, Lease
  <2> QED
    BY <1>2, <1>4, <2>1 DEF ExtendLease
<1>5. ASSUME NEW tok \in Token,
             ReleaseLease(a, tok) \/ InvalidateLease(a, tok) \/ FencedRead(a, tok)
      PROVE  TypeOK'
  <2>1. LeaseType'
    BY <1>1, <1>5 DEF ReleaseLease, InvalidateLease, FencedRead, Observe,
                      TypeOK, LeaseType, Lease
  <2> QED
    BY <1>2, <1>5, <2>1 DEF ReleaseLease, InvalidateLease, FencedRead
<1> QED
  BY <1>3, <1>4, <1>5 DEF LeaseNext

LEMMA OutboxNextType ==
  ASSUME TypeOK, NEW a \in Accounts, NEW tok \in Token, OutboxNext(a, tok)
  PROVE  TypeOK'
<1>1. now \in Nat
  BY StoreAssumption DEF TypeOK
<1>2. CASE \E trigger \in ManualTriggers, response \in Responses :
             PrepareOutboundBatch(a, tok, trigger, response)
  BY <1>2, PrepareOutboundBatchType
<1>3. ASSUME NEW trigger \in Triggers, NEW i \in Ordinals,
             NEW transition \in SegmentTransition, NEW platformId \in IdsFor(transition),
             TransitionSegment(a, tok, trigger, i, transition, platformId, NoObservation)
      PROVE  TypeOK'
  <2>1. platformId \in PlatformIds \cup {NoPlatformId}
    BY DEF IdsFor
  <2>2. NoObservation \in [digest : Digests \cup {NoDigest}, capability : Capability]
    BY DEF NoObservation, Capability
  <2> QED
    BY <1>3, <2>1, <2>2, TransitionSegmentType
<1>4. ASSUME NEW trigger \in Triggers, NEW i \in Ordinals, NEW transition, NEW platformId,
             RepeatTransition(a, tok, trigger, i, transition, platformId)
      PROVE  TypeOK'
  <2>1. LeaseType'
    BY <1>1, <1>4, ObserveType DEF TypeOK, RepeatTransition
  <2> QED
    BY <1>4, <2>1 DEF RepeatTransition, TypeOK, OutboxType, ScopesType, InboundType,
                      ProtoType, outVars, inVars
<1>5. ASSUME NEW trigger \in Triggers, NEW i \in Ordinals, PersistOutcome(a, tok, trigger, i)
      PROVE  TypeOK'
  BY <1>5, PersistOutcomeType
<1>6. CASE \E page \in EvidencePage(a) : ReconcileSentReceipts(a, tok, page)
  BY <1>6, ReconcileSentReceiptsType
<1>7. ASSUME NEW digest \in Digests, RestoreSendObservation(a, tok, digest)
      PROVE  TypeOK'
  <2>1. LeaseType'
    BY <1>1, <1>7, ObserveType DEF TypeOK, RestoreSendObservation
  <2>2. ProtoType'
    BY <1>7 DEF RestoreSendObservation, TypeOK, ProtoType, Capability, outVars
  <2> QED
    BY <1>7, <2>1, <2>2 DEF RestoreSendObservation, TypeOK, OutboxType, ScopesType,
                            InboundType, outVars, inVars
<1> QED
  BY <1>2, <1>3, <1>4, <1>5, <1>6, <1>7 DEF OutboxNext

LEMMA InboundNextType ==
  ASSUME TypeOK, NEW a \in Accounts, NEW tok \in Token, InboundNext(a, tok)
  PROVE  TypeOK'
<1>1. now \in Nat
  BY StoreAssumption DEF TypeOK
<1>2. ASSUME NEW stream \in Streams, NEW generation \in 1..MaxGeneration,
             NEW cursor \in 0..MaxCheckpoint, NEW events \in SUBSET Events,
             NEW drafts \in [events -> Hashes],
             RecordInboundPage(a, tok, stream, generation, cursor, drafts)
      PROVE  TypeOK'
  BY <1>2, RecordInboundPageType
<1>3. ASSUME NEW generation \in LiveGenerations, EnsureInboundLiveStart(a, tok, generation)
      PROVE  TypeOK'
  <2>1. LeaseType'
    BY <1>1, <1>3, ObserveType DEF TypeOK, EnsureInboundLiveStart
  <2>2. InboundType'
    BY <1>1, <1>3, StoreAssumption DEF EnsureInboundLiveStart, TypeOK, InboundType
  <2> QED
    BY <1>3, <2>1, <2>2 DEF EnsureInboundLiveStart, TypeOK, OutboxType, ScopesType,
                            ProtoType, outVars
<1>4. ASSUME NEW key \in InboundKey,
             \/ MarkInboundProcessed(a, tok, key)
             \/ \E hash \in Hashes : ConsumeInboundAgain(a, tok, key, hash)
      PROVE  TypeOK'
  <2>1. /\ ConsumeReceipt(a, key)
        /\ Observe(a)
        /\ UNCHANGED <<now, outVars, decided, checkpoint, liveStart, claims, claimLog, proto>>
    BY <1>4 DEF MarkInboundProcessed, ConsumeInboundAgain, ConsumeReceipt
  <2>2. LeaseType'
    BY <1>1, <2>1, ObserveType DEF TypeOK
  <2>3. InboundType'
    BY <2>1, ConsumeReceiptType DEF TypeOK, InboundType
  <2> QED
    BY <2>1, <2>2, <2>3 DEF TypeOK, OutboxType, ScopesType, ProtoType, outVars
<1>5. ASSUME NEW key \in InboundKey, NEW hash \in Hashes, NEW reply \in Reply \cup {NoReply},
             NEW policy \in Policies \cup {NoPolicy},
             ConsumeInbound(a, tok, key, hash, reply, policy)
      PROVE  TypeOK'
  BY <1>5, ConsumeInboundType
<1> QED
  BY <1>2, <1>3, <1>4, <1>5 DEF InboundNext

LEMMA NextType == TypeOK /\ [Next]_vars => TypeOK'
<1> SUFFICES ASSUME TypeOK, [Next]_vars
             PROVE  TypeOK'
  OBVIOUS
<1>1. CASE ClockNext
  <2>1. now' \in 0..MaxTime /\ UNCHANGED <<lease, outVars, inVars, proto>>
    BY <1>1, StoreAssumption DEF ClockNext, Tick, ClockSetBack, TypeOK
  <2>2. InboundType'
    BY <2>1 DEF TypeOK, InboundType, inVars
  <2> QED
    BY <2>1, <2>2 DEF TypeOK, LeaseType, OutboxType, ScopesType, ProtoType, outVars
<1>2. ASSUME NEW a \in Accounts, LeaseNext(a)
      PROVE  TypeOK'
  BY <1>2, LeaseNextType
<1>3. ASSUME NEW a \in Accounts, NEW tok \in Token, OutboxNext(a, tok)
      PROVE  TypeOK'
  BY <1>3, OutboxNextType
<1>4. ASSUME NEW a \in Accounts, NEW tok \in Token, InboundNext(a, tok)
      PROVE  TypeOK'
  BY <1>4, InboundNextType
<1>5. CASE UNCHANGED vars
  BY <1>5 DEF vars, TypeOK, LeaseType, OutboxType, ScopesType, InboundType, ProtoType
<1> QED
  BY <1>1, <1>2, <1>3, <1>4, <1>5 DEF Next

(* Every row of the store keeps the shape its columns declare, whatever    *)
(* the callers, their tokens and the clock do.                             *)
THEOREM StoreTypeCorrect == Spec => []TypeOK
BY InitType, NextType, PTL DEF Spec

(***************************************************************************)
(* The outbox half of the safety: what a step may do to a batch            *)
(* (OutboxStep), and the invariants and step properties that follow.       *)
(***************************************************************************)

(* The four things that can happen to the batch of trigger t.              *)
Kept(a, t) ==
  \/ outbox'[a][t] = outbox[a][t]
  \/ /\ outbox[a][t] # NoBatch
     /\ outbox'[a][t] # NoBatch
     /\ outbox'[a][t].segs = outbox[a][t].segs
     /\ outbox'[a][t].status = outbox[a][t].status

Created(a, t) ==
  /\ outbox[a][t] = NoBatch
  /\ outbox'[a][t] # NoBatch
  /\ outbox'[a][t].status = "prepared"
  /\ DOMAIN outbox'[a][t].segs # {}
  /\ \A i \in DOMAIN outbox'[a][t].segs :
       outbox'[a][t].segs[i] = NewSegment(lease[a].epoch, now)

(* By one of the transitions of T.                                         *)
Applied(T, a, before, after) ==
  \E transition \in T, platformId \in PlatformIds \cup {NoPlatformId}, at \in Nat :
    /\ ValidTransition(before.status, transition)
    /\ transition = "confirm" => platformId \in PlatformIds
    /\ after = ApplyTransition(before, transition, platformId, lease[a].epoch, at)

Rewritten(T, a, t) ==
  /\ outbox[a][t] # NoBatch
  /\ outbox'[a][t] # NoBatch
  /\ DOMAIN outbox'[a][t].segs = DOMAIN outbox[a][t].segs
  /\ outbox'[a][t].status = DeriveBatchStatus(outbox'[a][t].segs)
  /\ \A i \in DOMAIN outbox[a][t].segs :
       \/ outbox'[a][t].segs[i] = outbox[a][t].segs[i]
       \/ Applied(T, a, outbox[a][t].segs[i], outbox'[a][t].segs[i])

Recovered(a, t) ==
  /\ lease'[a].epoch > lease[a].epoch
  /\ outbox'[a][t] = RecoverBatch(outbox[a][t], lease'[a].epoch)

BatchStep(T, a, t) ==
  \/ /\ lease'[a].epoch = lease[a].epoch
     /\ Kept(a, t) \/ Created(a, t) \/ Rewritten(T, a, t)
  \/ Recovered(a, t)

OutboxStep(T) == \A a \in Accounts, t \in Triggers : BatchStep(T, a, t)

-----------------------------------------------------------------------------
LEMMA UnchangedOutboxStep ==
  ASSUME TypeOK, outbox' = outbox, \A a \in Accounts : lease'[a].epoch = lease[a].epoch
  PROVE  OutboxStep({})
BY DEF OutboxStep, BatchStep, Kept

LEMMA ObserveEpoch ==
  ASSUME TypeOK, NEW a \in Accounts, Observe(a)
  PROVE  \A b \in Accounts : lease'[b].epoch = lease[b].epoch
BY DEF Observe, TypeOK, LeaseType, Lease

LEMMA ObservedStep ==
  ASSUME TypeOK, NEW a \in Accounts, Observe(a), outbox' = outbox
  PROVE  OutboxStep({})
BY ObserveEpoch, UnchangedOutboxStep

(* What CommitBatches makes of one batch.                                  *)
LEMMA CommitBatchesEffect ==
  ASSUME TypeOK, NEW a \in Accounts, NEW batches,
         \A t \in Triggers : batches[t] = NoBatch \/ Stored(batches[t]),
         NEW touched \in SUBSET Triggers, \A t \in touched : batches[t] # NoBatch,
         CommitBatches(a, batches, touched)
  PROVE  /\ \A b \in Accounts \ {a}, t \in Triggers : outbox'[b][t] = outbox[b][t]
         /\ \A t \in Triggers : \/ outbox'[a][t] = batches[t]
                                \/ /\ batches[t] # NoBatch
                                   /\ outbox'[a][t] # NoBatch
                                   /\ outbox'[a][t].segs = batches[t].segs
                                   /\ outbox'[a][t].status = batches[t].status
<1> DEFINE settling == Settling(batches, touched)
           stored(t) == IF t \in settling THEN [batches[t] EXCEPT !.settled = TRUE]
                        ELSE batches[t]
<1>1. outbox' = [outbox EXCEPT ![a] = [t \in Triggers |-> stored(t)]]
  BY DEF CommitBatches
<1>2. ASSUME NEW t \in Triggers
      PROVE  outbox'[a][t] = stored(t)
  BY <1>1 DEF TypeOK, OutboxType
<1>3. \A b \in Accounts \ {a}, t \in Triggers : outbox'[b][t] = outbox[b][t]
  BY <1>1 DEF TypeOK, OutboxType
<1>4. ASSUME NEW t \in settling
      PROVE  /\ t \in Triggers
             /\ batches[t] # NoBatch
             /\ stored(t) # NoBatch
             /\ stored(t).segs = batches[t].segs
             /\ stored(t).status = batches[t].status
  <2>1. t \in Triggers /\ batches[t] # NoBatch /\ Stored(batches[t])
    BY DEF Settling
  <2>2. IsBatch([batches[t] EXCEPT !.settled = TRUE])
    BY <2>1 DEF Stored, IsBatch, BatchOf
  <2> QED
    BY <2>1, <2>2, NoBatchAssumption DEF Stored, IsBatch, BatchOf
<1> QED
  BY <1>2, <1>3, <1>4

LEMMA WithSegmentsFields ==
  ASSUME NEW batch, Stored(batch), NEW segs
  PROVE  /\ WithSegments(batch, segs).segs = segs
         /\ WithSegments(batch, segs).status = DeriveBatchStatus(segs)
BY DEF Stored, IsBatch, BatchOf, WithSegments

(* Only segment i of the batch of trigger t is changed.                    *)
OnlyTouches(a, t, i) ==
  /\ outbox[a][t] # NoBatch /\ outbox'[a][t] # NoBatch
  /\ i \in DOMAIN outbox[a][t].segs
  /\ DOMAIN outbox'[a][t].segs = DOMAIN outbox[a][t].segs
  /\ \A j \in DOMAIN outbox[a][t].segs \ {i} :
       outbox'[a][t].segs[j] = outbox[a][t].segs[j]
  /\ \A b \in Accounts, u \in Triggers : ~(b = a /\ u = t) => Kept(b, u)

LEMMA TransitionEffect ==
  ASSUME TypeOK, NEW a \in Accounts, NEW tok \in Token, NEW trigger \in Triggers,
         NEW i \in Ordinals, NEW transition \in SegmentTransition,
         NEW platformId \in IdsFor(transition),
         NEW observation,
         TransitionSegment(a, tok, trigger, i, transition, platformId, observation)
  PROVE  /\ OutboxStep({transition})
         /\ OnlyTouches(a, trigger, i)
         /\ outbox[a][trigger].segs[i].status \in SourceStatuses[transition]
         /\ outbox'[a][trigger].segs[i] =
              ApplyTransition(outbox[a][trigger].segs[i], transition, platformId, tok.epoch, now)
<1> DEFINE batch == outbox[a][trigger]
           next  == ApplyTransition(batch.segs[i], transition, platformId, tok.epoch, now)
           segs  == [batch.segs EXCEPT ![i] = next]
           batches == [outbox[a] EXCEPT ![trigger] = WithSegments(batch, segs)]
<1>1. /\ now \in Nat /\ now <= MaxTime /\ tok.epoch \in Nat
      /\ platformId \in PlatformIds \cup {NoPlatformId}
      /\ transition = "confirm" => platformId \in PlatformIds
  BY StoreAssumption DEF TypeOK, Token, Epochs, IdsFor
<1>2. /\ batch # NoBatch /\ i \in DOMAIN batch.segs
      /\ tok.epoch = lease[a].epoch
      /\ ValidTransition(batch.segs[i].status, transition)
      /\ CommitBatches(a, batches, {trigger})
      /\ Observe(a)
  BY DEF TransitionSegment, Fenced
<1>3. Stored(batch)
  BY <1>2 DEF TypeOK, OutboxType
<1>4. PICK n \in Ordinals : batch.segs \in [1..n -> Segment]
  BY <1>3 DEF Stored, IsBatch, BatchOf
<1>5. /\ next \in Segment /\ next.updated <= MaxTime
      /\ next.status = TargetStatus[transition]
  <2>1. batch.segs[i] \in Segment
    BY <1>2, <1>4
  <2>2. next \in Segment
    BY <1>1, <2>1, ApplyTransitionType
  <2> QED
    BY <1>1, <2>2 DEF ApplyTransition
<1>6. /\ DOMAIN segs = DOMAIN batch.segs
      /\ segs = [j \in DOMAIN segs |-> segs[j]]
      /\ \A j \in DOMAIN segs : segs[j] \in Segment /\ segs[j].updated <= MaxTime
      /\ segs[i] = next
      /\ \A j \in DOMAIN segs \ {i} : segs[j] = batch.segs[j]
  <2> HIDE DEF next
  <2> QED
    BY <1>2, <1>3, <1>4, <1>5 DEF Stored
<1>7. Applied({transition}, a, batch.segs[i], next)
  BY <1>1, <1>2 DEF Applied
<1> HIDE DEF segs, next, batch
<1>8. Stored(WithSegments(batch, segs))
  BY <1>3, <1>6, WithSegmentsStored
<1>9. /\ batches[trigger] = WithSegments(batch, segs)
      /\ \A t \in Triggers \ {trigger} : batches[t] = outbox[a][t]
  BY DEF TypeOK, OutboxType
<1>10. /\ batches[trigger] # NoBatch
       /\ batches[trigger].segs = segs
       /\ batches[trigger].status = DeriveBatchStatus(segs)
  BY <1>3, <1>8, <1>9, NoBatchAssumption, WithSegmentsFields DEF Stored
<1>11. \A t \in Triggers : batches[t] = NoBatch \/ Stored(batches[t])
  BY <1>8, <1>9 DEF TypeOK, OutboxType
<1> HIDE DEF batches
<1>12. /\ \A b \in Accounts \ {a}, t \in Triggers : outbox'[b][t] = outbox[b][t]
       /\ \A t \in Triggers : \/ outbox'[a][t] = batches[t]
                              \/ /\ batches[t] # NoBatch
                                 /\ outbox'[a][t] # NoBatch
                                 /\ outbox'[a][t].segs = batches[t].segs
                                 /\ outbox'[a][t].status = batches[t].status
  BY <1>2, <1>10, <1>11, CommitBatchesEffect
<1>13. ASSUME NEW t \in Triggers \ {trigger}
       PROVE  Kept(a, t)
  BY <1>9, <1>12 DEF Kept
<1>14. Rewritten({transition}, a, trigger)
  BY <1>2, <1>6, <1>7, <1>10, <1>12 DEF Rewritten, batch
<1>15. \A b \in Accounts : lease'[b].epoch = lease[b].epoch
  BY <1>2, ObserveEpoch
<1>16. OutboxStep({transition})
  BY <1>12, <1>13, <1>14, <1>15 DEF OutboxStep, BatchStep, Kept
<1>17. OnlyTouches(a, trigger, i)
  BY <1>2, <1>6, <1>10, <1>12, <1>13 DEF OnlyTouches, Kept, batch
<1>18. outbox'[a][trigger].segs[i] = next
  BY <1>6, <1>10, <1>12
<1> QED
  BY <1>2, <1>16, <1>17, <1>18 DEF batch, next, ValidTransition

LEMMA TransitionStep ==
  ASSUME TypeOK, NEW a \in Accounts, NEW tok \in Token, NEW trigger \in Triggers,
         NEW i \in Ordinals, NEW transition \in SegmentTransition,
         NEW platformId \in IdsFor(transition),
         NEW observation,
         TransitionSegment(a, tok, trigger, i, transition, platformId, observation)
  PROVE  /\ OutboxStep({transition})
         /\ outbox'[a][trigger] # NoBatch
         /\ i \in DOMAIN outbox'[a][trigger].segs
         /\ outbox'[a][trigger].segs[i].status = TargetStatus[transition]
<1>1. /\ OutboxStep({transition})
      /\ OnlyTouches(a, trigger, i)
      /\ outbox'[a][trigger].segs[i] =
           ApplyTransition(outbox[a][trigger].segs[i], transition, platformId, tok.epoch, now)
  BY TransitionEffect
<1> QED
  BY <1>1 DEF OnlyTouches, ApplyTransition

(* What a page of evidence does to a segment.                              *)
ByEvidence(a, page, t, i) ==
  \/ outbox'[a][t].segs[i] = outbox[a][t].segs[i]
  \/ /\ <<t, i>> \in DOMAIN page
     /\ outbox[a][t].segs[i].status \in {"sending", "uncertain"}
     /\ outbox'[a][t].segs[i].status = "confirmed"
     /\ outbox'[a][t].segs[i].platformId = page[<<t, i>>].platformId

LEMMA ReconcileEffect ==
  ASSUME TypeOK, NEW a \in Accounts, NEW tok \in Token, NEW page \in EvidencePage(a),
         ReconcileSentReceipts(a, tok, page)
  PROVE  /\ OutboxStep({"confirm"})
         /\ \A b \in Accounts \ {a}, t \in Triggers : outbox'[b][t] = outbox[b][t]
         /\ \A t \in Triggers : \/ Kept(a, t)
                                \/ /\ Rewritten({"confirm"}, a, t)
                                   /\ \A i \in DOMAIN outbox[a][t].segs :
                                        ByEvidence(a, page, t, i)
<1> DEFINE hits    == {id \in DOMAIN page : Settles(a, id, page[id])}
           touched == {id[1] : id \in hits}
           settled(t, i) ==
             IF <<t, i>> \notin hits THEN outbox[a][t].segs[i]
             ELSE ApplyTransition(outbox[a][t].segs[i], "confirm",
                    page[<<t, i>>].platformId, tok.epoch,
                    Earlier(page[<<t, i>>].sentAt, now))
           segs(t) == [i \in DOMAIN outbox[a][t].segs |-> settled(t, i)]
           batches == [t \in Triggers |->
                         IF t \notin touched THEN outbox[a][t]
                         ELSE WithSegments(outbox[a][t], segs(t))]
<1>1. /\ now \in Nat /\ now <= MaxTime /\ tok.epoch \in Nat
      /\ tok.epoch = lease[a].epoch
      /\ Observe(a)
      /\ CommitBatches(a, batches, touched)
  BY StoreAssumption DEF TypeOK, Token, Epochs, ReconcileSentReceipts, Fenced
<1>2. \A id \in DOMAIN page :
        /\ id \in SegmentId(a)
        /\ page[id].platformId \in PlatformIds
        /\ page[id].sentAt \in Nat
  <2>1. PICK ids \in SUBSET SegmentId(a) : page \in [ids -> Evidence]
    BY DEF EvidencePage
  <2>2. ASSUME NEW id \in ids
        PROVE  page[id].platformId \in PlatformIds /\ page[id].sentAt \in Nat
    <3>1. page[id] \in Evidence
      BY <2>1
    <3> QED
      BY <3>1, StoreAssumption DEF Evidence
  <2> QED
    BY <2>1, <2>2
<1>3. touched \in SUBSET Triggers /\ \A t \in touched : outbox[a][t] # NoBatch
  BY <1>2 DEF SegmentId
<1>4. ASSUME NEW t \in touched, NEW i \in DOMAIN outbox[a][t].segs
      PROVE  /\ settled(t, i) \in Segment /\ settled(t, i).updated <= MaxTime
             /\ \/ settled(t, i) = outbox[a][t].segs[i]
                \/ /\ Applied({"confirm"}, a, outbox[a][t].segs[i], settled(t, i))
                   /\ <<t, i>> \in DOMAIN page
                   /\ outbox[a][t].segs[i].status \in {"sending", "uncertain"}
                   /\ settled(t, i).status = "confirmed"
                   /\ settled(t, i).platformId = page[<<t, i>>].platformId
  <2>1. outbox[a][t].segs[i] \in Segment /\ outbox[a][t].segs[i].updated <= MaxTime
    BY <1>3 DEF TypeOK, OutboxType, Stored, IsBatch, BatchOf
  <2>2. CASE <<t, i>> \notin hits
    BY <2>1, <2>2
  <2>3. CASE <<t, i>> \in hits
    <3> DEFINE at == Earlier(page[<<t, i>>].sentAt, now)
               platformId == page[<<t, i>>].platformId
    <3>1. at \in Nat /\ at <= MaxTime
      BY <1>1, <1>2, <2>3, StoreAssumption DEF Earlier
    <3>2. "confirm" \in SegmentTransition
      BY DEF SegmentTransition
    <3>3. platformId \in PlatformIds
      BY <1>2, <2>3
    <3>4. ValidTransition(outbox[a][t].segs[i].status, "confirm")
      BY <2>3 DEF Settles, ValidTransition, SourceStatuses
    <3>5. settled(t, i) =
            ApplyTransition(outbox[a][t].segs[i], "confirm", platformId, tok.epoch, at)
      BY <2>3
    <3>6. <<t, i>> \in DOMAIN page
      BY <2>3
    <3>7. outbox[a][t].segs[i].status \in {"sending", "uncertain"}
      BY <2>3 DEF Settles
    <3>8. platformId = page[<<t, i>>].platformId
      OBVIOUS
    <3> HIDE DEF at, hits, platformId, settled
    <3>9. settled(t, i) \in Segment
      BY <1>1, <2>1, <3>1, <3>2, <3>3, <3>5, ApplyTransitionType
    <3>10. settled(t, i).updated = at
      BY <3>5 DEF ApplyTransition
    <3>11. Applied({"confirm"}, a, outbox[a][t].segs[i], settled(t, i))
      BY <1>1, <3>1, <3>2, <3>3, <3>4, <3>5 DEF Applied
    <3>12. settled(t, i).status = "confirmed" /\ settled(t, i).platformId = platformId
      BY <3>5 DEF ApplyTransition, TargetStatus, StartTransitions
    <3> QED
      BY <3>1, <3>9, <3>10, <3>11, <3>6, <3>7, <3>8, <3>12
  <2> QED
    BY <2>2, <2>3
<1>5. ASSUME NEW t \in touched
      PROVE  /\ Stored(outbox[a][t])
             /\ DOMAIN segs(t) = DOMAIN outbox[a][t].segs
             /\ segs(t) = [i \in DOMAIN segs(t) |-> segs(t)[i]]
             /\ \A i \in DOMAIN segs(t) :
                  /\ segs(t)[i] \in Segment /\ segs(t)[i].updated <= MaxTime
                  /\ \/ segs(t)[i] = outbox[a][t].segs[i]
                     \/ /\ Applied({"confirm"}, a, outbox[a][t].segs[i], segs(t)[i])
                        /\ <<t, i>> \in DOMAIN page
                        /\ outbox[a][t].segs[i].status \in {"sending", "uncertain"}
                        /\ segs(t)[i].status = "confirmed"
                        /\ segs(t)[i].platformId = page[<<t, i>>].platformId
  <2> HIDE DEF settled, touched
  <2> QED
    BY <1>3, <1>4 DEF TypeOK, OutboxType
<1> HIDE DEF segs, touched
<1>6. ASSUME NEW t \in touched
      PROVE  /\ Stored(WithSegments(outbox[a][t], segs(t)))
             /\ WithSegments(outbox[a][t], segs(t)).segs = segs(t)
             /\ WithSegments(outbox[a][t], segs(t)).status = DeriveBatchStatus(segs(t))
  <2>1. /\ Stored(outbox[a][t])
        /\ DOMAIN segs(t) = DOMAIN outbox[a][t].segs
        /\ segs(t) = [i \in DOMAIN segs(t) |-> segs(t)[i]]
        /\ \A i \in DOMAIN segs(t) : segs(t)[i] \in Segment /\ segs(t)[i].updated <= MaxTime
    BY <1>5
  <2> QED
    BY <2>1, WithSegmentsStored, WithSegmentsFields
<1>7. \A t \in touched : /\ batches[t] = WithSegments(outbox[a][t], segs(t))
                          /\ batches[t] # NoBatch
  BY <1>3, <1>6, NoBatchAssumption DEF Stored
<1>8. \A t \in Triggers \ touched : batches[t] = outbox[a][t]
  OBVIOUS
<1>9. \A t \in Triggers : batches[t] = NoBatch \/ Stored(batches[t])
  BY <1>6, <1>7, <1>8 DEF TypeOK, OutboxType
<1> HIDE DEF batches
<1>10. /\ \A b \in Accounts \ {a}, t \in Triggers : outbox'[b][t] = outbox[b][t]
       /\ \A t \in Triggers : \/ outbox'[a][t] = batches[t]
                              \/ /\ batches[t] # NoBatch
                                 /\ outbox'[a][t] # NoBatch
                                 /\ outbox'[a][t].segs = batches[t].segs
                                 /\ outbox'[a][t].status = batches[t].status
  BY <1>1, <1>3, <1>7, <1>9, CommitBatchesEffect
<1>11. ASSUME NEW t \in Triggers \ touched
       PROVE  Kept(a, t)
  BY <1>8, <1>10 DEF Kept
<1>12. ASSUME NEW t \in touched
       PROVE  /\ Rewritten({"confirm"}, a, t)
              /\ \A i \in DOMAIN outbox[a][t].segs : ByEvidence(a, page, t, i)
  <2>1. /\ outbox[a][t] # NoBatch
        /\ outbox'[a][t] # NoBatch
        /\ outbox'[a][t].segs = segs(t)
        /\ outbox'[a][t].status = DeriveBatchStatus(segs(t))
    BY <1>3, <1>6, <1>7, <1>10
  <2>2. Rewritten({"confirm"}, a, t)
    BY <1>5, <2>1 DEF Rewritten
  <2>3. \A i \in DOMAIN outbox[a][t].segs : ByEvidence(a, page, t, i)
    BY <1>5, <2>1 DEF ByEvidence
  <2> QED
    BY <2>2, <2>3
<1>13. \A b \in Accounts : lease'[b].epoch = lease[b].epoch
  BY <1>1, ObserveEpoch
<1> QED
  BY <1>10, <1>11, <1>12, <1>13 DEF OutboxStep, BatchStep, Kept

LEMMA ReconcileStep ==
  ASSUME TypeOK, NEW a \in Accounts, NEW tok \in Token, NEW page \in EvidencePage(a),
         ReconcileSentReceipts(a, tok, page)
  PROVE  OutboxStep({"confirm"})
BY ReconcileEffect

LEMMA InstallStep ==
  ASSUME TypeOK, NEW a \in Accounts, NEW owner \in Owners, NEW epoch \in Epochs,
         NEW until \in LeaseEnds, InstallLease(a, owner, epoch, until)
  PROVE  OutboxStep({})
<1>1. /\ lease'[a].epoch = epoch
      /\ epoch > lease[a].epoch
      /\ \A b \in Accounts \ {a} : lease'[b] = lease[b]
  BY DEF InstallLease, TypeOK, LeaseType
<1>2. /\ \A t \in Triggers : outbox'[a][t] = RecoverBatch(outbox[a][t], epoch)
      /\ \A b \in Accounts \ {a}, t \in Triggers : outbox'[b][t] = outbox[b][t]
  BY DEF InstallLease, TypeOK, OutboxType
<1>3. \A t \in Triggers : Recovered(a, t)
  BY <1>1, <1>2 DEF Recovered
<1> QED
  BY <1>1, <1>2, <1>3 DEF OutboxStep, BatchStep, Kept

LEMMA NewBatchFields ==
  ASSUME NEW a \in Accounts, NEW tok \in Token, NEW response \in Responses,
         now \in 0..MaxTime
  PROVE  LET b == NewBatch(a, tok, response)
         IN  /\ b # NoBatch
             /\ b.status = "prepared"
             /\ DOMAIN b.segs # {}
             /\ \A i \in DOMAIN b.segs : b.segs[i] = NewSegment(tok.epoch, now)
<1>1. NewBatch(a, tok, response) # NoBatch
  BY NewBatchStored, NoBatchAssumption DEF Stored
<1>2. 1 \in 1..SegmentCount[response]
  BY StoreAssumption
<1> QED
  BY <1>1, <1>2 DEF NewBatch

LEMMA PrepareStep ==
  ASSUME TypeOK, NEW a \in Accounts, NEW tok \in Token,
         NEW trigger \in ManualTriggers, NEW response \in Responses,
         PrepareOutboundBatch(a, tok, trigger, response)
  PROVE  OutboxStep({})
<1>1. \A b \in Accounts : lease'[b].epoch = lease[b].epoch
  BY ObserveEpoch DEF PrepareOutboundBatch
<1>2. CASE UNCHANGED outbox
  BY <1>1, <1>2, UnchangedOutboxStep
<1>3. CASE /\ outbox[a][trigger] = NoBatch
           /\ outbox' = [outbox EXCEPT ![a][trigger] = NewBatch(a, tok, response)]
  <2>1. trigger \in Triggers /\ now \in 0..MaxTime /\ tok.epoch = lease[a].epoch
    BY DEF Triggers, TypeOK, PrepareOutboundBatch, Fenced
  <2>2. /\ outbox'[a][trigger] = NewBatch(a, tok, response)
        /\ \A b \in Accounts, t \in Triggers :
             ~(b = a /\ t = trigger) => outbox'[b][t] = outbox[b][t]
    BY <1>3, <2>1 DEF TypeOK, OutboxType
  <2>3. Created(a, trigger)
    BY <1>3, <2>1, <2>2, NewBatchFields DEF Created
  <2> QED
    BY <1>1, <2>1, <2>2, <2>3 DEF OutboxStep, BatchStep, Kept
<1> QED
  BY <1>2, <1>3 DEF PrepareOutboundBatch

LEMMA ConsumeStep ==
  ASSUME TypeOK, NEW a \in Accounts, NEW tok \in Token, NEW key \in InboundKey,
         NEW hash \in Hashes, NEW reply \in Reply \cup {NoReply},
         NEW policy \in Policies \cup {NoPolicy},
         ConsumeInbound(a, tok, key, hash, reply, policy)
  PROVE  OutboxStep({})
<1> DEFINE event == key.event
           plan  == Coalesce(a, reply, policy)
           fresh == plan # NoReply /\ outbox[a][event] = NoBatch
           batch == IF fresh THEN NewBatch(a, tok, plan.response) ELSE outbox[a][event]
<1>1. /\ now \in 0..MaxTime /\ event \in Triggers
      /\ tok.epoch = lease[a].epoch
      /\ \A b \in Accounts : lease'[b].epoch = lease[b].epoch
  BY ObserveEpoch DEF TypeOK, InboundKey, Triggers, ConsumeInbound, Fenced
<1>2. \/ outbox' = [outbox EXCEPT ![a][event] = batch]
      \/ /\ batch # NoBatch
         /\ policy \in Policies
         /\ outbox' = [outbox EXCEPT ![a][event] = [batch EXCEPT !.policy = policy]]
      \/ UNCHANGED outbox
  BY DEF ConsumeInbound
<1>3. ASSUME fresh
      PROVE  /\ outbox[a][event] = NoBatch
             /\ batch # NoBatch
             /\ batch.status = "prepared"
             /\ DOMAIN batch.segs # {}
             /\ \A i \in DOMAIN batch.segs : batch.segs[i] = NewSegment(tok.epoch, now)
             /\ Stored(batch)
  <2>1. plan.response \in Responses
    BY <1>3 DEF Coalesce, Reply
  <2> HIDE DEF plan
  <2> QED
    BY <1>1, <1>3, <2>1, NewBatchFields, NewBatchStored
<1>4. ASSUME ~fresh
      PROVE  batch = outbox[a][event] /\ (batch = NoBatch \/ Stored(batch))
  <2> HIDE DEF fresh
  <2> QED
    BY <1>1, <1>4 DEF TypeOK, OutboxType
<1> HIDE DEF fresh, batch
<1>5. CASE outbox' = [outbox EXCEPT ![a][event] = batch]
  <2>1. /\ outbox'[a][event] = batch
        /\ \A b \in Accounts, t \in Triggers :
             ~(b = a /\ t = event) => outbox'[b][t] = outbox[b][t]
    BY <1>1, <1>5 DEF TypeOK, OutboxType
  <2>2. Created(a, event) \/ Kept(a, event)
    BY <1>1, <1>3, <1>4, <2>1 DEF Created, Kept
  <2> QED
    BY <1>1, <2>1, <2>2 DEF OutboxStep, BatchStep, Kept
<1>6. CASE /\ batch # NoBatch
           /\ policy \in Policies
           /\ outbox' = [outbox EXCEPT ![a][event] = [batch EXCEPT !.policy = policy]]
  <2> DEFINE claimed == [batch EXCEPT !.policy = policy]
  <2>1. Stored(batch)
    BY <1>3, <1>4, <1>6
  <2>2. /\ IsBatch(claimed)
        /\ claimed.segs = batch.segs
        /\ claimed.status = batch.status
    BY <1>6, <2>1 DEF Stored, IsBatch, BatchOf
  <2>3. claimed # NoBatch
    BY <2>2, NoBatchAssumption
  <2>4. outbox' = [outbox EXCEPT ![a][event] = claimed]
    BY <1>6
  <2> HIDE DEF claimed
  <2>5. /\ outbox'[a][event] = claimed
        /\ \A b \in Accounts, t \in Triggers :
             ~(b = a /\ t = event) => outbox'[b][t] = outbox[b][t]
    BY <1>1, <2>4 DEF TypeOK, OutboxType
  <2>6. Created(a, event) \/ Kept(a, event)
    BY <1>1, <1>3, <1>4, <1>6, <2>2, <2>3, <2>5 DEF Created, Kept
  <2> QED
    BY <1>1, <2>5, <2>6 DEF OutboxStep, BatchStep, Kept
<1>7. CASE UNCHANGED outbox
  BY <1>1, <1>7, UnchangedOutboxStep
<1> QED
  BY <1>2, <1>5, <1>6, <1>7

LEMMA LeaseStep ==
  ASSUME TypeOK, NEW a \in Accounts, LeaseNext(a)
  PROVE  OutboxStep({})
<1>1. ASSUME NEW owner \in Owners, NEW epoch \in Epochs, NEW until \in LeaseEnds,
             InstallLease(a, owner, epoch, until)
      PROVE  OutboxStep({})
  BY <1>1, InstallStep
<1>2. ASSUME NEW owner \in Owners, NEW until \in LeaseEnds, ExtendLease(a, owner, until)
      PROVE  OutboxStep({})
  BY <1>2, UnchangedOutboxStep DEF ExtendLease, outVars, TypeOK, LeaseType, Lease
<1>3. ASSUME NEW tok \in Token,
             ReleaseLease(a, tok) \/ InvalidateLease(a, tok) \/ FencedRead(a, tok)
      PROVE  OutboxStep({})
  BY <1>3, UnchangedOutboxStep
  DEF ReleaseLease, InvalidateLease, FencedRead, Observe, outVars, TypeOK, LeaseType, Lease
<1> QED
  BY <1>1, <1>2, <1>3 DEF LeaseNext

LEMMA InboundStep ==
  ASSUME TypeOK, NEW a \in Accounts, NEW tok \in Token, InboundNext(a, tok)
  PROVE  OutboxStep({})
<1>1. ASSUME NEW key \in InboundKey, NEW hash \in Hashes,
             NEW reply \in Reply \cup {NoReply}, NEW policy \in Policies \cup {NoPolicy},
             ConsumeInbound(a, tok, key, hash, reply, policy)
      PROVE  OutboxStep({})
  BY <1>1, ConsumeStep
<1>2. ASSUME \/ \E stream, generation, cursor, drafts :
                  RecordInboundPage(a, tok, stream, generation, cursor, drafts)
             \/ \E generation : EnsureInboundLiveStart(a, tok, generation)
             \/ \E key : MarkInboundProcessed(a, tok, key)
             \/ \E key, hash : ConsumeInboundAgain(a, tok, key, hash)
      PROVE  OutboxStep({})
  <2>1. outbox' = outbox /\ Observe(a)
    BY <1>2 DEF RecordInboundPage, EnsureInboundLiveStart, MarkInboundProcessed,
                ConsumeInboundAgain, outVars
  <2> QED
    BY <2>1, ObservedStep
<1> QED
  BY <1>1, <1>2 DEF InboundNext

LEMMA WiderStep ==
  ASSUME NEW T, NEW U, T \subseteq U, OutboxStep(T)
  PROVE  OutboxStep(U)
<1>1. ASSUME NEW a \in Accounts, NEW before, NEW after, Applied(T, a, before, after)
      PROVE  Applied(U, a, before, after)
  BY <1>1 DEF Applied
<1>2. ASSUME NEW a \in Accounts, NEW t \in Triggers, Rewritten(T, a, t)
      PROVE  Rewritten(U, a, t)
  BY <1>1, <1>2 DEF Rewritten
<1> QED
  BY <1>2 DEF OutboxStep, BatchStep

LEMMA NextStep == TypeOK /\ [Next]_vars => OutboxStep(SegmentTransition)
<1> SUFFICES ASSUME TypeOK, [Next]_vars
             PROVE  OutboxStep(SegmentTransition)
  OBVIOUS
<1>1. CASE ClockNext \/ UNCHANGED vars
  BY <1>1, UnchangedOutboxStep, WiderStep DEF ClockNext, Tick, ClockSetBack, outVars, vars
<1>2. ASSUME NEW a \in Accounts, LeaseNext(a)
      PROVE  OutboxStep(SegmentTransition)
  BY <1>2, LeaseStep, WiderStep
<1>3. ASSUME NEW a \in Accounts, NEW tok \in Token, OutboxNext(a, tok)
      PROVE  OutboxStep(SegmentTransition)
  <2>1. CASE \E trigger \in ManualTriggers, response \in Responses :
               PrepareOutboundBatch(a, tok, trigger, response)
    BY <2>1, PrepareStep, WiderStep
  <2>2. ASSUME NEW trigger \in Triggers, NEW i \in Ordinals,
               NEW transition \in SegmentTransition, NEW platformId \in IdsFor(transition),
               TransitionSegment(a, tok, trigger, i, transition, platformId, NoObservation)
        PROVE  OutboxStep(SegmentTransition)
    <3>1. OutboxStep({transition})
      BY <2>2, TransitionStep
    <3> QED
      BY <3>1, WiderStep
  <2>3. ASSUME NEW trigger \in Triggers, NEW i \in Ordinals, PersistOutcome(a, tok, trigger, i)
        PROVE  OutboxStep(SegmentTransition)
    <3>1. PICK outcome \in SenderOutcome : \E platformId \in IdsFor(outcome[1]) :
            TransitionSegment(a, tok, trigger, i, outcome[1], platformId,
              [digest |-> attempted[a][trigger][i].digest, capability |-> outcome[2]])
      BY <2>3 DEF PersistOutcome
    <3>2. outcome[1] \in SegmentTransition
      BY DEF SenderOutcome, SegmentTransition
    <3>3. PICK platformId \in IdsFor(outcome[1]) :
            TransitionSegment(a, tok, trigger, i, outcome[1], platformId,
              [digest |-> attempted[a][trigger][i].digest, capability |-> outcome[2]])
      BY <3>1
    <3>4. OutboxStep({outcome[1]})
      BY <3>2, <3>3, TransitionStep
    <3> QED
      BY <3>2, <3>4, WiderStep
  <2>4. CASE \E page \in EvidencePage(a) : ReconcileSentReceipts(a, tok, page)
    <3>1. {"confirm"} \subseteq SegmentTransition
      BY DEF SegmentTransition
    <3> QED
      BY <2>4, <3>1, ReconcileStep, WiderStep
  <2>5. ASSUME \/ \E trigger, i, transition, platformId :
                    RepeatTransition(a, tok, trigger, i, transition, platformId)
               \/ \E digest : RestoreSendObservation(a, tok, digest)
        PROVE  OutboxStep(SegmentTransition)
    <3>1. outbox' = outbox /\ Observe(a)
      BY <2>5 DEF RepeatTransition, RestoreSendObservation, outVars
    <3> QED
      BY <3>1, ObservedStep, WiderStep
  <2> QED
    BY <1>3, <2>1, <2>2, <2>3, <2>4, <2>5 DEF OutboxNext
<1>4. ASSUME NEW a \in Accounts, NEW tok \in Token, InboundNext(a, tok)
      PROVE  OutboxStep(SegmentTransition)
  BY <1>4, InboundStep, WiderStep
<1> QED
  BY <1>1, <1>2, <1>3, <1>4 DEF Next

-----------------------------------------------------------------------------
(* What follows for one batch.                                             *)

(* SendingUnderCurrentFence for one batch.                                 *)
Fencing(batch, epoch) ==
  \A i \in DOMAIN batch.segs :
    /\ batch.segs[i].fence <= epoch
    /\ batch.segs[i].status = "sending" => batch.segs[i].fence = epoch

(* ConfirmedCarriesPlatformId for one segment.                             *)
IdOfConfirmed(seg) == seg.status = "confirmed" <=> seg.platformId # NoPlatformId

LEMMA StoredSegments ==
  ASSUME OutboxType, NEW a \in Accounts, NEW t \in Triggers, outbox[a][t] # NoBatch
  PROVE  /\ Stored(outbox[a][t])
         /\ \A i \in DOMAIN outbox[a][t].segs : outbox[a][t].segs[i] \in Segment
BY DEF OutboxType, Stored, IsBatch, BatchOf

LEMMA RecoverBatchSegments ==
  ASSUME NEW batch, Stored(batch), NEW epoch \in Nat
  PROVE  LET after == RecoverBatch(batch, epoch)
         IN  /\ DOMAIN after.segs = DOMAIN batch.segs
             /\ \A i \in DOMAIN batch.segs :
                  after.segs[i] = RecoverInterrupted(batch.segs[i], epoch, now)
             /\ \/ after = batch
                \/ after.status = DeriveBatchStatus(after.segs)
<1> DEFINE segs == [i \in DOMAIN batch.segs |-> RecoverInterrupted(batch.segs[i], epoch, now)]
<1>1. /\ WithSegments(batch, segs).segs = segs
      /\ WithSegments(batch, segs).status = DeriveBatchStatus(segs)
  <2> HIDE DEF segs
  <2> QED
    BY WithSegmentsFields
<1>2. batch # NoBatch
  BY NoBatchAssumption DEF Stored
<1>3. CASE \E i \in DOMAIN batch.segs :
             batch.segs[i].status = "sending" /\ batch.segs[i].fence < epoch
  <2>1. RecoverBatch(batch, epoch) = WithSegments(batch, segs)
    BY <1>2, <1>3 DEF RecoverBatch
  <2> QED
    BY <1>1, <2>1
<1>4. CASE ~\E i \in DOMAIN batch.segs :
             batch.segs[i].status = "sending" /\ batch.segs[i].fence < epoch
  <2>1. RecoverBatch(batch, epoch) = batch
    BY <1>4 DEF RecoverBatch
  <2> QED
    BY <1>4, <2>1 DEF RecoverInterrupted
<1> QED
  BY <1>3, <1>4

LEMMA FenceNext ==
  TypeOK /\ TypeOK' /\ SendingUnderCurrentFence /\ [Next]_vars => SendingUnderCurrentFence'
<1> SUFFICES ASSUME TypeOK, TypeOK', SendingUnderCurrentFence, [Next]_vars,
                    NEW a \in Accounts, NEW t \in Triggers, outbox'[a][t] # NoBatch
             PROVE  Fencing(outbox'[a][t], lease'[a].epoch)
  BY DEF SendingUnderCurrentFence, Batches, Fencing
<1>1. BatchStep(SegmentTransition, a, t)
  BY NextStep DEF OutboxStep
<1>2. lease[a].epoch \in Nat /\ lease'[a].epoch \in Nat
  BY StoreAssumption DEF TypeOK, LeaseType, Lease
<1>3. outbox[a][t] # NoBatch => Fencing(outbox[a][t], lease[a].epoch)
  BY DEF SendingUnderCurrentFence, Batches, Fencing
<1>4. CASE lease'[a].epoch = lease[a].epoch /\ Kept(a, t)
  BY <1>3, <1>4 DEF Kept, Fencing
<1>5. CASE lease'[a].epoch = lease[a].epoch /\ Created(a, t)
  BY <1>2, <1>5 DEF Created, Fencing, NewSegment
<1>6. CASE lease'[a].epoch = lease[a].epoch /\ Rewritten(SegmentTransition, a, t)
  <2>1. ASSUME NEW before, NEW after, Applied(SegmentTransition, a, before, after)
        PROVE  after.fence = lease[a].epoch
    BY <2>1 DEF Applied, ApplyTransition
  <2> QED
    BY <1>2, <1>3, <1>6, <2>1 DEF Rewritten, Fencing
<1>7. CASE Recovered(a, t)
  <2>1. outbox[a][t] # NoBatch
    BY <1>7 DEF Recovered, RecoverBatch
  <2>2. \A i \in DOMAIN outbox[a][t].segs : outbox[a][t].segs[i] \in Segment
    BY <2>1, StoredSegments DEF TypeOK
  <2>3. /\ DOMAIN outbox'[a][t].segs = DOMAIN outbox[a][t].segs
        /\ \A i \in DOMAIN outbox[a][t].segs : outbox'[a][t].segs[i] =
             RecoverInterrupted(outbox[a][t].segs[i], lease'[a].epoch, now)
    BY <1>2, <1>7, <2>1, RecoverBatchSegments, StoredSegments DEF Recovered, TypeOK
  <2>4. ASSUME NEW i \in DOMAIN outbox[a][t].segs
        PROVE  LET after == RecoverInterrupted(outbox[a][t].segs[i], lease'[a].epoch, now)
               IN  /\ after.fence <= lease'[a].epoch
                   /\ after.status = "sending" => after.fence = lease'[a].epoch
    BY <1>2, <1>3, <1>7, <2>1, <2>2 DEF Fencing, Recovered, RecoverInterrupted, Segment
  <2> QED
    BY <2>3, <2>4 DEF Fencing
<1> QED
  BY <1>1, <1>4, <1>5, <1>6, <1>7 DEF BatchStep

(* A takeover never leaves a claim of an earlier owner open, and a stale   *)
(* token never opens one: SendingUnderCurrentFence, for any number of      *)
(* accounts, owners, epochs, batches and segments.                         *)
THEOREM FenceTheorem == Spec => []SendingUnderCurrentFence
<1>1. Init => SendingUnderCurrentFence
  BY DEF Init, SendingUnderCurrentFence, Batches
<1> QED
  BY <1>1, FenceNext, StoreTypeCorrect, PTL DEF Spec

LEMMA BatchStatusNext ==
  TypeOK /\ BatchStatusAgrees /\ [Next]_vars => BatchStatusAgrees'
<1> SUFFICES ASSUME TypeOK, BatchStatusAgrees, [Next]_vars,
                    NEW a \in Accounts, NEW t \in Triggers, outbox'[a][t] # NoBatch
             PROVE  outbox'[a][t].status = DeriveBatchStatus(outbox'[a][t].segs)
  BY DEF BatchStatusAgrees, Batches
<1>1. BatchStep(SegmentTransition, a, t)
  BY NextStep DEF OutboxStep
<1>2. outbox[a][t] # NoBatch => outbox[a][t].status = DeriveBatchStatus(outbox[a][t].segs)
  BY DEF BatchStatusAgrees, Batches
<1>3. CASE Kept(a, t)
  BY <1>2, <1>3 DEF Kept
<1>4. CASE Created(a, t)
  <2>1. StatusesOf(outbox'[a][t].segs) = {"prepared"}
    BY <1>4 DEF Created, StatusesOf, NewSegment
  <2>2. DeriveBatchStatus(outbox'[a][t].segs) = "prepared"
    BY <2>1 DEF DeriveBatchStatus
  <2> QED
    BY <1>4, <2>2 DEF Created
<1>5. CASE Rewritten(SegmentTransition, a, t)
  BY <1>5 DEF Rewritten
<1>6. CASE Recovered(a, t)
  <2>1. outbox[a][t] # NoBatch
    BY <1>6 DEF Recovered, RecoverBatch
  <2>2. lease'[a].epoch \in Nat
    BY NextType, StoreAssumption DEF TypeOK, LeaseType, Lease
  <2> QED
    BY <1>2, <1>6, <2>1, <2>2, StoredSegments, RecoverBatchSegments DEF Recovered, TypeOK
<1> QED
  BY <1>1, <1>3, <1>4, <1>5, <1>6 DEF BatchStep

(* The status column of a batch agrees with its segments in every state,   *)
(* for any number of segments: BatchStatusAgrees.                          *)
THEOREM BatchStatusTheorem == Spec => []BatchStatusAgrees
<1>1. Init => BatchStatusAgrees
  BY DEF Init, BatchStatusAgrees, Batches
<1> QED
  BY <1>1, BatchStatusNext, StoreTypeCorrect, PTL DEF Spec

LEMMA ConfirmedIdNext ==
  TypeOK /\ ConfirmedCarriesPlatformId /\ [Next]_vars => ConfirmedCarriesPlatformId'
<1> SUFFICES ASSUME TypeOK, ConfirmedCarriesPlatformId, [Next]_vars,
                    NEW a \in Accounts, NEW t \in Triggers, outbox'[a][t] # NoBatch,
                    NEW i \in DOMAIN outbox'[a][t].segs
             PROVE  IdOfConfirmed(outbox'[a][t].segs[i])
  BY DEF ConfirmedCarriesPlatformId, Batches, IdOfConfirmed
<1>1. BatchStep(SegmentTransition, a, t)
  BY NextStep DEF OutboxStep
<1>2. \A j \in DOMAIN outbox[a][t].segs :
        outbox[a][t] # NoBatch => IdOfConfirmed(outbox[a][t].segs[j])
  BY DEF ConfirmedCarriesPlatformId, Batches, IdOfConfirmed
<1>3. CASE Kept(a, t)
  BY <1>2, <1>3 DEF Kept
<1>4. CASE Created(a, t)
  BY <1>4 DEF Created, IdOfConfirmed, NewSegment
<1>5. CASE Rewritten(SegmentTransition, a, t)
  <2>1. outbox[a][t].segs[i] \in Segment /\ IdOfConfirmed(outbox[a][t].segs[i])
    BY <1>2, <1>5, StoredSegments DEF Rewritten, TypeOK
  <2>2. ASSUME Applied(SegmentTransition, a, outbox[a][t].segs[i], outbox'[a][t].segs[i])
        PROVE  IdOfConfirmed(outbox'[a][t].segs[i])
    BY <2>1, <2>2, NoPlatformIdAssumption
    DEF Applied, ApplyTransition, IdOfConfirmed, ValidTransition, SourceStatuses,
        TargetStatus, SegmentTransition, StartTransitions
  <2> QED
    BY <1>5, <2>1, <2>2 DEF Rewritten
<1>6. CASE Recovered(a, t)
  <2>1. outbox[a][t] # NoBatch
    BY <1>6 DEF Recovered, RecoverBatch
  <2>2. lease'[a].epoch \in Nat
    BY NextType, StoreAssumption DEF TypeOK, LeaseType, Lease
  <2>3. /\ i \in DOMAIN outbox[a][t].segs
        /\ outbox'[a][t].segs[i] =
             RecoverInterrupted(outbox[a][t].segs[i], lease'[a].epoch, now)
    BY <1>6, <2>1, <2>2, StoredSegments, RecoverBatchSegments DEF Recovered, TypeOK
  <2>4. outbox[a][t].segs[i] \in Segment
    BY <2>1, <2>3, StoredSegments DEF TypeOK
  <2> QED
    BY <1>2, <2>1, <2>3, <2>4 DEF IdOfConfirmed, RecoverInterrupted, Segment
<1> QED
  BY <1>1, <1>3, <1>4, <1>5, <1>6 DEF BatchStep

(* A platform message id is on record exactly for confirmed segments, so   *)
(* none survives a retry and none is missing: ConfirmedCarriesPlatformId.  *)
THEOREM ConfirmedIdTheorem == Spec => []ConfirmedCarriesPlatformId
<1>1. Init => ConfirmedCarriesPlatformId
  BY DEF Init, ConfirmedCarriesPlatformId, Batches
<1> QED
  BY <1>1, ConfirmedIdNext, StoreTypeCorrect, PTL DEF Spec

(* A confirmed or rejected segment never changes again, whatever late      *)
(* outcome, takeover or receipt page arrives: TerminalSegmentsFinal.       *)
THEOREM TerminalTheorem == Spec => TerminalSegmentsFinal
<1>1. TypeOK /\ [Next]_vars =>
        \A a \in Accounts : \A t \in Batches(a) :
          /\ outbox'[a][t] # NoBatch
          /\ \A i \in DOMAIN outbox[a][t].segs :
               outbox[a][t].segs[i].status \in TerminalSegment =>
                 outbox'[a][t].segs[i] = outbox[a][t].segs[i]
  <2> SUFFICES ASSUME TypeOK, [Next]_vars, NEW a \in Accounts, NEW t \in Batches(a)
               PROVE  /\ outbox'[a][t] # NoBatch
                      /\ \A i \in DOMAIN outbox[a][t].segs :
                           outbox[a][t].segs[i].status \in TerminalSegment =>
                             outbox'[a][t].segs[i] = outbox[a][t].segs[i]
    OBVIOUS
  <2>1. t \in Triggers /\ outbox[a][t] # NoBatch /\ BatchStep(SegmentTransition, a, t)
    BY NextStep DEF Batches, OutboxStep
  <2>2. CASE Kept(a, t)
    BY <2>1, <2>2 DEF Kept
  <2>3. CASE Rewritten(SegmentTransition, a, t)
    <3>1. ASSUME NEW before, NEW after, before.status \in TerminalSegment
          PROVE  ~Applied(SegmentTransition, a, before, after)
      BY <3>1 DEF Applied, TerminalSegment, ValidTransition, SourceStatuses,
                  SegmentTransition, StartTransitions
    <3> QED
      BY <2>1, <2>3, <3>1 DEF Rewritten
  <2>4. CASE Recovered(a, t)
    <3>1. lease'[a].epoch \in Nat /\ now \in 0..MaxTime
      BY NextType, StoreAssumption DEF TypeOK, LeaseType, Lease
    <3>2. Stored(outbox[a][t])
      BY <2>1, StoredSegments DEF TypeOK
    <3>3. outbox'[a][t] # NoBatch
      BY <2>4, <3>1, <3>2, RecoverBatchStored, NoBatchAssumption DEF Recovered, Stored
    <3>4. \A i \in DOMAIN outbox[a][t].segs : outbox'[a][t].segs[i] =
            RecoverInterrupted(outbox[a][t].segs[i], lease'[a].epoch, now)
      BY <2>4, <3>1, <3>2, RecoverBatchSegments DEF Recovered
    <3> QED
      BY <3>3, <3>4 DEF RecoverInterrupted, TerminalSegment
  <2> QED
    BY <2>1, <2>2, <2>3, <2>4 DEF BatchStep, Created
<1> QED
  BY <1>1, StoreTypeCorrect, PTL DEF Spec, TerminalSegmentsFinal

(* Only the lease operations change more of a lease than its observed time.*)
LEMMA StoreCallsObserve ==
  ASSUME NEW a \in Accounts, NEW tok \in Token, OutboxNext(a, tok) \/ InboundNext(a, tok)
  PROVE  Observe(a)
<1>1. ASSUME NEW trigger, NEW response, PrepareOutboundBatch(a, tok, trigger, response)
      PROVE  Observe(a)
  BY <1>1 DEF PrepareOutboundBatch
<1>2. ASSUME NEW trigger, NEW i, NEW transition, NEW platformId, NEW observation,
             \/ TransitionSegment(a, tok, trigger, i, transition, platformId, observation)
             \/ RepeatTransition(a, tok, trigger, i, transition, platformId)
      PROVE  Observe(a)
  BY <1>2 DEF TransitionSegment, RepeatTransition
<1>3. ASSUME NEW trigger, NEW i, PersistOutcome(a, tok, trigger, i)
      PROVE  Observe(a)
  BY <1>2, <1>3 DEF PersistOutcome
<1>4. ASSUME NEW page, ReconcileSentReceipts(a, tok, page)
      PROVE  Observe(a)
  BY <1>4 DEF ReconcileSentReceipts
<1>5. ASSUME NEW digest, RestoreSendObservation(a, tok, digest)
      PROVE  Observe(a)
  BY <1>5 DEF RestoreSendObservation
<1>6. ASSUME NEW stream, NEW generation, NEW cursor, NEW drafts,
             RecordInboundPage(a, tok, stream, generation, cursor, drafts)
      PROVE  Observe(a)
  BY <1>6 DEF RecordInboundPage
<1>7. ASSUME NEW generation, EnsureInboundLiveStart(a, tok, generation)
      PROVE  Observe(a)
  BY <1>7 DEF EnsureInboundLiveStart
<1>8. ASSUME NEW key, NEW hash,
             MarkInboundProcessed(a, tok, key) \/ ConsumeInboundAgain(a, tok, key, hash)
      PROVE  Observe(a)
  BY <1>8 DEF MarkInboundProcessed, ConsumeInboundAgain
<1>9. ASSUME NEW key, NEW hash, NEW reply, NEW policy,
             ConsumeInbound(a, tok, key, hash, reply, policy)
      PROVE  Observe(a)
  BY <1>9 DEF ConsumeInbound
<1>10. CASE OutboxNext(a, tok)
  BY <1>1, <1>2, <1>3, <1>4, <1>5, <1>10 DEF OutboxNext
<1>11. CASE InboundNext(a, tok)
  BY <1>6, <1>7, <1>8, <1>9, <1>11 DEF InboundNext
<1> QED
  BY <1>10, <1>11

EpochKept(a) ==
  \/ lease'[a].epoch > lease[a].epoch
  \/ /\ lease'[a].epoch = lease[a].epoch
     /\ lease'[a].owner = lease[a].owner
     /\ lease[a].status # "active" => lease'[a].status = lease[a].status

LEMMA LeaseCallsKeepEpoch ==
  ASSUME TypeOK, NEW b \in Accounts, LeaseNext(b), NEW a \in Accounts
  PROVE  EpochKept(a)
<1>1. ASSUME NEW owner \in Owners, NEW epoch \in Epochs, NEW until \in LeaseEnds,
             InstallLease(b, owner, epoch, until)
      PROVE  EpochKept(a)
  BY <1>1 DEF InstallLease, EpochKept, TypeOK, LeaseType, Lease
<1>2. ASSUME NEW owner \in Owners, NEW until \in LeaseEnds, ExtendLease(b, owner, until)
      PROVE  EpochKept(a)
  BY <1>2 DEF ExtendLease, EpochKept, TypeOK, LeaseType, Lease
<1>3. ASSUME NEW tok \in Token, ReleaseLease(b, tok)
      PROVE  EpochKept(a)
  BY <1>3 DEF ReleaseLease, Fenced, EpochKept, TypeOK, LeaseType, Lease
<1>4. ASSUME NEW tok \in Token, InvalidateLease(b, tok) \/ FencedRead(b, tok)
      PROVE  EpochKept(a)
  BY <1>4 DEF InvalidateLease, FencedRead, Observe, EpochKept, TypeOK, LeaseType, Lease
<1> QED
  BY <1>1, <1>2, <1>3, <1>4 DEF LeaseNext

(* A fence epoch names one owner: another owner, or a return from release, *)
(* takes a higher epoch, and epochs never go back: EpochNamesOneOwner.     *)
THEOREM EpochTheorem == Spec => EpochNamesOneOwner
<1>1. TypeOK /\ [Next]_vars =>
        \A a \in Accounts :
          \/ lease'[a].epoch > lease[a].epoch
          \/ /\ lease'[a].epoch = lease[a].epoch
             /\ lease'[a].owner = lease[a].owner
             /\ lease[a].status # "active" => lease'[a].status = lease[a].status
  <2> SUFFICES ASSUME TypeOK, [Next]_vars, NEW a \in Accounts
               PROVE  EpochKept(a)
    BY DEF EpochKept
  <2>1. CASE ClockNext \/ UNCHANGED vars
    BY <2>1 DEF ClockNext, Tick, ClockSetBack, vars, EpochKept
  <2>2. ASSUME NEW b \in Accounts, LeaseNext(b)
        PROVE  EpochKept(a)
    BY <2>2, LeaseCallsKeepEpoch
  <2>3. ASSUME NEW b \in Accounts, NEW tok \in Token,
               OutboxNext(b, tok) \/ InboundNext(b, tok)
        PROVE  EpochKept(a)
    <3>1. Observe(b)
      BY <2>3, StoreCallsObserve
    <3> QED
      BY <3>1 DEF Observe, EpochKept, TypeOK, LeaseType, Lease
  <2> QED
    BY <2>1, <2>2, <2>3 DEF Next
<1> QED
  BY <1>1, StoreTypeCorrect, PTL DEF Spec, EpochNamesOneOwner
=============================================================================
