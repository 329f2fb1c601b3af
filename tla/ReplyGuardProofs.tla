--------------------------- MODULE ReplyGuardProofs ---------------------------
(***************************************************************************)
(* The guarded half of CoreStore: who holds the reply scopes, what they    *)
(* count and so which limits they keep, what a decision on an inbound      *)
(* event fixes, how far a clock may date a delivery, and what the inbound  *)
(* spool never loses.                                                      *)
(***************************************************************************)
EXTENDS CoreStoreProofs, FiniteSetTheorems, Sequences

Guarded(batch) == batch # NoBatch /\ batch.policy # NoPolicy

(* A batch that no reservation changes hands over.                         *)
Quiet(a, t) ==
  \/ outbox'[a][t] = outbox[a][t]
  \/ /\ outbox[a][t] = NoBatch
     /\ outbox'[a][t] # NoBatch
     /\ outbox'[a][t].policy = NoPolicy
     /\ ~outbox'[a][t].settled
     /\ t \in Events => t \in decided'[a] \ decided[a]
  \/ /\ outbox[a][t] # NoBatch
     /\ outbox'[a][t] # NoBatch
     /\ outbox'[a][t].policy = outbox[a][t].policy
     /\ outbox'[a][t].response = outbox[a][t].response
     /\ outbox'[a][t].created = outbox[a][t].created
     /\ ~outbox[a][t].settled /\ ~outbox'[a][t].settled
     /\ ~Guarded(outbox[a][t]) \/ ~AllTerminal(outbox'[a][t].segs)

AllQuiet(a) == scopes'[a] = scopes[a] /\ \A t \in Triggers : Quiet(a, t)

(* The batch of trigger t is created and takes its policy's scopes.        *)
Reserving(a, t, p) ==
  /\ outbox[a][t] = NoBatch
  /\ outbox'[a][t] # NoBatch
  /\ outbox'[a][t].policy = p
  /\ ~outbox'[a][t].settled
  /\ outbox'[a][t].created = now
  /\ ~AllTerminal(outbox'[a][t].segs)
  /\ CanReserve(scopes[a], p, t, now)
  /\ scopes'[a] = Reserve(scopes[a], p, t)
  /\ t \in decided'[a] \ decided[a]
  /\ \A u \in Triggers \ {t} : outbox'[a][u] = outbox[a][u]

(* It is over, and gives them back.                                        *)
Closing(a, t, p) ==
  /\ outbox[a][t] # NoBatch
  /\ outbox'[a][t] # NoBatch
  /\ outbox[a][t].policy = p /\ outbox'[a][t].policy = p
  /\ outbox'[a][t].response = outbox[a][t].response
  /\ outbox'[a][t].created = outbox[a][t].created
  /\ ~outbox[a][t].settled /\ outbox'[a][t].settled
  /\ AllTerminal(outbox'[a][t].segs)
  /\ HoldsReservation(scopes[a], p, t)
  /\ scopes'[a] = Settle(scopes[a], p, Deliveries(outbox'[a][t]))
  /\ \A u \in Triggers \ {t} : Quiet(a, u)

GuardStep(a) ==
  /\ decided[a] \subseteq decided'[a]
  /\ \/ AllQuiet(a)
     \/ \E t \in Triggers, p \in Policies : Reserving(a, t, p) \/ Closing(a, t, p)

(* A scope without a row is empty: nothing holds or has charged it.        *)
RowlessEmpty ==
  \A a \in Accounts, k \in GuardScopes : scopes[a][k].zone = NoZone => scopes[a][k] = EmptyScope

LedgerInv == TypeOK /\ GuardLedger /\ ReplyImpliesDecision /\ RowlessEmpty

-----------------------------------------------------------------------------
(* Every operation is a GuardStep.                                         *)

LEMMA QuietAccount ==
  ASSUME NEW a \in Accounts, scopes'[a] = scopes[a], decided'[a] = decided[a],
         \A t \in Triggers : outbox'[a][t] = outbox[a][t]
  PROVE  GuardStep(a)
BY DEF GuardStep, AllQuiet, Quiet

LEMMA ScopeKinds ==
  ASSUME NEW p, NEW q
  PROVE  /\ AccountScope # RuleScope(p) /\ AccountScope # PeerScope(p)
         /\ RuleScope(p) # PeerScope(q)
         /\ ScopesOf(p) = {AccountScope, RuleScope(p), PeerScope(p)}
<1>1. Len(AccountScope) = 1 /\ Len(PeerScope(p)) = 2 /\ Len(PeerScope(q)) = 2 /\ Len(RuleScope(p)) = 3
  BY DEF AccountScope, PeerScope, RuleScope
<1> QED  BY <1>1 DEF ScopesOf

(* A stored batch whose segments are rewritten keeps everything else.      *)
LEMMA WithSegmentsKeeps ==
  ASSUME NEW batch, Stored(batch), NEW segs
  PROVE  LET b == WithSegments(batch, segs)
         IN  /\ b.policy = batch.policy /\ b.response = batch.response
             /\ b.created = batch.created /\ b.settled = batch.settled
             /\ b.segs = segs
BY DEF Stored, IsBatch, BatchOf, WithSegments

(* Rewriting segments of unsettled batches settles at most one of them.    *)
LEMMA CommitStep ==
  ASSUME LedgerInv, NEW a \in Accounts, NEW batches, NEW touched \in SUBSET Triggers,
         \A t \in Triggers \ touched : batches[t] = outbox[a][t],
         \A t \in touched :
           /\ outbox[a][t] # NoBatch /\ ~AllTerminal(outbox[a][t].segs)
           /\ batches[t] # NoBatch /\ Stored(batches[t])
           /\ batches[t].policy = outbox[a][t].policy
           /\ batches[t].response = outbox[a][t].response
           /\ batches[t].created = outbox[a][t].created
           /\ batches[t].settled = outbox[a][t].settled,
         CommitBatches(a, batches, touched), decided' = decided, NEW b \in Accounts
  PROVE  GuardStep(b)
<1> DEFINE settling == Settling(batches, touched)
           stored(t) == IF t \in settling THEN [batches[t] EXCEPT !.settled = TRUE]
                        ELSE batches[t]
<1>1. /\ outbox' = [outbox EXCEPT ![a] = [t \in Triggers |-> stored(t)]]
      /\ scopes' = [scopes EXCEPT ![a] = SettledScopes(a, batches, settling)]
      /\ \A t \in settling : HoldsReservation(scopes[a], batches[t].policy, t)
  BY DEF CommitBatches, OwnReservations
<1>2. CASE b # a
  <2>1. scopes'[b] = scopes[b] /\ \A t \in Triggers : outbox'[b][t] = outbox[b][t]
    BY <1>1, <1>2 DEF LedgerInv, TypeOK, OutboxType, ScopesType
  <2> QED  BY <2>1, QuietAccount
<1>3. CASE b = a
  <2>1. /\ \A t \in Triggers : outbox'[a][t] = stored(t)
        /\ scopes'[a] = SettledScopes(a, batches, settling)
    BY <1>1 DEF LedgerInv, TypeOK, OutboxType, ScopesType
  <2>2. \A t \in touched : ~outbox[a][t].settled
    BY DEF LedgerInv, GuardLedger, Batches
  <2>3. ASSUME NEW t \in settling
        PROVE  /\ t \in touched /\ t \in Triggers
               /\ batches[t].policy \in Policies /\ AllTerminal(batches[t].segs)
               /\ stored(t) # NoBatch /\ stored(t).settled
               /\ stored(t).policy = batches[t].policy /\ stored(t).segs = batches[t].segs
               /\ stored(t).response = batches[t].response
               /\ stored(t).created = batches[t].created
               /\ Deliveries(stored(t)) = Deliveries(batches[t])
    <3>1. t \in touched /\ t \in Triggers /\ Stored(batches[t]) /\ batches[t].policy # NoPolicy
      BY DEF Settling
    <3>2. IsBatch(batches[t]) /\ IsBatch(stored(t))
      BY <3>1 DEF Stored, IsBatch, BatchOf
    <3>3. /\ stored(t).settled /\ stored(t).policy = batches[t].policy
          /\ stored(t).segs = batches[t].segs /\ stored(t).response = batches[t].response
          /\ stored(t).created = batches[t].created
      BY <3>1 DEF Stored, IsBatch, BatchOf
    <3>4. batches[t].policy \in Policies /\ AllTerminal(batches[t].segs)
      BY <3>1 DEF Settling, Stored, IsBatch, BatchOf
    <3>5. stored(t) # NoBatch
      BY <3>2, NoBatchAssumption
    <3> HIDE DEF stored, settling
    <3>6. Deliveries(stored(t)) = Deliveries(batches[t])
      BY <3>3 DEF Deliveries
    <3> QED  BY <3>1, <3>3, <3>4, <3>5, <3>6
  <2>4. ASSUME NEW t \in Triggers \ settling
        PROVE  Quiet(a, t)
    <3>1. outbox'[a][t] = batches[t]
      BY <2>1
    <3>2. CASE t \in touched
      BY <2>2, <2>4, <3>1, <3>2 DEF Quiet, Guarded, Settling
    <3> QED  BY <3>1, <3>2 DEF Quiet
  <2>5. CASE settling = {}
    BY <1>3, <2>1, <2>4, <2>5 DEF GuardStep, AllQuiet, SettledScopes
  <2>6. CASE settling # {}
    <3> DEFINE t == CHOOSE u \in settling : TRUE
    <3>1. t \in settling
      BY <2>6
    <3>2. ASSUME NEW u \in settling  PROVE  u = t
      <4>1. \A v \in settling : scopes[a][AccountScope].reserved = v
        BY <1>1 DEF HoldsReservation, ScopesOf
      <4> QED  BY <3>1, <4>1
    <3>3. scopes'[a] = Settle(scopes[a], batches[t].policy, Deliveries(batches[t]))
      BY <2>1, <2>6 DEF SettledScopes
    <3> HIDE DEF t
    <3>4. /\ batches[t].policy = outbox[a][t].policy /\ outbox'[a][t] = stored(t)
          /\ batches[t].response = outbox[a][t].response
          /\ batches[t].created = outbox[a][t].created
          /\ outbox[a][t] # NoBatch /\ ~outbox[a][t].settled
      BY <2>1, <2>2, <2>3, <3>1
    <3>5. HoldsReservation(scopes[a], batches[t].policy, t)
      BY <1>1, <3>1
    <3>6. \A u \in Triggers \ {t} : Quiet(a, u)
      BY <2>4, <3>2
    <3> HIDE DEF settling, stored
    <3>7. Closing(a, t, batches[t].policy)
      BY <2>3, <3>1, <3>3, <3>4, <3>5, <3>6 DEF Closing
    <3> QED  BY <1>3, <2>3, <3>1, <3>7 DEF GuardStep
  <2> QED  BY <2>5, <2>6
<1> QED  BY <1>2, <1>3

LEMMA OpenSegment ==
  ASSUME NEW segs, NEW i \in DOMAIN segs, segs[i].status \notin TerminalSegment
  PROVE  ~AllTerminal(segs)
BY DEF AllTerminal, StatusesOf

LEMMA TransitionGuard ==
  ASSUME LedgerInv, NEW a \in Accounts, NEW tok \in Token, NEW trigger \in Triggers,
         NEW i \in Ordinals, NEW transition \in SegmentTransition,
         NEW platformId \in PlatformIds \cup {NoPlatformId}, NEW observation,
         TransitionSegment(a, tok, trigger, i, transition, platformId, observation),
         NEW b \in Accounts
  PROVE  GuardStep(b)
<1> DEFINE batch == outbox[a][trigger]
           next  == ApplyTransition(batch.segs[i], transition, platformId, tok.epoch, now)
           segs  == [batch.segs EXCEPT ![i] = next]
           batches == [outbox[a] EXCEPT ![trigger] = WithSegments(batch, segs)]
<1>1. now \in Nat /\ now <= MaxTime /\ tok.epoch \in Nat
  BY StoreAssumption DEF LedgerInv, TypeOK, Token, Epochs
<1>2. /\ batch # NoBatch /\ i \in DOMAIN batch.segs
      /\ ValidTransition(batch.segs[i].status, transition)
      /\ CommitBatches(a, batches, {trigger}) /\ decided' = decided
  BY DEF TransitionSegment, inVars
<1>3. Stored(batch) /\ batch.segs[i] \in Segment
  BY <1>2, StoredSegments DEF LedgerInv, TypeOK
<1>4. PICK n \in Ordinals : batch.segs \in [1..n -> Segment]
  BY <1>3 DEF Stored, IsBatch, BatchOf
<1>5. next \in Segment /\ next.updated <= MaxTime
  <2>1. next \in Segment
    BY <1>1, <1>3, ApplyTransitionType
  <2> QED  BY <1>1, <2>1 DEF ApplyTransition
<1>6. /\ DOMAIN segs = DOMAIN batch.segs
      /\ segs = [j \in DOMAIN segs |-> segs[j]]
      /\ \A j \in DOMAIN segs : segs[j] \in Segment /\ segs[j].updated <= MaxTime
  <2> HIDE DEF next
  <2> QED  BY <1>2, <1>3, <1>4, <1>5 DEF Stored
<1>7. batch.segs[i].status \notin TerminalSegment
  BY <1>2 DEF ValidTransition, SourceStatuses, TerminalSegment, SegmentTransition,
              StartTransitions
<1>8. ~AllTerminal(batch.segs)
  BY <1>2, <1>7, OpenSegment
<1> HIDE DEF segs, next, batch
<1>9. /\ Stored(WithSegments(batch, segs))
      /\ WithSegments(batch, segs).policy = batch.policy
      /\ WithSegments(batch, segs).response = batch.response
      /\ WithSegments(batch, segs).created = batch.created
      /\ WithSegments(batch, segs).settled = batch.settled
  BY <1>3, <1>6, WithSegmentsStored, WithSegmentsKeeps
<1>10. WithSegments(batch, segs) # NoBatch
  BY <1>9, NoBatchAssumption DEF Stored
<1>11. /\ batches[trigger] = WithSegments(batch, segs)
       /\ \A t \in Triggers \ {trigger} : batches[t] = outbox[a][t]
  BY DEF LedgerInv, TypeOK, OutboxType
<1> HIDE DEF batches
<1>12. \A t \in {trigger} :
         /\ outbox[a][t] # NoBatch /\ ~AllTerminal(outbox[a][t].segs)
         /\ batches[t] # NoBatch /\ Stored(batches[t])
         /\ batches[t].policy = outbox[a][t].policy
         /\ batches[t].response = outbox[a][t].response
         /\ batches[t].created = outbox[a][t].created
         /\ batches[t].settled = outbox[a][t].settled
  BY <1>2, <1>8, <1>9, <1>10, <1>11 DEF batch
<1> QED  BY <1>2, <1>11, <1>12, CommitStep

LEMMA ReconcileGuard ==
  ASSUME LedgerInv, NEW a \in Accounts, NEW tok \in Token, NEW page \in EvidencePage(a),
         ReconcileSentReceipts(a, tok, page), NEW b \in Accounts
  PROVE  GuardStep(b)
<1> DEFINE hits    == {id \in DOMAIN page : Settles(a, id, page[id])}
           touched == {id[1] : id \in hits}
           settled(t, i) ==
             IF <<t, i>> \notin hits THEN outbox[a][t].segs[i]
             ELSE ApplyTransition(outbox[a][t].segs[i], "confirm",
                    page[<<t, i>>].platformId, tok.epoch,
                    Earlier(page[<<t, i>>].sentAt, now))
           segs(t) == [i \in DOMAIN outbox[a][t].segs |-> settled(t, i)]
           batches == [t \in Triggers |->
                         IF t \notin touched THEN outbox[a][t]
                         ELSE WithSegments(outbox[a][t], segs(t))]
<1>1. /\ now \in Nat /\ now <= MaxTime /\ tok.epoch \in Nat
      /\ CommitBatches(a, batches, touched) /\ decided' = decided
  BY StoreAssumption DEF LedgerInv, TypeOK, Token, Epochs, ReconcileSentReceipts, inVars
<1>2. \A id \in DOMAIN page :
        /\ id \in SegmentId(a)
        /\ page[id].platformId \in PlatformIds
        /\ page[id].sentAt \in Nat
  <2>1. PICK ids \in SUBSET SegmentId(a) : page \in [ids -> Evidence]
    BY DEF EvidencePage
  <2>2. ASSUME NEW id \in ids
        PROVE  page[id].platformId \in PlatformIds /\ page[id].sentAt \in Nat
    <3>1. page[id] \in Evidence
      BY <2>1
    <3> QED  BY <3>1, StoreAssumption DEF Evidence
  <2> QED  BY <2>1, <2>2
<1>3. /\ touched \in SUBSET Triggers
      /\ \A t \in touched : outbox[a][t] # NoBatch /\ ~AllTerminal(outbox[a][t].segs)
  <2>1. touched \in SUBSET Triggers /\ \A t \in touched : outbox[a][t] # NoBatch
    BY <1>2 DEF SegmentId
  <2>2. ASSUME NEW id \in hits  PROVE  ~AllTerminal(outbox[a][id[1]].segs)
    <3>1. id[2] \in DOMAIN outbox[a][id[1]].segs
      BY <1>2 DEF SegmentId
    <3>2. outbox[a][id[1]].segs[id[2]].status \notin TerminalSegment
      BY DEF Settles, TerminalSegment
    <3> QED  BY <3>1, <3>2, OpenSegment
  <2> QED  BY <2>1, <2>2
<1>4. ASSUME NEW t \in touched, NEW i \in DOMAIN outbox[a][t].segs
      PROVE  settled(t, i) \in Segment /\ settled(t, i).updated <= MaxTime
  <2>1. outbox[a][t].segs[i] \in Segment /\ outbox[a][t].segs[i].updated <= MaxTime
    BY <1>3 DEF LedgerInv, TypeOK, OutboxType, Stored, IsBatch, BatchOf
  <2>2. CASE <<t, i>> \notin hits
    BY <2>1, <2>2
  <2>3. CASE <<t, i>> \in hits
    <3> DEFINE at == Earlier(page[<<t, i>>].sentAt, now)
               platformId == page[<<t, i>>].platformId
    <3>1. at \in Nat /\ at <= MaxTime
      BY <1>1, <1>2, <2>3, StoreAssumption DEF Earlier
    <3>2. "confirm" \in SegmentTransition /\ platformId \in PlatformIds
      BY <1>2, <2>3 DEF SegmentTransition
    <3>3. settled(t, i) =
            ApplyTransition(outbox[a][t].segs[i], "confirm", platformId, tok.epoch, at)
      BY <2>3
    <3> HIDE DEF at, hits, platformId, settled
    <3>4. settled(t, i) \in Segment
      BY <1>1, <2>1, <3>1, <3>2, <3>3, ApplyTransitionType
    <3> QED  BY <3>1, <3>3, <3>4 DEF ApplyTransition
  <2> QED  BY <2>2, <2>3
<1>5. ASSUME NEW t \in touched
      PROVE  /\ Stored(outbox[a][t])
             /\ DOMAIN segs(t) = DOMAIN outbox[a][t].segs
             /\ segs(t) = [i \in DOMAIN segs(t) |-> segs(t)[i]]
             /\ \A i \in DOMAIN segs(t) : segs(t)[i] \in Segment /\ segs(t)[i].updated <= MaxTime
  <2> HIDE DEF settled, touched
  <2> QED  BY <1>3, <1>4 DEF LedgerInv, TypeOK, OutboxType
<1> HIDE DEF segs, touched
<1>6. ASSUME NEW t \in touched
      PROVE  LET after == WithSegments(outbox[a][t], segs(t))
             IN  /\ Stored(after) /\ after # NoBatch
                 /\ after.policy = outbox[a][t].policy
                 /\ after.response = outbox[a][t].response
                 /\ after.created = outbox[a][t].created
                 /\ after.settled = outbox[a][t].settled
  <2>1. Stored(WithSegments(outbox[a][t], segs(t)))
    BY <1>5, WithSegmentsStored
  <2>2. WithSegments(outbox[a][t], segs(t)) # NoBatch
    BY <2>1, NoBatchAssumption DEF Stored
  <2> QED  BY <1>5, <2>1, <2>2, WithSegmentsKeeps
<1>7. /\ \A t \in touched : batches[t] = WithSegments(outbox[a][t], segs(t))
      /\ \A t \in Triggers \ touched : batches[t] = outbox[a][t]
  BY <1>3
<1> HIDE DEF batches
<1>8. \A t \in touched :
        /\ outbox[a][t] # NoBatch /\ ~AllTerminal(outbox[a][t].segs)
        /\ batches[t] # NoBatch /\ Stored(batches[t])
        /\ batches[t].policy = outbox[a][t].policy
        /\ batches[t].response = outbox[a][t].response
        /\ batches[t].created = outbox[a][t].created
        /\ batches[t].settled = outbox[a][t].settled
  BY <1>3, <1>6, <1>7
<1> QED  BY <1>1, <1>3, <1>7, <1>8, CommitStep

(* A takeover rewrites open claims only, and none of them is settled.      *)
LEMMA InstallGuard ==
  ASSUME LedgerInv, NEW a \in Accounts, NEW owner \in Owners, NEW epoch \in Epochs,
         NEW until \in LeaseEnds, InstallLease(a, owner, epoch, until), NEW b \in Accounts
  PROVE  GuardStep(b)
<1>1. /\ \A c \in Accounts, t \in Triggers :
           outbox'[c][t] = IF c = a THEN RecoverBatch(outbox[a][t], epoch) ELSE outbox[c][t]
      /\ scopes' = scopes /\ decided' = decided
  BY DEF InstallLease, LedgerInv, TypeOK, OutboxType, inVars
<1>2. ASSUME NEW t \in Triggers  PROVE  Quiet(a, t)
  <2> DEFINE batch == outbox[a][t]
             after == RecoverBatch(batch, epoch)
             segs  == [i \in DOMAIN batch.segs |-> RecoverInterrupted(batch.segs[i], epoch, now)]
             open(i) == batch.segs[i].status = "sending" /\ batch.segs[i].fence < epoch
  <2>1. CASE batch = NoBatch \/ ~\E i \in DOMAIN batch.segs : open(i)
    <3>1. RecoverBatch(batch, epoch) = batch
      BY <2>1 DEF RecoverBatch
    <3> QED  BY <1>1, <3>1 DEF Quiet
  <2>2. ASSUME batch # NoBatch, NEW i \in DOMAIN batch.segs, open(i)
        PROVE  Quiet(a, t)
    <3>1. Stored(batch) /\ batch.segs[i] \in Segment /\ now \in 0..MaxTime /\ epoch \in Nat
      BY <2>2, StoredSegments, StoreAssumption DEF LedgerInv, TypeOK, Epochs
    <3>2. after = WithSegments(batch, segs)
      BY <2>2 DEF RecoverBatch
    <3>3. after # NoBatch
      BY <3>1, RecoverBatchStored, NoBatchAssumption DEF Stored
    <3>4. segs[i].status = "uncertain"
      BY <2>2, <3>1 DEF RecoverInterrupted, Segment
    <3>5. i \in DOMAIN segs
      BY <2>2
    <3> HIDE DEF segs
    <3>6. ~AllTerminal(segs)
      BY <3>4, <3>5, OpenSegment DEF TerminalSegment
    <3>7. ~AllTerminal(batch.segs)
      BY <2>2, OpenSegment DEF TerminalSegment
    <3>8. ~batch.settled
      BY <2>2, <3>7 DEF LedgerInv, GuardLedger, Batches
    <3>9. /\ after.policy = batch.policy /\ after.response = batch.response
          /\ after.created = batch.created /\ after.settled = batch.settled
          /\ after.segs = segs
      BY <3>1, <3>2, WithSegmentsKeeps
    <3> QED  BY <1>1, <2>2, <3>3, <3>6, <3>8, <3>9 DEF Quiet
  <2> QED  BY <2>1, <2>2
<1> QED  BY <1>1, <1>2, QuietAccount DEF GuardStep, AllQuiet

LEMMA PrepareGuard ==
  ASSUME LedgerInv, NEW a \in Accounts, NEW tok \in Token, NEW trigger \in ManualTriggers,
         NEW response \in Responses, PrepareOutboundBatch(a, tok, trigger, response),
         NEW b \in Accounts
  PROVE  GuardStep(b)
<1>1. scopes' = scopes /\ decided' = decided /\ trigger \in Triggers /\ trigger \notin Events
  BY StoreAssumption DEF PrepareOutboundBatch, inVars, Triggers
<1>2. CASE UNCHANGED outbox
  BY <1>1, <1>2, QuietAccount
<1>3. CASE /\ outbox[a][trigger] = NoBatch
           /\ outbox' = [outbox EXCEPT ![a][trigger] = NewBatch(a, tok, response)]
  <2>1. /\ outbox'[a][trigger] = NewBatch(a, tok, response)
        /\ \A c \in Accounts, t \in Triggers :
             ~(c = a /\ t = trigger) => outbox'[c][t] = outbox[c][t]
    BY <1>1, <1>3 DEF LedgerInv, TypeOK, OutboxType
  <2>2. NewBatch(a, tok, response) # NoBatch
    BY NewBatchFields DEF LedgerInv, TypeOK
  <2>3. Quiet(a, trigger)
    BY <1>1, <1>3, <2>1, <2>2 DEF Quiet, NewBatch
  <2> QED  BY <1>1, <2>1, <2>3 DEF GuardStep, AllQuiet, Quiet
<1> QED  BY <1>2, <1>3 DEF PrepareOutboundBatch

LEMMA NewBatchOpen ==
  ASSUME NEW a \in Accounts, NEW tok \in Token, NEW response \in Responses
  PROVE  ~AllTerminal(NewBatch(a, tok, response).segs)
<1> DEFINE segs == NewBatch(a, tok, response).segs
<1>1. 1 \in DOMAIN segs /\ segs[1].status = "prepared"
  BY StoreAssumption DEF NewBatch, NewSegment
<1> HIDE DEF segs
<1>2. ~AllTerminal(segs)
  BY <1>1, OpenSegment DEF TerminalSegment
<1> QED  BY <1>2 DEF segs

LEMMA ConsumeGuard ==
  ASSUME LedgerInv, NEW a \in Accounts, NEW tok \in Token, NEW key \in InboundKey,
         NEW hash \in Hashes, NEW reply \in Reply \cup {NoReply},
         NEW policy \in Policies \cup {NoPolicy},
         ConsumeInbound(a, tok, key, hash, reply, policy), NEW b \in Accounts
  PROVE  GuardStep(b)
<1> DEFINE event == key.event
           plan  == Coalesce(a, reply, policy)
           fresh == plan # NoReply /\ outbox[a][event] = NoBatch
           batch == IF fresh THEN NewBatch(a, tok, plan.response) ELSE outbox[a][event]
<1>1. /\ event \in Events /\ event \in Triggers /\ event \notin decided[a]
      /\ decided' = [decided EXCEPT ![a] = @ \cup {event}]
  BY DEF InboundKey, Triggers, ConsumeInbound, Undecided, Decide
<1>2. /\ decided[b] \subseteq decided'[b]
      /\ event \in decided'[a] \ decided[a]
  BY <1>1 DEF LedgerInv, TypeOK, InboundType
<1>3. outbox[a][event] = NoBatch
  BY <1>1 DEF LedgerInv, ReplyImpliesDecision, Batches
<1>4. \/ outbox' = [outbox EXCEPT ![a][event] = batch] /\ scopes' = scopes
         /\ (policy = NoPolicy \/ batch = NoBatch)
      \/ /\ policy \in Policies /\ batch # NoBatch
         /\ IF batch.policy = NoPolicy
            THEN /\ CanReserve(scopes[a], policy, event, now)
                 /\ outbox' = [outbox EXCEPT ![a][event] = [batch EXCEPT !.policy = policy]]
                 /\ scopes' = [scopes EXCEPT ![a] = Reserve(@, policy, event)]
            ELSE batch.policy = policy
  BY DEF ConsumeInbound
<1>5. ASSUME plan # NoReply
      PROVE  /\ batch = NewBatch(a, tok, plan.response)
             /\ batch # NoBatch /\ batch.policy = NoPolicy /\ ~batch.settled
             /\ batch.created = now /\ ~AllTerminal(batch.segs) /\ Stored(batch)
  <2>1. plan.response \in Responses
    BY <1>5 DEF Coalesce, Reply
  <2>2. batch = NewBatch(a, tok, plan.response)
    BY <1>3, <1>5
  <2> HIDE DEF plan, batch
  <2>3. NewBatch(a, tok, plan.response) # NoBatch /\ Stored(NewBatch(a, tok, plan.response))
    BY <2>1, NewBatchFields, NewBatchStored DEF LedgerInv, TypeOK
  <2>4. ~AllTerminal(NewBatch(a, tok, plan.response).segs)
    BY <2>1, NewBatchOpen
  <2> QED  BY <2>2, <2>3, <2>4 DEF NewBatch
<1>6. ASSUME plan = NoReply  PROVE  batch = NoBatch
  BY <1>3, <1>6
<1> HIDE DEF batch, plan
<1>7. CASE outbox' = [outbox EXCEPT ![a][event] = batch] /\ scopes' = scopes
           /\ (policy = NoPolicy \/ batch = NoBatch)
  <2>1. /\ outbox'[a][event] = batch
        /\ \A c \in Accounts, t \in Triggers :
             ~(c = a /\ t = event) => outbox'[c][t] = outbox[c][t]
    BY <1>1, <1>7 DEF LedgerInv, TypeOK, OutboxType
  <2>2. Quiet(a, event)
    BY <1>2, <1>3, <1>5, <1>6, <2>1 DEF Quiet
  <2> QED  BY <1>2, <1>7, <2>1, <2>2 DEF GuardStep, AllQuiet, Quiet
<1>8. CASE /\ policy \in Policies /\ batch # NoBatch
           /\ CanReserve(scopes[a], policy, event, now)
           /\ outbox' = [outbox EXCEPT ![a][event] = [batch EXCEPT !.policy = policy]]
           /\ scopes' = [scopes EXCEPT ![a] = Reserve(@, policy, event)]
  <2> DEFINE claimed == [batch EXCEPT !.policy = policy]
  <2>1. plan # NoReply
    BY <1>6, <1>8
  <2>2. IsBatch(claimed)
    BY <1>5, <1>8, <2>1 DEF Stored, IsBatch, BatchOf
  <2>3. /\ claimed.policy = policy /\ claimed.segs = batch.segs
        /\ claimed.created = batch.created /\ claimed.settled = batch.settled
    BY <1>5, <2>1 DEF Stored, IsBatch, BatchOf
  <2>4. claimed # NoBatch
    BY <2>2, NoBatchAssumption
  <2>5. outbox' = [outbox EXCEPT ![a][event] = claimed]
    BY <1>8
  <2> HIDE DEF claimed
  <2>6. /\ outbox'[a][event] = claimed
        /\ \A c \in Accounts, t \in Triggers :
             ~(c = a /\ t = event) => outbox'[c][t] = outbox[c][t]
    BY <1>1, <2>5 DEF LedgerInv, TypeOK, OutboxType
  <2>7. /\ scopes'[a] = Reserve(scopes[a], policy, event)
        /\ \A c \in Accounts \ {a} : scopes'[c] = scopes[c]
    BY <1>8 DEF LedgerInv, TypeOK, ScopesType
  <2>8. Reserving(a, event, policy)
    BY <1>1, <1>2, <1>3, <1>5, <1>8, <2>1, <2>3, <2>4, <2>6, <2>7 DEF Reserving
  <2> QED  BY <1>1, <1>2, <1>8, <2>6, <2>7, <2>8 DEF GuardStep, AllQuiet, Quiet
<1> QED  BY <1>4, <1>5, <1>6, <1>7, <1>8, GuardAssumption

(* The operations that leave batches and scopes alone.                     *)
LEMMA IdleGuard ==
  ASSUME LedgerInv, outbox' = outbox, scopes' = scopes, decided' = decided,
         NEW b \in Accounts
  PROVE  GuardStep(b)
BY QuietAccount

LEMMA InboundIdle ==
  ASSUME NEW a \in Accounts, NEW tok \in Token,
         \/ \E stream, generation, cursor, drafts :
              RecordInboundPage(a, tok, stream, generation, cursor, drafts)
         \/ \E generation : EnsureInboundLiveStart(a, tok, generation)
         \/ \E key : MarkInboundProcessed(a, tok, key)
         \/ \E key, hash : ConsumeInboundAgain(a, tok, key, hash)
  PROVE  outbox' = outbox /\ scopes' = scopes /\ decided' = decided
BY DEF RecordInboundPage, EnsureInboundLiveStart, MarkInboundProcessed, ConsumeInboundAgain,
       outVars

LEMMA InboundGuard ==
  ASSUME LedgerInv, NEW a \in Accounts, NEW tok \in Token, InboundNext(a, tok),
         NEW b \in Accounts
  PROVE  GuardStep(b)
<1>1. ASSUME NEW key \in InboundKey, NEW hash \in Hashes,
             NEW reply \in Reply \cup {NoReply}, NEW policy \in Policies \cup {NoPolicy},
             ConsumeInbound(a, tok, key, hash, reply, policy)
      PROVE  GuardStep(b)
  BY <1>1, ConsumeGuard
<1>2. ASSUME \/ \E stream, generation, cursor, drafts :
                  RecordInboundPage(a, tok, stream, generation, cursor, drafts)
             \/ \E generation : EnsureInboundLiveStart(a, tok, generation)
             \/ \E key : MarkInboundProcessed(a, tok, key)
             \/ \E key, hash : ConsumeInboundAgain(a, tok, key, hash)
      PROVE  GuardStep(b)
  BY <1>2, InboundIdle, IdleGuard
<1> QED  BY <1>1, <1>2 DEF InboundNext

LEMMA LeaseGuard ==
  ASSUME LedgerInv, NEW a \in Accounts, LeaseNext(a), NEW b \in Accounts
  PROVE  GuardStep(b)
<1>1. ASSUME NEW owner \in Owners, NEW epoch \in Epochs, NEW until \in LeaseEnds,
             InstallLease(a, owner, epoch, until)
      PROVE  GuardStep(b)
  BY <1>1, InstallGuard
<1>2. ASSUME \/ \E owner, until : ExtendLease(a, owner, until)
             \/ \E tok : ReleaseLease(a, tok) \/ InvalidateLease(a, tok) \/ FencedRead(a, tok)
      PROVE  GuardStep(b)
  <2>1. outbox' = outbox /\ scopes' = scopes /\ decided' = decided
    BY <1>2 DEF ExtendLease, ReleaseLease, InvalidateLease, FencedRead, outVars, inVars
  <2> QED  BY <2>1, IdleGuard
<1> QED  BY <1>1, <1>2 DEF LeaseNext

LEMMA NextGuard ==
  ASSUME LedgerInv, [Next]_vars, NEW b \in Accounts
  PROVE  GuardStep(b)
<1>1. CASE ClockNext \/ UNCHANGED vars
  BY <1>1, IdleGuard DEF ClockNext, Tick, ClockSetBack, outVars, inVars, vars
<1>2. ASSUME NEW a \in Accounts, LeaseNext(a)
      PROVE  GuardStep(b)
  BY <1>2, LeaseGuard
<1>3. ASSUME NEW a \in Accounts, NEW tok \in Token, OutboxNext(a, tok)
      PROVE  GuardStep(b)
  <2>1. ASSUME NEW trigger \in ManualTriggers, NEW response \in Responses,
               PrepareOutboundBatch(a, tok, trigger, response)
        PROVE  GuardStep(b)
    BY <2>1, PrepareGuard
  <2>2. ASSUME NEW trigger \in Triggers, NEW i \in Ordinals,
               NEW transition \in SegmentTransition, NEW platformId \in IdsFor(transition),
               TransitionSegment(a, tok, trigger, i, transition, platformId, NoObservation)
        PROVE  GuardStep(b)
    BY <2>2, TransitionGuard DEF IdsFor
  <2>3. ASSUME NEW trigger \in Triggers, NEW i \in Ordinals, PersistOutcome(a, tok, trigger, i)
        PROVE  GuardStep(b)
    <3>1. PICK outcome \in SenderOutcome, platformId \in PlatformIds \cup {NoPlatformId} :
            TransitionSegment(a, tok, trigger, i, outcome[1], platformId,
              [digest |-> attempted[a][trigger][i].digest, capability |-> outcome[2]])
      BY <2>3 DEF PersistOutcome, IdsFor
    <3>2. outcome[1] \in SegmentTransition
      BY DEF SenderOutcome, SegmentTransition
    <3> QED  BY <3>1, <3>2, TransitionGuard
  <2>4. ASSUME NEW page \in EvidencePage(a), ReconcileSentReceipts(a, tok, page)
        PROVE  GuardStep(b)
    BY <2>4, ReconcileGuard
  <2>5. ASSUME \/ \E trigger, i, transition, platformId :
                    RepeatTransition(a, tok, trigger, i, transition, platformId)
               \/ \E digest : RestoreSendObservation(a, tok, digest)
        PROVE  GuardStep(b)
    BY <2>5, IdleGuard DEF RepeatTransition, RestoreSendObservation, outVars, inVars
  <2> QED  BY <1>3, <2>1, <2>2, <2>3, <2>4, <2>5 DEF OutboxNext
<1>4. ASSUME NEW a \in Accounts, NEW tok \in Token, InboundNext(a, tok)
      PROVE  GuardStep(b)
  BY <1>4, InboundGuard
<1> QED  BY <1>1, <1>2, <1>3, <1>4 DEF Next

-----------------------------------------------------------------------------
(* The ledger.                                                             *)

(* GuardLedger for one account.                                            *)
Holds(a, t, k) == Guarded(outbox[a][t]) /\ ~outbox[a][t].settled /\ k \in ScopesOf(outbox[a][t].policy)

LedgerOf(a) ==
  /\ \A k \in GuardScopes, t \in Triggers : scopes[a][k].reserved = t <=> Holds(a, t, k)
  /\ \A t \in Triggers : outbox[a][t] # NoBatch =>
       (outbox[a][t].settled <=> Guarded(outbox[a][t]) /\ AllTerminal(outbox[a][t].segs))

LEMMA ScopesReserved ==
  ASSUME NEW rows \in [GuardScopes -> Scope], NEW p \in Policies, NEW t
  PROVE  \A k \in GuardScopes :
           Reserve(rows, p, t)[k].reserved = IF k \in ScopesOf(p) THEN t ELSE rows[k].reserved
BY DEF Reserve, Scope

LEMMA ScopesSettled ==
  ASSUME NEW rows \in [GuardScopes -> Scope], NEW p \in Policies, NEW deliveries
  PROVE  \A k \in GuardScopes :
           Settle(rows, p, deliveries)[k].reserved =
             IF k \in ScopesOf(p) THEN NoTrigger ELSE rows[k].reserved
BY DEF Settle, Scope, Release, Charge

LEMMA QuietHolds ==
  ASSUME LedgerInv, NEW a \in Accounts, NEW t \in Triggers, Quiet(a, t)
  PROVE  /\ \A k : Holds(a, t, k)' <=> Holds(a, t, k)
         /\ (outbox[a][t] # NoBatch =>
              (outbox[a][t].settled <=> Guarded(outbox[a][t]) /\ AllTerminal(outbox[a][t].segs)))'
         /\ (t \in Events /\ outbox[a][t] # NoBatch => t \in decided[a])' \/ t \in decided[a]
<1>1. outbox[a][t] # NoBatch =>
        (outbox[a][t].settled <=> Guarded(outbox[a][t]) /\ AllTerminal(outbox[a][t].segs))
  BY DEF LedgerInv, GuardLedger, Batches, Guarded
<1>2. t \in Events /\ outbox[a][t] # NoBatch => t \in decided[a]
  BY DEF LedgerInv, ReplyImpliesDecision, Batches
<1> QED  BY <1>1, <1>2 DEF Quiet, Holds, Guarded

(* LedgerInv for one account.                                              *)
EmptyRows(a) == \A k \in GuardScopes : scopes[a][k].zone = NoZone => scopes[a][k] = EmptyScope

DecidedOf(a) == \A t \in Events : outbox[a][t] # NoBatch => t \in decided[a]

LEMMA InvByAccount ==
  /\ LedgerInv <=> TypeOK /\ \A a \in Accounts : LedgerOf(a) /\ DecidedOf(a) /\ EmptyRows(a)
  /\ LedgerInv' <=>
       TypeOK' /\ \A a \in Accounts : LedgerOf(a)' /\ DecidedOf(a)' /\ EmptyRows(a)'
<1>1. Events \subseteq Triggers
  BY DEF Triggers
<1>2. /\ ReplyImpliesDecision <=> \A a \in Accounts : DecidedOf(a)
      /\ ReplyImpliesDecision' <=> \A a \in Accounts : DecidedOf(a)'
  BY <1>1 DEF ReplyImpliesDecision, Batches, DecidedOf
<1>3. /\ GuardLedger <=> \A a \in Accounts : LedgerOf(a)
      /\ GuardLedger' <=> \A a \in Accounts : LedgerOf(a)'
  BY DEF GuardLedger, LedgerOf, Holds, Guarded, Batches
<1> QED  BY <1>2, <1>3 DEF LedgerInv, RowlessEmpty, EmptyRows

LEMMA QuietLedger ==
  ASSUME LedgerInv, NEW a \in Accounts, decided[a] \subseteq decided'[a], AllQuiet(a)
  PROVE  LedgerOf(a)' /\ DecidedOf(a)' /\ EmptyRows(a)'
<1>1. LedgerOf(a) /\ DecidedOf(a) /\ EmptyRows(a) /\ Events \subseteq Triggers
  BY InvByAccount DEF Triggers
<1>2. \A t \in Triggers :
        /\ \A k : Holds(a, t, k)' <=> Holds(a, t, k)
        /\ (outbox[a][t] # NoBatch =>
              (outbox[a][t].settled <=> Guarded(outbox[a][t]) /\ AllTerminal(outbox[a][t].segs)))'
        /\ (t \in Events /\ outbox[a][t] # NoBatch => t \in decided[a])' \/ t \in decided[a]
  BY QuietHolds DEF AllQuiet
<1>3. LedgerOf(a)'
  BY <1>1, <1>2 DEF AllQuiet, LedgerOf
<1>4. DecidedOf(a)' /\ EmptyRows(a)'
  BY <1>1, <1>2 DEF AllQuiet, DecidedOf, EmptyRows
<1> QED  BY <1>3, <1>4

LEMMA ReservingLedger ==
  ASSUME LedgerInv, TypeOK', NEW a \in Accounts, decided[a] \subseteq decided'[a],
         NEW t \in Triggers, NEW p \in Policies, Reserving(a, t, p)
  PROVE  LedgerOf(a)' /\ DecidedOf(a)' /\ EmptyRows(a)'
<1>1. LedgerOf(a) /\ DecidedOf(a) /\ EmptyRows(a) /\ Events \subseteq Triggers
  BY InvByAccount DEF Triggers
<1>2. scopes[a] \in [GuardScopes -> Scope] /\ ScopesOf(p) \subseteq GuardScopes
  BY DEF LedgerInv, TypeOK, ScopesType, GuardScopes
<1>3. \A k \in GuardScopes :
        scopes'[a][k].reserved = IF k \in ScopesOf(p) THEN t ELSE scopes[a][k].reserved
  BY <1>2, ScopesReserved DEF Reserving
<1>4. \A k \in ScopesOf(p) : scopes[a][k].reserved \in {NoTrigger, t}
  BY <1>2, <1>1 DEF Reserving, CanReserve, ScopeAdmits, EmptyRows, EmptyScope, RowExists
<1>5. /\ \A k : ~Holds(a, t, k)
      /\ \A k : Holds(a, t, k)' <=> k \in ScopesOf(p)
      /\ \A u \in Triggers \ {t} : \A k : Holds(a, u, k)' <=> Holds(a, u, k)
  BY GuardAssumption DEF Reserving, Holds, Guarded
<1>6. \A k \in ScopesOf(p) : scopes[a][k].reserved = NoTrigger
  BY <1>1, <1>2, <1>4, <1>5 DEF LedgerOf
<1>7. NoTrigger \notin Triggers
  BY StoreAssumption
<1>8. \A k \in GuardScopes, u \in Triggers : scopes'[a][k].reserved = u <=> Holds(a, u, k)'
  <2> TAKE k \in GuardScopes, u \in Triggers
  <2>1. scopes[a][k].reserved = u <=> Holds(a, u, k)
    BY <1>1 DEF LedgerOf
  <2>2. CASE k \in ScopesOf(p)
    BY <1>3, <1>5, <1>6, <1>7, <2>1, <2>2
  <2>3. CASE k \notin ScopesOf(p)
    BY <1>3, <1>5, <2>1, <2>3
  <2> QED  BY <2>2, <2>3
<1>9. LedgerOf(a)'
  <2>1. ASSUME NEW u \in Triggers, outbox'[a][u] # NoBatch
        PROVE  (outbox[a][u].settled <=> Guarded(outbox[a][u]) /\ AllTerminal(outbox[a][u].segs))'
    BY <1>1, <2>1 DEF Reserving, LedgerOf, Guarded
  <2> QED  BY <1>8, <2>1 DEF LedgerOf
<1>10. DecidedOf(a)'
  BY <1>1 DEF Reserving, DecidedOf
<1>11. EmptyRows(a)'
  <2> SUFFICES ASSUME NEW k \in GuardScopes, scopes'[a][k].zone = NoZone
               PROVE  scopes'[a][k] = EmptyScope
    BY DEF EmptyRows
  <2>1. scopes'[a][k] = Reserve(scopes[a], p, t)[k] /\ scopes[a][k] \in Scope
    BY <1>2 DEF Reserving
  <2>2. k \notin ScopesOf(p)
    BY <1>2, <2>1, GuardAssumption DEF Reserve, Scope
  <2> QED  BY <1>1, <1>2, <2>1, <2>2 DEF Reserve, EmptyRows
<1> QED  BY <1>9, <1>10, <1>11

LEMMA ClosingLedger ==
  ASSUME LedgerInv, TypeOK', NEW a \in Accounts, decided[a] \subseteq decided'[a],
         NEW t \in Triggers, NEW p \in Policies, Closing(a, t, p)
  PROVE  LedgerOf(a)' /\ DecidedOf(a)' /\ EmptyRows(a)'
<1>1. LedgerOf(a) /\ DecidedOf(a) /\ EmptyRows(a) /\ Events \subseteq Triggers
  BY InvByAccount DEF Triggers
<1>2. scopes[a] \in [GuardScopes -> Scope] /\ ScopesOf(p) \subseteq GuardScopes
  BY DEF LedgerInv, TypeOK, ScopesType, GuardScopes
<1>3. \A k \in GuardScopes :
        scopes'[a][k].reserved = IF k \in ScopesOf(p) THEN NoTrigger ELSE scopes[a][k].reserved
  BY <1>2, ScopesSettled DEF Closing
<1>4. \A k \in ScopesOf(p) : scopes[a][k].reserved = t /\ scopes[a][k].zone # NoZone
  BY DEF Closing, HoldsReservation, RowExists
<1>5. \A u \in Triggers \ {t} :
        /\ \A k : Holds(a, u, k)' <=> Holds(a, u, k)
        /\ (outbox[a][u] # NoBatch =>
              (outbox[a][u].settled <=> Guarded(outbox[a][u]) /\ AllTerminal(outbox[a][u].segs)))'
        /\ (u \in Events /\ outbox[a][u] # NoBatch => u \in decided[a])' \/ u \in decided[a]
  BY QuietHolds DEF Closing
<1>6. \A k : ~Holds(a, t, k)' /\ (Holds(a, t, k) <=> k \in ScopesOf(p))
  BY GuardAssumption DEF Closing, Holds, Guarded
<1>7. NoTrigger \notin Triggers
  BY StoreAssumption
<1>8. \A k \in GuardScopes, u \in Triggers : scopes'[a][k].reserved = u <=> Holds(a, u, k)'
  <2> TAKE k \in GuardScopes, u \in Triggers
  <2>1. scopes[a][k].reserved = u <=> Holds(a, u, k)
    BY <1>1 DEF LedgerOf
  <2>2. CASE k \in ScopesOf(p)
    BY <1>3, <1>4, <1>5, <1>6, <1>7, <2>1, <2>2
  <2>3. CASE k \notin ScopesOf(p)
    BY <1>3, <1>5, <1>6, <2>1, <2>3
  <2> QED  BY <2>2, <2>3
<1>9. LedgerOf(a)'
  <2>1. ASSUME NEW u \in Triggers, outbox'[a][u] # NoBatch
        PROVE  (outbox[a][u].settled <=> Guarded(outbox[a][u]) /\ AllTerminal(outbox[a][u].segs))'
    BY <1>5, <2>1, GuardAssumption DEF Closing, Guarded
  <2> QED  BY <1>8, <2>1 DEF LedgerOf
<1>10. DecidedOf(a)'
  BY <1>1, <1>5 DEF Closing, DecidedOf
<1>11. EmptyRows(a)'
  <2> SUFFICES ASSUME NEW k \in GuardScopes, scopes'[a][k].zone = NoZone
               PROVE  scopes'[a][k] = EmptyScope
    BY DEF EmptyRows
  <2>1. /\ scopes'[a][k] = Settle(scopes[a], p, Deliveries(outbox'[a][t]))[k]
        /\ scopes[a][k] \in Scope
    BY <1>2 DEF Closing
  <2>2. k \notin ScopesOf(p)
    BY <1>2, <1>4, <2>1 DEF Settle, Charge, Release, Scope
  <2> QED  BY <1>1, <1>2, <2>1, <2>2 DEF Settle, EmptyRows
<1> QED  BY <1>9, <1>10, <1>11

LEMMA GuardStepKeeps ==
  ASSUME LedgerInv, TypeOK', \A a \in Accounts : GuardStep(a)
  PROVE  LedgerInv'
<1>1. ASSUME NEW a \in Accounts
      PROVE  LedgerOf(a)' /\ DecidedOf(a)' /\ EmptyRows(a)'
  <2>1. decided[a] \subseteq decided'[a]
    BY DEF GuardStep
  <2>2. CASE AllQuiet(a)
    BY <2>1, <2>2, QuietLedger
  <2>3. ASSUME NEW t \in Triggers, NEW p \in Policies, Reserving(a, t, p)
        PROVE  LedgerOf(a)' /\ DecidedOf(a)' /\ EmptyRows(a)'
    BY <2>1, <2>3, ReservingLedger
  <2>4. ASSUME NEW t \in Triggers, NEW p \in Policies, Closing(a, t, p)
        PROVE  LedgerOf(a)' /\ DecidedOf(a)' /\ EmptyRows(a)'
    BY <2>1, <2>4, ClosingLedger
  <2> QED  BY <2>2, <2>3, <2>4 DEF GuardStep
<1> QED  BY <1>1, InvByAccount

LEMMA LedgerNext == LedgerInv /\ [Next]_vars => LedgerInv'
BY NextGuard, NextType, GuardStepKeeps DEF LedgerInv

LEMMA LedgerInit == Init => LedgerInv
<1> SUFFICES ASSUME Init  PROVE  LedgerInv
  OBVIOUS
<1>1. TypeOK
  BY InitType
<1>2. ASSUME NEW a \in Accounts
      PROVE  LedgerOf(a) /\ DecidedOf(a) /\ EmptyRows(a)
  <2>1. /\ \A t \in Triggers : outbox[a][t] = NoBatch
        /\ \A k \in GuardScopes : scopes[a][k] = EmptyScope
    BY DEF Init
  <2>2. Events \subseteq Triggers /\ NoTrigger \notin Triggers
    BY StoreAssumption DEF Triggers
  <2> QED  BY <2>1, <2>2 DEF LedgerOf, DecidedOf, EmptyRows, Holds, Guarded, EmptyScope
<1> QED  BY <1>1, <1>2, InvByAccount

LEMMA LedgerAlways == Spec => []LedgerInv
BY LedgerInit, LedgerNext, PTL DEF Spec

(* A scope is reserved by exactly the unsettled automatic batch whose      *)
(* policy names it, and a batch is settled exactly when nothing of it can  *)
(* still be delivered, whatever the callers, their tokens, a takeover or a *)
(* receipt page do: GuardLedger.                                           *)
THEOREM LedgerTheorem == Spec => []GuardLedger
<1>1. LedgerInv => GuardLedger
  BY DEF LedgerInv
<1> QED  BY <1>1, LedgerAlways, PTL

(* A reply to an inbound event exists only once the event is decided:      *)
(* ReplyImpliesDecision.                                                   *)
THEOREM DecisionTheorem == Spec => []ReplyImpliesDecision
<1>1. LedgerInv => ReplyImpliesDecision
  BY DEF LedgerInv
<1> QED  BY <1>1, LedgerAlways, PTL

(* An event decided once stays decided, and no delivery of it over another *)
(* stream or generation changes what was decided: EventDecidedOnce.        *)
THEOREM DecidedOnceTheorem == Spec => EventDecidedOnce
<1>1. ASSUME LedgerInv, LedgerInv', [Next]_vars, NEW a \in Accounts, NEW e \in decided[a]
      PROVE  /\ e \in decided'[a]
             /\ outbox[a][e] = NoBatch => outbox'[a][e] = NoBatch
             /\ outbox[a][e] # NoBatch =>
                  /\ outbox'[a][e] # NoBatch
                  /\ outbox'[a][e].response = outbox[a][e].response
                  /\ outbox'[a][e].policy = outbox[a][e].policy
  <2>1. GuardStep(a) /\ e \in Events /\ e \in Triggers
    BY <1>1, NextGuard DEF LedgerInv, TypeOK, InboundType, Triggers
  <2>2. CASE Quiet(a, e)
    BY <1>1, <2>1, <2>2 DEF Quiet, GuardStep
  <2>3. ASSUME NEW t \in Triggers, NEW p \in Policies, Reserving(a, t, p)
        PROVE  Quiet(a, e)
    BY <1>1, <2>1, <2>3 DEF Reserving, Quiet
  <2>4. ASSUME NEW t \in Triggers, NEW p \in Policies, Closing(a, t, p), ~Quiet(a, e)
        PROVE  /\ outbox[a][e] # NoBatch /\ outbox'[a][e] # NoBatch
               /\ outbox'[a][e].response = outbox[a][e].response
               /\ outbox'[a][e].policy = outbox[a][e].policy
    BY <1>1, <2>1, <2>4 DEF Closing
  <2> QED  BY <2>1, <2>2, <2>3, <2>4 DEF GuardStep, AllQuiet
<1>2. LedgerInv /\ LedgerInv' /\ [Next]_vars =>
        \A a \in Accounts : \A e \in decided[a] :
          /\ e \in decided'[a]
          /\ outbox[a][e] = NoBatch => outbox'[a][e] = NoBatch
          /\ outbox[a][e] # NoBatch =>
               /\ outbox'[a][e] # NoBatch
               /\ outbox'[a][e].response = outbox[a][e].response
               /\ outbox'[a][e].policy = outbox[a][e].policy
  BY <1>1
<1> QED  BY <1>2, LedgerAlways, PTL DEF Spec, EventDecidedOnce

-----------------------------------------------------------------------------
(* Arithmetic of local days.                                               *)

LEMMA DivBounds ==
  ASSUME NEW n \in Nat, NEW d \in Nat \ {0}
  PROVE  /\ n \div d \in Nat
         /\ (n \div d) * d <= n
         /\ n < (n \div d) * d + d
BY SMTT(30)

LEMMA DivMonotone ==
  ASSUME NEW n \in Nat, NEW m \in Nat, NEW d \in Nat \ {0}, n <= m
  PROVE  n \div d <= m \div d
<1> DEFINE q == n \div d
           r == m \div d
<1>1. q \in Nat /\ r \in Nat /\ q * d <= n /\ m < r * d + d
  BY DivBounds
<1> HIDE DEF q, r
<1>2. ASSUME q > r  PROVE FALSE
  <2>1. PICK k \in Nat : q = r + 1 + k
    <3>1. q - r - 1 \in Nat /\ q = r + 1 + (q - r - 1)
      BY <1>1, <1>2
    <3> QED  BY <3>1
  <2>2. q * d = r * d + d + k * d
    BY <1>1, <2>1, SMTT(30)
  <2>3. k * d \in Nat /\ r * d \in Nat /\ q * d \in Nat
    BY <1>1, SMTT(30)
  <2> QED  BY <1>1, <2>2, <2>3
<1>3. q <= r
  BY <1>1, <1>2
<1> QED  BY <1>3 DEF q, r

LEMMA DayMonotone ==
  ASSUME NEW p \in Policies, NEW x \in Nat, NEW y \in Nat, x <= y
  PROVE  Day(p, x) <= Day(p, y) /\ Day(p, x) \in Nat /\ Day(p, y) \in Nat
<1>1. x + p.offset \in Nat /\ y + p.offset \in Nat /\ x + p.offset <= y + p.offset
  BY GuardAssumption
<1>2. DayLength \in Nat \ {0}
  BY GuardAssumption
<1>3. Day(p, x) <= Day(p, y)
  BY <1>1, <1>2, DivMonotone DEF Day
<1> QED  BY <1>3, DayType

LEMMA OneZoneOneDay ==
  ASSUME NEW p \in Policies, NEW q \in Policies, p.zone = q.zone, NEW x
  PROVE  Day(p, x) = Day(q, x)
BY GuardAssumption DEF Day

-----------------------------------------------------------------------------
(* What the scopes of an account count.                                    *)

LatestOf(D) == CHOOSE m \in D : \A d \in D : d <= m

LEMMA LatestDelivery ==
  ASSUME NEW batch, Stored(batch), Deliveries(batch) # {}
  PROVE  LatestOf(Deliveries(batch)) \in Deliveries(batch) /\ LatestOf(Deliveries(batch)) \in Nat
<1>1. Deliveries(batch) \in SUBSET (0..MaxTime) /\ MaxTime \in Nat
  BY DeliveriesType, StoreAssumption
<1>2. \E m \in Deliveries(batch) : \A d \in Deliveries(batch) : d <= m
  BY <1>1, LargestExists
<1> QED  BY <1>1, <1>2 DEF LatestOf

(* The scopes of a guarded batch are kept in its policy's time zone.       *)
Zoned(a) ==
  \A t \in Triggers : Guarded(outbox[a][t]) =>
    \A k \in ScopesOf(outbox[a][t].policy) : scopes[a][k].zone = outbox[a][t].policy.zone

(* Every delivery was charged to each of its scopes, which remember the    *)
(* latest one.                                                             *)
Charged(a) ==
  \A t \in Delivered(a) : \A k \in ScopesOf(outbox[a][t].policy) :
    DeliveredAt(a, t) <= scopes[a][k].last

(* A scope counts on the local day of its latest delivery.                 *)
Counting(scope) ==
  IF scope.last = Never THEN scope.day = Never
  ELSE /\ scope.used >= 1
       /\ \A p \in Policies : p.zone = scope.zone => scope.day = Day(p, scope.last)

Counters(a) == \A k \in GuardScopes : Counting(scopes[a][k])

(* What check_scope required of scope k when the batch was claimed.        *)
AdmittedBy(scope, p, k, at) ==
  /\ k = AccountScope => UsedToday(scope, p, at) < p.quota
  /\ k = PeerScope(p) /\ p.peerLimit => UsedToday(scope, p, at) = 0
  /\ scope.last # Never => at >= scope.last + DelayOf(p, k)

(* ... still holds while the batch holds the scope.                        *)
Admitted(a) ==
  \A t \in Triggers : Guarded(outbox[a][t]) /\ ~outbox[a][t].settled =>
    /\ outbox[a][t].policy.quota > 0
    /\ \A k \in ScopesOf(outbox[a][t].policy) :
         AdmittedBy(scopes[a][k], outbox[a][t].policy, k, outbox[a][t].created)

DeliveredOn(a, day) == {t \in Delivered(a) : DeliveryDay(a, t) = day}

(* The account scope counts the deliveries of its day.                     *)
Counted(a) ==
  /\ IsFiniteSet(Delivered(a))
  /\ Delivered(a) # {} =>
       Cardinality(DeliveredOn(a, scopes[a][AccountScope].day)) <= scopes[a][AccountScope].used

QuotaOf(a) ==
  \A t \in Delivered(a) : \E u \in Delivered(a) :
    /\ DeliveryDay(a, u) = DeliveryDay(a, t)
    /\ Cardinality(DeliveredOn(a, DeliveryDay(a, t))) <= outbox[a][u].policy.quota

PeerOf(a) ==
  \A t, u \in Delivered(a) :
    /\ t # u
    /\ PeerScope(outbox[a][t].policy) = PeerScope(outbox[a][u].policy)
    /\ outbox[a][t].policy.peerLimit
    /\ outbox[a][u].policy.peerLimit
    => DeliveryDay(a, t) # DeliveryDay(a, u)

Apart(p, q, at, bt) ==
  /\ bt - at >= Earlier(p.interval, q.interval)
  /\ RuleScope(p) = RuleScope(q) => bt - at >= Earlier(p.cooldown, q.cooldown)

SpacingOf(a) ==
  \A t, u \in Delivered(a) :
    t # u /\ DeliveredAt(a, t) <= DeliveredAt(a, u) =>
      Apart(outbox[a][t].policy, outbox[a][u].policy, DeliveredAt(a, t), DeliveredAt(a, u))

LimitsOf(a) == QuotaOf(a) /\ PeerOf(a) /\ SpacingOf(a)

CountOf(a) ==
  Zoned(a) /\ Charged(a) /\ Counters(a) /\ Admitted(a) /\ Counted(a) /\ LimitsOf(a)

(* No delivery is dated before the claim of its batch. It is a condition on*)
(* the receipts: one may be dated up to Slack before the claim, and then be*)
(* charged to the day before.                                              *)
DatedAfterClaim ==
  \A a \in Accounts : \A t \in Batches(a) : \A d \in Deliveries(outbox[a][t]) :
    d >= outbox[a][t].created

LEMMA DeliveredFacts ==
  ASSUME LedgerInv, NEW a \in Accounts, NEW t \in Delivered(a)
  PROVE  /\ t \in Triggers /\ outbox[a][t] # NoBatch /\ Guarded(outbox[a][t])
         /\ outbox[a][t].policy \in Policies
         /\ outbox[a][t].settled
         /\ DeliveredAt(a, t) \in Deliveries(outbox[a][t]) /\ DeliveredAt(a, t) \in Nat
         /\ DeliveryDay(a, t) \in Nat
<1>1. /\ t \in Triggers /\ outbox[a][t] # NoBatch /\ outbox[a][t].settled
      /\ Stored(outbox[a][t]) /\ Deliveries(outbox[a][t]) # {}
  BY DEF Delivered, Batches, LedgerInv, TypeOK, OutboxType
<1>2. Guarded(outbox[a][t])
  BY <1>1 DEF LedgerInv, GuardLedger, Batches, Guarded
<1>3. outbox[a][t].policy \in Policies
  BY <1>1, <1>2 DEF Stored, IsBatch, BatchOf, Guarded
<1>4. DeliveredAt(a, t) = LatestOf(Deliveries(outbox[a][t]))
  BY DEF DeliveredAt, LatestOf
<1>5. DeliveredAt(a, t) \in Deliveries(outbox[a][t]) /\ DeliveredAt(a, t) \in Nat
  BY <1>1, <1>4, LatestDelivery
<1> QED  BY <1>1, <1>2, <1>3, <1>5, DayType DEF DeliveryDay

(* A step that settles nothing delivers nothing.                           *)
SameDelivered(a) ==
  /\ Delivered(a)' = Delivered(a)
  /\ \A t \in Delivered(a) :
       /\ outbox'[a][t] = outbox[a][t]
       /\ DeliveredAt(a, t)' = DeliveredAt(a, t)
       /\ DeliveryDay(a, t)' = DeliveryDay(a, t)

LEMMA QuietDelivered ==
  ASSUME NEW a \in Accounts, NEW t \in Triggers, Quiet(a, t)
  PROVE  /\ t \in Delivered(a)' <=> t \in Delivered(a)
         /\ t \in Delivered(a) =>
              /\ outbox'[a][t] = outbox[a][t]
              /\ DeliveredAt(a, t)' = DeliveredAt(a, t)
              /\ DeliveryDay(a, t)' = DeliveryDay(a, t)
<1>1. CASE outbox'[a][t] = outbox[a][t]
  BY <1>1 DEF Delivered, Batches, DeliveredAt, DeliveryDay
<1>2. CASE outbox'[a][t] # outbox[a][t]
  BY <1>2 DEF Quiet, Delivered, Batches
<1> QED  BY <1>1, <1>2

LEMMA NothingDelivered ==
  ASSUME NEW a \in Accounts, \A t \in Triggers : Quiet(a, t) \/ (t \notin Delivered(a) /\ t \notin Delivered(a)')
  PROVE  SameDelivered(a)
<1>1. Delivered(a) \subseteq Triggers /\ Delivered(a)' \subseteq Triggers
  BY DEF Delivered, Batches
<1> QED  BY <1>1, QuietDelivered DEF SameDelivered

LEMMA LimitsKept ==
  ASSUME NEW a \in Accounts, SameDelivered(a), LimitsOf(a)
  PROVE  LimitsOf(a)'
<1>1. QuotaOf(a)'
  <2>1. \A day : DeliveredOn(a, day)' = DeliveredOn(a, day)
    BY DEF SameDelivered, DeliveredOn
  <2> QED  BY <2>1 DEF LimitsOf, QuotaOf, SameDelivered
<1>2. PeerOf(a)'
  BY DEF LimitsOf, PeerOf, SameDelivered
<1>3. SpacingOf(a)'
  BY DEF LimitsOf, SpacingOf, SameDelivered
<1> QED  BY <1>1, <1>2, <1>3 DEF LimitsOf

LEMMA QuietCount ==
  ASSUME LedgerInv, NEW a \in Accounts, AllQuiet(a), CountOf(a)
  PROVE  CountOf(a)'
<1>1. SameDelivered(a) /\ scopes'[a] = scopes[a] /\ \A t \in Triggers : Quiet(a, t)
  BY NothingDelivered DEF AllQuiet
<1>2. ASSUME NEW t \in Triggers, Guarded(outbox'[a][t])
      PROVE  /\ Guarded(outbox[a][t])
             /\ outbox'[a][t].policy = outbox[a][t].policy
  BY <1>1, <1>2 DEF Quiet, Guarded
<1>3. Zoned(a)'
  BY <1>1, <1>2 DEF CountOf, Zoned
<1>4. Charged(a)'
  BY <1>1 DEF CountOf, Charged, SameDelivered
<1>5. Counters(a)'
  BY <1>1 DEF CountOf, Counters
<1>6. Admitted(a)'
  <2>1. ASSUME NEW t \in Triggers, Guarded(outbox'[a][t]), ~outbox'[a][t].settled
        PROVE  /\ Guarded(outbox[a][t]) /\ ~outbox[a][t].settled
               /\ outbox'[a][t].policy = outbox[a][t].policy
               /\ outbox'[a][t].created = outbox[a][t].created
    BY <1>1, <2>1 DEF Quiet, Guarded
  <2> QED  BY <1>1, <2>1 DEF CountOf, Admitted
<1>7. Counted(a)'
  <2>1. \A day : DeliveredOn(a, day)' = DeliveredOn(a, day)
    BY <1>1 DEF SameDelivered, DeliveredOn
  <2> QED  BY <1>1, <2>1 DEF CountOf, Counted, SameDelivered
<1> QED  BY <1>1, <1>3, <1>4, <1>5, <1>6, <1>7, LimitsKept DEF CountOf

(* A reservation changes no counter of a scope.                            *)
LEMMA ReserveKeeps ==
  ASSUME NEW rows \in [GuardScopes -> Scope], NEW p \in Policies, NEW t, NEW k \in GuardScopes
  PROVE  LET row == Reserve(rows, p, t)[k]
         IN  /\ row.last = rows[k].last /\ row.day = rows[k].day /\ row.used = rows[k].used
             /\ rows[k].zone # NoZone => row.zone = rows[k].zone
             /\ k \notin ScopesOf(p) => row = rows[k]
             /\ k \in ScopesOf(p) /\ rows[k].zone = NoZone => row.zone = p.zone
BY DEF Reserve, Scope

LEMMA SameCounters ==
  ASSUME NEW row, NEW old, row.last = old.last, row.day = old.day, row.used = old.used,
         NEW p, NEW k, NEW at, AdmittedBy(old, p, k, at)
  PROVE  AdmittedBy(row, p, k, at)
BY DEF AdmittedBy, UsedToday

LEMMA ReservingCount ==
  ASSUME LedgerInv, NEW a \in Accounts, NEW t \in Triggers, NEW p \in Policies,
         Reserving(a, t, p), CountOf(a)
  PROVE  CountOf(a)'
<1>1. /\ scopes[a] \in [GuardScopes -> Scope] /\ ScopesOf(p) \subseteq GuardScopes
      /\ EmptyRows(a) /\ now \in Nat
  <2>1. EmptyRows(a)
    BY InvByAccount
  <2>2. now \in Nat
    BY StoreAssumption DEF LedgerInv, TypeOK
  <2>3. ScopesOf(p) \subseteq GuardScopes
    BY DEF GuardScopes
  <2> QED  BY <2>1, <2>2, <2>3 DEF LedgerInv, TypeOK, ScopesType
<1>2. SameDelivered(a)
  <2>1. t \notin Delivered(a) /\ t \notin Delivered(a)'
    BY DEF Reserving, Delivered, Batches
  <2>2. \A u \in Triggers \ {t} : Quiet(a, u)
    BY DEF Reserving, Quiet
  <2> QED  BY <2>1, <2>2, NothingDelivered
<1>3. \A k \in GuardScopes :
        /\ scopes'[a][k].last = scopes[a][k].last
        /\ scopes'[a][k].day = scopes[a][k].day
        /\ scopes'[a][k].used = scopes[a][k].used
        /\ scopes[a][k].zone # NoZone => scopes'[a][k].zone = scopes[a][k].zone
        /\ k \in ScopesOf(p) /\ scopes[a][k].zone = NoZone => scopes'[a][k].zone = p.zone
        /\ k \notin ScopesOf(p) => scopes'[a][k] = scopes[a][k]
  BY <1>1, ReserveKeeps DEF Reserving
<1>4. /\ outbox'[a][t].policy = p /\ outbox'[a][t].created = now
      /\ \A u \in Triggers \ {t} : outbox'[a][u] = outbox[a][u]
  BY DEF Reserving
<1>5. \A k \in ScopesOf(p) :
        IF scopes[a][k].zone = NoZone THEN scopes[a][k] = EmptyScope
        ELSE ScopeAdmits(scopes[a][k], p, k, t, now)
  <2>1. DOMAIN scopes[a] = GuardScopes
    BY <1>1
  <2>2. \A k \in ScopesOf(p) : scopes[a][k].zone # NoZone => ScopeAdmits(scopes[a][k], p, k, t, now)
    BY <1>1, <2>1 DEF Reserving, CanReserve, RowExists
  <2> QED  BY <1>1, <2>2 DEF EmptyRows
<1>6. Zoned(a)'
  <2>1. \A k \in ScopesOf(p) : scopes'[a][k].zone = p.zone
    BY <1>1, <1>3, <1>5 DEF ScopeAdmits
  <2>2. ASSUME NEW u \in Triggers \ {t}, Guarded(outbox[a][u]),
               NEW k \in ScopesOf(outbox[a][u].policy)
        PROVE  scopes'[a][k].zone = outbox[a][u].policy.zone
    <3>1. outbox[a][u].policy \in Policies
      BY <2>2 DEF LedgerInv, TypeOK, OutboxType, Stored, IsBatch, BatchOf, Guarded
    <3>2. scopes[a][k].zone = outbox[a][u].policy.zone /\ k \in GuardScopes
      BY <2>2, <3>1 DEF CountOf, Zoned, GuardScopes
    <3>3. outbox[a][u].policy.zone # NoZone
      BY <3>1, GuardAssumption
    <3> QED  BY <1>3, <3>2, <3>3
  <2> QED  BY <1>4, <2>1, <2>2 DEF Zoned
<1>7. Charged(a)'
  <2>1. \A u \in Delivered(a) : ScopesOf(outbox[a][u].policy) \subseteq GuardScopes
    BY DeliveredFacts DEF GuardScopes
  <2> QED  BY <1>2, <1>3, <2>1 DEF CountOf, Charged, SameDelivered
<1>8. Counters(a)'
  <2> SUFFICES ASSUME NEW k \in GuardScopes  PROVE Counting(scopes'[a][k])
    BY DEF Counters
  <2>1. Counting(scopes[a][k])
    BY DEF CountOf, Counters
  <2>2. CASE scopes[a][k].zone = NoZone
    BY <1>1, <1>3, <2>2 DEF EmptyRows, EmptyScope, Counting
  <2>3. CASE scopes[a][k].zone # NoZone
    BY <1>3, <2>1, <2>3 DEF Counting
  <2> QED  BY <2>2, <2>3
<1>9. Admitted(a)'
  <2>1. p.quota > 0
    BY GuardAssumption DEF Reserving, CanReserve
  <2>2. ASSUME NEW k \in ScopesOf(p)
        PROVE  AdmittedBy(scopes[a][k], p, k, now)
    <3>1. CASE scopes[a][k].zone = NoZone
      <4>1. scopes[a][k] = EmptyScope /\ Day(p, now) \in Nat /\ p.quota > 0
        BY <1>1, <1>5, <2>1, <3>1, DayType
      <4> QED  BY <4>1 DEF EmptyScope, AdmittedBy, UsedToday, Never
    <3>2. CASE scopes[a][k].zone # NoZone
      BY <1>5, <3>2 DEF ScopeAdmits, AdmittedBy
    <3> QED  BY <3>1, <3>2
  <2>3. \A k \in ScopesOf(p) : AdmittedBy(scopes'[a][k], p, k, now)
    BY <1>1, <1>3, <2>2, SameCounters
  <2>4. ASSUME NEW u \in Triggers \ {t}, Guarded(outbox[a][u]), ~outbox[a][u].settled
        PROVE  /\ outbox[a][u].policy.quota > 0
               /\ \A k \in ScopesOf(outbox[a][u].policy) :
                    AdmittedBy(scopes'[a][k], outbox[a][u].policy, k, outbox[a][u].created)
    <3>1. outbox[a][u].policy \in Policies
      BY <2>4 DEF LedgerInv, TypeOK, OutboxType, Stored, IsBatch, BatchOf, Guarded
    <3>2. ScopesOf(outbox[a][u].policy) \subseteq GuardScopes
      BY <3>1 DEF GuardScopes
    <3>3. /\ outbox[a][u].policy.quota > 0
          /\ \A k \in ScopesOf(outbox[a][u].policy) :
               AdmittedBy(scopes[a][k], outbox[a][u].policy, k, outbox[a][u].created)
      BY <2>4 DEF CountOf, Admitted
    <3> QED  BY <1>3, <3>2, <3>3, SameCounters
  <2> QED  BY <1>4, <2>1, <2>3, <2>4 DEF Admitted
<1>10. Counted(a)'
  <2>1. AccountScope \in GuardScopes
    BY <1>1 DEF ScopesOf
  <2>2. \A day : DeliveredOn(a, day)' = DeliveredOn(a, day)
    BY <1>2 DEF SameDelivered, DeliveredOn
  <2> QED  BY <1>2, <1>3, <2>1, <2>2 DEF CountOf, Counted, SameDelivered
<1> QED  BY <1>2, <1>6, <1>7, <1>8, <1>9, <1>10, LimitsKept DEF CountOf

(* What charging a scope leaves in it.                                     *)
LEMMA SettleCharges ==
  ASSUME NEW rows \in [GuardScopes -> Scope], NEW p \in Policies, NEW D, D # {},
         NEW k \in ScopesOf(p)
  PROVE  LET row == Settle(rows, p, D)[k]
             at  == LatestOf(D)
         IN  /\ row.zone = rows[k].zone
             /\ row.last = at
             /\ row.day = Day(p, at)
             /\ row.used = IF rows[k].day = Day(p, at) THEN rows[k].used + 1 ELSE 1
<1>1. k \in GuardScopes
  BY DEF GuardScopes
<1> QED  BY <1>1 DEF Settle, Charge, LatestOf

LEMMA SettleReleases ==
  ASSUME NEW rows \in [GuardScopes -> Scope], NEW p \in Policies, NEW D, NEW k \in GuardScopes,
         D = {} \/ k \notin ScopesOf(p)
  PROVE  LET row == Settle(rows, p, D)[k]
         IN  /\ row.zone = rows[k].zone /\ row.last = rows[k].last
             /\ row.day = rows[k].day /\ row.used = rows[k].used
BY DEF Settle, Release, Scope

(* A batch that is over without a delivery gives its scopes back as they   *)
(* were.                                                                   *)
LEMMA ReleasedCount ==
  ASSUME LedgerInv, NEW a \in Accounts, NEW t \in Triggers, NEW p \in Policies,
         Closing(a, t, p), Deliveries(outbox'[a][t]) = {}, CountOf(a)
  PROVE  CountOf(a)'
<1>1. scopes[a] \in [GuardScopes -> Scope]
  BY DEF LedgerInv, TypeOK, ScopesType
<1>2. SameDelivered(a)
  <2>1. t \notin Delivered(a) /\ t \notin Delivered(a)'
    BY DEF Closing, Delivered, Batches
  <2> QED  BY <2>1, NothingDelivered DEF Closing
<1>3. \A k \in GuardScopes :
        /\ scopes'[a][k].last = scopes[a][k].last
        /\ scopes'[a][k].day = scopes[a][k].day
        /\ scopes'[a][k].used = scopes[a][k].used
        /\ scopes'[a][k].zone = scopes[a][k].zone
  BY <1>1, SettleReleases DEF Closing
<1>4. ASSUME NEW u \in Triggers, Guarded(outbox'[a][u])
      PROVE  /\ Guarded(outbox[a][u])
             /\ outbox'[a][u].policy = outbox[a][u].policy
             /\ outbox'[a][u].created = outbox[a][u].created
             /\ ~outbox'[a][u].settled => ~outbox[a][u].settled
             /\ outbox[a][u].policy \in Policies
             /\ ScopesOf(outbox[a][u].policy) \subseteq GuardScopes
  <2>1. /\ Guarded(outbox[a][u])
        /\ outbox'[a][u].policy = outbox[a][u].policy
        /\ outbox'[a][u].created = outbox[a][u].created
        /\ ~outbox'[a][u].settled => ~outbox[a][u].settled
    BY <1>4 DEF Closing, Quiet, Guarded
  <2>2. outbox[a][u].policy \in Policies
    BY <2>1 DEF LedgerInv, TypeOK, OutboxType, Stored, IsBatch, BatchOf, Guarded
  <2> QED  BY <2>1, <2>2 DEF GuardScopes
<1>5. Zoned(a)'
  BY <1>3, <1>4 DEF CountOf, Zoned
<1>6. Charged(a)'
  <2>1. \A u \in Delivered(a) : ScopesOf(outbox[a][u].policy) \subseteq GuardScopes
    BY DeliveredFacts DEF GuardScopes
  <2> QED  BY <1>2, <1>3, <2>1 DEF CountOf, Charged, SameDelivered
<1>7. Counters(a)'
  BY <1>3 DEF CountOf, Counters, Counting
<1>8. Admitted(a)'
  <2> SUFFICES ASSUME NEW u \in Triggers, Guarded(outbox'[a][u]), ~outbox'[a][u].settled
               PROVE  /\ outbox'[a][u].policy.quota > 0
                      /\ \A k \in ScopesOf(outbox'[a][u].policy) :
                           AdmittedBy(scopes'[a][k], outbox'[a][u].policy, k, outbox'[a][u].created)
    BY DEF Admitted
  <2>1. /\ outbox[a][u].policy.quota > 0
        /\ \A k \in ScopesOf(outbox[a][u].policy) :
             AdmittedBy(scopes[a][k], outbox[a][u].policy, k, outbox[a][u].created)
    BY <1>4 DEF CountOf, Admitted
  <2> QED  BY <1>3, <1>4, <2>1, SameCounters
<1>9. Counted(a)'
  <2>1. AccountScope \in GuardScopes
    BY DEF GuardScopes, ScopesOf
  <2>2. \A day : DeliveredOn(a, day)' = DeliveredOn(a, day)
    BY <1>2 DEF SameDelivered, DeliveredOn
  <2> QED  BY <1>2, <1>3, <2>1, <2>2 DEF CountOf, Counted, SameDelivered
<1> QED  BY <1>2, <1>5, <1>6, <1>7, <1>8, <1>9, LimitsKept DEF CountOf

(* The one batch that is delivered, and what its scopes had admitted.      *)
LEMMA ChargedFacts ==
  ASSUME LedgerInv, LedgerInv', DatedAfterClaim', NEW a \in Accounts, NEW t \in Triggers,
         NEW p \in Policies, Closing(a, t, p), Deliveries(outbox'[a][t]) # {}, CountOf(a)
  PROVE  LET at == DeliveredAt(a, t)'
         IN  /\ t \in Delivered(a)' /\ t \notin Delivered(a)
             /\ Delivered(a)' = Delivered(a) \cup {t}
             /\ \A u \in Delivered(a) :
                  /\ outbox'[a][u] = outbox[a][u]
                  /\ DeliveredAt(a, u)' = DeliveredAt(a, u)
                  /\ DeliveryDay(a, u)' = DeliveryDay(a, u)
             /\ at \in Nat /\ at = LatestOf(Deliveries(outbox'[a][t]))
             /\ outbox[a][t].created \in Nat /\ outbox[a][t].created <= at
             /\ outbox'[a][t].policy = p /\ DeliveryDay(a, t)' = Day(p, at)
             /\ p.quota > 0
             /\ \A k \in ScopesOf(p) :
                  /\ k \in GuardScopes /\ scopes[a][k] \in Scope
                  /\ scopes[a][k].zone = p.zone
                  /\ AdmittedBy(scopes[a][k], p, k, outbox[a][t].created)
<1>1. t \in Delivered(a)' /\ t \notin Delivered(a)
  BY DEF Closing, Delivered, Batches
<1>2. \A u \in Triggers \ {t} :
        /\ u \in Delivered(a)' <=> u \in Delivered(a)
        /\ u \in Delivered(a) =>
             /\ outbox'[a][u] = outbox[a][u]
             /\ DeliveredAt(a, u)' = DeliveredAt(a, u)
             /\ DeliveryDay(a, u)' = DeliveryDay(a, u)
  BY QuietDelivered DEF Closing
<1>3. Delivered(a) \subseteq Triggers /\ Delivered(a)' \subseteq Triggers
  BY DEF Delivered, Batches
<1>4. Delivered(a)' = Delivered(a) \cup {t}
  BY <1>1, <1>2, <1>3
<1>5. Stored(outbox'[a][t]) /\ Stored(outbox[a][t])
  BY DEF LedgerInv, TypeOK, OutboxType, Closing
<1>6. DeliveredAt(a, t)' = LatestOf(Deliveries(outbox'[a][t]))
  BY DEF DeliveredAt, LatestOf
<1>7. DeliveredAt(a, t)' \in Deliveries(outbox'[a][t]) /\ DeliveredAt(a, t)' \in Nat
  BY <1>5, <1>6, LatestDelivery
<1>8. /\ outbox[a][t].created \in Nat /\ outbox[a][t].created <= DeliveredAt(a, t)'
      /\ outbox'[a][t].policy = p
  <2>1. /\ outbox'[a][t].created = outbox[a][t].created /\ outbox'[a][t].policy = p
        /\ t \in Batches(a)'
    BY DEF Closing, Batches
  <2>2. outbox[a][t].created \in Nat
    BY <1>5 DEF Stored, IsBatch, BatchOf
  <2> QED  BY <1>7, <2>1, <2>2 DEF DatedAfterClaim
<1>9. DeliveryDay(a, t)' = Day(p, DeliveredAt(a, t)')
  BY <1>8 DEF DeliveryDay
<1>10. Guarded(outbox[a][t]) /\ ~outbox[a][t].settled /\ outbox[a][t].policy = p
  BY GuardAssumption DEF Closing, Guarded
<1>11. /\ p.quota > 0
       /\ \A k \in ScopesOf(p) :
            /\ k \in GuardScopes /\ scopes[a][k] \in Scope
            /\ scopes[a][k].zone = p.zone
            /\ AdmittedBy(scopes[a][k], p, k, outbox[a][t].created)
  <2>1. /\ p.quota > 0
        /\ \A k \in ScopesOf(p) : AdmittedBy(scopes[a][k], p, k, outbox[a][t].created)
    BY <1>10 DEF CountOf, Admitted
  <2>2. \A k \in ScopesOf(p) : scopes[a][k].zone = p.zone
    BY <1>10 DEF CountOf, Zoned
  <2>3. \A k \in ScopesOf(p) : k \in GuardScopes /\ scopes[a][k] \in Scope
    BY DEF LedgerInv, TypeOK, ScopesType, GuardScopes
  <2> QED  BY <2>1, <2>2, <2>3
<1> QED  BY <1>1, <1>2, <1>3, <1>4, <1>6, <1>7, <1>8, <1>9, <1>11

(* A scope that counts something counts on a day no later than the claim's,*)
(* and no delivery charged to it is later than its last one.               *)
LEMMA ScopeDay ==
  ASSUME NEW p \in Policies, NEW scope \in Scope, scope.zone = p.zone, Counting(scope),
         NEW k, NEW created \in Nat, AdmittedBy(scope, p, k, created), scope.last # Never
  PROVE  /\ scope.last \in Nat /\ scope.last + DelayOf(p, k) <= created
         /\ DelayOf(p, k) \in Nat /\ scope.last <= created
         /\ scope.day = Day(p, scope.last) /\ scope.day \in Nat
         /\ scope.day <= Day(p, created) /\ scope.used >= 1
<1>1. scope.last \in Nat /\ DelayOf(p, k) \in Nat
  BY GuardAssumption DEF Scope, DelayOf
<1>2. scope.last + DelayOf(p, k) <= created /\ scope.day = Day(p, scope.last) /\ scope.used >= 1
  BY <1>1 DEF AdmittedBy, Counting
<1>3. scope.last <= created
  BY <1>1, <1>2
<1> QED  BY <1>1, <1>2, <1>3, DayMonotone

(* The deliveries an earlier batch made in a scope of this policy.         *)
LEMMA EarlierDelivery ==
  ASSUME LedgerInv, NEW a \in Accounts, CountOf(a), NEW u \in Delivered(a),
         NEW p \in Policies, NEW k \in ScopesOf(p), k \in ScopesOf(outbox[a][u].policy),
         scopes[a][k].zone = p.zone
  PROVE  /\ scopes[a][k].last # Never
         /\ DeliveredAt(a, u) \in Nat /\ DeliveredAt(a, u) <= scopes[a][k].last
         /\ DeliveryDay(a, u) = Day(p, DeliveredAt(a, u))
         /\ DeliveryDay(a, u) <= Day(p, scopes[a][k].last)
<1>1. /\ u \in Triggers /\ Guarded(outbox[a][u]) /\ outbox[a][u].policy \in Policies
      /\ DeliveredAt(a, u) \in Nat
  BY DeliveredFacts
<1>2. scopes[a][k].zone = outbox[a][u].policy.zone
  BY <1>1 DEF CountOf, Zoned
<1>3. DeliveryDay(a, u) = Day(p, DeliveredAt(a, u))
  BY <1>1, <1>2, OneZoneOneDay DEF DeliveryDay
<1>4. DeliveredAt(a, u) <= scopes[a][k].last
  BY DEF CountOf, Charged
<1>5. scopes[a][k].last \in Nat \cup {Never}
  <2>1. k \in GuardScopes
    BY DEF GuardScopes
  <2>2. scopes[a][k] \in Scope
    BY <2>1 DEF LedgerInv, TypeOK, ScopesType
  <2> QED  BY <2>2 DEF Scope
<1>6. scopes[a][k].last \in Nat /\ scopes[a][k].last # Never
  BY <1>1, <1>4, <1>5 DEF Never
<1> QED  BY <1>1, <1>3, <1>4, <1>6, DayMonotone

(* The limits the new delivery keeps, and the count that goes with it.     *)
LEMMA ChargedCounts ==
  ASSUME LedgerInv, LedgerInv', DatedAfterClaim', NEW a \in Accounts, NEW t \in Triggers,
         NEW p \in Policies, Closing(a, t, p), Deliveries(outbox'[a][t]) # {}, CountOf(a)
  PROVE  Counted(a)' /\ QuotaOf(a)'
<1> DEFINE at  == DeliveredAt(a, t)'
           day == Day(p, at)
           old == scopes[a][AccountScope]
           new == scopes'[a][AccountScope]
           after(d) == {u \in Delivered(a)' : DeliveryDay(a, u)' = d}
<1>1. /\ t \in Delivered(a)' /\ t \notin Delivered(a)
      /\ Delivered(a)' = Delivered(a) \cup {t}
      /\ \A u \in Delivered(a) :
           outbox'[a][u] = outbox[a][u] /\ DeliveryDay(a, u)' = DeliveryDay(a, u)
      /\ at \in Nat /\ at = LatestOf(Deliveries(outbox'[a][t]))
      /\ outbox[a][t].created \in Nat /\ outbox[a][t].created <= at
      /\ outbox'[a][t].policy = p /\ DeliveryDay(a, t)' = day
      /\ p.quota > 0
      /\ old \in Scope /\ old.zone = p.zone
      /\ AdmittedBy(old, p, AccountScope, outbox[a][t].created)
      /\ AccountScope \in GuardScopes /\ AccountScope \in ScopesOf(p)
  BY ChargedFacts DEF ScopesOf
<1>2. /\ day \in Nat /\ Day(p, outbox[a][t].created) <= day
      /\ Day(p, outbox[a][t].created) \in Nat
  BY <1>1, DayMonotone
<1>3. new.day = day /\ new.used = IF old.day = day THEN old.used + 1 ELSE 1
  <2>1. scopes[a] \in [GuardScopes -> Scope]
    BY DEF LedgerInv, TypeOK, ScopesType
  <2>2. new = Settle(scopes[a], p, Deliveries(outbox'[a][t]))[AccountScope]
    BY DEF Closing
  <2> HIDE DEF at
  <2> QED  BY <1>1, <2>1, <2>2, SettleCharges
<1>4. Counting(old)
  BY <1>1 DEF CountOf, Counters
<1>5. \A u \in Delivered(a) :
        /\ old.last # Never
        /\ DeliveryDay(a, u) <= Day(p, old.last)
        /\ AccountScope \in ScopesOf(outbox[a][u].policy)
  BY <1>1, EarlierDelivery DEF ScopesOf
<1> HIDE DEF at, day, new, old
<1>6. ASSUME old.last # Never
      PROVE  /\ old.day = Day(p, old.last) /\ old.day \in Nat
             /\ old.day <= Day(p, outbox[a][t].created)
  BY <1>1, <1>4, <1>6, ScopeDay
(* The deliveries already made on this day are those the scope counts.     *)
<1>7. ASSUME old.day # day
      PROVE  DeliveredOn(a, day) = {}
  <2> SUFFICES ASSUME NEW u \in Delivered(a), DeliveryDay(a, u) = day
               PROVE  FALSE
    BY DEF DeliveredOn
  <2>1. DeliveryDay(a, u) <= old.day /\ old.day <= Day(p, outbox[a][t].created)
        /\ old.day \in Nat
    BY <1>5, <1>6
  <2> QED  BY <1>2, <1>7, <2>1
<1>8. ASSUME old.day = day  PROVE old.used < p.quota
  <2>1. old.last # Never
    BY <1>2, <1>4, <1>8 DEF Counting, Never
  <2>2. Day(p, outbox[a][t].created) = old.day
    BY <1>2, <1>6, <1>8, <2>1
  <2> QED  BY <1>1, <2>2 DEF AdmittedBy, UsedToday
<1>9. IsFiniteSet(Delivered(a)) /\ IsFiniteSet(Delivered(a)')
  <2>1. IsFiniteSet(Delivered(a))
    BY DEF CountOf, Counted
  <2> QED  BY <1>1, <2>1, FS_AddElement
<1>10. \A d : /\ IsFiniteSet(DeliveredOn(a, d)) /\ Cardinality(DeliveredOn(a, d)) \in Nat
              /\ after(d) = IF d = day THEN DeliveredOn(a, d) \cup {t}
                                      ELSE DeliveredOn(a, d)
  <2> TAKE d
  <2>1. DeliveredOn(a, d) \subseteq Delivered(a)
    BY DEF DeliveredOn
  <2>2. IsFiniteSet(DeliveredOn(a, d)) /\ Cardinality(DeliveredOn(a, d)) \in Nat
    BY <1>9, <2>1, FS_Subset, FS_CardinalityType
  <2>3. after(d) = {u \in Delivered(a) \cup {t} : DeliveryDay(a, u)' = d}
    BY <1>1
  <2> QED  BY <1>1, <2>2, <2>3 DEF DeliveredOn
<1>14. after(day) = DeliveredOn(a, day) \cup {t} /\ IsFiniteSet(after(day))
  <2>1. after(day) = DeliveredOn(a, day) \cup {t}
    BY <1>10
  <2> HIDE DEF after
  <2> QED  BY <1>10, <2>1, FS_AddElement
<1>11. /\ Cardinality(after(day)) <= new.used
       /\ new.used <= p.quota
  <2>1. t \notin DeliveredOn(a, day)
    BY <1>1 DEF DeliveredOn
  <2>2. Cardinality(after(day)) = Cardinality(DeliveredOn(a, day)) + 1
    BY <1>10, <2>1, FS_AddElement
  <2>3. p.quota \in Nat /\ old.used \in Nat
    BY <1>1, GuardAssumption DEF Scope
  <2>4. CASE old.day = day
    <3>1. Cardinality(DeliveredOn(a, day)) <= old.used
      <4>1. CASE Delivered(a) = {}
        <5>1. DeliveredOn(a, day) = {}
          BY <4>1 DEF DeliveredOn
        <5> QED  BY <2>3, <5>1, FS_EmptySet
      <4>2. CASE Delivered(a) # {}
        BY <2>4, <4>2 DEF CountOf, Counted, old
      <4> QED  BY <4>1, <4>2
    <3> QED  BY <1>3, <1>8, <1>10, <2>2, <2>3, <2>4, <3>1
  <2>5. CASE old.day # day
    <3>1. Cardinality(DeliveredOn(a, day)) = 0
      BY <1>7, <2>5, FS_EmptySet
    <3> QED  BY <1>1, <1>3, <2>2, <2>3, <2>5, <3>1
  <2> QED  BY <2>4, <2>5
<1>12. Counted(a)'
  <2>1. DeliveredOn(a, scopes[a][AccountScope].day)' = after(day)
    BY <1>3 DEF DeliveredOn, new
  <2> QED  BY <1>9, <1>11, <2>1 DEF Counted, new
<1>13. QuotaOf(a)'
  <2> SUFFICES ASSUME NEW u \in Delivered(a)'
               PROVE  \E v \in Delivered(a)' :
                        /\ DeliveryDay(a, v)' = DeliveryDay(a, u)'
                        /\ Cardinality(DeliveredOn(a, DeliveryDay(a, u))') <= outbox'[a][v].policy.quota
    BY DEF QuotaOf
  <2>1. CASE DeliveryDay(a, u)' = day
    <3>1. DeliveredOn(a, DeliveryDay(a, u))' = after(day)
      BY <2>1 DEF DeliveredOn
    <3>2. p.quota \in Nat /\ new.used \in Nat /\ Cardinality(after(day)) \in Nat
      <4>1. Cardinality(after(day)) \in Nat
        BY <1>14, FS_CardinalityType
      <4> QED  BY <1>1, <1>3, <4>1, GuardAssumption DEF Scope
    <3>3. Cardinality(after(day)) <= p.quota
      <4> HIDE DEF after
      <4> QED  BY <1>11, <3>2
    <3> QED  BY <1>1, <2>1, <3>1, <3>3
  <2>2. CASE DeliveryDay(a, u)' # day
    <3>1. u \in Delivered(a) /\ DeliveryDay(a, u)' = DeliveryDay(a, u)
      BY <1>1, <2>2
    <3>2. PICK v \in Delivered(a) :
            /\ DeliveryDay(a, v) = DeliveryDay(a, u)
            /\ Cardinality(DeliveredOn(a, DeliveryDay(a, u))) <= outbox[a][v].policy.quota
      BY <3>1 DEF CountOf, LimitsOf, QuotaOf
    <3>3. DeliveredOn(a, DeliveryDay(a, u))' = DeliveredOn(a, DeliveryDay(a, u))
      <4> DEFINE d == DeliveryDay(a, u)
      <4>1. DeliveredOn(a, DeliveryDay(a, u))' = {v1 \in Delivered(a)' : DeliveryDay(a, v1)' = d}
        BY <3>1 DEF DeliveredOn
      <4>2. {v1 \in Delivered(a)' : DeliveryDay(a, v1)' = d} = DeliveredOn(a, d)
        BY <1>1, <2>2, <3>1 DEF DeliveredOn
      <4> QED  BY <4>1, <4>2
    <3> QED  BY <1>1, <3>1, <3>2, <3>3
  <2> QED  BY <2>1, <2>2
<1> QED  BY <1>12, <1>13

(* How far an earlier delivery in the same scope is from the new one.      *)
LEMMA DeliveriesApart ==
  ASSUME LedgerInv, LedgerInv', DatedAfterClaim', NEW a \in Accounts, NEW t \in Triggers,
         NEW p \in Policies, Closing(a, t, p), Deliveries(outbox'[a][t]) # {}, CountOf(a),
         NEW u \in Delivered(a), NEW k \in ScopesOf(p), k \in ScopesOf(outbox[a][u].policy)
  PROVE  /\ DeliveredAt(a, u) \in Nat /\ DelayOf(p, k) \in Nat
         /\ DeliveredAt(a, u) + DelayOf(p, k) <= DeliveredAt(a, t)'
         /\ k = PeerScope(p) /\ p.peerLimit => DeliveryDay(a, u) # DeliveryDay(a, t)'
<1> DEFINE at == DeliveredAt(a, t)'
           scope == scopes[a][k]
           created == outbox[a][t].created
<1>1. /\ at \in Nat /\ created \in Nat /\ created <= at
      /\ DeliveryDay(a, t)' = Day(p, at)
      /\ k \in GuardScopes /\ scope \in Scope /\ scope.zone = p.zone
      /\ AdmittedBy(scope, p, k, created)
  BY ChargedFacts
<1>2. /\ scope.last # Never
      /\ DeliveredAt(a, u) \in Nat /\ DeliveredAt(a, u) <= scope.last
      /\ DeliveryDay(a, u) <= Day(p, scope.last)
      /\ DeliveryDay(a, u) \in Nat
  BY <1>1, EarlierDelivery, DeliveredFacts
<1>3. Counting(scope)
  BY <1>1 DEF CountOf, Counters
<1> HIDE DEF at, scope, created
<1>4. /\ scope.last \in Nat /\ scope.last + DelayOf(p, k) <= created
      /\ DelayOf(p, k) \in Nat
      /\ scope.day = Day(p, scope.last) /\ scope.day \in Nat
      /\ scope.day <= Day(p, created) /\ scope.used >= 1
  BY <1>1, <1>2, <1>3, ScopeDay
<1>5. DeliveredAt(a, u) + DelayOf(p, k) <= at
  BY <1>1, <1>2, <1>4
<1>6. ASSUME k = PeerScope(p), p.peerLimit
      PROVE  DeliveryDay(a, u) # DeliveryDay(a, t)'
  <2>1. UsedToday(scope, p, created) = 0
    BY <1>1, <1>6 DEF AdmittedBy
  <2>2. scope.day # Day(p, created)
    BY <1>4, <2>1 DEF UsedToday
  <2>3. Day(p, created) <= Day(p, at) /\ Day(p, created) \in Nat /\ Day(p, at) \in Nat
    BY <1>1, DayMonotone
  <2> QED  BY <1>1, <1>2, <1>4, <2>2, <2>3
<1> QED  BY <1>2, <1>4, <1>5, <1>6 DEF at

LEMMA ChargedLimits ==
  ASSUME LedgerInv, LedgerInv', DatedAfterClaim', NEW a \in Accounts, NEW t \in Triggers,
         NEW p \in Policies, Closing(a, t, p), Deliveries(outbox'[a][t]) # {}, CountOf(a)
  PROVE  PeerOf(a)' /\ SpacingOf(a)'
<1> DEFINE at == DeliveredAt(a, t)'
<1>1. /\ Delivered(a)' = Delivered(a) \cup {t}
      /\ \A u \in Delivered(a) :
           /\ outbox'[a][u] = outbox[a][u]
           /\ DeliveredAt(a, u)' = DeliveredAt(a, u)
           /\ DeliveryDay(a, u)' = DeliveryDay(a, u)
      /\ at \in Nat /\ outbox'[a][t].policy = p
  BY ChargedFacts
<1>2. ASSUME NEW u \in Delivered(a), PeerScope(outbox[a][u].policy) = PeerScope(p), p.peerLimit
      PROVE  DeliveryDay(a, u) # DeliveryDay(a, t)'
  BY <1>2, DeliveriesApart DEF ScopesOf
<1>3. PeerOf(a)'
  <2> SUFFICES ASSUME NEW u \in Delivered(a)', NEW v \in Delivered(a)', u # v,
                      PeerScope(outbox'[a][u].policy) = PeerScope(outbox'[a][v].policy),
                      outbox'[a][u].policy.peerLimit, outbox'[a][v].policy.peerLimit
               PROVE  DeliveryDay(a, u)' # DeliveryDay(a, v)'
    BY DEF PeerOf
  <2>1. CASE u \in Delivered(a) /\ v \in Delivered(a)
    BY <1>1, <2>1 DEF CountOf, LimitsOf, PeerOf
  <2>2. CASE u = t /\ v \in Delivered(a)
    BY <1>1, <1>2, <2>2
  <2>3. CASE v = t /\ u \in Delivered(a)
    BY <1>1, <1>2, <2>3
  <2> QED  BY <1>1, <2>1, <2>2, <2>3
<1>4. ASSUME NEW u \in Delivered(a)
      PROVE  LET q == outbox[a][u].policy
             IN  /\ DeliveredAt(a, u) \in Nat /\ {p.interval, p.cooldown, q.interval, q.cooldown} \subseteq Nat
                 /\ DeliveredAt(a, u) + p.interval <= at
                 /\ RuleScope(p) = RuleScope(q) => DeliveredAt(a, u) + p.cooldown <= at
  <2>1. outbox[a][u].policy \in Policies
    BY DeliveredFacts
  <2>2. DelayOf(p, AccountScope) = p.interval /\ DelayOf(p, RuleScope(p)) = p.cooldown
    BY ScopeKinds DEF DelayOf
  <2>3. DeliveredAt(a, u) \in Nat /\ DeliveredAt(a, u) + p.interval <= at
    BY <2>2, DeliveriesApart DEF ScopesOf
  <2>4. ASSUME RuleScope(p) = RuleScope(outbox[a][u].policy)
        PROVE  DeliveredAt(a, u) + p.cooldown <= at
    BY <2>2, <2>4, DeliveriesApart DEF ScopesOf
  <2> QED  BY <2>1, <2>3, <2>4, GuardAssumption
<1>5. SpacingOf(a)'
  <2> SUFFICES ASSUME NEW u \in Delivered(a)', NEW v \in Delivered(a)', u # v,
                      DeliveredAt(a, u)' <= DeliveredAt(a, v)'
               PROVE  Apart(outbox'[a][u].policy, outbox'[a][v].policy,
                            DeliveredAt(a, u)', DeliveredAt(a, v)')
    BY DEF SpacingOf
  <2>1. CASE u \in Delivered(a) /\ v \in Delivered(a)
    BY <1>1, <2>1 DEF CountOf, LimitsOf, SpacingOf
  <2>2. CASE u = t /\ v \in Delivered(a)
    <3>1. /\ DeliveredAt(a, v)' = DeliveredAt(a, v) /\ outbox'[a][v] = outbox[a][v]
          /\ outbox'[a][u].policy = p /\ DeliveredAt(a, u)' = at
      BY <1>1, <2>2
    <3> HIDE DEF at
    <3> QED  BY <1>1, <1>4, <2>2, <3>1 DEF Apart, Earlier
  <2>3. CASE v = t /\ u \in Delivered(a)
    <3>1. /\ DeliveredAt(a, u)' = DeliveredAt(a, u) /\ outbox'[a][u] = outbox[a][u]
          /\ outbox'[a][v].policy = p /\ DeliveredAt(a, v)' = at
      BY <1>1, <2>3
    <3> HIDE DEF at
    <3> QED  BY <1>1, <1>4, <2>3, <3>1 DEF Apart, Earlier
  <2> QED  BY <1>1, <2>1, <2>2, <2>3
<1> QED  BY <1>3, <1>5

LEMMA ChargedCount ==
  ASSUME LedgerInv, LedgerInv', DatedAfterClaim', NEW a \in Accounts, NEW t \in Triggers,
         NEW p \in Policies, Closing(a, t, p), Deliveries(outbox'[a][t]) # {}, CountOf(a)
  PROVE  CountOf(a)'
<1> DEFINE at == DeliveredAt(a, t)'
<1>1. /\ Delivered(a)' = Delivered(a) \cup {t}
      /\ \A u \in Delivered(a) :
           outbox'[a][u] = outbox[a][u] /\ DeliveredAt(a, u)' = DeliveredAt(a, u)
      /\ at \in Nat /\ at = LatestOf(Deliveries(outbox'[a][t]))
      /\ outbox'[a][t].policy = p
      /\ \A k \in ScopesOf(p) :
           k \in GuardScopes /\ scopes[a][k] \in Scope /\ scopes[a][k].zone = p.zone
  BY ChargedFacts
<1> HIDE DEF at
<1>2. scopes[a] \in [GuardScopes -> Scope]
  BY DEF LedgerInv, TypeOK, ScopesType
<1>3. \A k \in ScopesOf(p) :
        /\ scopes'[a][k].zone = scopes[a][k].zone /\ scopes'[a][k].last = at
        /\ scopes'[a][k].day = Day(p, at)
        /\ scopes'[a][k].used =
             IF scopes[a][k].day = Day(p, at) THEN scopes[a][k].used + 1 ELSE 1
  BY <1>1, <1>2, SettleCharges DEF Closing
<1>4. \A k \in GuardScopes \ ScopesOf(p) :
        /\ scopes'[a][k].zone = scopes[a][k].zone /\ scopes'[a][k].last = scopes[a][k].last
        /\ scopes'[a][k].day = scopes[a][k].day /\ scopes'[a][k].used = scopes[a][k].used
  BY <1>2, SettleReleases DEF Closing
<1>5. ASSUME NEW u \in Triggers, Guarded(outbox'[a][u])
      PROVE  /\ Guarded(outbox[a][u])
             /\ outbox'[a][u].policy = outbox[a][u].policy
             /\ outbox[a][u].policy \in Policies
             /\ ScopesOf(outbox[a][u].policy) \subseteq GuardScopes
             /\ ~outbox'[a][u].settled => u # t /\ ~outbox[a][u].settled
  <2>1. /\ Guarded(outbox[a][u])
        /\ outbox'[a][u].policy = outbox[a][u].policy
        /\ ~outbox'[a][u].settled => u # t /\ ~outbox[a][u].settled
    BY <1>5 DEF Closing, Quiet, Guarded
  <2>2. outbox[a][u].policy \in Policies
    BY <2>1 DEF LedgerInv, TypeOK, OutboxType, Stored, IsBatch, BatchOf, Guarded
  <2> QED  BY <2>1, <2>2 DEF GuardScopes
<1>6. Zoned(a)'
  BY <1>3, <1>4, <1>5 DEF CountOf, Zoned
<1>7. Charged(a)'
  <2>1. ASSUME NEW u \in Delivered(a), NEW k \in ScopesOf(outbox[a][u].policy)
        PROVE  DeliveredAt(a, u) <= scopes'[a][k].last
    <3>1. k \in GuardScopes /\ DeliveredAt(a, u) \in Nat
      BY DeliveredFacts DEF GuardScopes
    <3>2. CASE k \in ScopesOf(p)
      <4>1. DelayOf(p, k) \in Nat /\ DeliveredAt(a, u) + DelayOf(p, k) <= at
        BY <2>1, <3>2, DeliveriesApart DEF at
      <4> QED  BY <1>1, <1>3, <3>1, <3>2, <4>1
    <3>3. CASE k \notin ScopesOf(p)
      BY <1>4, <3>1, <3>3 DEF CountOf, Charged
    <3> QED  BY <3>2, <3>3
  <2>2. \A k \in ScopesOf(p) : at <= scopes'[a][k].last
    BY <1>1, <1>3
  <2> QED  BY <1>1, <2>1, <2>2 DEF Charged, at
<1>8. Counters(a)'
  <2> SUFFICES ASSUME NEW k \in GuardScopes  PROVE Counting(scopes'[a][k])
    BY DEF Counters
  <2>1. CASE k \in ScopesOf(p)
    <3>1. at # Never /\ scopes[a][k].used \in Nat
      BY <1>1, <2>1 DEF Never, Scope
    <3>2. \A q \in Policies : q.zone = scopes[a][k].zone => Day(p, at) = Day(q, at)
      BY <1>1, <2>1, OneZoneOneDay
    <3> QED  BY <1>3, <2>1, <3>1, <3>2 DEF Counting
  <2>2. CASE k \notin ScopesOf(p)
    BY <1>4, <2>2 DEF CountOf, Counters, Counting
  <2> QED  BY <2>1, <2>2
(* A second open batch would need the account scope too.                   *)
<1>9. Admitted(a)'
  <2>1. ASSUME NEW u \in Triggers, Guarded(outbox'[a][u]), ~outbox'[a][u].settled
        PROVE  FALSE
    <3>1. u # t /\ Guarded(outbox[a][u]) /\ ~outbox[a][u].settled
      BY <1>5, <2>1
    <3>2. AccountScope \in GuardScopes /\ AccountScope \in ScopesOf(outbox[a][u].policy)
      BY <1>1 DEF ScopesOf
    <3>3. scopes[a][AccountScope].reserved = u
      BY <3>1, <3>2 DEF LedgerInv, GuardLedger, Guarded, Batches
    <3>4. scopes[a][AccountScope].reserved = t
      BY DEF Closing, HoldsReservation, ScopesOf
    <3> QED  BY <3>1, <3>3, <3>4
  <2> QED  BY <2>1 DEF Admitted
<1> QED  BY <1>6, <1>7, <1>8, <1>9, ChargedCounts, ChargedLimits DEF CountOf, LimitsOf

-----------------------------------------------------------------------------
(* The limits.                                                             *)

CountInv == LedgerInv /\ \A a \in Accounts : CountOf(a)

LEMMA CountStep ==
  ASSUME CountInv, LedgerInv', DatedAfterClaim', \A a \in Accounts : GuardStep(a)
  PROVE  CountInv'
<1>1. LedgerInv
  BY DEF CountInv
<1>2. ASSUME NEW a \in Accounts
      PROVE  CountOf(a)'
  <2>1. GuardStep(a) /\ CountOf(a)
    BY DEF CountInv
  <2>2. CASE AllQuiet(a)
    BY <1>1, <2>1, <2>2, QuietCount
  <2>3. ASSUME NEW t \in Triggers, NEW p \in Policies, Reserving(a, t, p)
        PROVE  CountOf(a)'
    BY <1>1, <2>1, <2>3, ReservingCount
  <2>4. ASSUME NEW t \in Triggers, NEW p \in Policies, Closing(a, t, p)
        PROVE  CountOf(a)'
    BY <1>1, <2>1, <2>4, ReleasedCount, ChargedCount
  <2> QED  BY <2>1, <2>2, <2>3, <2>4 DEF GuardStep
<1> QED  BY <1>2 DEF CountInv

LEMMA CountNext == CountInv /\ DatedAfterClaim' /\ [Next]_vars => CountInv'
BY LedgerNext, NextGuard, CountStep DEF CountInv

LEMMA CountInit == Init => CountInv
<1> SUFFICES ASSUME Init, NEW a \in Accounts  PROVE CountOf(a)
  BY LedgerInit DEF CountInv
<1>1. /\ \A t \in Triggers : outbox[a][t] = NoBatch
      /\ \A k \in GuardScopes : scopes[a][k] = EmptyScope
  BY DEF Init
<1>2. Delivered(a) = {}
  BY <1>1 DEF Delivered, Batches
<1>3. Zoned(a) /\ Charged(a) /\ Admitted(a) /\ LimitsOf(a)
  BY <1>1, <1>2 DEF Zoned, Charged, Admitted, LimitsOf, QuotaOf, PeerOf, SpacingOf, Guarded
<1>4. Counters(a)
  BY <1>1 DEF Counters, Counting, EmptyScope
<1>5. Counted(a)
  BY <1>2, FS_EmptySet DEF Counted
<1> QED  BY <1>3, <1>4, <1>5 DEF CountOf

LEMMA CountAlways == Spec /\ []DatedAfterClaim => []CountInv
BY CountInit, CountNext, PTL DEF Spec

(* As long as no delivery is dated before the claim of its batch, no more  *)
(* automatic replies are delivered on a local day than the daily quota of  *)
(* a policy they were claimed under, for any number of accounts, policies, *)
(* takeovers and receipts: QuotaRespected.                                 *)
THEOREM QuotaTheorem == Spec /\ []DatedAfterClaim => []QuotaRespected
<1>1. CountInv => QuotaRespected
  BY DEF CountInv, CountOf, LimitsOf, QuotaOf, DeliveredOn, QuotaRespected
<1> QED  BY <1>1, CountAlways, PTL

(* ... a peer with a peer limit gets one automatic reply a day:            *)
(* PeerLimitRespected.                                                     *)
THEOREM PeerLimitTheorem == Spec /\ []DatedAfterClaim => []PeerLimitRespected
<1>1. CountInv => PeerLimitRespected
  BY DEF CountInv, CountOf, LimitsOf, PeerOf, PeerLimitRespected
<1> QED  BY <1>1, CountAlways, PTL

(* ... and replies are the minimum interval and the cooldown apart:        *)
(* SpacingRespected.                                                       *)
THEOREM SpacingTheorem == Spec /\ []DatedAfterClaim => []SpacingRespected
<1>1. CountInv => SpacingRespected
  BY DEF CountInv, CountOf, LimitsOf, SpacingOf, Apart, SpacingRespected
<1> QED  BY <1>1, CountAlways, PTL

-----------------------------------------------------------------------------
(* How far before its claim a delivery may be dated.                       *)

DatedBatch(batch, observed) ==
  batch # NoBatch =>
    /\ batch.created <= observed
    /\ \A i \in DOMAIN batch.segs :
         batch.segs[i].status = "confirmed" => batch.segs[i].updated + Slack >= batch.created

DatedInv == \A a \in Accounts, t \in Triggers : DatedBatch(outbox[a][t], lease[a].observed)

(* A delivery is dated at most the receipt skew before its claim.          *)
DatedWithinSlack ==
  \A a \in Accounts : \A t \in Batches(a) : \A d \in Deliveries(outbox[a][t]) :
    d + Slack >= outbox[a][t].created

LEMMA StoreCallsFenced ==
  ASSUME NEW a \in Accounts, NEW tok \in Token, OutboxNext(a, tok) \/ InboundNext(a, tok)
  PROVE  Fenced(a, tok)
<1>1. ASSUME \/ \E trigger, response : PrepareOutboundBatch(a, tok, trigger, response)
             \/ \E trigger, i, transition, platformId, observation :
                  TransitionSegment(a, tok, trigger, i, transition, platformId, observation)
             \/ \E trigger, i, transition, platformId :
                  RepeatTransition(a, tok, trigger, i, transition, platformId)
             \/ \E page : ReconcileSentReceipts(a, tok, page)
             \/ \E digest : RestoreSendObservation(a, tok, digest)
      PROVE  Fenced(a, tok)
  BY <1>1 DEF PrepareOutboundBatch, TransitionSegment, RepeatTransition,
              ReconcileSentReceipts, RestoreSendObservation
<1>2. ASSUME \/ \E generation : EnsureInboundLiveStart(a, tok, generation)
             \/ \E key : MarkInboundProcessed(a, tok, key)
             \/ \E key, hash : ConsumeInboundAgain(a, tok, key, hash)
      PROVE  Fenced(a, tok)
  BY <1>2 DEF EnsureInboundLiveStart, MarkInboundProcessed, ConsumeInboundAgain
<1>3. ASSUME NEW trigger, NEW i, PersistOutcome(a, tok, trigger, i)
      PROVE  Fenced(a, tok)
  <2>1. PICK outcome \in SenderOutcome, platformId \in PlatformIds \cup {NoPlatformId} :
          TransitionSegment(a, tok, trigger, i, outcome[1], platformId,
            [digest |-> attempted[a][trigger][i].digest, capability |-> outcome[2]])
    BY <1>3 DEF PersistOutcome, IdsFor
  <2> QED  BY <2>1 DEF TransitionSegment
<1>4. ASSUME NEW stream, NEW generation, NEW cursor, NEW drafts,
             RecordInboundPage(a, tok, stream, generation, cursor, drafts)
      PROVE  Fenced(a, tok)
  BY <1>4 DEF RecordInboundPage
<1>5. ASSUME NEW key, NEW hash, NEW reply, NEW policy,
             ConsumeInbound(a, tok, key, hash, reply, policy)
      PROVE  Fenced(a, tok)
  BY <1>5 DEF ConsumeInbound
<1>6. CASE OutboxNext(a, tok)
  BY <1>1, <1>3, <1>6 DEF OutboxNext
<1>7. CASE InboundNext(a, tok)
  BY <1>2, <1>4, <1>5, <1>7 DEF InboundNext
<1> QED  BY <1>6, <1>7

(* The observed time of a lease never goes back.                           *)
LEMMA ObservedForward ==
  ASSUME TypeOK, NEW a \in Accounts, NEW tok \in Token, Fenced(a, tok), Observe(a)
  PROVE  /\ now \in Nat /\ lease'[a].observed = now /\ lease[a].observed <= now
         /\ lease[a].observed \in Nat
         /\ \A b \in Accounts \ {a} : lease'[b] = lease[b]
BY StoreAssumption DEF TypeOK, LeaseType, Lease, Fenced, Observe

LEMMA StoredTimes ==
  ASSUME NEW batch, Stored(batch), NEW before \in Nat, NEW after \in Nat, before <= after,
         DatedBatch(batch, before)
  PROVE  DatedBatch(batch, after) /\ batch.created \in Nat
BY DEF Stored, IsBatch, BatchOf, DatedBatch

(* Batches that stay as they are remain dated while the lease is observed. *)
LEMMA DatedStays ==
  ASSUME TypeOK, DatedInv, NEW b \in Accounts, NEW t \in Triggers,
         outbox'[b][t] = outbox[b][t],
         lease'[b].observed \in Nat, lease[b].observed <= lease'[b].observed
  PROVE  DatedBatch(outbox'[b][t], lease'[b].observed)
<1>1. lease[b].observed \in Nat
  BY DEF TypeOK, LeaseType, Lease
<1>2. outbox[b][t] # NoBatch => Stored(outbox[b][t])
  BY DEF TypeOK, OutboxType
<1>3. CASE outbox[b][t] = NoBatch
  BY <1>3 DEF DatedBatch
<1>4. CASE outbox[b][t] # NoBatch
  BY <1>1, <1>2, <1>4, StoredTimes DEF DatedInv
<1> QED  BY <1>3, <1>4

LEMMA DatedCommit ==
  ASSUME TypeOK, NEW a \in Accounts, NEW batches, NEW touched \in SUBSET Triggers,
         NEW observed,
         \A t \in touched : batches[t] # NoBatch /\ Stored(batches[t]),
         \A t \in Triggers : DatedBatch(batches[t], observed),
         CommitBatches(a, batches, touched)
  PROVE  /\ \A t \in Triggers : DatedBatch(outbox'[a][t], observed)
         /\ \A b \in Accounts \ {a} : outbox'[b] = outbox[b]
<1> DEFINE settling == Settling(batches, touched)
           stored(t) == IF t \in settling THEN [batches[t] EXCEPT !.settled = TRUE]
                        ELSE batches[t]
<1>1. /\ \A t \in Triggers : outbox'[a][t] = stored(t)
      /\ \A b \in Accounts \ {a} : outbox'[b] = outbox[b]
  BY DEF CommitBatches, TypeOK, OutboxType
<1>2. ASSUME NEW t \in settling  PROVE DatedBatch(stored(t), observed)
  <2>1. t \in Triggers /\ Stored(batches[t]) /\ batches[t] # NoBatch
    BY DEF Settling
  <2>2. stored(t).created = batches[t].created /\ stored(t).segs = batches[t].segs
    BY <1>2, <2>1 DEF Stored, IsBatch, BatchOf
  <2> HIDE DEF stored, settling
  <2> QED  BY <2>1, <2>2 DEF DatedBatch
<1> QED  BY <1>1, <1>2

LEMMA DatedTransition ==
  ASSUME TypeOK, DatedInv, NEW a \in Accounts, NEW tok \in Token, NEW trigger \in Triggers,
         NEW i \in Ordinals, NEW transition \in SegmentTransition,
         NEW platformId \in PlatformIds \cup {NoPlatformId}, NEW observation,
         TransitionSegment(a, tok, trigger, i, transition, platformId, observation)
  PROVE  DatedInv'
<1> DEFINE batch == outbox[a][trigger]
           next  == ApplyTransition(batch.segs[i], transition, platformId, tok.epoch, now)
           segs  == [batch.segs EXCEPT ![i] = next]
           batches == [outbox[a] EXCEPT ![trigger] = WithSegments(batch, segs)]
<1>1. /\ batch # NoBatch /\ i \in DOMAIN batch.segs
      /\ CommitBatches(a, batches, {trigger})
      /\ Fenced(a, tok) /\ Observe(a)
  BY DEF TransitionSegment
<1>2. /\ now \in Nat /\ now <= MaxTime /\ tok.epoch \in Nat /\ lease'[a].observed = now
      /\ lease[a].observed <= now /\ lease[a].observed \in Nat
      /\ \A b \in Accounts \ {a} : lease'[b] = lease[b]
  BY <1>1, ObservedForward, StoreAssumption DEF TypeOK, Token, Epochs
<1>3. Stored(batch) /\ batch.segs[i] \in Segment /\ batch.created \in Nat
  <2>1. Stored(batch) /\ batch.segs[i] \in Segment
    BY <1>1, StoredSegments DEF TypeOK
  <2> QED  BY <2>1 DEF Stored, IsBatch, BatchOf
<1>4. PICK n \in Ordinals : batch.segs \in [1..n -> Segment]
  BY <1>3 DEF Stored, IsBatch, BatchOf
<1>5. next \in Segment /\ next.updated = now
  <2>1. next \in Segment
    BY <1>2, <1>3, ApplyTransitionType
  <2> QED  BY <2>1 DEF ApplyTransition
<1>6. /\ DOMAIN segs = DOMAIN batch.segs
      /\ segs = [j \in DOMAIN segs |-> segs[j]]
      /\ \A j \in DOMAIN segs : segs[j] \in Segment /\ segs[j].updated <= MaxTime
      /\ segs[i] = next /\ \A j \in DOMAIN segs \ {i} : segs[j] = batch.segs[j]
  <2> HIDE DEF next
  <2> QED  BY <1>1, <1>2, <1>3, <1>4, <1>5 DEF Stored
<1> HIDE DEF segs, next, batch
<1>7. /\ Stored(WithSegments(batch, segs)) /\ WithSegments(batch, segs) # NoBatch
      /\ WithSegments(batch, segs).created = batch.created
      /\ WithSegments(batch, segs).segs = segs
  <2>1. Stored(WithSegments(batch, segs))
    BY <1>3, <1>6, WithSegmentsStored
  <2> QED  BY <1>3, <2>1, WithSegmentsKeeps, NoBatchAssumption DEF Stored
<1>8. DatedBatch(batch, lease[a].observed)
  BY DEF DatedInv, batch
<1>9. DatedBatch(WithSegments(batch, segs), now)
  <2>1. batch.created <= now
    BY <1>1, <1>2, <1>3, <1>8 DEF DatedBatch, batch
  <2>2. ASSUME NEW j \in DOMAIN segs, segs[j].status = "confirmed"
        PROVE  segs[j].updated + Slack >= batch.created
    <3>1. CASE j = i
      BY <1>2, <1>3, <1>5, <1>6, <2>1, <3>1, StoreAssumption
    <3>2. CASE j # i
      BY <1>1, <1>6, <1>8, <2>2, <3>2 DEF DatedBatch, batch
    <3> QED  BY <3>1, <3>2
  <2> QED  BY <1>7, <2>1, <2>2 DEF DatedBatch
<1>10. /\ batches[trigger] = WithSegments(batch, segs)
       /\ \A t \in Triggers \ {trigger} : batches[t] = outbox[a][t]
  BY DEF TypeOK, OutboxType
<1> HIDE DEF batches
<1>11. ASSUME NEW t \in Triggers \ {trigger}
       PROVE  DatedBatch(outbox[a][t], now)
  <2>1. DatedBatch(outbox[a][t], lease[a].observed)
    BY DEF DatedInv
  <2>2. outbox[a][t] # NoBatch => Stored(outbox[a][t])
    BY DEF TypeOK, OutboxType
  <2>3. CASE outbox[a][t] = NoBatch
    BY <2>3 DEF DatedBatch
  <2> QED  BY <1>2, <2>1, <2>2, <2>3, StoredTimes
<1>12. /\ \A t \in Triggers : DatedBatch(outbox'[a][t], now)
       /\ \A b \in Accounts \ {a} : outbox'[b] = outbox[b]
  <2>1. /\ \A t \in Triggers : DatedBatch(batches[t], now)
        /\ \A t \in {trigger} : batches[t] # NoBatch /\ Stored(batches[t])
        /\ CommitBatches(a, batches, {trigger})
    BY <1>1, <1>7, <1>9, <1>10, <1>11
  <2> QED  BY <2>1, DatedCommit
<1> QED  BY <1>2, <1>12 DEF DatedInv

LEMMA DatedReconcile ==
  ASSUME TypeOK, DatedInv, NEW a \in Accounts, NEW tok \in Token, NEW page \in EvidencePage(a),
         ReconcileSentReceipts(a, tok, page)
  PROVE  DatedInv'
<1> DEFINE hits    == {id \in DOMAIN page : Settles(a, id, page[id])}
           touched == {id[1] : id \in hits}
           settled(t, i) ==
             IF <<t, i>> \notin hits THEN outbox[a][t].segs[i]
             ELSE ApplyTransition(outbox[a][t].segs[i], "confirm",
                    page[<<t, i>>].platformId, tok.epoch,
                    Earlier(page[<<t, i>>].sentAt, now))
           segs(t) == [i \in DOMAIN outbox[a][t].segs |-> settled(t, i)]
           batches == [t \in Triggers |->
                         IF t \notin touched THEN outbox[a][t]
                         ELSE WithSegments(outbox[a][t], segs(t))]
<1>1. /\ CommitBatches(a, batches, touched)
      /\ Fenced(a, tok) /\ Observe(a)
  BY DEF ReconcileSentReceipts
<1>2. /\ now \in Nat /\ now <= MaxTime /\ tok.epoch \in Nat /\ lease'[a].observed = now
      /\ lease[a].observed <= now /\ lease[a].observed \in Nat
      /\ \A b \in Accounts \ {a} : lease'[b] = lease[b]
  BY <1>1, ObservedForward, StoreAssumption DEF TypeOK, Token, Epochs
<1>3. \A id \in DOMAIN page :
        id \in SegmentId(a) /\ page[id].platformId \in PlatformIds /\ page[id].sentAt \in Nat
  <2>1. PICK ids \in SUBSET SegmentId(a) : page \in [ids -> Evidence]
    BY DEF EvidencePage
  <2>2. ASSUME NEW id \in ids
        PROVE  page[id].platformId \in PlatformIds /\ page[id].sentAt \in Nat
    <3>1. page[id] \in Evidence
      BY <2>1
    <3> QED  BY <3>1, StoreAssumption DEF Evidence
  <2> QED  BY <2>1, <2>2
<1>4. /\ touched \in SUBSET Triggers
      /\ \A t \in touched : outbox[a][t] # NoBatch
  BY <1>3 DEF SegmentId
<1>5. ASSUME NEW t \in Triggers, outbox[a][t] # NoBatch
      PROVE  /\ Stored(outbox[a][t]) /\ outbox[a][t].created \in Nat
             /\ outbox[a][t].created <= now
             /\ DatedBatch(outbox[a][t], now)
  <2>1. Stored(outbox[a][t]) /\ DatedBatch(outbox[a][t], lease[a].observed)
    BY <1>5 DEF TypeOK, OutboxType, DatedInv
  <2>2. DatedBatch(outbox[a][t], now) /\ outbox[a][t].created \in Nat
    BY <1>2, <2>1, StoredTimes
  <2> QED  BY <1>5, <2>1, <2>2 DEF DatedBatch
<1>6. ASSUME NEW t \in touched, NEW i \in DOMAIN outbox[a][t].segs
      PROVE  /\ settled(t, i) \in Segment /\ settled(t, i).updated <= MaxTime
             /\ settled(t, i).status = "confirmed" =>
                  settled(t, i).updated + Slack >= outbox[a][t].created
  <2>1. /\ outbox[a][t].segs[i] \in Segment /\ outbox[a][t].segs[i].updated <= MaxTime
        /\ outbox[a][t].created \in Nat /\ outbox[a][t].created <= now
        /\ DatedBatch(outbox[a][t], now) /\ outbox[a][t] # NoBatch
    BY <1>4, <1>5 DEF Stored, IsBatch, BatchOf
  <2>2. CASE <<t, i>> \notin hits
    BY <2>1, <2>2 DEF DatedBatch
  <2>3. CASE <<t, i>> \in hits
    <3> DEFINE at == Earlier(page[<<t, i>>].sentAt, now)
               platformId == page[<<t, i>>].platformId
    <3>1. Slack \in Nat /\ MaxTime \in Nat
      BY StoreAssumption
    <3>2. /\ page[<<t, i>>].sentAt \in Nat
          /\ page[<<t, i>>].sentAt >= outbox[a][t].created - Slack
      BY <1>3, <2>3 DEF Settles
    <3>3. at \in Nat /\ at <= MaxTime /\ at + Slack >= outbox[a][t].created
      BY <1>2, <2>1, <3>1, <3>2 DEF Earlier
    <3>4. "confirm" \in SegmentTransition /\ platformId \in PlatformIds
      BY <1>3, <2>3 DEF SegmentTransition
    <3>5. settled(t, i) =
            ApplyTransition(outbox[a][t].segs[i], "confirm", platformId, tok.epoch, at)
      BY <2>3
    <3> HIDE DEF at, hits, platformId, settled
    <3>6. settled(t, i) \in Segment
      BY <1>2, <2>1, <3>3, <3>4, <3>5, ApplyTransitionType
    <3>7. settled(t, i).updated = at
      BY <3>5 DEF ApplyTransition
    <3> QED  BY <3>3, <3>6, <3>7
  <2> QED  BY <2>2, <2>3
<1>7. ASSUME NEW t \in touched
      PROVE  /\ DOMAIN segs(t) = DOMAIN outbox[a][t].segs
             /\ segs(t) = [i \in DOMAIN segs(t) |-> segs(t)[i]]
             /\ \A i \in DOMAIN segs(t) :
                  /\ segs(t)[i] \in Segment /\ segs(t)[i].updated <= MaxTime
                  /\ segs(t)[i].status = "confirmed" =>
                       segs(t)[i].updated + Slack >= outbox[a][t].created
  <2> HIDE DEF settled, touched
  <2> QED  BY <1>6
<1> HIDE DEF segs, touched
<1>8. ASSUME NEW t \in touched
      PROVE  LET after == WithSegments(outbox[a][t], segs(t))
             IN  /\ Stored(after) /\ after # NoBatch
                 /\ DatedBatch(after, now)
  <2>1. /\ Stored(outbox[a][t]) /\ outbox[a][t].created <= now
        /\ Stored(WithSegments(outbox[a][t], segs(t)))
    BY <1>4, <1>5, <1>7, WithSegmentsStored
  <2>2. /\ WithSegments(outbox[a][t], segs(t)) # NoBatch
        /\ WithSegments(outbox[a][t], segs(t)).created = outbox[a][t].created
        /\ WithSegments(outbox[a][t], segs(t)).segs = segs(t)
    BY <2>1, NoBatchAssumption, WithSegmentsKeeps DEF Stored
  <2> QED  BY <1>7, <2>1, <2>2 DEF DatedBatch
<1>9. /\ \A t \in touched : batches[t] = WithSegments(outbox[a][t], segs(t))
      /\ \A t \in Triggers \ touched : batches[t] = outbox[a][t]
  BY <1>4
<1> HIDE DEF batches
<1>10. /\ \A t \in touched : batches[t] # NoBatch /\ Stored(batches[t])
       /\ \A t \in Triggers : DatedBatch(batches[t], now)
  <2>1. ASSUME NEW t \in Triggers \ touched
        PROVE  DatedBatch(outbox[a][t], now)
    BY <1>5 DEF DatedBatch
  <2> QED  BY <1>8, <1>9, <2>1
<1>11. /\ \A t \in Triggers : DatedBatch(outbox'[a][t], now)
       /\ \A b \in Accounts \ {a} : outbox'[b] = outbox[b]
  BY <1>1, <1>4, <1>10, DatedCommit
<1> QED  BY <1>2, <1>11 DEF DatedInv

LEMMA DatedNewBatch ==
  ASSUME NEW a \in Accounts, NEW tok \in Token, NEW response \in Responses, now \in 0..MaxTime
  PROVE  LET b == NewBatch(a, tok, response)
         IN  /\ Stored(b) /\ b.created = now
             /\ \A i \in DOMAIN b.segs : b.segs[i].status = "prepared"
             /\ DatedBatch(b, now)
BY NewBatchStored, StoreAssumption DEF NewBatch, NewSegment, DatedBatch

(* Storing one dated batch of an observed account.                         *)
LEMMA DatedStore ==
  ASSUME TypeOK, DatedInv, NEW a \in Accounts, NEW tok \in Token, Fenced(a, tok), Observe(a),
         NEW t \in Triggers, NEW batch, DatedBatch(batch, now),
         outbox' = [outbox EXCEPT ![a][t] = batch]
  PROVE  DatedInv'
<1>1. /\ now \in Nat /\ lease'[a].observed = now /\ lease[a].observed <= now
      /\ lease[a].observed \in Nat
      /\ \A b \in Accounts \ {a} : lease'[b] = lease[b]
  BY ObservedForward
<1>2. /\ outbox'[a][t] = batch
      /\ \A b \in Accounts, u \in Triggers : ~(b = a /\ u = t) => outbox'[b][u] = outbox[b][u]
  BY DEF TypeOK, OutboxType
<1>3. ASSUME NEW b \in Accounts, NEW u \in Triggers, ~(b = a /\ u = t)
      PROVE  DatedBatch(outbox'[b][u], lease'[b].observed)
  <2>1. lease'[b].observed \in Nat /\ lease[b].observed <= lease'[b].observed
    BY <1>1 DEF TypeOK, LeaseType, Lease
  <2> QED  BY <1>2, <1>3, <2>1, DatedStays
<1> QED  BY <1>1, <1>2, <1>3 DEF DatedInv

LEMMA DatedConsume ==
  ASSUME TypeOK, DatedInv, NEW a \in Accounts, NEW tok \in Token, NEW key \in InboundKey,
         NEW hash \in Hashes, NEW reply \in Reply \cup {NoReply},
         NEW policy \in Policies \cup {NoPolicy},
         ConsumeInbound(a, tok, key, hash, reply, policy)
  PROVE  DatedInv'
<1> DEFINE event == key.event
           plan  == Coalesce(a, reply, policy)
           fresh == plan # NoReply /\ outbox[a][event] = NoBatch
           batch == IF fresh THEN NewBatch(a, tok, plan.response) ELSE outbox[a][event]
           guarded == [batch EXCEPT !.policy = policy]
<1>1. /\ Fenced(a, tok) /\ Observe(a) /\ event \in Triggers
      /\ \/ outbox' = [outbox EXCEPT ![a][event] = batch]
         \/ /\ batch # NoBatch /\ policy # NoPolicy
            /\ outbox' = [outbox EXCEPT ![a][event] = guarded] \/ outbox' = outbox
  BY DEF ConsumeInbound, InboundKey, Triggers
<1>2. /\ now \in Nat /\ now \in 0..MaxTime /\ lease'[a].observed = now
      /\ lease[a].observed <= now /\ lease[a].observed \in Nat
      /\ \A b \in Accounts \ {a} : lease'[b] = lease[b]
  BY <1>1, ObservedForward DEF TypeOK
<1>3. /\ DatedBatch(batch, now)
      /\ batch # NoBatch => Stored(batch)
  <2>1. CASE fresh
    <3>1. plan.response \in Responses
      BY <2>1 DEF Coalesce, Reply
    <3> QED  BY <1>2, <2>1, <3>1, DatedNewBatch
  <2>2. CASE ~fresh
    <3>1. outbox[a][event] = NoBatch \/ Stored(outbox[a][event])
      BY <1>1 DEF TypeOK, OutboxType
    <3>2. DatedBatch(outbox[a][event], lease[a].observed)
      BY <1>1 DEF DatedInv
    <3>3. CASE outbox[a][event] = NoBatch
      BY <2>2, <3>3 DEF DatedBatch
    <3>4. CASE outbox[a][event] # NoBatch
      BY <1>2, <2>2, <3>1, <3>2, <3>4, StoredTimes
    <3> QED  BY <3>3, <3>4
  <2> QED  BY <2>1, <2>2
<1> HIDE DEF batch, plan
<1>4. CASE outbox' = [outbox EXCEPT ![a][event] = batch]
  BY <1>1, <1>3, <1>4, DatedStore
<1>5. CASE batch # NoBatch /\ outbox' = [outbox EXCEPT ![a][event] = guarded]
  <2>1. guarded.created = batch.created /\ guarded.segs = batch.segs
    BY <1>3, <1>5 DEF Stored, IsBatch, BatchOf
  <2>2. DatedBatch(guarded, now)
    <3> HIDE DEF guarded
    <3> QED  BY <1>3, <1>5, <2>1 DEF DatedBatch
  <2> QED  BY <1>1, <1>5, <2>2, DatedStore
<1>6. CASE outbox' = outbox
  <2>1. ASSUME NEW b \in Accounts, NEW u \in Triggers
        PROVE  DatedBatch(outbox'[b][u], lease'[b].observed)
    <3>1. lease'[b].observed \in Nat /\ lease[b].observed <= lease'[b].observed
      BY <1>2 DEF TypeOK, LeaseType, Lease
    <3> QED  BY <1>6, <3>1, DatedStays
  <2> QED  BY <2>1 DEF DatedInv
<1> QED  BY <1>1, <1>4, <1>5, <1>6

LEMMA DatedInstall ==
  ASSUME TypeOK, DatedInv, NEW a \in Accounts, NEW owner \in Owners, NEW epoch \in Epochs,
         NEW until \in LeaseEnds, InstallLease(a, owner, epoch, until)
  PROVE  DatedInv'
<1>1. /\ now \in 0..MaxTime /\ now \in Nat /\ epoch \in Nat
      /\ lease[a].observed \in Nat /\ lease[a].observed <= now /\ lease'[a].observed = now
      /\ \A b \in Accounts \ {a} : lease'[b] = lease[b] /\ outbox'[b] = outbox[b]
      /\ \A t \in Triggers : outbox'[a][t] = RecoverBatch(outbox[a][t], epoch)
  BY StoreAssumption DEF InstallLease, TypeOK, LeaseType, Lease, OutboxType, Epochs
<1>2. ASSUME NEW t \in Triggers
      PROVE  DatedBatch(outbox'[a][t], now)
  <2> DEFINE batch == outbox[a][t]
             after == RecoverBatch(batch, epoch)
             segs == [i \in DOMAIN batch.segs |-> RecoverInterrupted(batch.segs[i], epoch, now)]
  <2>1. CASE batch = NoBatch
    BY <1>1, <2>1 DEF RecoverBatch, DatedBatch
  <2>2. CASE batch # NoBatch
    <3>1. Stored(batch) /\ DatedBatch(batch, now)
      <4>1. Stored(batch) /\ DatedBatch(batch, lease[a].observed)
        BY <2>2 DEF TypeOK, OutboxType, DatedInv
      <4> QED  BY <1>1, <4>1, StoredTimes
    <3>2. CASE after = batch
      BY <1>1, <3>1, <3>2
    <3>3. CASE after = WithSegments(batch, segs)
      <4>1. \A i \in DOMAIN batch.segs : batch.segs[i] \in Segment
        BY <3>1 DEF Stored, IsBatch, BatchOf
      <4>2. \A i \in DOMAIN segs : i \in DOMAIN batch.segs /\
              (segs[i] = batch.segs[i] \/ segs[i].status = "uncertain")
        BY <4>1 DEF RecoverInterrupted, Segment
      <4> HIDE DEF segs, batch, after
      <4>3. after.created = batch.created /\ after.segs = segs
        BY <3>1, <3>3, WithSegmentsKeeps
      <4>4. DatedBatch(after, now)
        BY <2>2, <3>1, <4>2, <4>3 DEF DatedBatch
      <4> QED  BY <1>1, <4>4 DEF after, batch
    <3> QED  BY <3>2, <3>3 DEF RecoverBatch
  <2> QED  BY <2>1, <2>2
<1> QED  BY <1>1, <1>2 DEF DatedInv

LEMMA DatedKept ==
  ASSUME TypeOK, DatedInv, outbox' = outbox,
         \A b \in Accounts : lease'[b].observed \in Nat /\ lease[b].observed <= lease'[b].observed
  PROVE  DatedInv'
BY DatedStays DEF DatedInv

LEMMA DatedObserved ==
  ASSUME TypeOK, DatedInv, NEW a \in Accounts, NEW tok \in Token, Fenced(a, tok), Observe(a),
         outbox' = outbox
  PROVE  DatedInv'
<1>1. \A b \in Accounts : lease'[b].observed \in Nat /\ lease[b].observed <= lease'[b].observed
  BY ObservedForward DEF TypeOK, LeaseType, Lease
<1> QED  BY <1>1, DatedKept

LEMMA DatedNext == TypeOK /\ DatedInv /\ [Next]_vars => DatedInv'
<1> SUFFICES ASSUME TypeOK, DatedInv, [Next]_vars
             PROVE  DatedInv'
  OBVIOUS
<1>1. CASE ClockNext \/ UNCHANGED vars
  BY <1>1 DEF ClockNext, Tick, ClockSetBack, outVars, vars, DatedInv
<1>2. ASSUME NEW a \in Accounts, LeaseNext(a)
      PROVE  DatedInv'
  <2>1. ASSUME NEW owner \in Owners, NEW epoch \in Epochs, NEW until \in LeaseEnds,
               InstallLease(a, owner, epoch, until)
        PROVE  DatedInv'
    BY <2>1, DatedInstall
  <2>2. ASSUME \/ \E owner \in Owners, until \in LeaseEnds : ExtendLease(a, owner, until)
               \/ \E tok \in Token : \/ ReleaseLease(a, tok) \/ InvalidateLease(a, tok)
                                     \/ FencedRead(a, tok)
        PROVE  DatedInv'
    <3>1. outbox' = outbox
      BY <2>2 DEF ExtendLease, ReleaseLease, InvalidateLease, FencedRead, outVars
    <3>2. \A b \in Accounts : lease'[b].observed \in Nat /\ lease[b].observed <= lease'[b].observed
      <4>1. now \in Nat /\ \A b \in Accounts : lease[b] \in Lease /\ lease[b].observed \in Nat
        BY StoreAssumption DEF TypeOK, LeaseType, Lease
      <4>2. ASSUME NEW owner \in Owners, NEW until \in LeaseEnds, ExtendLease(a, owner, until)
            PROVE  \A b \in Accounts :
                     lease'[b].observed \in Nat /\ lease[b].observed <= lease'[b].observed
        BY <4>1, <4>2 DEF ExtendLease, TypeOK, LeaseType, Lease
      <4>3. ASSUME NEW tok \in Token, ReleaseLease(a, tok) \/ FencedRead(a, tok)
            PROVE  \A b \in Accounts :
                     lease'[b].observed \in Nat /\ lease[b].observed <= lease'[b].observed
        BY <4>1, <4>3 DEF ReleaseLease, FencedRead, Fenced, Observe, TypeOK, LeaseType, Lease
      <4>4. ASSUME NEW tok \in Token, InvalidateLease(a, tok)
            PROVE  \A b \in Accounts :
                     lease'[b].observed \in Nat /\ lease[b].observed <= lease'[b].observed
        BY <4>1, <4>4 DEF InvalidateLease, TypeOK, LeaseType, Lease
      <4> QED  BY <2>2, <4>2, <4>3, <4>4
    <3> QED  BY <3>1, <3>2, DatedKept
  <2> QED  BY <1>2, <2>1, <2>2 DEF LeaseNext
<1>3. ASSUME NEW a \in Accounts, NEW tok \in Token, OutboxNext(a, tok)
      PROVE  DatedInv'
  <2>1. Fenced(a, tok) /\ Observe(a)
    BY <1>3, StoreCallsFenced, StoreCallsObserve
  <2>2. ASSUME NEW trigger \in ManualTriggers, NEW response \in Responses,
               PrepareOutboundBatch(a, tok, trigger, response)
        PROVE  DatedInv'
    <3>1. trigger \in Triggers /\ now \in 0..MaxTime
      BY DEF Triggers, TypeOK
    <3>2. CASE outbox' = outbox
      BY <2>1, <3>2, DatedObserved
    <3>3. CASE outbox' = [outbox EXCEPT ![a][trigger] = NewBatch(a, tok, response)]
      <4>1. DatedBatch(NewBatch(a, tok, response), now)
        BY <3>1, DatedNewBatch
      <4> QED  BY <2>1, <3>1, <3>3, <4>1, DatedStore
    <3> QED  BY <2>2, <3>2, <3>3 DEF PrepareOutboundBatch
  <2>3. ASSUME NEW trigger \in Triggers, NEW i \in Ordinals,
               NEW transition \in SegmentTransition, NEW platformId \in IdsFor(transition),
               TransitionSegment(a, tok, trigger, i, transition, platformId, NoObservation)
        PROVE  DatedInv'
    BY <2>3, DatedTransition DEF IdsFor
  <2>4. ASSUME NEW trigger \in Triggers, NEW i \in Ordinals, PersistOutcome(a, tok, trigger, i)
        PROVE  DatedInv'
    <3>1. PICK outcome \in SenderOutcome, platformId \in PlatformIds \cup {NoPlatformId} :
            TransitionSegment(a, tok, trigger, i, outcome[1], platformId,
              [digest |-> attempted[a][trigger][i].digest, capability |-> outcome[2]])
      BY <2>4 DEF PersistOutcome, IdsFor
    <3>2. outcome[1] \in SegmentTransition
      BY DEF SenderOutcome, SegmentTransition
    <3> QED  BY <3>1, <3>2, DatedTransition
  <2>5. ASSUME NEW page \in EvidencePage(a), ReconcileSentReceipts(a, tok, page)
        PROVE  DatedInv'
    BY <2>5, DatedReconcile
  <2>6. ASSUME \/ \E trigger, i, transition, platformId :
                    RepeatTransition(a, tok, trigger, i, transition, platformId)
               \/ \E digest : RestoreSendObservation(a, tok, digest)
        PROVE  DatedInv'
    <3>1. outbox' = outbox
      BY <2>6 DEF RepeatTransition, RestoreSendObservation, outVars
    <3> QED  BY <2>1, <3>1, DatedObserved
  <2> QED  BY <1>3, <2>2, <2>3, <2>4, <2>5, <2>6 DEF OutboxNext
<1>4. ASSUME NEW a \in Accounts, NEW tok \in Token, InboundNext(a, tok)
      PROVE  DatedInv'
  <2>1. Fenced(a, tok) /\ Observe(a)
    BY <1>4, StoreCallsFenced, StoreCallsObserve
  <2>2. ASSUME NEW key \in InboundKey, NEW hash \in Hashes,
               NEW reply \in Reply \cup {NoReply}, NEW policy \in Policies \cup {NoPolicy},
               ConsumeInbound(a, tok, key, hash, reply, policy)
        PROVE  DatedInv'
    BY <2>2, DatedConsume
  <2>3. ASSUME \/ \E stream, generation, cursor, drafts :
                    RecordInboundPage(a, tok, stream, generation, cursor, drafts)
               \/ \E generation : EnsureInboundLiveStart(a, tok, generation)
               \/ \E key : MarkInboundProcessed(a, tok, key)
               \/ \E key, hash : ConsumeInboundAgain(a, tok, key, hash)
        PROVE  DatedInv'
    BY <2>1, <2>3, InboundIdle, DatedObserved
  <2> QED  BY <1>4, <2>2, <2>3 DEF InboundNext
<1> QED  BY <1>1, <1>2, <1>3, <1>4 DEF Next

LEMMA DatedAlways == Spec => []DatedWithinSlack
<1>1. Init => DatedInv
  BY DEF Init, DatedInv, DatedBatch
<1>2. DatedInv => DatedWithinSlack
  BY DEF DatedInv, DatedBatch, DatedWithinSlack, Batches, Deliveries
<1> QED  BY <1>1, <1>2, DatedNext, StoreTypeCorrect, PTL DEF Spec

(* With clocks that agree no delivery is dated before its claim, so the    *)
(* limits above hold of every behaviour: the receipt skew is all that      *)
(* stands between them and the store.                                      *)
THEOREM LimitsWithoutSkew ==
  ASSUME Slack = 0
  PROVE  Spec => [](QuotaRespected /\ PeerLimitRespected /\ SpacingRespected)
<1>1. TypeOK /\ DatedWithinSlack => DatedAfterClaim
  <2> SUFFICES ASSUME TypeOK, DatedWithinSlack, NEW a \in Accounts, NEW t \in Batches(a),
                      NEW d \in Deliveries(outbox[a][t])
               PROVE  d >= outbox[a][t].created
    BY DEF DatedAfterClaim
  <2>1. Stored(outbox[a][t]) /\ d + Slack >= outbox[a][t].created
    BY DEF TypeOK, OutboxType, Batches, DatedWithinSlack
  <2>2. d \in Nat
    BY <2>1, DeliveriesType, StoreAssumption
  <2> QED  BY <2>1, <2>2
<1> QED  BY <1>1, DatedAlways, StoreTypeCorrect, QuotaTheorem, PeerLimitTheorem,
            SpacingTheorem, PTL

-----------------------------------------------------------------------------
(* The inbound spool and the mutual-follow claims.                         *)

(* A claim on record is still in the table, or a later one pruned it.      *)
ClaimsKept ==
  \A i \in DOMAIN claimLog :
    \/ claimLog[i] \in claims
    \/ \E k \in (i + 1)..Len(claimLog) : Prunes(claimLog[k], claimLog[i])

NoticeInv == ClaimsKept /\ PairedNoticeClaimedOnce

LEMMA Appended ==
  ASSUME NEW S, NEW s \in Seq(S), NEW e \in S
  PROVE  /\ DOMAIN Append(s, e) = 1..(Len(s) + 1) /\ Len(Append(s, e)) = Len(s) + 1
         /\ \A i \in 1..Len(s) : Append(s, e)[i] = s[i]
         /\ Append(s, e)[Len(s) + 1] = e
OBVIOUS

LEMMA ClaimStep ==
  ASSUME TypeOK, NoticeInv, NEW a \in Accounts, NEW tok \in Token,
         NEW key \in InboundKey, NEW hash \in Hashes, NEW reply \in Reply \cup {NoReply},
         NEW policy \in Policies \cup {NoPolicy},
         ConsumeInbound(a, tok, key, hash, reply, policy)
  PROVE  NoticeInv'
<1> DEFINE plan == Coalesce(a, reply, policy)
           row == [account |-> a, conversation |-> policy.conversation,
                   at |-> plan.mutualAt, created |-> now]
           n == Len(claimLog)
<1>1. \/ UNCHANGED <<claims, claimLog>>
      \/ /\ plan # NoReply /\ plan.mutualAt # NoNotice /\ policy # NoPolicy
         /\ claims' = LiveClaims \cup {row}
         /\ claimLog' = Append(claimLog, row)
  BY DEF ConsumeInbound, ClaimNotice
<1>2. CASE UNCHANGED <<claims, claimLog>>
  BY <1>2 DEF NoticeInv, ClaimsKept, PairedNoticeClaimedOnce
<1>3. CASE /\ plan # NoReply /\ plan.mutualAt # NoNotice /\ policy # NoPolicy
           /\ claims' = LiveClaims \cup {row}
           /\ claimLog' = Append(claimLog, row)
  <2>1. plan = reply /\ reply \in Reply /\ ~AlreadyClaimed(a, policy.conversation, plan.mutualAt)
    BY <1>3 DEF Coalesce
  <2>2. plan.mutualAt \in Nat /\ PairWindow \in Nat /\ RetainClaims \in Nat /\ now \in Nat
    <3>1. now \in Nat
      BY StoreAssumption DEF TypeOK
    <3>2. plan.mutualAt \in Nat
      BY <1>3, <2>1, StoreAssumption DEF Reply
    <3> QED  BY <3>1, <3>2, StoreAssumption
  <2>3. row.account = a /\ row.conversation = policy.conversation
        /\ row.at = plan.mutualAt /\ row.created = now
    OBVIOUS
  <2>4. claimLog \in Seq(Claim) /\ claims \subseteq Claim /\ n \in Nat
    BY DEF TypeOK, InboundType
  <2>5. /\ DOMAIN claimLog' = 1..(n + 1) /\ Len(claimLog') = n + 1
        /\ \A i \in 1..n : claimLog'[i] = claimLog[i]
        /\ claimLog'[n + 1] = row
    <3>1. row \in Claim
      <4>1. policy \in Policies /\ plan.mutualAt \in Nat /\ now \in Nat
        BY <1>3, <2>2
      <4> HIDE DEF plan
      <4> QED  BY <4>1 DEF Claim
    <3>2. claimLog' = Append(claimLog, row)
      BY <1>3
    <3> HIDE DEF row
    <3> QED  BY <2>4, <3>1, <3>2, Appended
  <2>6. DOMAIN claimLog = 1..n /\ \A i \in 1..n : claimLog[i] \in Claim
    BY <2>4
  <2>7. \A c \in claims : ~Paired(c, row)
    BY <2>1, <2>2, <2>3, <2>4 DEF AlreadyClaimed, Paired, Claim
  <2>8. \A c \in claims : c \in LiveClaims \/ Prunes(row, c)
    BY <2>2, <2>3, <2>4 DEF LiveClaims, Prunes, Claim
  <2> HIDE DEF row, plan
  <2>9. ASSUME NEW i \in DOMAIN claimLog'
        PROVE  \/ claimLog'[i] \in claims'
               \/ \E k \in (i + 1)..Len(claimLog') : Prunes(claimLog'[k], claimLog'[i])
    <3>1. CASE i = n + 1
      BY <1>3, <2>5, <3>1
    <3>2. CASE i \in 1..n
      <4>1. CASE claimLog[i] \in claims
        <5>1. CASE claimLog[i] \in LiveClaims
          BY <1>3, <2>5, <3>2, <5>1
        <5>2. CASE Prunes(row, claimLog[i])
          BY <2>4, <2>5, <3>2, <5>2
        <5> QED  BY <2>8, <4>1, <5>1, <5>2
      <4>2. CASE \E k \in (i + 1)..n : Prunes(claimLog[k], claimLog[i])
        <5>1. PICK k \in (i + 1)..n : Prunes(claimLog[k], claimLog[i])
          BY <4>2
        <5>2. k \in 1..n /\ k \in (i + 1)..Len(claimLog')
          BY <2>4, <2>5, <3>2, <5>1
        <5> QED  BY <2>5, <3>2, <5>1, <5>2
      <4> QED  BY <2>6, <3>2, <4>1, <4>2 DEF NoticeInv, ClaimsKept
    <3> QED  BY <2>4, <2>5, <3>1, <3>2
  <2>10. ASSUME NEW i \in DOMAIN claimLog', NEW j \in DOMAIN claimLog',
                i < j, Paired(claimLog'[i], claimLog'[j])
         PROVE  \E k \in (i + 1)..(j - 1) : Prunes(claimLog'[k], claimLog'[i])
    <3>1. i \in 1..n
      BY <2>4, <2>5, <2>10
    <3>2. CASE j \in 1..n
      <4>1. PICK k \in (i + 1)..(j - 1) : Prunes(claimLog[k], claimLog[i])
        BY <2>5, <2>6, <2>10, <3>1, <3>2 DEF NoticeInv, PairedNoticeClaimedOnce
      <4>2. k \in 1..n
        BY <2>4, <3>1, <3>2, <4>1
      <4> QED  BY <2>5, <3>1, <4>1, <4>2
    <3>3. CASE j = n + 1
      <4>1. Paired(claimLog[i], row)
        BY <2>5, <2>10, <3>1, <3>3
      <4>2. claimLog[i] \notin claims
        BY <2>7, <4>1
      <4>3. PICK k \in (i + 1)..n : Prunes(claimLog[k], claimLog[i])
        BY <2>6, <3>1, <4>2 DEF NoticeInv, ClaimsKept
      <4>4. k \in 1..n /\ k \in (i + 1)..(j - 1)
        BY <2>4, <3>1, <3>3, <4>3
      <4> QED  BY <2>5, <3>1, <4>3, <4>4
    <3> QED  BY <2>4, <2>5, <3>2, <3>3
  <2> QED  BY <2>9, <2>10 DEF NoticeInv, ClaimsKept, PairedNoticeClaimedOnce
<1> QED  BY <1>1, <1>2, <1>3

(* What a step may do to a page cursor and to a receipt.                   *)
CursorForward(old, new) ==
  \/ new.generation > old.generation
  \/ new.generation = old.generation /\ new.cursor >= old.cursor

ReceiptKept(old, new) ==
  old.status # "none" => new.hash = old.hash /\ new.status \in {old.status, "processed"}

SpoolStep ==
  /\ \A a \in Accounts, s \in Streams : CursorForward(checkpoint[a][s], checkpoint'[a][s])
  /\ \A a \in Accounts, key \in InboundKey : ReceiptKept(receipts[a][key], receipts'[a][key])

LEMMA SpoolKept ==
  ASSUME TypeOK, receipts' = receipts, checkpoint' = checkpoint
  PROVE  SpoolStep
BY DEF SpoolStep, CursorForward, ReceiptKept, TypeOK, InboundType

LEMMA PageStep ==
  ASSUME TypeOK, NEW a \in Accounts, NEW tok \in Token, NEW stream \in Streams,
         NEW generation \in 1..MaxGeneration, NEW cursor \in 0..MaxCheckpoint,
         NEW drafts, RecordInboundPage(a, tok, stream, generation, cursor, drafts)
  PROVE  SpoolStep
<1> DEFINE old == checkpoint[a][stream]
           onPage == {key \in InboundKey : /\ key.stream = stream
                                           /\ key.generation = generation
                                           /\ key.event \in DOMAIN drafts}
<1>1. generation \in Nat /\ cursor \in Nat
  BY StoreAssumption
<1>2. \A b \in Accounts, s \in Streams :
        checkpoint[b][s].generation \in Nat /\ checkpoint[b][s].cursor \in Nat
  BY DEF TypeOK, InboundType
<1>3. ASSUME NEW b \in Accounts, NEW s \in Streams
      PROVE  CursorForward(checkpoint[b][s], checkpoint'[b][s])
  <2>1. \/ checkpoint'[b][s] = checkpoint[b][s]
        \/ /\ b = a /\ s = stream
           /\ checkpoint'[b][s] = [generation |-> generation, cursor |-> cursor]
           /\ generation >= old.generation
           /\ generation > old.generation \/ cursor > old.cursor
    BY DEF RecordInboundPage, Advances, TypeOK, InboundType
  <2>2. checkpoint[b][s].generation \in Nat /\ checkpoint[b][s].cursor \in Nat
    BY <1>2
  <2>3. CASE checkpoint'[b][s] = checkpoint[b][s]
    BY <2>2, <2>3 DEF CursorForward
  <2>4. CASE /\ b = a /\ s = stream
             /\ checkpoint'[b][s] = [generation |-> generation, cursor |-> cursor]
             /\ generation >= old.generation
             /\ generation > old.generation \/ cursor > old.cursor
    BY <1>1, <2>2, <2>4 DEF CursorForward
  <2> QED  BY <2>1, <2>3, <2>4
<1>4. ASSUME NEW b \in Accounts, NEW key \in InboundKey
      PROVE  ReceiptKept(receipts[b][key], receipts'[b][key])
  <2>1. \/ receipts'[b][key] = receipts[b][key]
        \/ b = a /\ key \in FreshOn(a, onPage)
    BY DEF RecordInboundPage, TypeOK, InboundType
  <2> QED  BY <2>1 DEF ReceiptKept, FreshOn
<1> QED  BY <1>3, <1>4 DEF SpoolStep

LEMMA ConsumedStep ==
  ASSUME TypeOK, NEW a \in Accounts, NEW key \in InboundKey, ConsumeReceipt(a, key),
         checkpoint' = checkpoint
  PROVE  SpoolStep
<1>1. \A b \in Accounts, s \in Streams : CursorForward(checkpoint[b][s], checkpoint'[b][s])
  BY DEF CursorForward, TypeOK, InboundType
<1>2. ASSUME NEW b \in Accounts, NEW other \in InboundKey
      PROVE  ReceiptKept(receipts[b][other], receipts'[b][other])
  BY DEF ConsumeReceipt, ReceiptKept, TypeOK, InboundType
<1> QED  BY <1>1, <1>2 DEF SpoolStep

(* The operations outside the spool.                                       *)
LEMMA SpoolIdle ==
  ASSUME NEW a \in Accounts,
         LeaseNext(a) \/ \E tok \in Token : OutboxNext(a, tok)
  PROVE  UNCHANGED inVars
<1>1. CASE LeaseNext(a)
  BY <1>1 DEF LeaseNext, InstallLease, ExtendLease, ReleaseLease, InvalidateLease, FencedRead
<1>2. ASSUME NEW tok \in Token, OutboxNext(a, tok)
      PROVE  UNCHANGED inVars
  <2>1. ASSUME NEW trigger, NEW i, PersistOutcome(a, tok, trigger, i)
        PROVE  UNCHANGED inVars
    <3>1. PICK outcome \in SenderOutcome, platformId \in PlatformIds \cup {NoPlatformId} :
            TransitionSegment(a, tok, trigger, i, outcome[1], platformId,
              [digest |-> attempted[a][trigger][i].digest, capability |-> outcome[2]])
      BY <2>1 DEF PersistOutcome, IdsFor
    <3> QED  BY <3>1 DEF TransitionSegment
  <2>2. ASSUME \/ \E trigger, response : PrepareOutboundBatch(a, tok, trigger, response)
               \/ \E trigger, i, transition, platformId, observation :
                    TransitionSegment(a, tok, trigger, i, transition, platformId, observation)
               \/ \E trigger, i, transition, platformId :
                    RepeatTransition(a, tok, trigger, i, transition, platformId)
               \/ \E page : ReconcileSentReceipts(a, tok, page)
               \/ \E digest : RestoreSendObservation(a, tok, digest)
        PROVE  UNCHANGED inVars
    BY <2>2 DEF PrepareOutboundBatch, TransitionSegment, RepeatTransition,
                ReconcileSentReceipts, RestoreSendObservation
  <2> QED  BY <1>2, <2>1, <2>2 DEF OutboxNext
<1> QED  BY <1>1, <1>2

LEMMA SpoolNext ==
  ASSUME TypeOK, [Next]_vars
  PROVE  /\ SpoolStep
         /\ NoticeInv => NoticeInv'
<1>1. ASSUME UNCHANGED inVars
      PROVE  SpoolStep /\ (NoticeInv => NoticeInv')
  BY <1>1, SpoolKept DEF inVars, NoticeInv, ClaimsKept, PairedNoticeClaimedOnce
<1>2. CASE ClockNext \/ UNCHANGED vars
  BY <1>1, <1>2 DEF ClockNext, Tick, ClockSetBack, vars, inVars
<1>3. ASSUME NEW a \in Accounts, NEW tok \in Token, InboundNext(a, tok)
      PROVE  SpoolStep /\ (NoticeInv => NoticeInv')
  <2>1. ASSUME NEW stream \in Streams, NEW generation \in 1..MaxGeneration,
               NEW cursor \in 0..MaxCheckpoint, NEW drafts,
               RecordInboundPage(a, tok, stream, generation, cursor, drafts)
        PROVE  SpoolStep /\ (NoticeInv => NoticeInv')
    <3>1. UNCHANGED <<claims, claimLog>>
      BY <2>1 DEF RecordInboundPage
    <3> QED  BY <2>1, <3>1, PageStep DEF NoticeInv, ClaimsKept, PairedNoticeClaimedOnce
  <2>2. ASSUME NEW generation, EnsureInboundLiveStart(a, tok, generation)
        PROVE  SpoolStep /\ (NoticeInv => NoticeInv')
    <3>1. UNCHANGED <<claims, claimLog>> /\ receipts' = receipts /\ checkpoint' = checkpoint
      BY <2>2 DEF EnsureInboundLiveStart
    <3> QED  BY <3>1, SpoolKept DEF NoticeInv, ClaimsKept, PairedNoticeClaimedOnce
  <2>3. ASSUME NEW key \in InboundKey,
               \/ MarkInboundProcessed(a, tok, key)
               \/ \E hash \in Hashes : ConsumeInboundAgain(a, tok, key, hash)
        PROVE  SpoolStep /\ (NoticeInv => NoticeInv')
    <3>1. UNCHANGED <<claims, claimLog>> /\ checkpoint' = checkpoint /\ ConsumeReceipt(a, key)
      BY <2>3 DEF MarkInboundProcessed, ConsumeInboundAgain, ConsumeReceipt
    <3> QED  BY <3>1, ConsumedStep DEF NoticeInv, ClaimsKept, PairedNoticeClaimedOnce
  <2>4. ASSUME NEW key \in InboundKey, NEW hash \in Hashes,
               NEW reply \in Reply \cup {NoReply}, NEW policy \in Policies \cup {NoPolicy},
               ConsumeInbound(a, tok, key, hash, reply, policy)
        PROVE  SpoolStep /\ (NoticeInv => NoticeInv')
    <3>1. checkpoint' = checkpoint /\ ConsumeReceipt(a, key)
      BY <2>4 DEF ConsumeInbound
    <3> QED  BY <2>4, <3>1, ConsumedStep, ClaimStep
  <2> QED  BY <1>3, <2>1, <2>2, <2>3, <2>4 DEF InboundNext
<1> QED  BY <1>1, <1>2, <1>3, SpoolIdle DEF Next

(* Of all replies ever claimed, the two directions of one mutual-follow    *)
(* notice have one, unless the first claim had been pruned by a later one  *)
(* recorded more than the retention after it, over any number of notices,  *)
(* restarts and clock steps: PairedNoticeClaimedOnce. It rests on what the *)
(* table has forgotten: a claim that is gone was pruned by such a one.     *)
THEOREM PairedNoticeTheorem == Spec => []PairedNoticeClaimedOnce
<1>1. Init => NoticeInv
  BY DEF Init, NoticeInv, ClaimsKept, PairedNoticeClaimedOnce
<1>2. TypeOK /\ NoticeInv /\ [Next]_vars => NoticeInv'
  BY SpoolNext
<1>3. NoticeInv => PairedNoticeClaimedOnce
  BY DEF NoticeInv
<1> QED  BY <1>1, <1>2, <1>3, StoreTypeCorrect, PTL DEF Spec

(* A page cursor moves forward within a generation, and a generation never *)
(* comes back: CursorNeverRegresses.                                       *)
THEOREM CursorTheorem == Spec => CursorNeverRegresses
<1>1. TypeOK /\ [Next]_vars =>
        \A a \in Accounts, s \in Streams :
          LET old == checkpoint[a][s]
              new == checkpoint'[a][s]
          IN  \/ new.generation > old.generation
              \/ new.generation = old.generation /\ new.cursor >= old.cursor
  BY SpoolNext DEF SpoolStep, CursorForward
<1> QED  BY <1>1, StoreTypeCorrect, PTL DEF Spec, CursorNeverRegresses

(* A receipt is never forgotten or rewritten, and its payload is dropped   *)
(* only by a decision or an acknowledgement: ReceiptsKept.                 *)
THEOREM ReceiptsTheorem == Spec => ReceiptsKept
<1>1. TypeOK /\ [Next]_vars =>
        \A a \in Accounts, key \in InboundKey :
          receipts[a][key].status # "none" =>
            /\ receipts'[a][key].hash = receipts[a][key].hash
            /\ receipts'[a][key].status \in {receipts[a][key].status, "processed"}
  BY SpoolNext DEF SpoolStep, ReceiptKept
<1> QED  BY <1>1, StoreTypeCorrect, PTL DEF Spec, ReceiptsKept
=============================================================================
