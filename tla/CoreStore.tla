------------------------------ MODULE CoreStore ------------------------------
(***************************************************************************)
(* The agent's durable correctness store (store.rs with store_guards.rs,   *)
(* store_send_receipts.rs, store_protocol_state.rs and                     *)
(* store_mutual_follow.rs).                                                *)
(*                                                                         *)
(* Every operation of CoreStore is one IMMEDIATE SQLite transaction under  *)
(* the connection mutex, so it is one action here. An operation that       *)
(* returns an error rolls everything back, the lease's observed time       *)
(* included: the action is then not enabled. Callers are any holders of a  *)
(* token, current or stale.                                                *)
(***************************************************************************)
EXTENDS SegmentLifecycle, ReplyGuards, FiniteSets, Sequences

CONSTANTS
  Accounts,        \* local account ids
  Owners,          \* (instance id, boot id) pairs
  MaxEpoch,        \* bound: fence epochs the control plane issues
  MaxTime,         \* bound: the wall clock
  LeaseEnds,       \* bound: expiry times of the verified leases
  ManualTriggers,  \* triggers "manual:<request>"
  Events,          \* canonical inbound ids; event e is also the trigger "auto:e"
  Responses,       \* response ids (routes) with their segment plan
  MaxSegments,     \* MAX_OUTBOUND_SEGMENTS
  SegmentCount,    \* [Responses -> the number of segments of the plan]
  MaxAttempts,     \* bound: attempts of one segment
  PendingLimit,    \* pending_batch_limit of an inbound reply plan
  Digests,         \* credential binding digests
  NoDigest,        \* no row in account_protocol_state
  NoBatch,         \* no batch for a trigger
  NoReply,         \* an inbound decision without a reply
  Streams,         \* inbound streams (transports)
  MaxGeneration,   \* bound: credential generations of a stream
  LiveGenerations, \* bound: credential generations of the live start
  MaxCheckpoint,   \* bound: page cursors of a stream
  Hashes,          \* payload hashes
  MaxPending,      \* limits.pending_records of a bounded page
  NoticeTimes,     \* times of mutual-follow notices
  Slack,           \* the 30 s a receipt's clock may differ
  FreshWindow,     \* the 300 s in which a receipt proves sendability
  RiskRecheck,     \* RISK_RECHECK_MS
  PairWindow,      \* PAIR_WINDOW_US
  RetainClaims,    \* RETAIN_MS
  MaxClaims        \* MAX_CLAIMS

NoNotice == -1
Triggers == ManualTriggers \cup Events
Epochs == 1..MaxEpoch
Ordinals == 1..MaxSegments
Token == [owner : Owners, epoch : Epochs]
InboundKey == [stream : Streams, generation : 1..MaxGeneration, event : Events]
Reply == [response : Responses, mutualAt : NoticeTimes \cup {NoNotice}]
Capability == {"unknown", "sendable", "risk_controlled", "auth_expired", "receive_only"}

ASSUME StoreAssumption ==
  /\ {MaxEpoch, MaxTime, MaxAttempts, MaxGeneration, MaxCheckpoint} \subseteq Nat
  /\ {PendingLimit, MaxPending, MaxClaims} \subseteq Nat
  /\ {Slack, FreshWindow, RiskRecheck, PairWindow, RetainClaims} \subseteq Nat
  /\ Owners # {} /\ Hashes # {}
  /\ MaxSegments \in Nat /\ SegmentCount \in [Responses -> 1..MaxSegments]
  /\ ManualTriggers \cap Events = {} /\ NoTrigger \notin Triggers
  /\ NoDigest \notin Digests
  /\ NoticeTimes \subseteq Nat \ {0} /\ LeaseEnds \subseteq Nat
  /\ LiveGenerations \subseteq Nat \ {0}

VARIABLES
  now,         \* the wall clock OperationTime::System reads inside a transaction
  lease,       \* account_leases
  outbox,      \* outbound_batches with their segments and auto_reply_batches row
  scopes,      \* reply_guard_scopes
  receipts,    \* inbound_receipts of the transport streams
  decided,     \* inbound_receipts of the decision stream
  checkpoint,  \* inbound_checkpoints of the transport streams
  liveStart,   \* inbound_checkpoints of the live-start stream
  claims,      \* mutual_follow_claims
  proto,       \* account_protocol_state
  attempted,   \* history: the epoch and credential each last attempt began under
  claimLog     \* history: every row ever inserted into mutual_follow_claims, in order

outVars == <<outbox, scopes, attempted>>
inVars == <<receipts, decided, checkpoint, liveStart, claims, claimLog>>
vars == <<now, lease, outbox, scopes, receipts, decided, checkpoint, liveStart,
          claims, proto, attempted, claimLog>>

BatchOf(n) ==
  [segs : [1..n -> Segment], status : BatchStatus, response : Responses,
   created : Nat, policy : Policies \cup {NoPolicy}, settled : BOOLEAN]

IsBatch(b) == \E n \in Ordinals : b \in BatchOf(n)

ASSUME NoBatchAssumption == ~IsBatch(NoBatch)

Init ==
  /\ now = 0
  /\ lease = [a \in Accounts |->
       [owner |-> CHOOSE o \in Owners : TRUE, epoch |-> 0, until |-> 0,
        status |-> "none", observed |-> 0]]
  /\ outbox = [a \in Accounts |-> [t \in Triggers |-> NoBatch]]
  /\ scopes = [a \in Accounts |-> [k \in GuardScopes |-> EmptyScope]]
  /\ receipts = [a \in Accounts |->
       [key \in InboundKey |-> [status |-> "none", hash |-> CHOOSE h \in Hashes : TRUE]]]
  /\ decided = [a \in Accounts |-> {}]
  /\ checkpoint = [a \in Accounts |-> [s \in Streams |-> [generation |-> 0, cursor |-> 0]]]
  /\ liveStart = [a \in Accounts |-> [generation |-> 0, cutoff |-> 0]]
  /\ claims = {}
  /\ claimLog = <<>>
  /\ proto = [a \in Accounts |->
       [digest |-> NoDigest, capability |-> "unknown", observed |-> 0]]
  /\ attempted = [a \in Accounts |->
       [t \in Triggers |-> [i \in Ordinals |-> [epoch |-> 0, digest |-> NoDigest]]]]

-----------------------------------------------------------------------------
(* The wall clock. It is adjusted in both directions.                      *)

Tick ==
  /\ now < MaxTime
  /\ now' = now + 1
  /\ UNCHANGED <<lease, outVars, inVars, proto>>

ClockSetBack ==
  /\ \E t \in 0..MaxTime : t < now /\ now' = t
  /\ UNCHANGED <<lease, outVars, inVars, proto>>

-----------------------------------------------------------------------------
(* Leases and the fence.                                                   *)

Fenced(a, tok) ==
  /\ lease[a].epoch = tok.epoch
  /\ lease[a].owner = tok.owner
  /\ lease[a].status = "active"
  /\ lease[a].observed <= now
  /\ now < lease[a].until

Observe(a) == lease' = [lease EXCEPT ![a].observed = now]

(* Settling: which of the touched batches release their reservation now,   *)
(* and what that leaves in the scopes.                                     *)
Settling(batches, touched) ==
  {t \in touched : /\ batches[t].policy # NoPolicy
                   /\ ~batches[t].settled
                   /\ AllTerminal(batches[t].segs)}

Deliveries(batch) ==
  {batch.segs[i].updated :
     i \in {j \in DOMAIN batch.segs : batch.segs[j].status = "confirmed"}}

OwnReservations(a, batches, settling) ==
  \A t \in settling : HoldsReservation(scopes[a], batches[t].policy, t)

SettledScopes(a, batches, settling) ==
  IF settling = {} THEN scopes[a]
  ELSE LET t == CHOOSE t \in settling : TRUE
       IN  Settle(scopes[a], batches[t].policy, Deliveries(batches[t]))

(* Replaces account a's batches, settling the touched ones that are done.  *)
(* Two batches cannot settle at once: both would need the account scope.   *)
CommitBatches(a, batches, touched) ==
  LET settling == Settling(batches, touched)
  IN  /\ OwnReservations(a, batches, settling)
      /\ outbox' = [outbox EXCEPT ![a] =
           [t \in Triggers |-> IF t \in settling
                               THEN [batches[t] EXCEPT !.settled = TRUE]
                               ELSE batches[t]]]
      /\ scopes' = [scopes EXCEPT ![a] = SettledScopes(a, batches, settling)]

WithSegments(batch, segs) ==
  [batch EXCEPT !.segs = segs, !.status = DeriveBatchStatus(segs)]

(* Faulty variants, for the mutation runs: a takeover that leaves open     *)
(* claims alone, and one that forgets the batch status.                    *)
RecoverNothing(batch, epoch) == batch

RecoverSegmentsOnly(batch, epoch) ==
  IF batch = NoBatch THEN batch
  ELSE [batch EXCEPT !.segs =
          [i \in DOMAIN batch.segs |-> RecoverInterrupted(batch.segs[i], epoch, now)]]

(* A higher epoch makes every interrupted send of the account uncertain.   *)
RecoverBatch(batch, epoch) ==
  IF batch # NoBatch /\ \E i \in DOMAIN batch.segs :
       batch.segs[i].status = "sending" /\ batch.segs[i].fence < epoch
  THEN WithSegments(batch, [i \in DOMAIN batch.segs |->
                              RecoverInterrupted(batch.segs[i], epoch, now)])
  ELSE batch

(* install_verified_account_lease with a higher epoch (or the first one).  *)
InstallLease(a, owner, epoch, until) ==
  /\ until > now
  /\ epoch > lease[a].epoch
  /\ now >= lease[a].observed
  /\ lease' = [lease EXCEPT ![a] =
       [owner |-> owner, epoch |-> epoch, until |-> until,
        status |-> "active", observed |-> now]]
  /\ outbox' = [outbox EXCEPT ![a] =
       [t \in Triggers |-> RecoverBatch(outbox[a][t], epoch)]]
  /\ UNCHANGED <<now, scopes, attempted, inVars, proto>>

(* Faulty variant: a renewal that revives a released lease.                *)
RenewReleased(a, owner, until) ==
  /\ until > now
  /\ lease[a].owner = owner
  /\ now >= lease[a].observed
  /\ lease' = [lease EXCEPT ![a].status = "active", ![a].until = until, ![a].observed = now]
  /\ UNCHANGED <<now, outVars, inVars, proto>>

(* The same call with the current epoch: a renewal by the same owner.      *)
ExtendLease(a, owner, until) ==
  /\ until > now
  /\ lease[a].status = "active"
  /\ lease[a].owner = owner
  /\ now >= lease[a].observed
  /\ lease' = [lease EXCEPT ![a].until = IF until > @ THEN until ELSE @,
                            ![a].observed = now]
  /\ UNCHANGED <<now, outVars, inVars, proto>>

ReleaseLease(a, tok) ==
  /\ Fenced(a, tok)
  /\ lease' = [lease EXCEPT ![a].status = "released", ![a].observed = now]
  /\ UNCHANGED <<now, outVars, inVars, proto>>

(* invalidate_account_lease: exactly this owner and epoch, at any time.    *)
InvalidateLease(a, tok) ==
  /\ lease[a].status = "active"
  /\ lease[a].owner = tok.owner
  /\ lease[a].epoch = tok.epoch
  /\ lease' = [lease EXCEPT ![a].status = "released"]
  /\ UNCHANGED <<now, outVars, inVars, proto>>

-----------------------------------------------------------------------------
(* Outbound batches.                                                       *)

NewBatch(a, tok, response) ==
  [segs |-> [i \in 1..SegmentCount[response] |-> NewSegment(tok.epoch, now)],
   status |-> "prepared", response |-> response, created |-> now,
   policy |-> NoPolicy, settled |-> FALSE]

Unfinished(a) ==
  {t \in Triggers : outbox[a][t] # NoBatch /\ outbox[a][t].status \notin TerminalBatch}

(* prepare_outbound_batch: one claim per trigger. A repeated call returns  *)
(* the stored batch when the plan is the same.                             *)
PrepareOutboundBatch(a, tok, trigger, response) ==
  /\ Fenced(a, tok)
  /\ \/ /\ outbox[a][trigger] = NoBatch
        /\ outbox' = [outbox EXCEPT ![a][trigger] = NewBatch(a, tok, response)]
     \/ /\ outbox[a][trigger] # NoBatch
        /\ outbox[a][trigger].response = response
        /\ UNCHANGED outbox
  /\ Observe(a)
  /\ UNCHANGED <<now, scopes, attempted, inVars, proto>>

NoObservation == [digest |-> NoDigest, capability |-> "unknown"]

(* protocol_state::record updates the account's verified scope.            *)
RecordObservation(a, observation) ==
  IF observation = NoObservation THEN UNCHANGED proto
  ELSE /\ proto[a].digest # NoDigest
       /\ proto' = [proto EXCEPT ![a] =
            [digest |-> observation.digest, capability |-> observation.capability,
             observed |-> now]]

(* transition_segment: the claim of an attempt, its outcome or the         *)
(* cancellation of an unsent segment. A repetition changes nothing.        *)
RepeatTransition(a, tok, trigger, i, transition, platformId) ==
  LET batch == outbox[a][trigger]
  IN  /\ Fenced(a, tok)
      /\ batch # NoBatch
      /\ i \in DOMAIN batch.segs
      /\ transition = "start_automatic" =>
           /\ batch.policy # NoPolicy
           /\ ~batch.settled
           /\ HoldsReservation(scopes[a], batch.policy, trigger)
      /\ batch.segs[i].status = TargetStatus[transition]
      /\ transition = "confirm" => batch.segs[i].platformId = platformId
      /\ Observe(a)
      /\ UNCHANGED <<now, outVars, inVars, proto>>

TransitionSegment(a, tok, trigger, i, transition, platformId, observation) ==
  LET batch == outbox[a][trigger]
      seg   == batch.segs[i]
      segs  == [batch.segs EXCEPT ![i] =
                  ApplyTransition(seg, transition, platformId, tok.epoch, now)]
      batches == [outbox[a] EXCEPT ![trigger] = WithSegments(batch, segs)]
  IN  /\ Fenced(a, tok)
      /\ batch # NoBatch
      /\ i \in DOMAIN batch.segs
      /\ transition = "start_automatic" =>
           /\ batch.policy # NoPolicy
           /\ ~batch.settled
           /\ HoldsReservation(scopes[a], batch.policy, trigger)
      /\ ValidTransition(seg.status, transition)
      /\ transition \in StartTransitions => seg.attempts < MaxAttempts
      /\ CommitBatches(a, batches, {trigger})
      /\ RecordObservation(a, observation)
      /\ attempted' = IF transition \in StartTransitions
                      THEN [attempted EXCEPT ![a][trigger][i] =
                              [epoch |-> tok.epoch, digest |-> proto[a].digest]]
                      ELSE attempted
      /\ Observe(a)
      /\ UNCHANGED <<now, inVars>>

-----------------------------------------------------------------------------
(* Send receipts: evidence from the account's own authenticated inbox.     *)
(* A page maps segments, by their client message id, to what the platform  *)
(* says of them; evidence for no segment of the account is skipped.        *)

SegmentId(a) ==
  {id \in Triggers \X Ordinals :
     outbox[a][id[1]] # NoBatch /\ id[2] \in DOMAIN outbox[a][id[1]].segs}

(* Faulty variant: evidence settles a segment in any status.               *)
SettlesAnyStatus(a, id, item) ==
  /\ item.sentAt > 0
  /\ item.sentAt <= now + Slack
  /\ item.sentAt >= outbox[a][id[1]].created - Slack
  /\ outbox[a][id[1]].segs[id[2]].attempts > 0

(* Faulty variant: only an open attempt is looked for in the inbox.        *)
SettlesOpenOnly(a, id, item) ==
  /\ item.sentAt > 0
  /\ item.sentAt <= now + Slack
  /\ item.sentAt >= outbox[a][id[1]].created - Slack
  /\ outbox[a][id[1]].segs[id[2]].attempts > 0
  /\ outbox[a][id[1]].segs[id[2]].status = "sending"

Settles(a, id, item) ==
  LET batch == outbox[a][id[1]]
      seg   == batch.segs[id[2]]
  IN  /\ item.sentAt > 0
      /\ item.sentAt <= now + Slack
      /\ item.sentAt >= batch.created - Slack
      /\ seg.attempts > 0
      /\ seg.status \in {"sending", "uncertain"}
      /\ seg.platformId \in {NoPlatformId, item.platformId}

(* is_fresh_current_fence, before the page's segments are rewritten.       *)
ProvesSendable(a, tok, id, item) ==
  /\ outbox[a][id[1]].segs[id[2]].fence = tok.epoch
  /\ item.sentAt >= proto[a].observed
  /\ now - item.sentAt <= FreshWindow

Earlier(x, y) == IF x < y THEN x ELSE y

ReconcileSentReceipts(a, tok, page) ==
  LET hits    == {id \in DOMAIN page : Settles(a, id, page[id])}
      touched == {id[1] : id \in hits}
      settled(t, i) ==
        IF <<t, i>> \notin hits THEN outbox[a][t].segs[i]
        ELSE ApplyTransition(outbox[a][t].segs[i], "confirm",
               page[<<t, i>>].platformId, tok.epoch, Earlier(page[<<t, i>>].sentAt, now))
      batches == [t \in Triggers |->
                    IF t \notin touched THEN outbox[a][t]
                    ELSE WithSegments(outbox[a][t],
                           [i \in DOMAIN outbox[a][t].segs |-> settled(t, i)])]
  IN  /\ Fenced(a, tok)
      /\ proto[a].digest # NoDigest
      /\ DOMAIN page \subseteq SegmentId(a)
      /\ CommitBatches(a, batches, touched)
      /\ proto' = IF \E id \in hits : ProvesSendable(a, tok, id, page[id])
                  THEN [proto EXCEPT ![a].capability = "sendable", ![a].observed = now]
                  ELSE proto
      /\ Observe(a)
      /\ UNCHANGED <<now, attempted, inVars>>

-----------------------------------------------------------------------------
(* Durable send capability of the verified credential.                     *)

RiskExpired(a) ==
  proto[a].capability = "risk_controlled" /\ now - proto[a].observed >= RiskRecheck

(* What restore_send_observation answers for credential `digest'.          *)
RestoredCapability(a, digest) ==
  IF proto[a].digest # digest \/ RiskExpired(a) THEN "unknown"
  ELSE IF proto[a].capability = "sendable" /\ ~(0 < proto[a].observed /\ proto[a].observed <= now)
  THEN "unknown"
  ELSE proto[a].capability

RestoreSendObservation(a, tok, digest) ==
  /\ Fenced(a, tok)
  /\ proto' = IF proto[a].digest # digest \/ RiskExpired(a)
              THEN [proto EXCEPT ![a] =
                      [digest |-> digest, capability |-> "unknown", observed |-> 0]]
              ELSE proto
  /\ Observe(a)
  /\ UNCHANGED <<now, outVars, inVars>>

-----------------------------------------------------------------------------
(* The inbound spool.                                                      *)

Pending(a) == {key \in InboundKey : receipts[a][key].status = "pending"}

(* Faulty variants: a page that replaces what waits for a decision, and a  *)
(* checkpoint that follows every page.                                     *)
ReplacesOn(a, onPage) == {key \in onPage : receipts[a][key].status # "processed"}

Follows(old, generation, cursor) ==
  generation > old.generation \/ cursor # old.cursor

(* INSERT ... ON CONFLICT DO NOTHING: what the page adds to the spool.     *)
FreshOn(a, onPage) == {key \in onPage : receipts[a][key].status = "none"}

Advances(old, generation, cursor) ==
  generation > old.generation \/ cursor > old.cursor

(* record_bounded_inbound_page: drafts maps the page's events to hashes.   *)
RecordInboundPage(a, tok, stream, generation, cursor, drafts) ==
  LET old      == checkpoint[a][stream]
      onPage   == {key \in InboundKey : /\ key.stream = stream
                                        /\ key.generation = generation
                                        /\ key.event \in DOMAIN drafts}
      fresh    == FreshOn(a, onPage)
  IN  /\ Fenced(a, tok)
      /\ generation >= old.generation
      /\ \A key \in onPage \ fresh : receipts[a][key].hash = drafts[key.event]
      /\ Cardinality(Pending(a) \cup fresh) <= MaxPending
      /\ receipts' = [receipts EXCEPT ![a] =
           [key \in InboundKey |->
              IF key \in fresh THEN [status |-> "pending", hash |-> drafts[key.event]]
              ELSE receipts[a][key]]]
      /\ checkpoint' =
           IF Advances(old, generation, cursor)
           THEN [checkpoint EXCEPT ![a][stream] =
                   [generation |-> generation, cursor |-> cursor]]
           ELSE checkpoint
      /\ Observe(a)
      /\ UNCHANGED <<now, outVars, decided, liveStart, claims, claimLog, proto>>

MarkInboundProcessed(a, tok, key) ==
  /\ Fenced(a, tok)
  /\ receipts[a][key].status # "none"
  /\ receipts' = [receipts EXCEPT ![a][key].status = "processed"]
  /\ Observe(a)
  /\ UNCHANGED <<now, outVars, decided, checkpoint, liveStart, claims, claimLog,
                 proto>>

EnsureInboundLiveStart(a, tok, generation) ==
  /\ Fenced(a, tok)
  /\ generation >= liveStart[a].generation
  /\ liveStart' = IF generation = liveStart[a].generation THEN liveStart
                  ELSE [liveStart EXCEPT ![a] =
                          [generation |-> generation, cutoff |-> now]]
  /\ Observe(a)
  /\ UNCHANGED <<now, outVars, receipts, decided, checkpoint, claims, claimLog, proto>>

(* Faulty variant: only an earlier notice counts as the other direction.   *)
ClaimedEarlier(a, conversation, at) ==
  \E c \in claims : /\ c.account = a
                    /\ c.conversation = conversation
                    /\ at - PairWindow <= c.at
                    /\ c.at <= at

(* mutual_follow::already_claimed, coalesce and record.                    *)
AlreadyClaimed(a, conversation, at) ==
  \E c \in claims : /\ c.account = a
                    /\ c.conversation = conversation
                    /\ at - PairWindow <= c.at
                    /\ c.at <= at + PairWindow

Coalesce(a, reply, policy) ==
  IF reply # NoReply /\ reply.mutualAt # NoNotice
     /\ AlreadyClaimed(a, policy.conversation, reply.mutualAt)
  THEN NoReply
  ELSE reply

LiveClaims == {c \in claims : c.created >= now - RetainClaims}

ClaimNotice(a, reply, policy) ==
  IF reply = NoReply \/ reply.mutualAt = NoNotice THEN UNCHANGED <<claims, claimLog>>
  ELSE LET row == [account |-> a, conversation |-> policy.conversation,
                   at |-> reply.mutualAt, created |-> now]
       IN  /\ Cardinality(LiveClaims) < MaxClaims
           /\ claims' = LiveClaims \cup {row}
           /\ claimLog' = Append(claimLog, row)

(* Faulty variants: a second stream decides again, and a decision that is  *)
(* not recorded.                                                           *)
AlwaysUndecided(a, event) == TRUE

DecideNothing(a, event) == UNCHANGED decided

Undecided(a, event) == event \notin decided[a]

Decide(a, event) == decided' = [decided EXCEPT ![a] = @ \cup {event}]

(* consume_inbound_with_guards: the decision for an event, whichever       *)
(* transport delivered it. The first one may claim a reply; later ones     *)
(* only clear their receipt.                                               *)
ConsumeReceipt(a, key) ==
  receipts' = [receipts EXCEPT ![a][key].status = "processed"]

ConsumeInboundAgain(a, tok, key, hash) ==
  /\ Fenced(a, tok)
  /\ receipts[a][key].status # "none"
  /\ receipts[a][key].hash = hash
  /\ ~Undecided(a, key.event) \/ receipts[a][key].status = "processed"
  /\ ConsumeReceipt(a, key)
  /\ Observe(a)
  /\ UNCHANGED <<now, outVars, decided, checkpoint, liveStart, claims, claimLog,
                 proto>>

ConsumeInbound(a, tok, key, hash, reply, policy) ==
  LET event == key.event
      plan  == Coalesce(a, reply, policy)
      fresh == plan # NoReply /\ outbox[a][event] = NoBatch
      batch == IF fresh THEN NewBatch(a, tok, plan.response) ELSE outbox[a][event]
      guarded == policy # NoPolicy /\ batch # NoBatch
  IN  /\ Fenced(a, tok)
      /\ receipts[a][key].status = "pending"
      /\ receipts[a][key].hash = hash
      /\ Undecided(a, event)
      /\ (reply # NoReply /\ reply.mutualAt # NoNotice) => policy # NoPolicy
      /\ fresh => Cardinality(Unfinished(a)) < PendingLimit
      /\ IF ~guarded
         THEN /\ outbox' = [outbox EXCEPT ![a][event] = batch]
              /\ UNCHANGED <<scopes, claims, claimLog>>
         ELSE /\ IF batch.policy = NoPolicy
                 THEN /\ CanReserve(scopes[a], policy, event, now)
                      /\ outbox' = [outbox EXCEPT ![a][event] =
                                      [batch EXCEPT !.policy = policy]]
                      /\ scopes' = [scopes EXCEPT ![a] = Reserve(@, policy, event)]
                 ELSE /\ batch.policy = policy
                      /\ UNCHANGED <<outbox, scopes>>
              /\ ClaimNotice(a, plan, policy)
      /\ Decide(a, event)
      /\ ConsumeReceipt(a, key)
      /\ Observe(a)
      /\ UNCHANGED <<now, attempted, checkpoint, liveStart, proto>>

(* pending_inbound_receipts, unfinished_outbound_batches: reads behind the *)
(* fence, whose only effect is the lease's observed time.                  *)
FencedRead(a, tok) ==
  /\ Fenced(a, tok)
  /\ Observe(a)
  /\ UNCHANGED <<now, outVars, inVars, proto>>
-----------------------------------------------------------------------------
(* The next-state relation, by the part of the store an operation is on.   *)

ClockNext == Tick \/ ClockSetBack

LeaseNext(a) ==
  \/ \E owner \in Owners, until \in LeaseEnds :
       \/ \E epoch \in Epochs : InstallLease(a, owner, epoch, until)
       \/ ExtendLease(a, owner, until)
  \/ \E tok \in Token :
       ReleaseLease(a, tok) \/ InvalidateLease(a, tok) \/ FencedRead(a, tok)

(* What LiveSender::persist_outcome writes: the transition together with   *)
(* the capability it shows, for the token and the credential the attempt   *)
(* was made with.                                                          *)
SenderOutcome ==
  {<<"confirm", "sendable">>, <<"reject", "risk_controlled">>,
   <<"reject", "auth_expired">>, <<"reject", "unknown">>,
   <<"mark_uncertain", "unknown">>}

IdsFor(transition) == IF transition = "confirm" THEN PlatformIds ELSE {NoPlatformId}

PersistOutcome(a, tok, trigger, i) ==
  \E outcome \in SenderOutcome : \E platformId \in IdsFor(outcome[1]) :
    /\ attempted[a][trigger][i].epoch = tok.epoch
    /\ attempted[a][trigger][i].digest # NoDigest
    /\ TransitionSegment(a, tok, trigger, i, outcome[1], platformId,
         [digest |-> attempted[a][trigger][i].digest, capability |-> outcome[2]])

Evidence == [platformId : PlatformIds, sentAt : 1..MaxTime + Slack]

EvidencePage(a) ==
  UNION {[ids -> Evidence] : ids \in SUBSET SegmentId(a)}

OutboxNext(a, tok) ==
  \/ \E trigger \in ManualTriggers, response \in Responses :
       PrepareOutboundBatch(a, tok, trigger, response)
  \/ \E trigger \in Triggers, i \in Ordinals :
       \/ \E transition \in SegmentTransition :
            \E platformId \in IdsFor(transition) :
              \/ TransitionSegment(a, tok, trigger, i, transition, platformId,
                                   NoObservation)
              \/ RepeatTransition(a, tok, trigger, i, transition, platformId)
       \/ PersistOutcome(a, tok, trigger, i)
  \/ \E page \in EvidencePage(a) : ReconcileSentReceipts(a, tok, page)
  \/ \E digest \in Digests : RestoreSendObservation(a, tok, digest)

InboundNext(a, tok) ==
  \/ \E stream \in Streams, generation \in 1..MaxGeneration,
         cursor \in 0..MaxCheckpoint, events \in SUBSET Events :
       \E drafts \in [events -> Hashes] :
         RecordInboundPage(a, tok, stream, generation, cursor, drafts)
  \/ \E generation \in LiveGenerations : EnsureInboundLiveStart(a, tok, generation)
  \/ \E key \in InboundKey :
       \/ MarkInboundProcessed(a, tok, key)
       \/ \E hash \in Hashes :
            \/ ConsumeInboundAgain(a, tok, key, hash)
            \/ \E reply \in Reply \cup {NoReply}, policy \in Policies \cup {NoPolicy} :
                 ConsumeInbound(a, tok, key, hash, reply, policy)

Next ==
  \/ ClockNext
  \/ \E a \in Accounts :
       \/ LeaseNext(a)
       \/ \E tok \in Token : OutboxNext(a, tok) \/ InboundNext(a, tok)

Spec == Init /\ [][Next]_vars

-----------------------------------------------------------------------------
(* Properties. *)

Lease ==
  [owner : Owners, epoch : 0..MaxEpoch, until : Nat,
   status : {"none", "active", "released"}, observed : Nat]

Scope ==
  [zone : {p.zone : p \in Policies} \cup {NoZone}, last : Nat \cup {Never},
   day : Nat \cup {Never}, used : Nat, reserved : Triggers \cup {NoTrigger}]

LeaseType == lease \in [Accounts -> Lease]

(* Times on record come from the clock, which MaxTime bounds.              *)
Stored(batch) ==
  /\ IsBatch(batch)
  /\ \A i \in DOMAIN batch.segs : batch.segs[i].updated <= MaxTime

OutboxType ==
  /\ outbox = [a \in Accounts |-> [t \in Triggers |-> outbox[a][t]]]
  /\ \A a \in Accounts, t \in Triggers : outbox[a][t] = NoBatch \/ Stored(outbox[a][t])

ScopesType == scopes \in [Accounts -> [GuardScopes -> Scope]]

Claim ==
  [account : Accounts, conversation : {p.conversation : p \in Policies},
   at : Nat, created : Nat]

InboundType ==
  /\ receipts \in [Accounts -> [InboundKey ->
                     [status : {"none", "pending", "processed"}, hash : Hashes]]]
  /\ decided \in [Accounts -> SUBSET Events]
  /\ checkpoint \in [Accounts -> [Streams -> [generation : Nat, cursor : Nat]]]
  /\ liveStart \in [Accounts -> [generation : Nat, cutoff : Nat]]
  /\ claims \subseteq Claim
  /\ claimLog \in Seq(Claim)

ProtoType ==
  /\ proto \in [Accounts -> [digest : Digests \cup {NoDigest},
                              capability : Capability, observed : Nat]]
  /\ attempted \in [Accounts -> [Triggers -> [Ordinals ->
                      [epoch : Nat, digest : Digests \cup {NoDigest}]]]]

(* The shape of the store's rows: every column holds a value of its type.  *)
TypeOK ==
  /\ now \in 0..MaxTime
  /\ LeaseType
  /\ OutboxType
  /\ ScopesType
  /\ InboundType
  /\ ProtoType

Batches(a) == {t \in Triggers : outbox[a][t] # NoBatch}

(* A segment is Sending only under the epoch its account's lease has now:  *)
(* taking a lease over leaves no claim of an earlier owner open, and no    *)
(* stale token opens one later.                                            *)
SendingUnderCurrentFence ==
  \A a \in Accounts : \A t \in Batches(a) : \A i \in DOMAIN outbox[a][t].segs :
    /\ outbox[a][t].segs[i].fence <= lease[a].epoch
    /\ outbox[a][t].segs[i].status = "sending" =>
         outbox[a][t].segs[i].fence = lease[a].epoch

(* The status column of a batch always agrees with its segments, whichever *)
(* path (transition, takeover, receipt page) last wrote them.              *)
BatchStatusAgrees ==
  \A a \in Accounts : \A t \in Batches(a) :
    outbox[a][t].status = DeriveBatchStatus(outbox[a][t].segs)

(* A platform message id is on record exactly for confirmed segments.      *)
ConfirmedCarriesPlatformId ==
  \A a \in Accounts : \A t \in Batches(a) : \A i \in DOMAIN outbox[a][t].segs :
    outbox[a][t].segs[i].status = "confirmed" <=>
    outbox[a][t].segs[i].platformId # NoPlatformId

(* The guard ledger: a scope is reserved by exactly the unsettled batch    *)
(* whose policy names it, so at most one automatic batch of an account is  *)
(* outstanding, and a batch is settled exactly when nothing of it can      *)
(* still be delivered.                                                     *)
GuardLedger ==
  \A a \in Accounts :
    /\ \A k \in GuardScopes, t \in Triggers :
         scopes[a][k].reserved = t <=>
           /\ t \in Batches(a)
           /\ outbox[a][t].policy # NoPolicy
           /\ ~outbox[a][t].settled
           /\ k \in ScopesOf(outbox[a][t].policy)
    /\ \A t \in Batches(a) :
         outbox[a][t].settled <=>
           outbox[a][t].policy # NoPolicy /\ AllTerminal(outbox[a][t].segs)

(* The delivery time of a settled automatic batch that was delivered.      *)
Delivered(a) ==
  {t \in Batches(a) : outbox[a][t].settled /\ Deliveries(outbox[a][t]) # {}}

DeliveredAt(a, t) ==
  CHOOSE m \in Deliveries(outbox[a][t]) : \A d \in Deliveries(outbox[a][t]) : d <= m

DeliveryDay(a, t) == Day(outbox[a][t].policy, DeliveredAt(a, t))

(* No more automatic replies are delivered on a local day than the daily   *)
(* quota of some policy they were claimed under.                           *)
QuotaRespected ==
  \A a \in Accounts : \A t \in Delivered(a) :
    \E u \in Delivered(a) :
      /\ DeliveryDay(a, u) = DeliveryDay(a, t)
      /\ Cardinality({v \in Delivered(a) : DeliveryDay(a, v) = DeliveryDay(a, t)})
           <= outbox[a][u].policy.quota

(* With a peer limit, a peer gets one automatic reply a day.               *)
PeerLimitRespected ==
  \A a \in Accounts : \A t, u \in Delivered(a) :
    /\ t # u
    /\ PeerScope(outbox[a][t].policy) = PeerScope(outbox[a][u].policy)
    /\ outbox[a][t].policy.peerLimit
    /\ outbox[a][u].policy.peerLimit
    => DeliveryDay(a, t) # DeliveryDay(a, u)

(* Replies of one account are the minimum interval apart, and replies of   *)
(* one rule in one conversation its cooldown: the later of two was claimed *)
(* only that long after the earlier one was delivered.                     *)
SpacingRespected ==
  \A a \in Accounts : \A t, u \in Delivered(a) :
    (t # u /\ DeliveredAt(a, t) <= DeliveredAt(a, u)) =>
      LET gap == DeliveredAt(a, u) - DeliveredAt(a, t)
          p   == outbox[a][t].policy
          q   == outbox[a][u].policy
      IN  /\ gap >= Earlier(p.interval, q.interval)
          /\ RuleScope(p) = RuleScope(q) => gap >= Earlier(p.cooldown, q.cooldown)

(* Two notices of one conversation within the pair window are the two      *)
(* directions of one mutual follow.                                        *)
Paired(c, d) ==
  /\ c.account = d.account
  /\ c.conversation = d.conversation
  /\ c.at - d.at <= PairWindow
  /\ d.at - c.at <= PairWindow

(* Recording one claim prunes another that is older than the retention.    *)
Prunes(later, earlier) == later.created > earlier.created + RetainClaims

(* The two directions of one mutual-follow notice claim one reply, as long *)
(* as the first claim is kept: of all replies ever claimed, a second one   *)
(* for the same notice exists only if between the two a claim was recorded *)
(* more than the retention after the first, which forgot it.               *)
PairedNoticeClaimedOnce ==
  \A i, j \in DOMAIN claimLog :
    i < j /\ Paired(claimLog[i], claimLog[j]) =>
      \E k \in (i + 1)..(j - 1) : Prunes(claimLog[k], claimLog[i])

(* An event decided once stays decided, and no delivery of it over another *)
(* stream or generation turns a decision against replying into a reply, or *)
(* one reply into another.                                                 *)
EventDecidedOnce ==
  [][\A a \in Accounts : \A e \in decided[a] :
       /\ e \in decided'[a]
       /\ outbox[a][e] = NoBatch => outbox'[a][e] = NoBatch
       /\ outbox[a][e] # NoBatch =>
            /\ outbox'[a][e] # NoBatch
            /\ outbox'[a][e].response = outbox[a][e].response
            /\ outbox'[a][e].policy = outbox[a][e].policy]_vars

(* A reply to an event exists only once the event is decided.              *)
ReplyImpliesDecision ==
  \A a \in Accounts : Batches(a) \cap Events \subseteq decided[a]

(* A page cursor moves forward within a generation, and a generation never *)
(* comes back.                                                             *)
CursorNeverRegresses ==
  [][\A a \in Accounts, s \in Streams :
       LET old == checkpoint[a][s]
           new == checkpoint'[a][s]
       IN  \/ new.generation > old.generation
           \/ new.generation = old.generation /\ new.cursor >= old.cursor]_vars

(* What was received is kept: a receipt is never forgotten or rewritten,   *)
(* and its payload is dropped only by a decision or an acknowledgement.    *)
ReceiptsKept ==
  [][\A a \in Accounts, key \in InboundKey :
       receipts[a][key].status # "none" =>
         /\ receipts'[a][key].hash = receipts[a][key].hash
         /\ receipts'[a][key].status \in {receipts[a][key].status, "processed"}]_vars

(* An epoch belongs to one owner: another owner, or a return from release, *)
(* needs a higher epoch, and epochs never go back.                         *)
EpochNamesOneOwner ==
  [][\A a \in Accounts :
       \/ lease'[a].epoch > lease[a].epoch
       \/ /\ lease'[a].epoch = lease[a].epoch
          /\ lease'[a].owner = lease[a].owner
          /\ lease[a].status # "active" => lease'[a].status = lease[a].status]_vars

(* A confirmed or rejected segment is never changed again, by a late       *)
(* outcome, a takeover or receipt evidence.                                *)
TerminalSegmentsFinal ==
  [][\A a \in Accounts : \A t \in Batches(a) :
       /\ outbox'[a][t] # NoBatch
       /\ \A i \in DOMAIN outbox[a][t].segs :
            outbox[a][t].segs[i].status \in TerminalSegment =>
              outbox'[a][t].segs[i] = outbox[a][t].segs[i]]_vars

(* Segments that this step confirmed.                                      *)
NewlyConfirmed(a) ==
  {id \in SegmentId(a) :
     /\ outbox[a][id[1]].segs[id[2]].status # "confirmed"
     /\ outbox'[a][id[1]].segs[id[2]].status = "confirmed"}

(* "Promote only a newly applied, recent receipt for an attempt made under *)
(* this exact ownership fence" (store_send_receipts.rs:144-145): a step    *)
(* that records Sendable confirms an attempt of the current epoch.         *)
SendableFromThisFence ==
  [][\A a \in Accounts :
       (proto'[a] # proto[a] /\ proto'[a].capability = "sendable") =>
         \E id \in NewlyConfirmed(a) :
           attempted[a][id[1]][id[2]].epoch = lease[a].epoch]_vars

(* "... post-rotation reconciliation still confirms delivery but cannot    *)
(* ... bless a new credential" (store_send_receipts.rs:146-147): a step    *)
(* that records Sendable for a credential confirms an attempt made with    *)
(* that credential.                                                        *)
SendableForThisCredential ==
  [][\A a \in Accounts :
       (proto'[a] # proto[a] /\ proto'[a].capability = "sendable") =>
         \E id \in NewlyConfirmed(a) :
           attempted[a][id[1]][id[2]].digest = proto'[a].digest]_vars
=============================================================================
