-------------------------- MODULE HostedLeaseProofs --------------------------
(* The lease authority with its agents, for any agents, accounts, requests, *)
(* answers, restarts and terms: epochs, the expiry of what a revoked        *)
(* activation held, and that what an agent may still use is reserved for it *)
(* by the server, so that no two agents may use one account.                *)
EXTENDS HostedControl, TLAPS, FiniteSetTheorems

TxFields == {"call", "at", "until", "rows", "syncs", "fence", "capacity", "slots",
             "todo", "results", "granted"}

RowFields == {"agent", "boot", "local", "epoch", "until", "released"}

(* The transaction under way reads a time that has passed and an activation *)
(* that is usable, which nobody can revoke while it holds the key's lock.   *)
TxTimes ==
  tx # NoTx =>
    /\ DOMAIN tx = TxFields
    /\ tx.at \in Int /\ tx.at <= clock
    /\ tx.until \in Int /\ tx.at < tx.until /\ tx.until <= tx.at + TTL
    /\ tx.call.agent \in Agents /\ licence[tx.call.agent].usable

CallsTyped == \A call \in calls : call.agent \in Agents /\ call.sent \in Nat

LicencesTyped ==
  /\ licence = [a \in Agents |-> licence[a]]
  /\ \A a \in Agents : /\ DOMAIN licence[a] = {"usable", "until", "revoked"}
                       /\ licence[a].until \in Int /\ licence[a].revoked \in Int

TimesInv == clock \in Nat /\ TxTimes /\ CallsTyped /\ LicencesTyped

-----------------------------------------------------------------------------
(* What the operations of a batch do to the transaction.                    *)
LEMMA DecidedFields ==
  ASSUME NEW op, NEW result, NEW row, NEW room, DOMAIN tx = TxFields
  PROVE  LET done == Decided(op, result, row, room)
         IN  /\ DOMAIN done = TxFields
             /\ done.at = tx.at /\ done.until = tx.until /\ done.call = tx.call
             /\ done.fence = tx.fence /\ done.granted = tx.granted
             /\ done.capacity = room
             /\ done.rows = [tx.rows EXCEPT ![op.platform] = row]
BY DEF Decided, TxFields

Granting(op) ==
  LET grant == [epoch |-> tx.fence + 1, platform |-> op.platform,
                agent |-> tx.call.agent, boot |-> tx.call.boot]
  IN  [Decided(op, Result(op, "owned", tx.fence + 1), NewRow(op), tx.capacity - 1)
         EXCEPT !.fence = @ + 1, !.granted = @ \cup {grant},
                !.slots = IF tx.rows[op.platform] = NoRow THEN @ - 1 ELSE @]

LEMMA GrantingFields ==
  ASSUME NEW op, DOMAIN tx = TxFields
  PROVE  LET done == Granting(op)
         IN  /\ DOMAIN done = TxFields
             /\ done.at = tx.at /\ done.until = tx.until /\ done.call = tx.call
             /\ done.fence = tx.fence + 1
             /\ \E g : g.epoch = tx.fence + 1 /\ done.granted = tx.granted \cup {g}
             /\ done.capacity = tx.capacity - 1
             /\ done.rows = [tx.rows EXCEPT ![op.platform] = NewRow(op)]
<1> DEFINE d == Decided(op, Result(op, "owned", tx.fence + 1), NewRow(op), tx.capacity - 1)
           g == [epoch |-> tx.fence + 1, platform |-> op.platform,
                 agent |-> tx.call.agent, boot |-> tx.call.boot]
<1>1. /\ DOMAIN d = TxFields
      /\ d.at = tx.at /\ d.until = tx.until /\ d.call = tx.call
      /\ d.fence = tx.fence /\ d.granted = tx.granted /\ d.capacity = tx.capacity - 1
      /\ d.rows = [tx.rows EXCEPT ![op.platform] = NewRow(op)]
  BY DecidedFields
<1>2. g.epoch = tx.fence + 1  OBVIOUS
<1> HIDE DEF d, g
<1>3. Granting(op) = [d EXCEPT !.fence = @ + 1, !.granted = @ \cup {g},
                               !.slots = IF tx.rows[op.platform] = NoRow THEN @ - 1 ELSE @]
  BY DEF Granting, d, g
<1>4. LET done == Granting(op)
      IN  /\ DOMAIN done = TxFields
          /\ done.at = d.at /\ done.until = d.until /\ done.call = d.call
          /\ done.fence = d.fence + 1 /\ done.granted = d.granted \cup {g}
          /\ done.capacity = d.capacity /\ done.rows = d.rows
  BY <1>1, <1>3 DEF TxFields
<1> QED  BY <1>1, <1>2, <1>4

(* Every operation leaves the identity and the times of the transaction.    *)
LEMMA OperationKeepsTimes ==
  ASSUME NEW op, DOMAIN tx = TxFields, OneOperation(op)
  PROVE  /\ DOMAIN tx' = TxFields
         /\ tx'.at = tx.at /\ tx'.until = tx.until /\ tx'.call = tx.call
<1>1. CASE OpGrant(op)
  BY <1>1, GrantingFields DEF OpGrant, Granting
<1>2. ASSUME NEW result, NEW row, NEW room, tx' = Decided(op, result, row, room)
      PROVE  /\ DOMAIN tx' = TxFields
             /\ tx'.at = tx.at /\ tx'.until = tx.until /\ tx'.call = tx.call
  <2> DEFINE done == Decided(op, result, row, room)
  <2>1. /\ DOMAIN done = TxFields
        /\ done.at = tx.at /\ done.until = tx.until /\ done.call = tx.call
        /\ done.fence = tx.fence /\ done.granted = tx.granted /\ done.capacity = room
        /\ done.rows = [tx.rows EXCEPT ![op.platform] = row]
    BY DecidedFields
  <2> QED  BY <1>2, <2>1
<1>3. OneOperation(op) => OpGrant(op) \/ \E result, row, room : tx' = Decided(op, result, row, room)
  BY DEF OneOperation, OpStale, OpBusy, OpQuota, Unchanged, OpRelease, OpExtend
<1> QED  BY <1>1, <1>2, <1>3

-----------------------------------------------------------------------------
LEMMA TimesAtStart == HostedInit => TimesInv
BY LeaseParameters DEF HostedInit, TimesInv, TxTimes, CallsTyped, LicencesTyped

LEMMA TimesUntouched ==
  TimesInv /\ UNCHANGED <<clock, tx, calls, licence>> => TimesInv'
BY DEF TimesInv, TxTimes, CallsTyped, LicencesTyped

LEMMA AgentTypes == Installed \subseteq Agents
BY DEF Installed

-----------------------------------------------------------------------------
(* What the agents do to the server: they only put requests on their way.   *)
LEMMA AgentLeavesServer ==
  ASSUME TimesInv, NEW a \in Agents,
         \/ ControllerNext(a)
         \/ FailSync(a) \/ Suspend(a) \/ Shutdown(a) \/ Restart(a)
         \/ \E l \in Locals : RemoveAccount(a, l) \/ \E p \in Platforms : AddAccount(a, l, p)
  PROVE  ServerKept /\ CallsTyped'
<1>1. CASE SendSync(a)
  <2> DEFINE call == [agent |-> a, boot |-> boot[a], seq |-> seq'[a], ops |-> ops'[a],
                      sent |-> clock]
  <2>1. ServerKept /\ \E c : /\ c.agent = a /\ c.sent = clock /\ calls' = calls \cup {c}
    BY <1>1 DEF SendSync
  <2> QED  BY <2>1 DEF TimesInv, CallsTyped
<1>2. ASSUME EndController(a)  PROVE ServerKept /\ CallsTyped'
  <2>1. /\ ServerKept
        /\ calls' = calls \/ \E c : /\ c.agent = a /\ c.sent = clock /\ calls' = calls \cup {c}
    BY <1>2 DEF EndController
  <2> QED  BY <2>1 DEF TimesInv, CallsTyped
<1>3. ASSUME \/ ApplyBatch(a) \/ Resume(a) \/ PassDeadline(a) \/ FailSync(a) \/ Suspend(a)
             \/ Restart(a)
             \/ \E l \in Locals : RemoveAccount(a, l) \/ \E p \in Platforms : AddAccount(a, l, p)
      PROVE  ServerKept /\ UNCHANGED calls
  BY <1>3 DEF ApplyBatch, Resume, PassDeadline, FailSync, Suspend, Restart, RemoveAccount,
              AddAccount, hostedVars
<1>4. UNCHANGED calls => CallsTyped'
  BY DEF TimesInv, CallsTyped
<1> QED  BY <1>1, <1>2, <1>3, <1>4 DEF ControllerNext, RefuseGrant, Shutdown

LEMMA HandlerTimeTyped ==
  ASSUME TimesInv, NEW call \in calls, NEW at \in HandlerTimes(call)
  PROVE  at \in Int /\ at <= clock
BY DEF TimesInv, CallsTyped, HandlerTimes

LEMMA TimesBegin ==
  ASSUME TimesInv, NEW call \in calls, NEW at \in HandlerTimes(call), BeginSync(call, at)
  PROVE  TimesInv'
<1>1. at \in Int /\ at <= clock  BY HandlerTimeTyped
<1>2. call.agent \in Agents /\ licence[call.agent].usable /\ licence[call.agent].until > at
  BY DEF TimesInv, CallsTyped, BeginSync, Authorized
<1>3. licence[call.agent].until \in Int  BY <1>2 DEF TimesInv, LicencesTyped
<1>4. /\ DOMAIN tx' = TxFields /\ tx'.at = at /\ tx'.call = call
      /\ tx'.until = Earlier(at + TTL, licence[call.agent].until)
      /\ UNCHANGED <<clock, licence>> /\ calls' \subseteq calls
  BY DEF BeginSync, TxFields
<1>5. tx'.until \in Int /\ at < tx'.until /\ tx'.until <= at + TTL
  BY <1>1, <1>2, <1>3, <1>4, LeaseParameters DEF Earlier
<1> QED  BY <1>1, <1>2, <1>4, <1>5 DEF TimesInv, TxTimes, CallsTyped, LicencesTyped

LEMMA TimesHandler ==
  ASSUME TimesInv, LeaseServerNext
  PROVE  TimesInv'
<1>1. ASSUME NEW call \in calls, NEW at \in HandlerTimes(call),
             \/ RefuseUnauthorized(call, at) \/ ReplayStored(call, at) \/ RefuseConflict(call, at)
      PROVE  TimesInv'
  <2>1. UNCHANGED <<clock, tx, licence>> /\ calls' \subseteq calls
    BY <1>1 DEF RefuseUnauthorized, ReplayStored, RefuseConflict
  <2> QED  BY <2>1 DEF TimesInv, TxTimes, CallsTyped, LicencesTyped
<1>2. ASSUME NEW call \in calls, NEW at \in HandlerTimes(call), BeginSync(call, at)
      PROVE  TimesInv'
  BY <1>2, TimesBegin
<1>3. ASSUME tx # NoTx, NEW op \in tx.todo, OneOperation(op)
      PROVE  TimesInv'
  <2>1. DOMAIN tx = TxFields  BY <1>3 DEF TimesInv, TxTimes
  <2>2. /\ DOMAIN tx' = TxFields
        /\ tx'.at = tx.at /\ tx'.until = tx.until /\ tx'.call = tx.call
    BY <1>3, <2>1, OperationKeepsTimes
  <2>3. UNCHANGED <<clock, licence, calls>>  BY <1>3 DEF OneOperation
  <2> QED  BY <1>3, <2>2, <2>3 DEF TimesInv, TxTimes, CallsTyped, LicencesTyped
<1>4. CASE CommitSync \/ SaveKey
  <2>1. UNCHANGED <<clock, licence, calls>> /\ (tx' = tx \/ tx' = NoTx)
    BY <1>4 DEF CommitSync, SaveKey
  <2> QED  BY <2>1 DEF TimesInv, TxTimes, CallsTyped, LicencesTyped
<1> QED  BY <1>1, <1>2, <1>3, <1>4 DEF LeaseServerNext

LEMMA TimesLicence ==
  ASSUME TimesInv, NEW a \in Agents, RenewLicence(a) \/ RevokeLicence(a)
  PROVE  TimesInv'
<1>1. UNCHANGED <<clock, tx, calls>> /\ tx = NoTx
  BY DEF RenewLicence, RevokeLicence
<1>2. LicencesTyped'
  <2> DEFINE renewed == [licence[a] EXCEPT !.until = clock + LicenceTerm]
             revoked == [licence[a] EXCEPT !.usable = FALSE, !.revoked = clock]
  <2>1. \/ licence' = [licence EXCEPT ![a] = renewed]
        \/ licence' = [licence EXCEPT ![a] = revoked]
    BY DEF RenewLicence, RevokeLicence, TimesInv, LicencesTyped
  <2>2. clock \in Int /\ clock + LicenceTerm \in Int /\ DOMAIN licence[a] = {"usable", "until", "revoked"}
        /\ licence[a].until \in Int /\ licence[a].revoked \in Int
    BY LeaseParameters DEF TimesInv, LicencesTyped
  <2>3. /\ DOMAIN renewed = {"usable", "until", "revoked"}
        /\ renewed.until \in Int /\ renewed.revoked \in Int
    BY <2>2
  <2>4. /\ DOMAIN revoked = {"usable", "until", "revoked"}
        /\ revoked.until \in Int /\ revoked.revoked \in Int
    BY <2>2
  <2> HIDE DEF renewed, revoked
  <2> QED  BY <2>1, <2>3, <2>4 DEF TimesInv, LicencesTyped
<1> QED  BY <1>1, <1>2 DEF TimesInv, TxTimes, CallsTyped

LEMMA TimesPreserved == TimesInv /\ [HostedNext]_<<leaseVars, hostedVars, disturbances>> => TimesInv'
<1>1. SUFFICES ASSUME TimesInv, [HostedNext]_<<leaseVars, hostedVars, disturbances>>
               PROVE  TimesInv'
  OBVIOUS
<1>2. CASE LeaseServerNext
  BY <1>1, <1>2, TimesHandler
<1>3. CASE LeaseTick
  BY <1>1, <1>3 DEF LeaseTick, TimesInv, TxTimes, CallsTyped, LicencesTyped
<1>4. ASSUME NEW a \in Agents,
             \/ ControllerNext(a)
             \/ FailSync(a) \/ Suspend(a) \/ Shutdown(a) \/ Restart(a)
             \/ \E l \in Locals : RemoveAccount(a, l) \/ \E p \in Platforms : AddAccount(a, l, p)
      PROVE  TimesInv'
  <2>1. ServerKept /\ CallsTyped'  BY <1>1, <1>4, AgentLeavesServer
  <2> QED  BY <1>1, <2>1 DEF ServerKept, TimesInv, TxTimes, LicencesTyped
<1>5. ASSUME NEW a \in Agents, RenewLicence(a) \/ RevokeLicence(a)
      PROVE  TimesInv'
  BY <1>1, <1>5, TimesLicence
<1>6. CASE RollbackSync \/ LoadKey
  <2>1. UNCHANGED <<clock, licence, calls>> /\ (tx' = tx \/ tx' = NoTx)
    BY <1>6 DEF RollbackSync, LoadKey
  <2> QED  BY <1>1, <2>1 DEF TimesInv, TxTimes, CallsTyped, LicencesTyped
<1>7. CASE UNCHANGED <<leaseVars, hostedVars, disturbances>>
  BY <1>1, <1>7, TimesUntouched DEF leaseVars
<1> QED
  BY <1>1, <1>2, <1>3, <1>4, <1>5, <1>6, <1>7, AgentTypes DEF HostedNext, Disturbance

-----------------------------------------------------------------------------
(* Epochs.  While no stale copy of the key has put the counter back, what   *)
(* was granted lies at or below it, and what a transaction has granted lies *)
(* between it and the transaction's own counter.                            *)
CounterTyped == fence \in Nat /\ (keyCopy # NoCopy => keyCopy \in Nat)

GrantsBelowFence ==
  ~lowered => (\A g \in grants : g.epoch \in Nat /\ g.epoch <= fence) /\ EpochGrantedOnce

TxGrantsAbove ==
  tx # NoTx =>
    /\ tx.fence \in Nat /\ fence <= tx.fence
    /\ \A g \in tx.granted : g.epoch \in Nat /\ fence < g.epoch /\ g.epoch <= tx.fence
    /\ \A g, h \in tx.granted : g.epoch = h.epoch => g = h

EpochInv == CounterTyped /\ GrantsBelowFence /\ TxGrantsAbove

LEMMA EpochsAtStart == HostedInit => EpochInv
BY DEF HostedInit, EpochInv, CounterTyped, GrantsBelowFence, TxGrantsAbove, EpochGrantedOnce

LEMMA EpochsUntouched ==
  ASSUME EpochInv, UNCHANGED <<fence, keyCopy, grants, lowered>>, tx' = tx \/ tx' = NoTx
  PROVE  EpochInv'
BY DEF EpochInv, CounterTyped, GrantsBelowFence, TxGrantsAbove, EpochGrantedOnce

LEMMA EpochsBegin ==
  ASSUME EpochInv, NEW call, NEW at, BeginSync(call, at)
  PROVE  EpochInv'
<1>1. tx'.fence = fence /\ tx'.granted = {} /\ UNCHANGED <<fence, keyCopy, grants, lowered>>
  BY DEF BeginSync
<1> QED
  BY <1>1 DEF EpochInv, CounterTyped, GrantsBelowFence, TxGrantsAbove, EpochGrantedOnce

LEMMA EpochsOperation ==
  ASSUME TimesInv, EpochInv, tx # NoTx, NEW op, OneOperation(op)
  PROVE  EpochInv'
<1>1. DOMAIN tx = TxFields /\ UNCHANGED <<fence, keyCopy, grants, lowered>>
  BY DEF TimesInv, TxTimes, OneOperation
<1>2. CASE OpGrant(op)
  <2>1. /\ tx'.fence = tx.fence + 1
        /\ \E g : g.epoch = tx.fence + 1 /\ tx'.granted = tx.granted \cup {g}
    BY <1>1, <1>2, GrantingFields DEF OpGrant, Granting
  <2>2. PICK g : g.epoch = tx.fence + 1 /\ tx'.granted = tx.granted \cup {g}
    BY <2>1
  <2>3. TxGrantsAbove'
    BY <1>1, <2>1, <2>2 DEF EpochInv, CounterTyped, TxGrantsAbove
  <2> QED  BY <1>1, <2>3 DEF EpochInv, CounterTyped, GrantsBelowFence, EpochGrantedOnce
<1>3. ASSUME NEW result, NEW row, NEW room, tx' = Decided(op, result, row, room)
      PROVE  EpochInv'
  <2> DEFINE done == Decided(op, result, row, room)
  <2>1. /\ DOMAIN done = TxFields
        /\ done.at = tx.at /\ done.until = tx.until /\ done.call = tx.call
        /\ done.fence = tx.fence /\ done.granted = tx.granted /\ done.capacity = room
        /\ done.rows = [tx.rows EXCEPT ![op.platform] = row]
    BY <1>1, DecidedFields
  <2>2. tx'.fence = tx.fence /\ tx'.granted = tx.granted  BY <1>3, <2>1
  <2>3. TxGrantsAbove'
    BY <1>1, <2>2 DEF EpochInv, TxGrantsAbove
  <2> QED  BY <1>1, <2>3 DEF EpochInv, CounterTyped, GrantsBelowFence, EpochGrantedOnce
<1>4. OpGrant(op) \/ \E result, row, room : tx' = Decided(op, result, row, room)
  BY DEF OneOperation, OpStale, OpBusy, OpQuota, Unchanged, OpRelease, OpExtend
<1> QED  BY <1>2, <1>3, <1>4

LEMMA EpochsCommit ==
  ASSUME EpochInv, CommitSync
  PROVE  EpochInv'
<1>1. /\ tx # NoTx /\ tx' = NoTx /\ fence' = tx.fence /\ grants' = grants \cup tx.granted
      /\ UNCHANGED <<keyCopy, lowered>>
  BY DEF CommitSync, FenceAfter
<1>2. CounterTyped' /\ TxGrantsAbove'
  BY <1>1 DEF EpochInv, CounterTyped, TxGrantsAbove
<1>3. GrantsBelowFence'
  <2> SUFFICES ASSUME ~lowered'
               PROVE  /\ \A g \in grants' : g.epoch \in Nat /\ g.epoch <= fence'
                      /\ \A g, h \in grants' : g.epoch = h.epoch => g = h
    BY DEF GrantsBelowFence, EpochGrantedOnce
  <2>1. /\ \A g \in grants : g.epoch \in Nat /\ g.epoch <= fence
        /\ \A g, h \in grants : g.epoch = h.epoch => g = h
    BY <1>1 DEF EpochInv, GrantsBelowFence, EpochGrantedOnce
  <2>2. /\ fence \in Nat /\ tx.fence \in Nat /\ fence <= tx.fence
        /\ \A g \in tx.granted : g.epoch \in Nat /\ fence < g.epoch /\ g.epoch <= tx.fence
        /\ \A g, h \in tx.granted : g.epoch = h.epoch => g = h
    BY <1>1 DEF EpochInv, CounterTyped, TxGrantsAbove
  <2>3. \A g \in grants : \A h \in tx.granted : g.epoch # h.epoch
    BY <2>1, <2>2
  <2> QED  BY <1>1, <2>1, <2>2, <2>3
<1> QED  BY <1>2, <1>3 DEF EpochInv

LEMMA EpochsSave ==
  ASSUME EpochInv, SaveKey
  PROVE  EpochInv'
<1>1. /\ tx = NoTx /\ keyCopy # NoCopy /\ fence' = keyCopy /\ keyCopy' = NoCopy
      /\ UNCHANGED <<grants, tx>>
      /\ (lowered' <=> (lowered \/ keyCopy < fence))
  BY DEF SaveKey
<1>2. CounterTyped' /\ TxGrantsAbove'
  BY <1>1 DEF EpochInv, CounterTyped, TxGrantsAbove
<1>3. GrantsBelowFence'
  BY <1>1 DEF EpochInv, CounterTyped, GrantsBelowFence, EpochGrantedOnce
<1> QED  BY <1>2, <1>3 DEF EpochInv

LEMMA EpochsPreserved ==
  TimesInv /\ EpochInv /\ [HostedNext]_<<leaseVars, hostedVars, disturbances>> => EpochInv'
<1>1. SUFFICES ASSUME TimesInv, EpochInv, [HostedNext]_<<leaseVars, hostedVars, disturbances>>
               PROVE  EpochInv'
  OBVIOUS
<1>2. ASSUME NEW call, NEW at,
             \/ RefuseUnauthorized(call, at) \/ ReplayStored(call, at) \/ RefuseConflict(call, at)
      PROVE  EpochInv'
  BY <1>1, <1>2, EpochsUntouched DEF RefuseUnauthorized, ReplayStored, RefuseConflict
<1>3. ASSUME NEW call, NEW at, BeginSync(call, at)  PROVE EpochInv'
  BY <1>1, <1>3, EpochsBegin
<1>4. ASSUME tx # NoTx, NEW op, OneOperation(op)  PROVE EpochInv'
  BY <1>1, <1>4, EpochsOperation
<1>5. CASE LeaseServerNext
  BY <1>1, <1>2, <1>3, <1>4, <1>5, EpochsCommit, EpochsSave DEF LeaseServerNext
<1>6. CASE LeaseTick \/ RollbackSync \/ \E a \in Agents : RenewLicence(a) \/ RevokeLicence(a)
  BY <1>1, <1>6, EpochsUntouched DEF LeaseTick, RollbackSync, RenewLicence, RevokeLicence
<1>7. CASE LoadKey
  <2>1. keyCopy' = fence /\ UNCHANGED <<fence, grants, lowered, tx>>  BY <1>7 DEF LoadKey
  <2> QED
    BY <1>1, <2>1 DEF EpochInv, CounterTyped, GrantsBelowFence, TxGrantsAbove, EpochGrantedOnce
<1>8. ASSUME NEW a \in Agents,
             \/ ControllerNext(a)
             \/ FailSync(a) \/ Suspend(a) \/ Shutdown(a) \/ Restart(a)
             \/ \E l \in Locals : RemoveAccount(a, l) \/ \E p \in Platforms : AddAccount(a, l, p)
      PROVE  EpochInv'
  <2>1. ServerKept  BY <1>1, <1>8, AgentLeavesServer
  <2> QED  BY <1>1, <2>1, EpochsUntouched DEF ServerKept
<1>9. CASE UNCHANGED <<leaseVars, hostedVars, disturbances>>
  BY <1>1, <1>9, EpochsUntouched DEF leaseVars
<1> QED
  BY <1>1, <1>5, <1>6, <1>7, <1>8, <1>9, AgentTypes DEF HostedNext, Disturbance

(* An epoch is handed out once per key, however many agents sync, retry and *)
(* restart and whichever rows are pruned: the counter of the key only grows *)
(* unless a handler saves a key it loaded before a sync.                    *)
THEOREM EpochOnceTheorem == HostedSpec => []EpochGrantedOnce
<1>1. EpochInv => EpochGrantedOnce
  BY DEF EpochInv, GrantsBelowFence, EpochGrantedOnce
<1> QED
  BY <1>1, TimesAtStart, TimesPreserved, EpochsAtStart, EpochsPreserved, PTL DEF HostedSpec

-----------------------------------------------------------------------------
(* Terms.  No row lasts longer than one TTL from now, and no row of a       *)
(* revoked activation longer than one TTL from its revocation.              *)
TimedRow(row) ==
  /\ DOMAIN row = RowFields /\ row.agent \in Agents
  /\ row.until \in Int /\ row.until <= clock + TTL
  /\ ~licence[row.agent].usable => row.until <= licence[row.agent].revoked + TTL

RowsTimed(table) ==
  /\ table = [p \in Platforms |-> table[p]]
  /\ \A p \in Platforms : table[p] # NoRow => TimedRow(table[p])

TermsInv == RowsTimed(rows) /\ (tx # NoTx => RowsTimed(tx.rows))

LEMMA TermsAtStart == HostedInit => TermsInv
BY DEF HostedInit, TermsInv, RowsTimed

LEMMA TermsUntouched ==
  ASSUME TermsInv, UNCHANGED <<clock, rows, licence>>, tx' = tx \/ tx' = NoTx
  PROVE  TermsInv'
BY DEF TermsInv, RowsTimed, TimedRow

(* What an operation writes into the row of its platform.                   *)
LEMMA OperationRow ==
  ASSUME TimesInv, TermsInv, tx # NoTx, NEW op, OneOperation(op)
  PROVE  \/ tx'.rows = tx.rows
         \/ \E row : /\ tx'.rows = [tx.rows EXCEPT ![op.platform] = row]
                     /\ op.platform \in Platforms => row = tx.rows[op.platform] \/ TimedRow(row)
<1> DEFINE old == tx.rows[op.platform]
<1>1. /\ DOMAIN tx = TxFields /\ tx.at \in Int /\ tx.at <= clock /\ clock \in Nat
      /\ tx.until \in Int /\ tx.until <= tx.at + TTL /\ tx.at < tx.until
      /\ tx.call.agent \in Agents /\ licence[tx.call.agent].usable
      /\ TTL \in Nat
  BY LeaseParameters DEF TimesInv, TxTimes
<1>2. ASSUME NEW result, NEW row, NEW room, tx' = Decided(op, result, row, room)
      PROVE  tx'.rows = [tx.rows EXCEPT ![op.platform] = row]
  <2> DEFINE done == Decided(op, result, row, room)
  <2>1. /\ DOMAIN done = TxFields
        /\ done.at = tx.at /\ done.until = tx.until /\ done.call = tx.call
        /\ done.fence = tx.fence /\ done.granted = tx.granted /\ done.capacity = room
        /\ done.rows = [tx.rows EXCEPT ![op.platform] = row]
    BY <1>1, DecidedFields
  <2> QED  BY <1>2, <2>1
<1>3. CASE OpStale(op) \/ OpBusy(op) \/ OpQuota(op)
  <2>1. \E result : tx' = Decided(op, result, old, tx.capacity)
    BY <1>3 DEF OpStale, OpBusy, OpQuota, Unchanged
  <2>2. tx'.rows = [tx.rows EXCEPT ![op.platform] = old]
    BY <1>2, <2>1
  <2> QED  BY <2>2
<1>4. op.platform \in Platforms /\ Holds(op) => DOMAIN old = RowFields /\ old.agent = tx.call.agent
  BY <1>1 DEF TermsInv, RowsTimed, TimedRow, Holds, LiveAt, OwnedBy
<1>5. ASSUME NEW row, tx'.rows = [tx.rows EXCEPT ![op.platform] = row],
             op.platform \in Platforms =>
               /\ DOMAIN row = RowFields /\ row.agent = tx.call.agent
               /\ row.until \in {tx.at, tx.until}
      PROVE  \E r : /\ tx'.rows = [tx.rows EXCEPT ![op.platform] = r]
                    /\ op.platform \in Platforms => r = tx.rows[op.platform] \/ TimedRow(r)
  <2>1. op.platform \in Platforms => TimedRow(row)
    <3> SUFFICES ASSUME op.platform \in Platforms PROVE TimedRow(row)
      OBVIOUS
    <3>1. /\ DOMAIN row = RowFields /\ row.agent = tx.call.agent
          /\ row.until \in {tx.at, tx.until}
      BY <1>5
    <3>2. row.until \in Int /\ row.until <= clock + TTL
      BY <1>1, <3>1
    <3> QED  BY <1>1, <3>1, <3>2 DEF TimedRow
  <2> QED  BY <1>5, <2>1
<1>6. CASE OpRelease(op)
  <2> DEFINE row == [old EXCEPT !.released = TRUE, !.until = tx.at]
  <2>1. tx'.rows = [tx.rows EXCEPT ![op.platform] = row] /\ Holds(op)
    BY <1>2, <1>6 DEF OpRelease, Matches
  <2>2. DOMAIN old = RowFields => DOMAIN row = RowFields /\ row.agent = old.agent
                                  /\ row.until = tx.at
    BY DEF RowFields
  <2> HIDE DEF row, old
  <2> QED  BY <1>4, <1>5, <2>1, <2>2
<1>7. CASE OpExtend(op)
  <2> DEFINE row == [old EXCEPT !.until = tx.until]
  <2>1. tx'.rows = [tx.rows EXCEPT ![op.platform] = row] /\ Holds(op)
    BY <1>2, <1>7 DEF OpExtend, Matches
  <2>2. DOMAIN old = RowFields => DOMAIN row = RowFields /\ row.agent = old.agent
                                  /\ row.until = tx.until
    BY DEF RowFields
  <2> HIDE DEF row, old
  <2> QED  BY <1>4, <1>5, <2>1, <2>2
<1>8. CASE OpGrant(op)
  <2>1. tx'.rows = [tx.rows EXCEPT ![op.platform] = NewRow(op)]
    BY <1>1, <1>8, GrantingFields DEF OpGrant, Granting
  <2>2. DOMAIN NewRow(op) = RowFields /\ NewRow(op).agent = tx.call.agent
        /\ NewRow(op).until = tx.until
    BY DEF NewRow, RowFields
  <2> QED  BY <1>5, <2>1, <2>2
<1> QED  BY <1>3, <1>6, <1>7, <1>8 DEF OneOperation

LEMMA TermsOperation ==
  ASSUME TimesInv, TermsInv, tx # NoTx, NEW op, OneOperation(op)
  PROVE  TermsInv'
<1>1. UNCHANGED <<clock, rows, licence>>  BY DEF OneOperation
<1>2. RowsTimed(tx.rows)  BY DEF TermsInv
<1>3. CASE tx'.rows = tx.rows
  BY <1>1, <1>2, <1>3 DEF TermsInv, RowsTimed, TimedRow
<1>4. ASSUME NEW row, tx'.rows = [tx.rows EXCEPT ![op.platform] = row],
             op.platform \in Platforms => row = tx.rows[op.platform] \/ TimedRow(row)
      PROVE  TermsInv'
  <2>1. /\ tx'.rows = [p \in Platforms |-> tx'.rows[p]]
        /\ \A p \in Platforms : tx'.rows[p] = tx.rows[p] \/ TimedRow(tx'.rows[p])
    BY <1>2, <1>4 DEF RowsTimed
  <2> QED  BY <1>1, <1>2, <2>1 DEF TermsInv, RowsTimed, TimedRow
<1> QED  BY <1>3, <1>4, OperationRow

LEMMA TermsBegin ==
  ASSUME TimesInv, TermsInv, NEW call \in calls, NEW at \in HandlerTimes(call), BeginSync(call, at)
  PROVE  TermsInv'
<1>1. UNCHANGED <<clock, rows, licence>> /\ tx'.rows = PrunedRows(at)
  BY DEF BeginSync
<1>2. /\ PrunedRows(at) = [p \in Platforms |-> PrunedRows(at)[p]]
      /\ \A p \in Platforms : PrunedRows(at)[p] = rows[p] \/ PrunedRows(at)[p] = NoRow
  BY DEF PrunedRows
<1>3. RowsTimed(rows)'  BY <1>1 DEF TermsInv, RowsTimed, TimedRow
<1>4. RowsTimed(tx.rows)'  BY <1>1, <1>2 DEF TermsInv, RowsTimed, TimedRow
<1> QED  BY <1>3, <1>4 DEF TermsInv

LEMMA TermsLicence ==
  ASSUME TimesInv, TermsInv, NEW a \in Agents, RenewLicence(a) \/ RevokeLicence(a)
  PROVE  TermsInv'
<1>1. UNCHANGED <<clock, rows, tx>> /\ tx = NoTx
  BY DEF RenewLicence, RevokeLicence
<1>2. ASSUME NEW p \in Platforms, rows[p] # NoRow  PROVE TimedRow(rows[p])'
  <2> DEFINE b == rows[p].agent
  <2>1. TimedRow(rows[p]) /\ b \in Agents  BY <1>2 DEF TermsInv, RowsTimed, TimedRow
  <2>2. CASE b # a
    <3>1. licence'[b] = licence[b]
      BY <2>1, <2>2 DEF RenewLicence, RevokeLicence, TimesInv, LicencesTyped
    <3> QED  BY <1>1, <2>1, <3>1 DEF TimedRow
  <2>3. CASE b = a /\ RenewLicence(a)
    <3>1. licence[a].usable /\ licence' = [licence EXCEPT ![a].until = clock + LicenceTerm]
      BY <2>3 DEF RenewLicence
    <3>2. licence'[a].usable
      BY <3>1 DEF TimesInv, LicencesTyped
    <3> QED  BY <1>1, <2>1, <2>3, <3>2 DEF TimedRow
  <2>4. CASE b = a /\ RevokeLicence(a)
    <3>1. licence' = [licence EXCEPT ![a].usable = FALSE, ![a].revoked = clock]
      BY <2>4 DEF RevokeLicence
    <3>2. licence'[a].revoked = clock
      BY <3>1 DEF TimesInv, LicencesTyped
    <3> QED  BY <1>1, <2>1, <2>4, <3>2 DEF TimedRow
  <2> QED  BY <2>2, <2>3, <2>4
<1> QED  BY <1>1, <1>2 DEF TermsInv, RowsTimed

LEMMA TermsPreserved ==
  TimesInv /\ TermsInv /\ [HostedNext]_<<leaseVars, hostedVars, disturbances>> => TermsInv'
<1>1. SUFFICES ASSUME TimesInv, TermsInv, [HostedNext]_<<leaseVars, hostedVars, disturbances>>
               PROVE  TermsInv'
  OBVIOUS
<1>2. ASSUME NEW call \in calls, NEW at \in HandlerTimes(call),
             \/ RefuseUnauthorized(call, at) \/ ReplayStored(call, at) \/ RefuseConflict(call, at)
      PROVE  TermsInv'
  BY <1>1, <1>2, TermsUntouched DEF RefuseUnauthorized, ReplayStored, RefuseConflict
<1>3. ASSUME NEW call \in calls, NEW at \in HandlerTimes(call), BeginSync(call, at)
      PROVE  TermsInv'
  BY <1>1, <1>3, TermsBegin
<1>4. ASSUME tx # NoTx, NEW op, OneOperation(op)  PROVE TermsInv'
  BY <1>1, <1>4, TermsOperation
<1>5. CASE CommitSync
  BY <1>1, <1>5 DEF CommitSync, TermsInv, RowsTimed, TimedRow
<1>6. CASE SaveKey
  BY <1>1, <1>6, TermsUntouched DEF SaveKey
<1>7. CASE LeaseServerNext
  BY <1>2, <1>3, <1>4, <1>5, <1>6, <1>7 DEF LeaseServerNext
<1>8. CASE LeaseTick
  <2>1. clock' = clock + 1 /\ clock \in Nat /\ TTL \in Nat /\ UNCHANGED <<rows, licence, tx>>
    BY <1>1, <1>8, LeaseParameters DEF LeaseTick, TimesInv
  <2>2. ASSUME NEW row, TimedRow(row)  PROVE TimedRow(row)'
    BY <2>1, <2>2 DEF TimedRow
  <2> QED  BY <1>1, <2>1, <2>2 DEF TermsInv, RowsTimed
<1>9. CASE RollbackSync \/ LoadKey
  BY <1>1, <1>9, TermsUntouched DEF RollbackSync, LoadKey
<1>10. ASSUME NEW a \in Agents, RenewLicence(a) \/ RevokeLicence(a)  PROVE TermsInv'
  BY <1>1, <1>10, TermsLicence
<1>11. ASSUME NEW a \in Agents,
              \/ ControllerNext(a)
              \/ FailSync(a) \/ Suspend(a) \/ Shutdown(a) \/ Restart(a)
              \/ \E l \in Locals : RemoveAccount(a, l) \/ \E p \in Platforms : AddAccount(a, l, p)
       PROVE  TermsInv'
  <2>1. ServerKept  BY <1>1, <1>11, AgentLeavesServer
  <2> QED  BY <1>1, <2>1, TermsUntouched DEF ServerKept
<1>12. CASE UNCHANGED <<leaseVars, hostedVars, disturbances>>
  BY <1>1, <1>12, TermsUntouched DEF leaseVars
<1> QED
  BY <1>1, <1>7, <1>8, <1>9, <1>10, <1>11, <1>12, AgentTypes DEF HostedNext, Disturbance

(* When an activation is revoked, every lease it holds ends within one TTL: *)
(* _authorize admits no sync afterwards, and a sync under way holds the key *)
(* row's lock against the revocation.                                       *)
THEOREM RevocationTheorem == HostedSpec => []RevokedLeasesExpire
<1>1. TermsInv => RevokedLeasesExpire
  BY DEF TermsInv, RowsTimed, TimedRow, RevokedLeasesExpire
<1> QED
  BY <1>1, TimesAtStart, TimesPreserved, TermsAtStart, TermsPreserved, PTL DEF HostedSpec

-----------------------------------------------------------------------------

allVars == <<leaseVars, hostedVars, disturbances>>

(* Requests.  A body names each local account once, so that no operation of *)
(* a batch undoes another.                                                  *)
OneOpPerLocal(body) ==
  /\ \A op \in body : op.platform \in Platforms /\ op.local \in Locals
  /\ \A op, other \in body : op.local = other.local => op = other

NoRelease(body, l) == \A op \in body : op.local = l => op.action # "release"

(* The results of a batch: one for each operation, owned only if asked for. *)
Answers(results, body) ==
  /\ \A op \in body : \E r \in results : r.local = op.local
  /\ \A r \in results : \E op \in body :
       /\ op.local = r.local /\ op.platform = r.platform
       /\ r.status = "owned" => op.action # "release"

RowServes(row, a, b, l, e, until) ==
  /\ row # NoRow /\ ~row.released /\ row.until >= until
  /\ row.agent = a /\ row.boot = b /\ row.local = l /\ row.epoch = e

Serves(table, a, b, l, p, e, until) ==
  p \in Platforms /\ RowServes(table[p], a, b, l, e, until)

ServesAll(table, a, b, results, until) ==
  \A r \in results : r.status = "owned"
    => Serves(table, a, b, r.local, r.platform, r.epoch, until)

-----------------------------------------------------------------------------
(* The operations of a batch.                                               *)
LEMMA DecidedBatch ==
  ASSUME NEW op, NEW result, NEW row, NEW room, DOMAIN tx = TxFields
  PROVE  LET done == Decided(op, result, row, room)
         IN  /\ done.todo = tx.todo \ {op} /\ done.results = tx.results \cup {result}
             /\ done.syncs = tx.syncs
BY DEF Decided, TxFields

LEMMA GrantingBatch ==
  ASSUME NEW op, DOMAIN tx = TxFields
  PROVE  LET done == Granting(op)
         IN  /\ done.todo = tx.todo \ {op}
             /\ done.results = tx.results \cup {Result(op, "owned", tx.fence + 1)}
             /\ done.syncs = tx.syncs
<1> DEFINE result == Result(op, "owned", tx.fence + 1)
           d == Decided(op, result, NewRow(op), tx.capacity - 1)
           g == [epoch |-> tx.fence + 1, platform |-> op.platform,
                 agent |-> tx.call.agent, boot |-> tx.call.boot]
<1>1. /\ d.todo = tx.todo \ {op} /\ d.results = tx.results \cup {result}
      /\ d.syncs = tx.syncs
  BY DecidedBatch
<1>2. DOMAIN d = TxFields
  BY DecidedFields
<1> HIDE DEF d, g
<1>3. Granting(op) = [d EXCEPT !.fence = @ + 1, !.granted = @ \cup {g},
                               !.slots = IF tx.rows[op.platform] = NoRow THEN @ - 1 ELSE @]
  BY DEF Granting, d, g
<1>4. LET done == Granting(op)
      IN  done.todo = d.todo /\ done.results = d.results /\ done.syncs = d.syncs
  BY <1>2, <1>3 DEF TxFields
<1> QED  BY <1>1, <1>4

(* The account whose lease this operation is about.                         *)
Mine(op, a, b, l) == a = tx.call.agent /\ b = tx.call.boot /\ l = op.local

(* An operation spoils no lease but those it was asked to release.          *)
SparesOthers(op, old, row) ==
  \A a, b, l, e : \A until \in Int :
    /\ RowServes(old, a, b, l, e, until) /\ tx.at < until
    /\ Mine(op, a, b, l) => op.action # "release" /\ until <= tx.until
    => RowServes(row, a, b, l, e, until)

GrantsOnlyAsked(op, result, row) ==
  /\ result.local = op.local /\ result.platform = op.platform
  /\ result.status = "owned" =>
       /\ op.action # "release"
       /\ RowServes(row, tx.call.agent, tx.call.boot, op.local, result.epoch, tx.until)

DecidedSoundly(op) ==
  /\ tx'.todo = tx.todo \ {op} /\ tx'.syncs = tx.syncs
  /\ \E row, result :
       /\ tx'.rows = [tx.rows EXCEPT ![op.platform] = row]
       /\ tx'.results = tx.results \cup {result}
       /\ GrantsOnlyAsked(op, result, row)
       /\ SparesOthers(op, tx.rows[op.platform], row)

LEMMA OperationEffect ==
  ASSUME TimesInv, TermsInv, tx # NoTx, NEW op, op.platform \in Platforms, OneOperation(op)
  PROVE  DecidedSoundly(op)
<1> DEFINE old == tx.rows[op.platform]
<1>1. /\ DOMAIN tx = TxFields /\ tx.at \in Int /\ tx.until \in Int /\ tx.at < tx.until
      /\ old # NoRow => DOMAIN old = RowFields /\ old.until \in Int
  BY DEF TimesInv, TxTimes, TermsInv, RowsTimed, TimedRow
<1>2. ASSUME NEW result, NEW row, NEW room, tx' = Decided(op, result, row, room),
             GrantsOnlyAsked(op, result, row), SparesOthers(op, old, row)
      PROVE  DecidedSoundly(op)
  <2> DEFINE done == Decided(op, result, row, room)
  <2>1. /\ DOMAIN done = TxFields
        /\ done.at = tx.at /\ done.until = tx.until /\ done.call = tx.call
        /\ done.fence = tx.fence /\ done.granted = tx.granted /\ done.capacity = room
        /\ done.rows = [tx.rows EXCEPT ![op.platform] = row]
    BY <1>1, DecidedFields
  <2>2. /\ done.todo = tx.todo \ {op} /\ done.results = tx.results \cup {result}
        /\ done.syncs = tx.syncs
    BY <1>1, DecidedBatch
  <2>3. /\ tx'.rows = [tx.rows EXCEPT ![op.platform] = row]
        /\ tx'.todo = tx.todo \ {op} /\ tx'.results = tx.results \cup {result}
        /\ tx'.syncs = tx.syncs
    BY <1>2, <2>1, <2>2
  <2> QED  BY <1>2, <2>3 DEF DecidedSoundly
<1>3. ASSUME NEW status, NEW epoch
      PROVE  LET r == Result(op, status, epoch)
             IN  /\ r.local = op.local /\ r.platform = op.platform
                 /\ r.status = status /\ r.epoch = epoch
  BY DEF Result
<1>4. CASE OpStale(op) \/ OpBusy(op) \/ OpQuota(op)
  <2>1. PICK status \in {"stale", "busy", "quota"} :
          tx' = Decided(op, Result(op, status, 0), old, tx.capacity)
    BY <1>4 DEF OpStale, OpBusy, OpQuota, Unchanged
  <2>2. GrantsOnlyAsked(op, Result(op, status, 0), old)
    BY <1>3 DEF GrantsOnlyAsked
  <2>3. SparesOthers(op, old, old)  BY DEF SparesOthers
  <2> QED  BY <1>2, <2>1, <2>2, <2>3
<1>5. Holds(op) => /\ old # NoRow /\ ~old.released /\ old.agent = tx.call.agent
                   /\ old.boot = tx.call.boot /\ old.local = op.local
  BY DEF Holds, LiveAt, OwnedBy
<1>6. CASE OpRelease(op)
  <2> DEFINE row == [old EXCEPT !.released = TRUE, !.until = tx.at]
  <2>1. /\ op.action = "release" /\ Holds(op)
        /\ tx' = Decided(op, Result(op, "released", op.epoch), row, tx.capacity + 1)
    BY <1>6 DEF OpRelease, Matches
  <2>2. GrantsOnlyAsked(op, Result(op, "released", op.epoch), row)
    BY <1>3 DEF GrantsOnlyAsked
  <2>3. SparesOthers(op, old, row)
    BY <1>5, <2>1 DEF SparesOthers, RowServes, Mine
  <2> QED  BY <1>2, <2>1, <2>2, <2>3
<1>7. CASE OpExtend(op)
  <2> DEFINE row == [old EXCEPT !.until = tx.until]
  <2>1. /\ op.action # "release" /\ Holds(op)
        /\ tx' = Decided(op, Result(op, "owned", old.epoch), row, tx.capacity)
    BY <1>7 DEF OpExtend, Matches
  <2>2. /\ DOMAIN old = RowFields
        /\ row # NoRow /\ row.until = tx.until /\ row.released = old.released
        /\ row.agent = old.agent /\ row.boot = old.boot /\ row.local = old.local
        /\ row.epoch = old.epoch
    BY <1>1, <1>5, <2>1 DEF RowFields, NoRow
  <2> HIDE DEF row, old
  <2>3. GrantsOnlyAsked(op, Result(op, "owned", old.epoch), row)
    BY <1>1, <1>3, <1>5, <2>1, <2>2 DEF GrantsOnlyAsked, RowServes
  <2>4. SparesOthers(op, old, row)
    BY <1>1, <1>5, <2>1, <2>2 DEF SparesOthers, RowServes, Mine
  <2> QED  BY <1>2, <2>1, <2>3, <2>4
<1>8. CASE OpGrant(op)
  <2> DEFINE row == NewRow(op)
             result == Result(op, "owned", tx.fence + 1)
  <2>1. op.action = "acquire" /\ ~LiveAt(old, tx.at) /\ tx' = Granting(op)
    BY <1>8 DEF OpGrant, Vacant, Granting
  <2>2. /\ row # NoRow /\ ~row.released /\ row.until = tx.until /\ row.epoch = tx.fence + 1
        /\ row.agent = tx.call.agent /\ row.boot = tx.call.boot /\ row.local = op.local
    BY DEF NewRow, NoRow
  <2>3. /\ tx'.rows = [tx.rows EXCEPT ![op.platform] = row]
        /\ tx'.todo = tx.todo \ {op} /\ tx'.results = tx.results \cup {result}
        /\ tx'.syncs = tx.syncs
    BY <1>1, <2>1, GrantingFields, GrantingBatch
  <2> HIDE DEF row
  <2>4. GrantsOnlyAsked(op, result, row)
    BY <1>1, <1>3, <2>1, <2>2 DEF GrantsOnlyAsked, RowServes
  <2>5. SparesOthers(op, old, row)
    BY <1>1, <2>1 DEF SparesOthers, RowServes, LiveAt
  <2> HIDE DEF result
  <2> QED  BY <2>3, <2>4, <2>5 DEF DecidedSoundly
<1> QED  BY <1>4, <1>6, <1>7, <1>8 DEF OneOperation

-----------------------------------------------------------------------------
(* The agents.  A body asks for what is desired and names every account     *)
(* that is held; an open request is the current one.                        *)
OnAgents(f) == f = [a \in Agents |-> f[a]]

ClientsShaped ==
  /\ settings \in Settings
  /\ OnAgents(boot) /\ OnAgents(seq) /\ OnAgents(ops) /\ OnAgents(desired) /\ OnAgents(held)
  /\ OnAgents(deadline) /\ OnAgents(open) /\ OnAgents(answer)

Asks(body, l) == \E op \in body : op.local = l /\ op.action # "release"

Follows(body, want) ==
  \A op \in body : op.action # "release" => op.platform = want[op.local]

BodyFits(body, want, leases) ==
  /\ OneOpPerLocal(body) /\ Follows(body, want)
  /\ \A l \in Locals : leases[l] # NoLease => Asks(body, l)

ClientOK(a) ==
  /\ boot[a] \in Nat \ {0} /\ (settings.starts[a] > 0 => boot[a] <= settings.starts[a])
  /\ seq[a] \in Nat /\ deadline[a] \in Int
  /\ desired[a] \in [Locals -> Platforms \cup {NoPlatform}]
  /\ held[a] = [l \in Locals |-> held[a][l]]
  /\ BodyFits(ops[a], desired[a], held[a])

OpenCurrent(a) ==
  open[a] # NoCall => /\ open[a].agent = a /\ open[a].boot = boot[a]
                      /\ open[a].seq = seq[a] /\ open[a].ops = ops[a]

(* Requests that a handler may still start on, or works on.                 *)
Pending == calls \cup {c \in {tx.call} : tx # NoTx}

CallOK(call) ==
  /\ call # NoCall /\ call.agent \in Agents
  /\ call.boot \in 1..settings.starts[call.agent] /\ call.boot <= boot[call.agent]
  /\ call.seq \in Nat /\ (call.boot = boot[call.agent] => call.seq <= seq[call.agent])
  /\ call.sent \in Nat /\ call.sent <= clock
  /\ OneOpPerLocal(call.ops)

ClientInv ==
  /\ ClientsShaped
  /\ \A a \in Agents : ClientOK(a) /\ OpenCurrent(a)
  /\ \A call \in Pending : CallOK(call)

LEMMA NextOpsFit ==
  ASSUME NEW want \in [Locals -> Platforms \cup {NoPlatform}], NEW leases,
         \A l \in Locals : leases[l] # NoLease => want[l] # NoPlatform
  PROVE  BodyFits(NextOps(want, leases), want, leases)
<1> DEFINE body == NextOps(want, leases)
<1>1. ASSUME NEW op \in body
      PROVE  /\ op.local \in Locals /\ op.platform = want[op.local]
             /\ op.platform \in Platforms /\ op.action # "release"
  BY DEF NextOps
<1>2. \A op, other \in body : op.local = other.local => op = other
  BY DEF NextOps
<1>3. ASSUME NEW l \in Locals, leases[l] # NoLease  PROVE Asks(body, l)
  <2> DEFINE op == [local |-> l, platform |-> want[l],
                    action |-> IF leases[l] = NoLease THEN "acquire" ELSE "renew",
                    epoch |-> IF leases[l] = NoLease THEN 0 ELSE leases[l]]
  <2>1. op \in body /\ op.local = l /\ op.action # "release"
    BY <1>3 DEF NextOps
  <2> HIDE DEF op, body
  <2> QED  BY <2>1 DEF Asks
<1> QED  BY <1>1, <1>2, <1>3 DEF BodyFits, OneOpPerLocal, Follows

LEMMA ReleasesFit ==
  ASSUME NEW a \in Agents, desired[a] \in [Locals -> Platforms \cup {NoPlatform}], NEW want
  PROVE  BodyFits(Releases(a), want, NothingHeld)
<1>1. ASSUME NEW op \in Releases(a)
      PROVE  op.local \in Locals /\ op.platform \in Platforms /\ op.action = "release"
  BY DEF Releases
<1>2. \A op, other \in Releases(a) : op.local = other.local => op = other
  BY DEF Releases
<1> QED  BY <1>1, <1>2 DEF BodyFits, OneOpPerLocal, Follows, NothingHeld

(* An agent's step changes its own entries only; time stands still, and     *)
(* its start and its sequence only grow.                                    *)
OnlyOf(a) ==
  /\ ClientsShaped' /\ ServerKept /\ settings' = settings
  /\ \A b \in Agents \ {a} :
       /\ boot'[b] = boot[b] /\ seq'[b] = seq[b] /\ ops'[b] = ops[b]
       /\ desired'[b] = desired[b] /\ held'[b] = held[b] /\ deadline'[b] = deadline[b]
       /\ open'[b] = open[b] /\ answer'[b] = answer[b]

LEMMA ClientsUntouched ==
  ASSUME ClientInv, UNCHANGED <<hostedVars, open>>, OnAgents(answer'), clock' \in Int, clock <= clock',
         clock \in Int, Pending' \subseteq Pending
  PROVE  ClientInv'
<1>1. UNCHANGED <<settings, boot, seq, ops, desired, held, deadline, open>>
  BY DEF hostedVars
<1>2. ClientsShaped'
  BY <1>1 DEF ClientInv, ClientsShaped, OnAgents
<1>3. ASSUME NEW a \in Agents  PROVE ClientOK(a)' /\ OpenCurrent(a)'
  BY <1>1 DEF ClientInv, ClientOK, OpenCurrent
<1>4. ASSUME NEW call \in Pending'  PROVE CallOK(call)'
  BY <1>1, <1>4 DEF ClientInv, CallOK
<1> QED  BY <1>2, <1>3, <1>4 DEF ClientInv

LEMMA OthersKept ==
  ASSUME ClientInv, NEW a \in Agents, OnlyOf(a), boot'[a] \in Nat, boot[a] <= boot'[a],
         boot'[a] = boot[a] => seq'[a] \in Nat /\ seq[a] <= seq'[a],
         ClientOK(a)', OpenCurrent(a)',
         \A call \in calls' : call \in calls \/ CallOK(call)'
  PROVE  ClientInv'
<1>1. UNCHANGED <<settings, clock, tx>>  BY DEF OnlyOf, ServerKept
<1>2. ASSUME NEW b \in Agents  PROVE ClientOK(b)' /\ OpenCurrent(b)'
  <2>1. CASE b = a  BY <2>1
  <2>2. CASE b # a
    <3>1. ClientOK(b) /\ OpenCurrent(b)  BY DEF ClientInv
    <3>2. /\ boot'[b] = boot[b] /\ seq'[b] = seq[b] /\ ops'[b] = ops[b]
          /\ desired'[b] = desired[b] /\ held'[b] = held[b] /\ deadline'[b] = deadline[b]
          /\ open'[b] = open[b]
      BY <2>2 DEF OnlyOf
    <3> QED  BY <1>1, <3>1, <3>2 DEF ClientOK, OpenCurrent
  <2> QED  BY <2>1, <2>2
<1>3. ASSUME NEW call \in Pending  PROVE CallOK(call)'
  <2>1. CallOK(call) /\ ClientOK(call.agent) /\ ClientOK(a)  BY DEF ClientInv, CallOK
  <2>2. CASE call.agent = a
    BY <1>1, <2>1, <2>2 DEF CallOK, ClientOK
  <2>3. CASE call.agent # a
    BY <1>1, <2>1, <2>3 DEF CallOK, OnlyOf
  <2> QED  BY <2>2, <2>3
<1>4. ASSUME NEW call \in Pending'  PROVE CallOK(call)'
  BY <1>1, <1>3, <1>4 DEF Pending
<1> QED  BY <1>2, <1>4 DEF ClientInv, OnlyOf

(* The steps of an agent, on itself.                                        *)
AgentKeeps(a) ==
  /\ OnlyOf(a) /\ boot'[a] \in Nat /\ boot[a] <= boot'[a]
  /\ boot'[a] = boot[a] => seq'[a] \in Nat /\ seq[a] <= seq'[a]
  /\ ClientOK(a)' /\ OpenCurrent(a)'
  /\ \A call \in calls' : call \in calls \/ CallOK(call)'

LEMMA KeepsSuffice ==
  ASSUME ClientInv, NEW a \in Agents, AgentKeeps(a)  PROVE ClientInv'
BY OthersKept DEF AgentKeeps

LEMMA DisconnectIsCurrent ==
  ASSUME ClientInv, NEW a \in Agents, Disconnect(a)  PROVE OpenCurrent(a)'
BY DEF ClientInv, ClientsShaped, OnAgents, Disconnect, OpenCurrent

Touches(f, g, a) == g = f \/ \E v : g = [f EXCEPT ![a] = v]

TouchesAll(a) ==
  /\ ServerKept /\ settings' = settings
  /\ Touches(boot, boot', a) /\ Touches(seq, seq', a) /\ Touches(ops, ops', a)
  /\ Touches(desired, desired', a) /\ Touches(held, held', a)
  /\ Touches(deadline, deadline', a) /\ Touches(open, open', a) /\ Touches(answer, answer', a)

LEMMA TouchesOnly ==
  ASSUME ClientsShaped, NEW a \in Agents, TouchesAll(a)  PROVE OnlyOf(a)
<1>1. ASSUME NEW f, NEW g, OnAgents(f), Touches(f, g, a)
      PROVE  OnAgents(g) /\ \A b \in Agents \ {a} : g[b] = f[b]
  BY <1>1 DEF OnAgents, Touches
<1>2. /\ OnAgents(boot') /\ \A b \in Agents \ {a} : boot'[b] = boot[b]
      /\ OnAgents(seq') /\ \A b \in Agents \ {a} : seq'[b] = seq[b]
  BY <1>1 DEF ClientsShaped, TouchesAll
<1>3. /\ OnAgents(ops') /\ \A b \in Agents \ {a} : ops'[b] = ops[b]
      /\ OnAgents(desired') /\ \A b \in Agents \ {a} : desired'[b] = desired[b]
  BY <1>1 DEF ClientsShaped, TouchesAll
<1>4. /\ OnAgents(held') /\ \A b \in Agents \ {a} : held'[b] = held[b]
      /\ OnAgents(deadline') /\ \A b \in Agents \ {a} : deadline'[b] = deadline[b]
  BY <1>1 DEF ClientsShaped, TouchesAll
<1>5. /\ OnAgents(open') /\ \A b \in Agents \ {a} : open'[b] = open[b]
      /\ OnAgents(answer') /\ \A b \in Agents \ {a} : answer'[b] = answer[b]
  BY <1>1 DEF ClientsShaped, TouchesAll
<1>6. ClientsShaped' = (/\ settings' \in Settings
        /\ OnAgents(boot') /\ OnAgents(seq') /\ OnAgents(ops') /\ OnAgents(desired')
        /\ OnAgents(held') /\ OnAgents(deadline') /\ OnAgents(open') /\ OnAgents(answer'))
  BY DEF ClientsShaped, OnAgents
<1> QED  BY <1>2, <1>3, <1>4, <1>5, <1>6 DEF OnlyOf, TouchesAll, ClientsShaped

(* A new identity with a fitting body, at the time at which no connection   *)
(* is open or the last one is given up.                                     *)
LEMMA KeepsNewIdentity ==
  ASSUME ClientInv, NEW a \in Agents, TouchesAll(a), NEW body, NewIdentity(a, body),
         UNCHANGED boot, clock \in Nat, open'[a] = NoCall, deadline'[a] \in Int,
         desired'[a] \in [Locals -> Platforms \cup {NoPlatform}],
         held'[a] = [l \in Locals |-> held'[a][l]],
         BodyFits(body, desired'[a], held'[a]),
         \A call \in calls' : call \in calls \/
           /\ call # NoCall
           /\ call.agent = a /\ call.boot = boot[a] /\ call.boot \in 1..settings.starts[a]
           /\ call.seq = seq'[a] /\ call.sent = clock /\ call.ops = body
  PROVE  AgentKeeps(a)
<1>1. OnlyOf(a)  BY TouchesOnly DEF ClientInv
<1>2. /\ boot[a] \in Nat \ {0} /\ seq[a] \in Nat
      /\ settings.starts[a] > 0 => boot[a] <= settings.starts[a]
  BY DEF ClientInv, ClientOK
<1>3. /\ seq' = [seq EXCEPT ![a] = seq[a] + 1] /\ ops' = [ops EXCEPT ![a] = body]
      /\ OnAgents(seq) /\ OnAgents(ops)
  BY DEF NewIdentity, ClientInv, ClientsShaped
<1>4. seq'[a] = seq[a] + 1 /\ ops'[a] = body
  BY <1>3 DEF OnAgents
<1>5. settings' = settings  BY DEF TouchesAll
<1>6. ClientOK(a)'  BY <1>2, <1>4, <1>5 DEF ClientOK
<1>7. OpenCurrent(a)'  BY DEF OpenCurrent
<1>8. ASSUME NEW call \in calls', call \notin calls  PROVE CallOK(call)'
  <2>1. clock' = clock /\ clock \in Nat  BY DEF TouchesAll, ServerKept
  <2> QED  BY <1>2, <1>4, <1>5, <1>8, <2>1 DEF CallOK, BodyFits
<1> QED  BY <1>1, <1>2, <1>4, <1>6, <1>7, <1>8 DEF AgentKeeps

LEMMA TouchesByAgent ==
  ASSUME NEW a,
         \/ SendSync(a) \/ ApplyBatch(a) \/ EndController(a) \/ Resume(a) \/ PassDeadline(a)
         \/ FailSync(a) \/ Suspend(a) \/ Restart(a)
         \/ \E l \in Locals : RemoveAccount(a, l) \/ \E p \in Platforms : AddAccount(a, l, p)
  PROVE  TouchesAll(a)
<1>1. ASSUME NEW f, NEW v  PROVE Touches(f, f, a) /\ Touches(f, [f EXCEPT ![a] = v], a)
  BY DEF Touches
<1>2. CASE SendSync(a)
  BY <1>1, <1>2 DEF SendSync, NewIdentity, TouchesAll
<1>3. CASE ApplyBatch(a)
  BY <1>1, <1>3 DEF ApplyBatch, NewIdentity, Disconnect, TouchesAll
<1>4. CASE EndController(a)
  BY <1>1, <1>4 DEF EndController, NewIdentity, DropAll, Disconnect, TouchesAll
<1>5. CASE Resume(a)
  BY <1>1, <1>5 DEF Resume, TouchesAll
<1>6. CASE PassDeadline(a)
  BY <1>1, <1>6 DEF PassDeadline, NewIdentity, DropAll, Disconnect, TouchesAll
<1>7. CASE FailSync(a)
  BY <1>1, <1>7 DEF FailSync, Disconnect, TouchesAll, hostedVars
<1>8. CASE Suspend(a)
  BY <1>1, <1>8 DEF Suspend, NewIdentity, DropAll, Disconnect, TouchesAll
<1>9. CASE Restart(a)
  BY <1>1, <1>9 DEF Restart, Disconnect, TouchesAll
<1>10. ASSUME NEW l \in Locals, RemoveAccount(a, l)  PROVE TouchesAll(a)
  BY <1>1, <1>10 DEF RemoveAccount, NewIdentity, TouchesAll
<1>11. ASSUME NEW l \in Locals, NEW p \in Platforms, AddAccount(a, l, p)  PROVE TouchesAll(a)
  BY <1>1, <1>11 DEF AddAccount, NewIdentity, TouchesAll
<1> QED
  BY <1>2, <1>3, <1>4, <1>5, <1>6, <1>7, <1>8, <1>9, <1>10, <1>11

LEMMA NothingHeldFits ==
  NothingHeld = [l \in Locals |-> NothingHeld[l]] /\ \A l \in Locals : NothingHeld[l] = NoLease
BY DEF NothingHeld

LEMMA DropAllFits ==
  ASSUME ClientInv, NEW a \in Agents, DropAll(a)
  PROVE  held'[a] = NothingHeld /\ deadline'[a] = 0
BY DEF ClientInv, ClientsShaped, OnAgents, DropAll

LEMMA DisconnectFits ==
  ASSUME ClientInv, NEW a \in Agents, Disconnect(a)
  PROVE  open'[a] = NoCall /\ answer'[a] = NoAnswer
BY DEF ClientInv, ClientsShaped, OnAgents, Disconnect

LEMMA KeepsEnd ==
  ASSUME ClientInv, clock \in Nat, NEW a \in Installed, EndController(a)  PROVE AgentKeeps(a)
<1>1. a \in Agents /\ settings.starts[a] > 0  BY DEF Installed
<1>2. ClientOK(a) /\ TouchesAll(a) /\ settings \in Settings
  BY <1>1, TouchesByAgent DEF ClientInv, ClientsShaped
<1>3. held'[a] = NothingHeld /\ deadline'[a] = 0 /\ open'[a] = NoCall
  BY <1>1, DropAllFits, DisconnectFits DEF EndController
<1>4. UNCHANGED <<boot, desired>>  BY DEF EndController
<1>5. CASE Releases(a) = {}
  <2>1. UNCHANGED <<calls, seq, ops>>  BY <1>5 DEF EndController
  <2>2. BodyFits(ops[a], desired[a], NothingHeld)
    BY <1>2, NothingHeldFits DEF ClientOK, BodyFits
  <2>3. ClientOK(a)'
    BY <1>2, <1>3, <1>4, <2>1, <2>2, NothingHeldFits DEF ClientOK, TouchesAll
  <2>4. OnlyOf(a) /\ OpenCurrent(a)'
    BY <1>1, <1>2, <1>3, TouchesOnly DEF ClientInv, OpenCurrent
  <2> QED  BY <1>2, <1>4, <2>1, <2>3, <2>4 DEF AgentKeeps, ClientOK
<1>6. CASE Releases(a) # {}
  <2> DEFINE last == [agent |-> a, boot |-> boot[a], seq |-> seq[a] + 1,
                      ops |-> Releases(a), sent |-> clock]
  <2>1. NewIdentity(a, Releases(a)) /\ calls' = calls \cup {last}
    BY <1>6 DEF EndController
  <2>2. seq'[a] = seq[a] + 1
    BY <1>1, <2>1 DEF NewIdentity, ClientInv, ClientsShaped, OnAgents
  <2>3. BodyFits(Releases(a), desired'[a], NothingHeld)
    BY <1>1, <1>2, ReleasesFit DEF ClientOK
  <2>4. boot[a] \in 1..settings.starts[a]
    <3>1. settings.starts[a] \in Nat  BY <1>1, <1>2, HostedParameters
    <3> QED  BY <1>1, <1>2, <3>1 DEF ClientOK
  <2>5. /\ deadline'[a] \in Int /\ desired'[a] \in [Locals -> Platforms \cup {NoPlatform}]
        /\ held'[a] = [l \in Locals |-> held'[a][l]]
    BY <1>2, <1>3, <1>4, NothingHeldFits DEF ClientOK
  <2>6. \A call \in calls' : call \in calls \/
           /\ call # NoCall
           /\ call.agent = a /\ call.boot = boot[a] /\ call.boot \in 1..settings.starts[a]
           /\ call.seq = seq'[a] /\ call.sent = clock /\ call.ops = Releases(a)
    BY <2>1, <2>2, <2>4 DEF NoCall
  <2> QED
    BY <1>1, <1>2, <1>3, <1>4, <2>1, <2>3, <2>5, <2>6, KeepsNewIdentity
<1> QED  BY <1>5, <1>6

LEMMA KeepsDrop ==
  ASSUME ClientInv, clock \in Nat, NEW a \in Agents, TouchesAll(a), DropAll(a), Disconnect(a),
         UNCHANGED <<calls, boot, desired>>, NEW body, NewIdentity(a, body),
         BodyFits(body, desired[a], NothingHeld)
  PROVE  AgentKeeps(a)
<1>1. held'[a] = NothingHeld /\ deadline'[a] = 0 /\ open'[a] = NoCall
  BY DropAllFits, DisconnectFits
<1>2. desired' = desired /\ desired[a] \in [Locals -> Platforms \cup {NoPlatform}]
  BY DEF ClientInv, ClientOK
<1>3. /\ deadline'[a] \in Int /\ desired'[a] \in [Locals -> Platforms \cup {NoPlatform}]
      /\ held'[a] = [l \in Locals |-> held'[a][l]]
  BY <1>1, <1>2, NothingHeldFits
<1>4. BodyFits(body, desired'[a], held'[a])
  BY <1>1, <1>2
<1> QED  BY <1>1, <1>3, <1>4, KeepsNewIdentity

LEMMA DropBodies ==
  ASSUME ClientInv, NEW a \in Agents
  PROVE  /\ BodyFits(NextOps(desired[a], NothingHeld), desired[a], NothingHeld)
         /\ BodyFits(Releases(a), desired[a], NothingHeld)
         /\ BodyFits(ops[a], desired[a], NothingHeld)
<1>1. ClientOK(a)  BY DEF ClientInv
<1> QED
  BY <1>1, NextOpsFit, ReleasesFit, NothingHeldFits DEF ClientOK, BodyFits

LEMMA KeepsSuspend ==
  ASSUME ClientInv, clock \in Nat, NEW a \in Agents, Suspend(a)  PROVE AgentKeeps(a)
<1>1. PICK body \in {ops[a], Releases(a), NextOps(desired[a], NothingHeld)} : NewIdentity(a, body)
  BY DEF Suspend
<1>2. BodyFits(body, desired[a], NothingHeld)  BY <1>1, DropBodies
<1> QED  BY <1>1, <1>2, TouchesByAgent, KeepsDrop DEF Suspend

LEMMA KeepsDeadline ==
  ASSUME ClientInv, clock \in Nat, NEW a \in Agents, PassDeadline(a)  PROVE AgentKeeps(a)
<1>1. PICK body \in {Releases(a), NextOps(desired[a], NothingHeld)} : NewIdentity(a, body)
  BY DEF PassDeadline
<1>2. BodyFits(body, desired[a], NothingHeld)  BY <1>1, DropBodies
<1> QED  BY <1>1, <1>2, TouchesByAgent, KeepsDrop DEF PassDeadline

LEMMA KeepsRestart ==
  ASSUME ClientInv, clock \in Nat, NEW a \in Agents, Restart(a)  PROVE AgentKeeps(a)
<1> DEFINE want == settings.wants[a]
<1>1. ClientOK(a) /\ OnlyOf(a) /\ ClientsShaped /\ settings' = settings
  BY TouchesByAgent, TouchesOnly DEF ClientInv, TouchesAll
<1>2. want \in [Locals -> Platforms \cup {NoPlatform}] /\ settings.starts[a] \in Nat
  BY <1>1, HostedParameters DEF ClientsShaped
<1>3. /\ boot'[a] = boot[a] + 1 /\ boot[a] < settings.starts[a] /\ seq'[a] = 1
      /\ desired'[a] = want /\ ops'[a] = NextOps(want, NothingHeld)
      /\ held'[a] = NothingHeld /\ deadline'[a] = 0 /\ calls' = calls
  BY <1>1 DEF Restart, ClientsShaped, OnAgents
<1>4. BodyFits(ops'[a], want, NothingHeld)
  BY <1>2, <1>3, NextOpsFit, NothingHeldFits
<1>5. ClientOK(a)'
  BY <1>1, <1>2, <1>3, <1>4, NothingHeldFits DEF ClientOK
<1>6. OpenCurrent(a)'  BY DisconnectIsCurrent DEF Restart
<1> QED  BY <1>1, <1>3, <1>5, <1>6 DEF AgentKeeps, ClientOK

LEMMA KeepsSend ==
  ASSUME ClientInv, clock \in Nat, NEW a \in Installed, SendSync(a)  PROVE AgentKeeps(a)
<1>1. a \in Agents /\ settings.starts[a] > 0  BY DEF Installed
<1>2. /\ ClientOK(a) /\ OnlyOf(a) /\ ClientsShaped
      /\ UNCHANGED <<settings, clock, boot, desired, held, deadline>>
  BY <1>1, TouchesByAgent, TouchesOnly DEF ClientInv, TouchesAll, SendSync, ServerKept
<1>3. /\ seq'[a] \in Nat /\ seq[a] <= seq'[a] /\ ops'[a] = ops[a]
  BY <1>1, <1>2 DEF SendSync, NewIdentity, ClientsShaped, OnAgents, ClientOK
<1>4. PICK call : /\ open' = [open EXCEPT ![a] = call] /\ calls' = calls \cup {call}
                  /\ call.agent = a /\ call.boot = boot[a] /\ call.seq = seq'[a]
                  /\ call.ops = ops[a] /\ call.sent = clock /\ call # NoCall
  <2> DEFINE sync == [agent |-> a, boot |-> boot[a], seq |-> seq'[a], ops |-> ops[a],
                      sent |-> clock]
  <2>1. /\ open' = [open EXCEPT ![a] = sync] /\ calls' = calls \cup {sync}
        /\ sync.agent = a /\ sync.boot = boot[a] /\ sync.seq = seq'[a]
        /\ sync.ops = ops[a] /\ sync.sent = clock /\ sync # NoCall
    BY DEF SendSync, NoCall
  <2> HIDE DEF sync
  <2> QED  BY <2>1
<1>5. ClientOK(a)'  BY <1>2, <1>3 DEF ClientOK
<1>6. OpenCurrent(a)'  BY <1>1, <1>2, <1>3, <1>4 DEF OpenCurrent, ClientsShaped, OnAgents
<1>7. boot[a] \in 1..settings.starts[a]
  <2>1. settings.starts[a] \in Nat  BY <1>1, <1>2, HostedParameters DEF ClientsShaped
  <2> QED  BY <1>1, <1>2, <2>1 DEF ClientOK
<1>8. CallOK(call)'
  BY <1>1, <1>2, <1>3, <1>4, <1>7 DEF CallOK, ClientOK, BodyFits
<1> QED  BY <1>2, <1>3, <1>4, <1>5, <1>6, <1>8 DEF AgentKeeps, ClientOK

LEMMA KeepsQuiet ==
  ASSUME ClientInv, clock \in Nat, NEW a \in Agents, FailSync(a) \/ Resume(a)
  PROVE  AgentKeeps(a)
<1>1. /\ ClientOK(a) /\ OnlyOf(a)
      /\ UNCHANGED <<settings, clock, boot, seq, ops, desired, held, deadline, calls>>
  BY TouchesByAgent, TouchesOnly DEF ClientInv, FailSync, Resume, ServerKept, hostedVars
<1>2. OpenCurrent(a)'
  BY <1>1, DisconnectIsCurrent DEF FailSync, Resume, ClientInv, OpenCurrent
<1>3. ClientOK(a)'  BY <1>1 DEF ClientOK
<1> QED  BY <1>1, <1>2, <1>3 DEF AgentKeeps, ClientOK

(* What a usable answer grants is desired.                                  *)
GrantsDesired(a) ==
  Usable(a) => \A r \in Owned(a) : r.local \in Locals /\ desired[a][r.local] # NoPlatform

LEMMA KeepsApply ==
  ASSUME ClientInv, clock \in Nat, NEW a \in Agents, GrantsDesired(a),
         Usable(a) => answer[a].until \in Int, ApplyBatch(a)
  PROVE  AgentKeeps(a)
<1> DEFINE leases == LeasesAfter(a)
           body == NextOps(desired[a], leases)
<1>1. /\ ClientOK(a) /\ TouchesAll(a) /\ ClientsShaped
      /\ UNCHANGED <<boot, desired, calls>> /\ Usable(a)
  BY TouchesByAgent DEF ClientInv, ApplyBatch
<1>2. /\ held' = [held EXCEPT ![a] = leases] /\ NewIdentity(a, body)
      /\ deadline' = [deadline EXCEPT ![a] = answer[a].until] /\ Disconnect(a)
  BY DEF ApplyBatch
<1>3. leases = [l \in Locals |-> leases[l]]  BY DEF LeasesAfter
<1>4. ASSUME NEW l \in Locals, leases[l] # NoLease  PROVE desired[a][l] # NoPlatform
  <2>1. CASE \E r \in Owned(a) : r.local = l
    BY <1>1, <2>1 DEF GrantsDesired
  <2>2. CASE ~\E r \in Owned(a) : r.local = l
    <3>1. held[a][l] # NoLease  BY <1>4, <2>2 DEF LeasesAfter
    <3>2. \E op \in ops[a] : op.local = l /\ op.platform \in Platforms
                             /\ op.platform = desired[a][op.local]
      BY <1>1, <3>1 DEF ClientOK, BodyFits, Asks, Follows, OneOpPerLocal
    <3> QED  BY <3>2, HostedParameters
  <2> QED  BY <2>1, <2>2
<1> HIDE DEF leases
<1>5. BodyFits(body, desired[a], leases)
  BY <1>1, <1>4, NextOpsFit DEF ClientOK
<1>6. /\ open'[a] = NoCall /\ deadline'[a] \in Int /\ held'[a] = leases
      /\ desired'[a] \in [Locals -> Platforms \cup {NoPlatform}]
  BY <1>1, <1>2, DisconnectFits DEF ClientsShaped, OnAgents, ClientOK
<1> HIDE DEF body
<1>7. BodyFits(body, desired'[a], held'[a]) /\ held'[a] = [l \in Locals |-> held'[a][l]]
  BY <1>1, <1>3, <1>5, <1>6
<1> QED  BY <1>1, <1>2, <1>6, <1>7, KeepsNewIdentity

LEMMA HeldIsDesired ==
  ASSUME NEW a, ClientOK(a), NEW l \in Locals, held[a][l] # NoLease
  PROVE  desired[a][l] # NoPlatform
<1>1. \E op \in ops[a] : op.local = l /\ op.platform \in Platforms
                         /\ op.platform = desired[a][op.local]
  BY DEF ClientOK, BodyFits, Asks, Follows, OneOpPerLocal
<1> QED  BY <1>1, HostedParameters

LEMMA KeepsAdd ==
  ASSUME ClientInv, clock \in Nat, NEW a \in Agents, NEW l \in Locals, NEW p \in Platforms,
         AddAccount(a, l, p)
  PROVE  AgentKeeps(a)
<1>1. /\ ClientOK(a) /\ TouchesAll(a) /\ ClientsShaped
      /\ UNCHANGED <<boot, held, deadline, calls, open>> /\ open[a] = NoCall
      /\ NewIdentity(a, NextOps(desired'[a], held[a]))
  BY TouchesByAgent DEF ClientInv, AddAccount
<1>2. /\ desired'[a] = [desired[a] EXCEPT ![l] = p]
      /\ desired'[a] \in [Locals -> Platforms \cup {NoPlatform}]
      /\ p # NoPlatform
  BY <1>1, HostedParameters DEF AddAccount, ClientsShaped, OnAgents, ClientOK
<1>3. \A k \in Locals : held[a][k] # NoLease => desired'[a][k] # NoPlatform
  BY <1>1, <1>2, HeldIsDesired DEF ClientOK
<1>4. BodyFits(NextOps(desired'[a], held[a]), desired'[a], held[a])
  BY <1>2, <1>3, NextOpsFit
<1>5. deadline'[a] \in Int /\ held'[a] = [k \in Locals |-> held'[a][k]] /\ held'[a] = held[a]
  BY <1>1 DEF ClientOK
<1>6. BodyFits(NextOps(desired'[a], held[a]), desired'[a], held'[a])
  BY <1>4, <1>5
<1> QED  BY <1>1, <1>2, <1>5, <1>6, KeepsNewIdentity

LEMMA KeepsRemove ==
  ASSUME ClientInv, clock \in Nat, NEW a \in Agents, NEW l \in Locals, RemoveAccount(a, l)
  PROVE  AgentKeeps(a)
<1> DEFINE leases == [held[a] EXCEPT ![l] = NoLease]
           gone == {op \in Releases(a) : op.local = l}
           kept == NextOps(desired'[a], leases)
<1>1. /\ ClientOK(a) /\ TouchesAll(a) /\ ClientsShaped
      /\ UNCHANGED <<boot, deadline, calls, open>> /\ open[a] = NoCall
      /\ NewIdentity(a, kept \cup gone)
  BY TouchesByAgent DEF ClientInv, RemoveAccount
<1>2. /\ desired'[a] = [desired[a] EXCEPT ![l] = NoPlatform] /\ held'[a] = leases
      /\ desired'[a] \in [Locals -> Platforms \cup {NoPlatform}]
  BY <1>1 DEF RemoveAccount, ClientsShaped, OnAgents, ClientOK
<1>3. leases = [k \in Locals |-> leases[k]] /\ leases[l] = NoLease
  BY <1>1 DEF ClientOK
<1>4. \A k \in Locals : leases[k] # NoLease => desired'[a][k] # NoPlatform
  BY <1>1, <1>2, HeldIsDesired DEF ClientOK
<1>5. BodyFits(kept, desired'[a], leases)
  BY <1>2, <1>4, NextOpsFit
<1>6. BodyFits(gone, desired'[a], NothingHeld) /\ \A op \in gone : op.local = l /\ op.action = "release"
  <2>1. BodyFits(Releases(a), desired'[a], NothingHeld)  BY <1>1, ReleasesFit DEF ClientOK
  <2>2. \A op \in gone : op.action = "release"  BY DEF Releases
  <2> QED  BY <2>1, <2>2, NothingHeldFits DEF BodyFits, OneOpPerLocal, Follows
<1>7. \A op \in kept : op.local # l
  <2>1. desired'[a][l] = NoPlatform  BY <1>1, <1>2 DEF ClientOK
  <2> QED  BY <2>1 DEF NextOps
<1> HIDE DEF leases, gone, kept
<1>8. BodyFits(kept \cup gone, desired'[a], leases)
  BY <1>5, <1>6, <1>7 DEF BodyFits, OneOpPerLocal, Follows, Asks
<1>9. deadline'[a] \in Int /\ held'[a] = [k \in Locals |-> held'[a][k]]
  BY <1>1, <1>2, <1>3 DEF ClientOK
<1>10. BodyFits(kept \cup gone, desired'[a], held'[a])
  BY <1>2, <1>8
<1> QED  BY <1>1, <1>2, <1>9, <1>10, KeepsNewIdentity

-----------------------------------------------------------------------------
(* The server.  While a stored answer may still be replayed, the leases it  *)
(* grants are in the table, and in the table of a transaction of any other  *)
(* start; a transaction has served what it has answered so far.             *)
Starts(a) == 1..settings.starts[a]

TxOf(a, b) == tx # NoTx /\ tx.call.agent = a /\ tx.call.boot = b

StateOK(a, b) ==
  LET state == syncs[a][b]
  IN  state # NoState =>
        /\ state.seq \in Int /\ state.at \in Int /\ state.at <= clock /\ state.until \in Int
        /\ state.until <= state.at + TTL /\ state.until <= licence[a].until
        /\ Answers(state.results, state.ops)

ReservedIn(table, a, b) ==
  LET state == syncs[a][b]
  IN  state # NoState /\ clock < state.until
        => ServesAll(table, a, b, state.results, state.until)

Reserved(a, b) ==
  ReservedIn(rows, a, b) /\ (tx # NoTx /\ ~TxOf(a, b) => ReservedIn(tx.rows, a, b))

TxKeeps(a, b) ==
  \/ tx.syncs[b] = syncs[a][b]
  \/ tx.syncs[b] = NoState /\ syncs[a][b] # NoState /\ syncs[a][b].at < tx.at - SyncRetention

TxOK ==
  tx # NoTx =>
    LET a == tx.call.agent
    IN  /\ ~Settled(tx.call) /\ tx.todo \subseteq tx.call.ops
        /\ Answers(tx.results, tx.call.ops \ tx.todo)
        /\ ServesAll(tx.rows, a, tx.call.boot, tx.results, tx.until)
        /\ tx.until <= licence[a].until
        /\ tx.syncs = [b \in Starts(a) |-> tx.syncs[b]]
        /\ \A b \in Starts(a) : TxKeeps(a, b)

SyncsShaped == syncs = [a \in Agents |-> [b \in Starts(a) |-> syncs[a][b]]]

ServerInv ==
  /\ SyncsShaped
  /\ \A a \in Agents : licence[a].until <= clock + LicenceTerm
  /\ \A a \in Agents : \A b \in Starts(a) : StateOK(a, b) /\ Reserved(a, b)
  /\ TxOK

(* What an agent may install, and what it may use.                          *)
AnswerOK(a) ==
  Usable(a) =>
    /\ open[a] # NoCall /\ boot[a] \in Starts(a) /\ ~TxOf(a, boot[a])
    /\ LET state == syncs[a][boot[a]]
       IN  /\ state # NoState /\ state.seq = seq[a] /\ state.ops = ops[a]
           /\ answer[a].results = state.results /\ answer[a].until = state.until

Unsettled(a) == {call \in calls : call.agent = a /\ call.boot = boot[a] /\ ~Settled(call)}

Entitled(a) ==
  clock < deadline[a] =>
    /\ boot[a] \in Starts(a) /\ deadline[a] <= licence[a].until
    /\ syncs[a][boot[a]] # NoState /\ deadline[a] <= syncs[a][boot[a]].at + TTL
    /\ \A call \in Unsettled(a) : deadline[a] <= call.sent + TTL
    /\ TxOf(a, boot[a]) => deadline[a] <= tx.until

ServedIn(table, a, l) ==
  Serves(table, a, boot[a], l, desired[a][l], held[a][l], deadline[a])

HeldOK(a, l) ==
  MayUse(a, l) =>
    /\ ServedIn(rows, a, l) /\ (tx # NoTx => ServedIn(tx.rows, a, l))
    /\ \A call \in Unsettled(a) : NoRelease(call.ops, l)
    /\ TxOf(a, boot[a]) => NoRelease(tx.call.ops, l)

AnswerTimed(a) == answer[a] # NoAnswer => answer[a].until \in Int

UseOK(a) ==
  AnswerTimed(a) /\ AnswerOK(a) /\ Entitled(a) /\ \A l \in Locals : HeldOK(a, l)

UseInv == \A a \in Agents : UseOK(a)

LeaseInv == TimesInv /\ TermsInv /\ ClientInv /\ ServerInv /\ UseInv

(* Steps of the server that touch neither the table nor the stored answers. *)
QuietServer ==
  /\ UNCHANGED <<rows, syncs, open, hostedVars>> /\ (tx' = tx \/ tx' = NoTx)
  /\ calls' \subseteq calls /\ clock' \in Nat /\ clock <= clock'
  /\ \A a \in Agents : /\ licence'[a].until \in Int /\ licence[a].until <= licence'[a].until
                       /\ licence'[a].until <= clock' + LicenceTerm

QuietAnswer(a) ==
  \/ answer'[a] = answer[a]
  \/ answer'[a].denied /\ answer'[a].until \in Int

LEMMA QuietKeepsServer ==
  ASSUME LeaseInv, QuietServer  PROVE ServerInv'
<1>1. /\ UNCHANGED <<rows, syncs, settings>> /\ clock \in Nat
      /\ \A a \in Agents : licence[a].until \in Int
  BY DEF QuietServer, hostedVars, LeaseInv, TimesInv, LicencesTyped
<1>2. SyncsShaped'  BY <1>1 DEF LeaseInv, ServerInv, SyncsShaped, Starts
<1>3. ASSUME NEW a \in Agents, NEW b \in Starts(a)'  PROVE StateOK(a, b)' /\ Reserved(a, b)'
  <2>1. b \in Starts(a) /\ StateOK(a, b) /\ Reserved(a, b)
    BY <1>1, <1>3 DEF LeaseInv, ServerInv, Starts
  <2>2. StateOK(a, b)'  BY <1>1, <2>1 DEF QuietServer, StateOK
  <2>3. Reserved(a, b)'  BY <1>1, <2>1 DEF QuietServer, StateOK, Reserved, ReservedIn, TxOf
  <2> QED  BY <2>2, <2>3
<1>4. TxOK'
  <2>1. SUFFICES ASSUME tx' = tx, tx # NoTx  PROVE TxOK'
    BY DEF QuietServer, TxOK
  <2>2. TxOK /\ tx.call.agent \in Agents /\ tx.until \in Int
    BY <2>1 DEF LeaseInv, ServerInv, TimesInv, TxTimes
  <2> QED  BY <1>1, <2>1, <2>2 DEF TxOK, TxKeeps, Settled, Starts, QuietServer
<1> QED  BY <1>2, <1>3, <1>4 DEF QuietServer, ServerInv

LEMMA QuietKeepsLeases ==
  ASSUME LeaseInv, QuietServer, NEW a \in Agents
  PROVE  Entitled(a)' /\ \A l \in Locals : HeldOK(a, l)'
<1>1. /\ UNCHANGED <<rows, syncs, settings, boot, desired, held, deadline>>
      /\ clock \in Nat
  BY DEF QuietServer, hostedVars, LeaseInv, TimesInv
<1>2. UseOK(a) /\ ClientOK(a) /\ licence[a].until \in Int
  BY DEF LeaseInv, UseInv, ClientInv, TimesInv, LicencesTyped
<1>3. Unsettled(a)' \subseteq Unsettled(a) /\ (TxOf(a, boot[a])' => TxOf(a, boot[a]) /\ tx' = tx)
  BY <1>1 DEF QuietServer, Unsettled, Settled, TxOf
<1>4. clock' < deadline'[a] => clock < deadline[a]
  BY <1>1, <1>2 DEF QuietServer, ClientOK
<1>5. Entitled(a)'
  BY <1>1, <1>2, <1>3, <1>4 DEF UseOK, Entitled, ClientOK, QuietServer, Starts
<1>6. ASSUME NEW l \in Locals  PROVE HeldOK(a, l)'
  BY <1>1, <1>2, <1>3, <1>4 DEF UseOK, HeldOK, MayUse, ServedIn, QuietServer
<1> QED  BY <1>5, <1>6

LEMMA QuietKeepsAnswer ==
  ASSUME LeaseInv, QuietServer, NEW a \in Agents, QuietAnswer(a)
  PROVE  AnswerTimed(a)' /\ AnswerOK(a)'
<1>1. UNCHANGED <<syncs, settings, boot, seq, ops, open>> /\ clock \in Nat
  BY DEF QuietServer, hostedVars, LeaseInv, TimesInv
<1>2. UseOK(a)  BY DEF LeaseInv, UseInv
<1>3. AnswerTimed(a)'  BY <1>2 DEF UseOK, AnswerTimed, QuietAnswer
<1>4. AnswerOK(a)'
  <2>1. SUFFICES ASSUME Usable(a)'  PROVE AnswerOK(a)'
    BY DEF AnswerOK
  <2>2. answer'[a] = answer[a]  BY <2>1 DEF QuietAnswer, Usable
  <2>3. Usable(a)
    BY <1>1, <1>2, <2>1, <2>2 DEF Usable, UseOK, AnswerTimed, QuietServer
  <2> QED  BY <1>1, <1>2, <2>2, <2>3 DEF UseOK, AnswerOK, TxOf, QuietServer, Starts
<1> QED  BY <1>3, <1>4

LEMMA QuietKeepsUse ==
  ASSUME LeaseInv, QuietServer, \A a \in Agents : QuietAnswer(a)  PROVE UseInv'
BY QuietKeepsLeases, QuietKeepsAnswer DEF UseInv, UseOK

LEMMA ReplyShape ==
  ASSUME ClientInv, NEW call, call.agent \in Agents, NEW reply,
         \/ answer' = answer
         \/ open[call.agent] = call /\ answer' = [answer EXCEPT ![call.agent] = reply]
  PROVE  /\ OnAgents(answer')
         /\ \A a \in Agents :
              answer'[a] = answer[a] \/ (a = call.agent /\ open[a] = call /\ answer'[a] = reply)
BY DEF ClientInv, ClientsShaped, OnAgents

LEMMA RefusalShape ==
  ASSUME ClientInv, NEW call, call.agent \in Agents, Reply(call, TRUE, {}, 0)
  PROVE  OnAgents(answer') /\ \A a \in Agents : QuietAnswer(a)
<1> DEFINE refusal == [denied |-> TRUE, results |-> {}, until |-> 0]
<1>1. refusal.denied /\ refusal.until \in Int
  OBVIOUS
<1>2. answer' = answer \/ answer' = [answer EXCEPT ![call.agent] = refusal]
  BY DEF Reply
<1> HIDE DEF refusal
<1>3. OnAgents(answer') /\ \A a \in Agents : answer'[a] = answer[a] \/ answer'[a] = refusal
  BY <1>2 DEF ClientInv, ClientsShaped, OnAgents
<1> QED  BY <1>1, <1>3, Zenon DEF QuietAnswer

LEMMA ReplayKeepsUse ==
  ASSUME LeaseInv, NEW call \in calls, NEW at, ReplayStored(call, at), QuietServer
  PROVE  UseInv' /\ OnAgents(answer')
<1> DEFINE state == syncs[call.agent][call.boot]
<1>1. /\ tx = NoTx /\ tx' = NoTx /\ UNCHANGED <<syncs, clock, open, settings, boot, seq, ops>>
      /\ state # NoState /\ call.seq = state.seq /\ call.ops = state.ops
      /\ Reply(call, FALSE, state.results, state.until)
  BY DEF ReplayStored, Settled, SameRequest, QuietServer, hostedVars
<1>2. CallOK(call) /\ ClientInv /\ call.agent \in Agents /\ call.boot \in Starts(call.agent)
  BY DEF LeaseInv, ClientInv, Pending, CallOK, Starts
<1>3. state.until \in Int
  BY <1>1, <1>2 DEF LeaseInv, ServerInv, StateOK
<1> HIDE DEF state
<1>4. /\ OnAgents(answer')
      /\ \A a \in Agents :
           \/ answer'[a] = answer[a]
           \/ /\ a = call.agent /\ open[a] = call
              /\ answer'[a] = [denied |-> FALSE, results |-> state.results, until |-> state.until]
  <2> DEFINE reply == [denied |-> FALSE, results |-> state.results, until |-> state.until]
  <2>1. \/ answer' = answer
        \/ open[call.agent] = call /\ answer' = [answer EXCEPT ![call.agent] = reply]
    BY <1>1 DEF Reply
  <2> HIDE DEF reply
  <2>2. /\ OnAgents(answer')
        /\ \A a \in Agents :
             answer'[a] = answer[a] \/ (a = call.agent /\ open[a] = call /\ answer'[a] = reply)
    BY <1>2, <2>1, ReplyShape
  <2> QED  BY <2>2 DEF reply
<1>5. ASSUME NEW a \in Agents  PROVE AnswerTimed(a)' /\ AnswerOK(a)'
  <2>1. CASE answer'[a] = answer[a]
    BY <2>1, QuietKeepsAnswer DEF QuietAnswer
  <2>2. CASE answer'[a] # answer[a]
    <3>1. /\ a = call.agent /\ open[a] = call
          /\ answer'[a].results = state.results /\ answer'[a].until = state.until
      BY <1>4, <2>2
    <3>2. /\ open[a] # NoCall /\ call.boot = boot[a] /\ call.seq = seq[a]
          /\ call.ops = ops[a]
      BY <1>2, <3>1 DEF CallOK, ClientInv, OpenCurrent
    <3> QED  BY <1>1, <1>2, <1>3, <3>1, <3>2 DEF AnswerTimed, AnswerOK, TxOf, Starts, state
  <2> QED  BY <2>1, <2>2
<1> QED  BY <1>4, <1>5, QuietKeepsLeases DEF UseInv, UseOK

-----------------------------------------------------------------------------
(* A transaction begins.                                                    *)
LEMMA PruningSpares ==
  ASSUME TermsInv, NEW at \in Int, NEW a, NEW b, NEW l, NEW p, NEW e, NEW until \in Int,
         at < until, Serves(rows, a, b, l, p, e, until)
  PROVE  Serves(PrunedRows(at), a, b, l, p, e, until)
<1>1. p \in Platforms /\ RowServes(rows[p], a, b, l, e, until)  BY DEF Serves
<1>2. rows[p] # NoRow /\ rows[p].until >= until /\ rows[p].until \in Int
  BY <1>1 DEF RowServes, TermsInv, RowsTimed, TimedRow
<1>3. ~(rows[p].until < at - RowRetention)  BY <1>2, LeaseParameters
<1>4. PrunedRows(at)[p] = rows[p]  BY <1>1, <1>3 DEF PrunedRows
<1> QED  BY <1>1, <1>4 DEF Serves

LEMMA BeginTx ==
  ASSUME LeaseInv, NEW call \in calls, NEW at \in HandlerTimes(call), BeginSync(call, at)
  PROVE  /\ tx = NoTx /\ tx'.call = call /\ tx'.at = at /\ tx'.rows = PrunedRows(at)
         /\ tx'.syncs = PrunedSyncs(call.agent, at) /\ tx'.todo = call.ops /\ tx'.results = {}
         /\ tx'.until \in Int /\ tx'.until <= licence[call.agent].until
         /\ \A t \in Int : t <= at + TTL /\ t <= licence[call.agent].until => t <= tx'.until
         /\ at \in Int /\ call.sent <= at /\ call.sent \in Int /\ at <= clock /\ clock \in Nat
         /\ CallOK(call) /\ ~Settled(call)
         /\ UNCHANGED <<clock, rows, syncs, licence, open, answer>> /\ calls' = calls \ {call}
<1>1. /\ tx = NoTx /\ tx'.call = call /\ tx'.at = at /\ tx'.rows = PrunedRows(at)
      /\ tx'.syncs = PrunedSyncs(call.agent, at) /\ tx'.todo = call.ops /\ tx'.results = {}
      /\ tx'.until = Earlier(at + TTL, licence[call.agent].until)
      /\ UNCHANGED <<clock, rows, syncs, licence, open, answer>> /\ calls' = calls \ {call}
      /\ ~Settled(call)
  BY DEF BeginSync
<1>2. CallOK(call) /\ clock \in Nat /\ call.agent \in Agents /\ licence[call.agent].until \in Int
  BY DEF LeaseInv, ClientInv, Pending, CallOK, TimesInv, LicencesTyped
<1>3. at \in Int /\ at <= clock /\ call.sent <= at
  BY <1>2 DEF HandlerTimes, CallOK
<1>4. /\ tx'.until \in Int /\ tx'.until <= licence[call.agent].until
      /\ \A t \in Int : t <= at + TTL /\ t <= licence[call.agent].until => t <= tx'.until
  BY <1>1, <1>2, <1>3, LeaseParameters DEF Earlier
<1> QED  BY <1>1, <1>2, <1>3, <1>4 DEF CallOK

LEMMA BeginKeepsServer ==
  ASSUME LeaseInv, NEW call \in calls, NEW at \in HandlerTimes(call), BeginSync(call, at),
         UNCHANGED hostedVars
  PROVE  ServerInv'
<1>1. /\ tx = NoTx /\ tx'.call = call /\ tx'.at = at /\ tx'.rows = PrunedRows(at)
      /\ tx'.syncs = PrunedSyncs(call.agent, at) /\ tx'.todo = call.ops /\ tx'.results = {}
      /\ tx'.until \in Int /\ tx'.until <= licence[call.agent].until
      /\ at \in Int /\ at <= clock /\ clock \in Nat
      /\ CallOK(call) /\ ~Settled(call)
      /\ UNCHANGED <<clock, rows, syncs, licence, settings>>
  BY BeginTx DEF hostedVars
<1>2. SyncsShaped'  BY <1>1 DEF LeaseInv, ServerInv, SyncsShaped, Starts
<1>3. \A a \in Agents : (licence[a].until <= clock + LicenceTerm)'
  BY <1>1 DEF LeaseInv, ServerInv
<1>4. ASSUME NEW a \in Agents, NEW b \in Starts(a)'  PROVE StateOK(a, b)' /\ Reserved(a, b)'
  <2>1. StateOK(a, b) /\ ReservedIn(rows, a, b)
    BY <1>1, <1>4 DEF LeaseInv, ServerInv, Reserved, Starts
  <2>2. StateOK(a, b)'  BY <1>1, <2>1 DEF StateOK
  <2>3. ReservedIn(rows, a, b)'  BY <1>1, <2>1 DEF ReservedIn
  <2>4. ReservedIn(tx.rows, a, b)'
    <3> DEFINE state == syncs[a][b]
    <3>1. SUFFICES ASSUME state # NoState, clock < state.until, NEW r \in state.results,
                          r.status = "owned"
                   PROVE  Serves(PrunedRows(at), a, b, r.local, r.platform, r.epoch, state.until)
      BY <1>1 DEF ReservedIn, ServesAll
    <3>2. Serves(rows, a, b, r.local, r.platform, r.epoch, state.until)
      BY <2>1, <3>1 DEF ReservedIn, ServesAll
    <3>3. state.until \in Int /\ at < state.until  BY <1>1, <2>1, <3>1 DEF StateOK
    <3> HIDE DEF state
    <3> QED  BY <1>1, <3>2, <3>3, PruningSpares DEF LeaseInv
  <2> QED  BY <2>2, <2>3, <2>4 DEF Reserved
<1>5. TxOK'
  <2>1. ~Settled(tx.call)'  BY <1>1 DEF Settled
  <2>2. PrunedSyncs(call.agent, at) =
          [b \in Starts(call.agent) |-> PrunedSyncs(call.agent, at)[b]]
    BY <1>1 DEF PrunedSyncs, LeaseInv, ServerInv, SyncsShaped, CallOK
  <2>3. ASSUME NEW b \in Starts(call.agent)
        PROVE  TxKeeps(call.agent, b)'
    BY <1>1, <2>2 DEF TxKeeps, PrunedSyncs, LeaseInv, ServerInv, SyncsShaped, CallOK
  <2> QED
    BY <1>1, <2>1, <2>2, <2>3 DEF TxOK, Answers, ServesAll, Starts
<1> QED  BY <1>2, <1>3, <1>4, <1>5 DEF ServerInv

LEMMA BeginKeepsUse ==
  ASSUME LeaseInv, NEW call \in calls, NEW at \in HandlerTimes(call), BeginSync(call, at),
         UNCHANGED hostedVars
  PROVE  UseInv'
<1>1. /\ tx = NoTx /\ tx'.call = call /\ tx'.rows = PrunedRows(at)
      /\ tx'.until \in Int
      /\ \A t \in Int : t <= at + TTL /\ t <= licence[call.agent].until => t <= tx'.until
      /\ at \in Int /\ call.sent <= at /\ call.sent \in Int /\ at <= clock /\ clock \in Nat
      /\ CallOK(call) /\ ~Settled(call)
      /\ UNCHANGED <<clock, rows, syncs, licence, open, answer, settings, boot, seq, ops,
                     desired, held, deadline>> /\ calls' \subseteq calls
  BY BeginTx DEF hostedVars
<1>2. SUFFICES ASSUME NEW a \in Agents  PROVE UseOK(a)'
  BY DEF UseInv
<1>3. UseOK(a) /\ ClientOK(a)
  BY DEF LeaseInv, UseInv, ClientInv
<1>4. Unsettled(a)' \subseteq Unsettled(a) /\ (TxOf(a, boot[a])' => call \in Unsettled(a))
  BY <1>1 DEF Unsettled, Settled, TxOf
<1>5. AnswerTimed(a)'  BY <1>1, <1>3 DEF UseOK, AnswerTimed
<1>6. AnswerOK(a)'
  <2>1. SUFFICES ASSUME Usable(a)'  PROVE AnswerOK(a)'
    BY DEF AnswerOK
  <2>2. Usable(a) /\ AnswerOK(a)  BY <1>1, <1>3, <2>1 DEF Usable, UseOK
  <2>3. ~(call.agent = a /\ call.boot = boot[a])
    BY <1>1, <2>2 DEF AnswerOK, Settled, CallOK
  <2> QED  BY <1>1, <2>2, <2>3 DEF AnswerOK, TxOf, Starts
<1>7. Entitled(a)'
  <2>1. SUFFICES ASSUME clock < deadline[a]  PROVE Entitled(a)'
    BY <1>1 DEF Entitled
  <2>2. TxOf(a, boot[a])' => deadline[a] <= tx'.until
    <3>1. ASSUME call \in Unsettled(a)  PROVE deadline[a] <= tx'.until
      <4>1. /\ deadline[a] <= licence[a].until /\ deadline[a] <= call.sent + TTL
            /\ call.agent = a /\ deadline[a] \in Int
        BY <1>3, <2>1, <3>1 DEF UseOK, Entitled, Unsettled, ClientOK
      <4> QED  BY <1>1, <4>1, LeaseParameters
    <3> QED  BY <1>4, <3>1
  <2> QED  BY <1>1, <1>3, <1>4, <2>1, <2>2 DEF UseOK, Entitled, Starts
<1>8. ASSUME NEW l \in Locals  PROVE HeldOK(a, l)'
  <2>1. SUFFICES ASSUME MayUse(a, l)  PROVE HeldOK(a, l)'
    BY <1>1 DEF HeldOK, MayUse
  <2>2. /\ ServedIn(rows, a, l) /\ \A c \in Unsettled(a) : NoRelease(c.ops, l)
    BY <1>3, <2>1 DEF UseOK, HeldOK
  <2>3. ServedIn(PrunedRows(at), a, l)
    <3>1. at < deadline[a] /\ deadline[a] \in Int
      BY <1>1, <1>3, <2>1 DEF MayUse, ClientOK
    <3> QED  BY <1>1, <2>2, <3>1, PruningSpares DEF LeaseInv, ServedIn
  <2>4. ServedIn(rows, a, l)' /\ ServedIn(tx.rows, a, l)'
    BY <1>1, <2>2, <2>3 DEF ServedIn
  <2>5. TxOf(a, boot[a])' => NoRelease(tx'.call.ops, l)
    BY <1>1, <1>4, <2>2
  <2>6. \A c \in Unsettled(a)' : NoRelease(c.ops, l)
    BY <1>4, <2>2
  <2> QED  BY <2>4, <2>5, <2>6 DEF HeldOK
<1> QED  BY <1>5, <1>6, <1>7, <1>8 DEF UseOK

-----------------------------------------------------------------------------
(* An operation of the batch.                                               *)
LEMMA OperationTx ==
  ASSUME LeaseInv, tx # NoTx, NEW op \in tx.todo, OneOperation(op)
  PROVE  /\ tx'.call = tx.call /\ tx'.at = tx.at /\ tx'.until = tx.until
         /\ DecidedSoundly(op) /\ op.platform \in Platforms /\ op \in tx.call.ops
         /\ CallOK(tx.call) /\ TxOK /\ RowsTimed(tx.rows) /\ tx.at \in Int /\ tx.until \in Int
         /\ tx.at < tx.until /\ tx.at <= clock /\ clock \in Nat
         /\ UNCHANGED <<clock, rows, syncs, licence, calls, open, answer>>
<1>1. /\ DOMAIN tx = TxFields /\ CallOK(tx.call) /\ TxOK /\ RowsTimed(tx.rows)
      /\ tx.at \in Int /\ tx.until \in Int /\ tx.at < tx.until /\ tx.at <= clock /\ clock \in Nat
  BY DEF LeaseInv, TimesInv, TxTimes, TermsInv, ServerInv, ClientInv, Pending
<1>2. op.platform \in Platforms /\ op \in tx.call.ops
  BY <1>1 DEF TxOK, CallOK, OneOpPerLocal
<1>3. DecidedSoundly(op)
  BY <1>2, OperationEffect DEF LeaseInv
<1>4. DOMAIN tx' = TxFields /\ tx'.call = tx.call /\ tx'.at = tx.at /\ tx'.until = tx.until
  BY <1>1, OperationKeepsTimes
<1>5. UNCHANGED <<clock, rows, syncs, licence, calls, open, answer>>
  BY DEF OneOperation
<1> QED  BY <1>1, <1>2, <1>3, <1>4, <1>5

LEMMA OperationSpares ==
  ASSUME LeaseInv, tx # NoTx, NEW op \in tx.todo, OneOperation(op),
         NEW a, NEW b, NEW l, NEW p, NEW e, NEW until \in Int,
         Serves(tx.rows, a, b, l, p, e, until), clock < until,
         Mine(op, a, b, l) => op.action # "release" /\ until <= tx.until
  PROVE  Serves(tx'.rows, a, b, l, p, e, until)
<1>1. /\ DecidedSoundly(op) /\ op.platform \in Platforms /\ RowsTimed(tx.rows)
      /\ tx.at \in Int /\ tx.at <= clock /\ clock \in Nat
  BY OperationTx
<1>2. PICK row, result :
        /\ tx'.rows = [tx.rows EXCEPT ![op.platform] = row]
        /\ SparesOthers(op, tx.rows[op.platform], row)
  BY <1>1 DEF DecidedSoundly
<1>3. p \in Platforms /\ RowServes(tx.rows[p], a, b, l, e, until)
  BY DEF Serves
<1>4. tx.at < until  BY <1>1
<1>5. CASE p = op.platform
  <2>1. RowServes(row, a, b, l, e, until)
    BY <1>2, <1>3, <1>4, <1>5 DEF SparesOthers
  <2>2. tx'.rows[p] = row  BY <1>1, <1>2, <1>5 DEF RowsTimed
  <2> QED  BY <1>3, <2>1, <2>2 DEF Serves
<1>6. CASE p # op.platform
  <2>1. tx'.rows[p] = tx.rows[p]  BY <1>1, <1>2, <1>3, <1>6 DEF RowsTimed
  <2> QED  BY <1>3, <2>1 DEF Serves
<1> QED  BY <1>5, <1>6

LEMMA OperationAnswers ==
  ASSUME LeaseInv, tx # NoTx, NEW op \in tx.todo, OneOperation(op)
  PROVE  /\ Answers(tx'.results, tx.call.ops \ tx'.todo)
         /\ ServesAll(tx'.rows, tx.call.agent, tx.call.boot, tx'.results, tx.until)
<1> DEFINE a == tx.call.agent
           b == tx.call.boot
<1>1. /\ DecidedSoundly(op) /\ op.platform \in Platforms /\ op \in tx.call.ops
      /\ OneOpPerLocal(tx.call.ops) /\ RowsTimed(tx.rows)
      /\ tx.at \in Int /\ tx.until \in Int /\ tx.at < tx.until
      /\ Answers(tx.results, tx.call.ops \ tx.todo) /\ tx.todo \subseteq tx.call.ops
      /\ ServesAll(tx.rows, a, b, tx.results, tx.until)
  BY OperationTx DEF TxOK, CallOK
<1>2. PICK row, result :
        /\ tx'.rows = [tx.rows EXCEPT ![op.platform] = row]
        /\ tx'.results = tx.results \cup {result}
        /\ GrantsOnlyAsked(op, result, row)
        /\ SparesOthers(op, tx.rows[op.platform], row)
  BY <1>1 DEF DecidedSoundly
<1>3. tx'.todo = tx.todo \ {op}  BY <1>1 DEF DecidedSoundly
<1>4. Answers(tx'.results, tx.call.ops \ tx'.todo)
  <2>1. \A o \in tx.call.ops \ tx'.todo : o = op \/ o \in tx.call.ops \ tx.todo
    BY <1>3
  <2>2. tx.call.ops \ tx.todo \subseteq tx.call.ops \ tx'.todo /\ op \in tx.call.ops \ tx'.todo
    BY <1>1, <1>3
  <2> QED  BY <1>1, <1>2, <2>1, <2>2 DEF Answers, GrantsOnlyAsked
<1>5. ASSUME NEW r \in tx'.results, r.status = "owned"
      PROVE  Serves(tx'.rows, a, b, r.local, r.platform, r.epoch, tx.until)
  <2>1. tx'.rows[op.platform] = row /\ \A p \in Platforms \ {op.platform} : tx'.rows[p] = tx.rows[p]
    BY <1>1, <1>2 DEF RowsTimed
  <2>2. CASE r = result
    BY <1>1, <1>2, <1>5, <2>1, <2>2 DEF GrantsOnlyAsked, Serves
  <2>3. CASE r \in tx.results
    <3>1. Serves(tx.rows, a, b, r.local, r.platform, r.epoch, tx.until)
      BY <1>1, <1>5, <2>3 DEF ServesAll
    <3>2. r.local # op.local
      BY <1>1, <2>3 DEF Answers, OneOpPerLocal
    <3>3. RowServes(tx.rows[op.platform], a, b, r.local, r.epoch, tx.until)
            => RowServes(row, a, b, r.local, r.epoch, tx.until)
      BY <1>1, <1>2, <3>2 DEF SparesOthers, Mine
    <3> QED  BY <2>1, <3>1, <3>3 DEF Serves
  <2> QED  BY <1>2, <1>5, <2>2, <2>3
<1> QED  BY <1>4, <1>5 DEF ServesAll

LEMMA OperationKeepsServer ==
  ASSUME LeaseInv, tx # NoTx, NEW op \in tx.todo, OneOperation(op), UNCHANGED hostedVars
  PROVE  ServerInv'
<1>1. /\ tx'.call = tx.call /\ tx'.at = tx.at /\ tx'.until = tx.until /\ tx'.syncs = tx.syncs
      /\ tx'.todo = tx.todo \ {op} /\ CallOK(tx.call) /\ TxOK /\ clock \in Nat
      /\ UNCHANGED <<clock, rows, syncs, licence, settings>>
  BY OperationTx DEF DecidedSoundly, hostedVars
<1>2. SyncsShaped'  BY <1>1 DEF LeaseInv, ServerInv, SyncsShaped, Starts
<1>3. \A a \in Agents : (licence[a].until <= clock + LicenceTerm)'
  BY <1>1 DEF LeaseInv, ServerInv
<1>4. ASSUME NEW a \in Agents, NEW b \in Starts(a)'  PROVE StateOK(a, b)' /\ Reserved(a, b)'
  <2>1. StateOK(a, b) /\ Reserved(a, b)
    BY <1>1, <1>4 DEF LeaseInv, ServerInv, Starts
  <2>2. StateOK(a, b)'  BY <1>1, <2>1 DEF StateOK
  <2>3. ReservedIn(rows, a, b)'  BY <1>1, <2>1 DEF Reserved, ReservedIn
  <2>4. ASSUME tx' # NoTx, ~TxOf(a, b)'  PROVE ReservedIn(tx.rows, a, b)'
    <3> DEFINE state == syncs[a][b]
    <3>1. SUFFICES ASSUME state # NoState, clock < state.until, NEW r \in state.results,
                          r.status = "owned"
                   PROVE  Serves(tx'.rows, a, b, r.local, r.platform, r.epoch, state.until)
      BY <1>1 DEF ReservedIn, ServesAll
    <3>2. ~(tx.call.agent = a /\ tx.call.boot = b)
      BY <1>1, <2>4 DEF TxOf
    <3>3. Serves(tx.rows, a, b, r.local, r.platform, r.epoch, state.until)
      BY <2>1, <3>1, <3>2 DEF Reserved, ReservedIn, ServesAll, TxOf
    <3>4. state.until \in Int  BY <2>1, <3>1 DEF StateOK
    <3> HIDE DEF state
    <3> QED  BY <3>1, <3>2, <3>3, <3>4, OperationSpares DEF Mine
  <2> QED  BY <2>2, <2>3, <2>4 DEF Reserved
<1>5. TxOK'
  <2>1. ~Settled(tx.call)'  BY <1>1 DEF TxOK, Settled
  <2>2. /\ Answers(tx'.results, tx.call.ops \ tx'.todo)
        /\ ServesAll(tx'.rows, tx.call.agent, tx.call.boot, tx'.results, tx.until)
    BY OperationAnswers
  <2>3. \A b \in Starts(tx.call.agent) : TxKeeps(tx.call.agent, b)'
    BY <1>1 DEF TxOK, TxKeeps
  <2> QED  BY <1>1, <2>1, <2>2, <2>3 DEF TxOK, Starts
<1> QED  BY <1>2, <1>3, <1>4, <1>5 DEF ServerInv

LEMMA OperationKeepsUse ==
  ASSUME LeaseInv, tx # NoTx, NEW op \in tx.todo, OneOperation(op), UNCHANGED hostedVars
  PROVE  UseInv'
<1>1. /\ tx'.call = tx.call /\ tx'.until = tx.until /\ op \in tx.call.ops /\ clock \in Nat
      /\ UNCHANGED <<clock, rows, syncs, licence, calls, open, answer, settings, boot, seq, ops,
                     desired, held, deadline>>
  BY OperationTx DEF hostedVars
<1>2. SUFFICES ASSUME NEW a \in Agents  PROVE UseOK(a)'
  BY DEF UseInv
<1>3. UseOK(a) /\ ClientOK(a)
  BY DEF LeaseInv, UseInv, ClientInv
<1>4. Unsettled(a)' = Unsettled(a) /\ (TxOf(a, boot[a])' => TxOf(a, boot[a]))
  BY <1>1 DEF Unsettled, Settled, TxOf
<1>5. AnswerTimed(a)' /\ AnswerOK(a)'
  BY <1>1, <1>3, <1>4 DEF UseOK, AnswerTimed, AnswerOK, Usable, Starts
<1>6. Entitled(a)'
  BY <1>1, <1>3, <1>4 DEF UseOK, Entitled, Starts
<1>7. ASSUME NEW l \in Locals  PROVE HeldOK(a, l)'
  <2>1. SUFFICES ASSUME MayUse(a, l)  PROVE HeldOK(a, l)'
    BY <1>1 DEF HeldOK, MayUse
  <2>2. /\ ServedIn(rows, a, l) /\ ServedIn(tx.rows, a, l)
        /\ \A c \in Unsettled(a) : NoRelease(c.ops, l)
        /\ TxOf(a, boot[a]) => NoRelease(tx.call.ops, l) /\ deadline[a] <= tx.until
        /\ clock < deadline[a] /\ deadline[a] \in Int
    BY <1>3, <2>1 DEF UseOK, HeldOK, Entitled, MayUse, ClientOK
  <2>3. Mine(op, a, boot[a], l) => op.action # "release" /\ deadline[a] <= tx.until
    BY <1>1, <2>2 DEF Mine, TxOf, NoRelease
  <2>4. ServedIn(tx'.rows, a, l)
    BY <2>2, <2>3, OperationSpares DEF ServedIn
  <2>5. ServedIn(rows, a, l)' /\ ServedIn(tx.rows, a, l)'
    BY <1>1, <2>2, <2>4 DEF ServedIn
  <2>6. /\ \A c \in Unsettled(a)' : NoRelease(c.ops, l)
        /\ TxOf(a, boot[a])' => NoRelease(tx'.call.ops, l)
    BY <1>1, <1>4, <2>2
  <2> QED  BY <2>5, <2>6 DEF HeldOK
<1> QED  BY <1>5, <1>6, <1>7 DEF UseOK

-----------------------------------------------------------------------------
(* The batch is published.                                                  *)
Published ==
  [seq |-> tx.call.seq, ops |-> tx.call.ops, at |-> tx.at, results |-> tx.results,
   until |-> tx.until]

LEMMA CommitTx ==
  ASSUME LeaseInv, CommitSync
  PROVE  /\ tx # NoTx /\ tx' = NoTx /\ rows' = tx.rows /\ SyncsShaped
         /\ CallOK(tx.call) /\ TxOK /\ tx.call.boot \in Starts(tx.call.agent)
         /\ tx.at \in Int /\ tx.at <= clock /\ clock \in Nat /\ tx.until \in Int
         /\ tx.until <= tx.at + TTL
         /\ syncs' = [syncs EXCEPT ![tx.call.agent] = [tx.syncs EXCEPT ![tx.call.boot] = Published]]
         /\ UNCHANGED <<clock, licence, calls, open>>
<1>1. /\ tx # NoTx /\ tx' = NoTx /\ rows' = tx.rows
      /\ syncs' = [syncs EXCEPT ![tx.call.agent] = [tx.syncs EXCEPT ![tx.call.boot] = Published]]
      /\ UNCHANGED <<clock, licence, calls, open>>
  BY DEF CommitSync, Published
<1>2. /\ SyncsShaped /\ CallOK(tx.call) /\ TxOK
      /\ tx.at \in Int /\ tx.at <= clock /\ clock \in Nat /\ tx.until \in Int
      /\ tx.until <= tx.at + TTL
  BY <1>1 DEF LeaseInv, TimesInv, TxTimes, ServerInv, ClientInv, Pending
<1> QED  BY <1>1, <1>2 DEF CallOK, Starts

LEMMA CommitStates ==
  ASSUME LeaseInv, CommitSync, settings' = settings
  PROVE  /\ SyncsShaped' /\ syncs'[tx.call.agent][tx.call.boot] = Published
         /\ \A a \in Agents : \A b \in Starts(a) :
              \/ tx.call.agent = a /\ tx.call.boot = b
              \/ syncs'[a][b] = syncs[a][b]
              \/ /\ syncs'[a][b] = NoState /\ syncs[a][b] # NoState
                 /\ syncs[a][b].at < tx.at - SyncRetention
<1> DEFINE a == tx.call.agent
           table == [tx.syncs EXCEPT ![tx.call.boot] = Published]
<1>1. /\ syncs' = [syncs EXCEPT ![a] = table] /\ SyncsShaped /\ a \in Agents
      /\ tx.call.boot \in Starts(a)
      /\ tx.syncs = [b \in Starts(a) |-> tx.syncs[b]]
      /\ \A b \in Starts(a) : TxKeeps(a, b)
  BY CommitTx DEF CallOK, TxOK
<1>2. /\ table = [b \in Starts(a) |-> table[b]] /\ table[tx.call.boot] = Published
      /\ \A b \in Starts(a) \ {tx.call.boot} : table[b] = tx.syncs[b]
  BY <1>1
<1> HIDE DEF table
<1>3. syncs'[a] = table /\ \A c \in Agents \ {a} : syncs'[c] = syncs[c]
  BY <1>1 DEF SyncsShaped
<1>4. SyncsShaped'
  <2>1. ASSUME NEW c \in Agents
        PROVE  syncs'[c] = [b \in Starts(c) |-> syncs'[c][b]]
    <3>1. CASE c = a  BY <1>2, <1>3, <3>1
    <3>2. CASE c # a
      <4>1. syncs[c] = [b \in Starts(c) |-> syncs[c][b]]  BY <1>1 DEF SyncsShaped
      <4> QED  BY <1>3, <3>2, <4>1
    <3> QED  BY <3>1, <3>2
  <2>2. syncs' = [c \in Agents |-> syncs'[c]]  BY <1>1 DEF SyncsShaped
  <2> QED  BY <2>1, <2>2 DEF SyncsShaped, Starts
<1>5. ASSUME NEW c \in Agents, NEW b \in Starts(c)
      PROVE  \/ a = c /\ tx.call.boot = b
             \/ syncs'[c][b] = syncs[c][b]
             \/ /\ syncs'[c][b] = NoState /\ syncs[c][b] # NoState
                /\ syncs[c][b].at < tx.at - SyncRetention
  BY <1>1, <1>2, <1>3 DEF TxKeeps
<1> QED  BY <1>2, <1>3, <1>4, <1>5

LEMMA CommitKeepsServer ==
  ASSUME LeaseInv, CommitSync, UNCHANGED hostedVars
  PROVE  ServerInv'
<1> DEFINE a == tx.call.agent
           b == tx.call.boot
<1>1. /\ tx # NoTx /\ tx' = NoTx /\ rows' = tx.rows
      /\ CallOK(tx.call) /\ TxOK /\ b \in Starts(a)
      /\ tx.at \in Int /\ tx.at <= clock /\ clock \in Nat /\ tx.until \in Int
      /\ tx.until <= tx.at + TTL /\ UNCHANGED <<clock, licence, settings>>
  BY CommitTx DEF hostedVars
<1>2. /\ SyncsShaped' /\ syncs'[a][b] = Published
      /\ \A c \in Agents : \A d \in Starts(c) :
           \/ a = c /\ b = d
           \/ syncs'[c][d] = syncs[c][d]
           \/ syncs'[c][d] = NoState
  BY <1>1, CommitStates
<1>3. \A c \in Agents : (licence[c].until <= clock + LicenceTerm)'
  BY <1>1 DEF LeaseInv, ServerInv
<1>4. TxOK'  BY <1>1 DEF TxOK
<1>5. ASSUME NEW c \in Agents, NEW d \in Starts(c)'  PROVE StateOK(c, d)' /\ Reserved(c, d)'
  <2>1. StateOK(c, d) /\ Reserved(c, d) /\ d \in Starts(c)
    BY <1>1, <1>5 DEF LeaseInv, ServerInv, Starts
  <2>2. CASE a = c /\ b = d
    <3>1. Answers(tx.results, tx.call.ops)
      <4>1. tx.todo = {}  BY DEF CommitSync
      <4> QED  BY <1>1, <4>1 DEF TxOK, Answers
    <3>2. /\ Published.seq = tx.call.seq /\ Published.ops = tx.call.ops /\ Published.at = tx.at
          /\ Published.results = tx.results /\ Published.until = tx.until
      BY DEF Published
    <3>3. syncs'[c][d] = Published  BY <1>2, <2>2
    <3>4. StateOK(c, d)'
      BY <1>1, <2>2, <3>1, <3>2, <3>3 DEF StateOK, TxOK, CallOK
    <3>5. Reserved(c, d)'
      BY <1>1, <2>2, <3>2, <3>3 DEF Reserved, ReservedIn, TxOK
    <3> QED  BY <3>4, <3>5
  <2>3. CASE ~(a = c /\ b = d) /\ syncs'[c][d] = syncs[c][d]
    BY <1>1, <2>1, <2>3 DEF StateOK, Reserved, ReservedIn, TxOf
  <2>4. CASE syncs'[c][d] = NoState
    BY <1>1, <2>4 DEF StateOK, Reserved, ReservedIn
  <2> QED  BY <1>2, <2>1, <2>2, <2>3, <2>4
<1> QED  BY <1>2, <1>3, <1>4, <1>5 DEF ServerInv

LEMMA CommitKeepsUse ==
  ASSUME LeaseInv, CommitSync, UNCHANGED hostedVars
  PROVE  UseInv' /\ OnAgents(answer')
<1>1. /\ tx # NoTx /\ tx' = NoTx /\ rows' = tx.rows
      /\ CallOK(tx.call) /\ ~Settled(tx.call)
      /\ tx.at \in Int /\ tx.at <= clock /\ clock \in Nat /\ tx.until \in Int
      /\ tx.until <= tx.at + TTL
      /\ UNCHANGED <<clock, licence, calls, open, settings, boot, seq, ops, desired, held, deadline>>
  BY CommitTx DEF hostedVars, TxOK
<1>2. /\ syncs'[tx.call.agent][tx.call.boot] = Published
      /\ \A a \in Agents : \A b \in Starts(a) :
           \/ tx.call.agent = a /\ tx.call.boot = b
           \/ syncs'[a][b] = syncs[a][b]
           \/ /\ syncs'[a][b] = NoState /\ syncs[a][b] # NoState
              /\ syncs[a][b].at < tx.at - SyncRetention
  BY <1>1, CommitStates
<1>3. /\ Published.seq = tx.call.seq /\ Published.ops = tx.call.ops /\ Published.at = tx.at
      /\ Published.results = tx.results /\ Published.until = tx.until /\ Published # NoState
  BY DEF Published, NoState
<1> DEFINE reply == [denied |-> FALSE, results |-> tx.results, until |-> tx.until]
<1>4. reply.results = tx.results /\ reply.until = tx.until
  OBVIOUS
<1>5. \/ answer' = answer
      \/ open[tx.call.agent] = tx.call /\ answer' = [answer EXCEPT ![tx.call.agent] = reply]
  BY DEF CommitSync, Reply
<1> HIDE DEF reply
<1>6. /\ OnAgents(answer')
      /\ \A a \in Agents :
           \/ answer'[a] = answer[a]
           \/ a = tx.call.agent /\ open[a] = tx.call /\ answer'[a] = reply
  BY <1>1, <1>5 DEF LeaseInv, ClientInv, ClientsShaped, OnAgents, CallOK
(* An agent's current start, while its last answer or its leases last, is   *)
(* neither pruned nor set back.                                             *)
<1>7. ASSUME NEW a \in Agents, boot[a] \in Starts(a), syncs[a][boot[a]] # NoState,
             NEW until \in Int, clock < until, until <= syncs[a][boot[a]].at + TTL
      PROVE  \/ TxOf(a, boot[a]) /\ syncs'[a][boot[a]] = Published
             \/ ~TxOf(a, boot[a]) /\ syncs'[a][boot[a]] = syncs[a][boot[a]]
  <2>1. syncs[a][boot[a]].at \in Int
    BY <1>7 DEF LeaseInv, ServerInv, StateOK
  <2>2. ~(syncs[a][boot[a]].at < tx.at - SyncRetention)
    BY <1>1, <1>7, <2>1, LeaseParameters
  <2> QED  BY <1>1, <1>2, <1>7, <2>2 DEF TxOf
<1>8. SUFFICES ASSUME NEW a \in Agents  PROVE UseOK(a)'
  BY <1>6 DEF UseInv
<1>9. UseOK(a) /\ ClientOK(a)
  BY DEF LeaseInv, UseInv, ClientInv
<1>10. AnswerTimed(a)'
  BY <1>1, <1>4, <1>6, <1>9 DEF UseOK, AnswerTimed
<1>11. AnswerOK(a)'
  <2>1. SUFFICES ASSUME Usable(a)'  PROVE AnswerOK(a)'
    BY DEF AnswerOK
  <2>2. CASE answer'[a] = answer[a]
    <3>1. Usable(a)  BY <1>1, <2>1, <2>2 DEF Usable
    <3>2. /\ boot[a] \in Starts(a) /\ ~TxOf(a, boot[a]) /\ syncs[a][boot[a]] # NoState
          /\ answer[a].until = syncs[a][boot[a]].until
      BY <1>9, <3>1 DEF UseOK, AnswerOK
    <3>3. /\ answer[a].until \in Int /\ clock < answer[a].until
          /\ answer[a].until <= syncs[a][boot[a]].at + TTL
      BY <1>9, <3>1, <3>2 DEF UseOK, AnswerTimed, Usable, LeaseInv, ServerInv, StateOK
    <3>4. syncs'[a][boot[a]] = syncs[a][boot[a]]
      BY <1>7, <3>2, <3>3
    <3> QED  BY <1>1, <1>9, <2>2, <3>1, <3>4 DEF UseOK, AnswerOK, TxOf, Starts
  <2>3. CASE a = tx.call.agent /\ open[a] = tx.call /\ answer'[a] = reply
    <3>1. tx.call.boot = boot[a] /\ tx.call.seq = seq[a] /\ tx.call.ops = ops[a]
      BY <1>1, <2>3 DEF LeaseInv, ClientInv, OpenCurrent, CallOK
    <3> QED  BY <1>1, <1>2, <1>3, <1>4, <2>3, <3>1 DEF AnswerOK, TxOf, CallOK, Starts
  <2> QED  BY <1>6, <2>2, <2>3
<1>12. ASSUME clock < deadline[a]
       PROVE  /\ boot[a] \in Starts(a) /\ syncs'[a][boot[a]] # NoState /\ deadline[a] \in Int
              /\ deadline[a] <= syncs'[a][boot[a]].at + TTL
              /\ Unsettled(a)' \subseteq Unsettled(a)
  <2>1. /\ boot[a] \in Starts(a) /\ syncs[a][boot[a]] # NoState /\ deadline[a] \in Int
        /\ deadline[a] <= syncs[a][boot[a]].at + TTL
        /\ TxOf(a, boot[a]) => deadline[a] <= tx.until
    BY <1>9, <1>12 DEF UseOK, Entitled, ClientOK
  <2>2. \/ TxOf(a, boot[a]) /\ syncs'[a][boot[a]] = Published
        \/ ~TxOf(a, boot[a]) /\ syncs'[a][boot[a]] = syncs[a][boot[a]]
    BY <1>7, <1>12, <2>1
  <2>3. deadline[a] <= syncs'[a][boot[a]].at + TTL /\ syncs'[a][boot[a]] # NoState
    BY <1>1, <1>3, <2>1, <2>2, LeaseParameters
  <2>4. syncs[a][boot[a]].seq \in Int /\ (TxOf(a, boot[a]) => syncs[a][boot[a]].seq < tx.call.seq)
    BY <1>1, <2>1 DEF LeaseInv, ServerInv, StateOK, Settled, TxOf, CallOK
  <2>5. ASSUME NEW call \in Unsettled(a)'  PROVE call \in Unsettled(a)
    <3>1. /\ call \in calls /\ call.agent = a /\ call.boot = boot[a]
          /\ call.seq > syncs'[a][boot[a]].seq
      <4>1. CallOK(call)  BY <1>1, <2>5 DEF Unsettled, LeaseInv, ClientInv, Pending
      <4>2. syncs'[a][boot[a]].seq \in Int  BY <1>1, <1>3, <2>2, <2>4 DEF CallOK
      <4> QED  BY <1>1, <2>3, <2>5, <4>1, <4>2 DEF Unsettled, Settled, CallOK
    <3>2. CallOK(call)  BY <3>1 DEF LeaseInv, ClientInv, Pending
    <3>3. ~(call.seq <= syncs[a][boot[a]].seq)
      BY <1>1, <1>3, <2>2, <2>4, <3>1, <3>2 DEF CallOK
    <3> QED  BY <2>1, <3>1, <3>3 DEF Unsettled, Settled
  <2> QED  BY <2>1, <2>3, <2>5
<1>13. Entitled(a)'
  BY <1>1, <1>9, <1>12 DEF UseOK, Entitled, TxOf, Starts
<1>14. ASSUME NEW l \in Locals  PROVE HeldOK(a, l)'
  BY <1>1, <1>9, <1>12 DEF UseOK, HeldOK, MayUse, ServedIn, TxOf
<1> QED  BY <1>10, <1>11, <1>13, <1>14 DEF UseOK

-----------------------------------------------------------------------------
(* The agents' steps again: what they do to the server's promises.          *)
LEMMA AgentKeepsServer ==
  ASSUME LeaseInv, ServerKept, settings' = settings  PROVE ServerInv'
<1>1. UNCHANGED <<clock, rows, syncs, licence, tx, settings>>  BY DEF ServerKept
<1>2. SyncsShaped'  BY <1>1 DEF LeaseInv, ServerInv, SyncsShaped, Starts
<1>3. ASSUME NEW a \in Agents, NEW b \in Starts(a)'  PROVE StateOK(a, b)' /\ Reserved(a, b)'
  BY <1>1, <1>3 DEF LeaseInv, ServerInv, StateOK, Reserved, ReservedIn, TxOf, Starts
<1>4. TxOK'  BY <1>1 DEF LeaseInv, ServerInv, TxOK, TxKeeps, Settled, Starts
<1> QED  BY <1>1, <1>2, <1>3, <1>4 DEF LeaseInv, ServerInv

LEMMA OthersKeepUse ==
  ASSUME LeaseInv, NEW a \in Agents, OnlyOf(a), UseOK(a)',
         \A call \in calls' : call \in calls \/ call.agent = a
  PROVE  UseInv'
<1>1. SUFFICES ASSUME NEW b \in Agents, b # a  PROVE UseOK(b)'
  BY DEF UseInv
<1>2. /\ boot'[b] = boot[b] /\ seq'[b] = seq[b] /\ ops'[b] = ops[b] /\ desired'[b] = desired[b]
      /\ held'[b] = held[b] /\ deadline'[b] = deadline[b] /\ open'[b] = open[b]
      /\ answer'[b] = answer[b]
      /\ UNCHANGED <<clock, rows, syncs, licence, tx, settings>>
  BY <1>1 DEF OnlyOf, ServerKept
<1>3. UseOK(b)  BY DEF LeaseInv, UseInv
<1>4. Unsettled(b)' \subseteq Unsettled(b)
  BY <1>1, <1>2 DEF Unsettled, Settled
<1>5. AnswerTimed(b)' /\ AnswerOK(b)' /\ Entitled(b)'
  BY <1>2, <1>3, <1>4 DEF UseOK, AnswerTimed, AnswerOK, Usable, Entitled, TxOf, Starts
<1>6. ASSUME NEW l \in Locals  PROVE HeldOK(b, l)'
  BY <1>2, <1>3, <1>4 DEF UseOK, HeldOK, MayUse, ServedIn, TxOf
<1> QED  BY <1>5, <1>6 DEF UseOK

LEMMA DroppedUse ==
  ASSUME NEW a, clock' \in Nat, answer'[a] = NoAnswer, deadline'[a] = 0  PROVE UseOK(a)'
<1>1. ~(clock' < deadline'[a])  OBVIOUS
<1> QED  BY <1>1 DEF UseOK, AnswerTimed, AnswerOK, Usable, Entitled, HeldOK, MayUse

LEMMA UseDropped ==
  ASSUME LeaseInv, NEW a \in Agents,
         EndController(a) \/ Suspend(a) \/ PassDeadline(a) \/ Restart(a)
  PROVE  UseOK(a)'
<1>1. clock' \in Nat
  BY DEF LeaseInv, TimesInv, EndController, Suspend, PassDeadline, Restart, ServerKept
<1>2. answer'[a] = NoAnswer
  BY DisconnectFits DEF LeaseInv, EndController, Suspend, PassDeadline, Restart
<1>3. CASE EndController(a) \/ Suspend(a) \/ PassDeadline(a)
  BY <1>1, <1>2, <1>3, DropAllFits, DroppedUse DEF LeaseInv, EndController, Suspend, PassDeadline
<1>4. CASE Restart(a)
  <2>1. deadline'[a] = 0  BY <1>4 DEF Restart, LeaseInv, ClientInv, ClientsShaped, OnAgents
  <2> QED  BY <1>1, <1>2, <2>1, DroppedUse
<1> QED  BY <1>3, <1>4

(* Steps between two requests: no answer is at hand, and what stays held    *)
(* stays desired as it was.                                                 *)
LEMMA UseBetween ==
  ASSUME LeaseInv, NEW a \in Agents, OnlyOf(a), boot'[a] = boot[a], deadline'[a] = deadline[a],
         answer'[a] = NoAnswer \/ (answer'[a] = answer[a] /\ open[a] = NoCall),
         \A l \in Locals : held'[a][l] # NoLease
           => held'[a][l] = held[a][l] /\ desired'[a][l] = desired[a][l],
         \A call \in Unsettled(a)' : call \in Unsettled(a) \/
           /\ call.sent = clock
           /\ \A l \in Locals : held'[a][l] # NoLease => NoRelease(call.ops, l)
  PROVE  UseOK(a)'
<1>1. UNCHANGED <<clock, rows, syncs, licence, tx, settings>>
  BY DEF OnlyOf, ServerKept
<1>2. UseOK(a) /\ ClientOK(a) /\ clock \in Nat
  BY DEF LeaseInv, UseInv, ClientInv, TimesInv
<1>3. AnswerTimed(a)' /\ AnswerOK(a)'
  BY <1>1, <1>2 DEF UseOK, AnswerTimed, AnswerOK, Usable
<1>4. Entitled(a)'
  <2>1. SUFFICES ASSUME clock < deadline[a]  PROVE Entitled(a)'
    BY <1>1 DEF Entitled
  <2>2. /\ boot[a] \in Starts(a) /\ deadline[a] <= licence[a].until
        /\ syncs[a][boot[a]] # NoState /\ deadline[a] <= syncs[a][boot[a]].at + TTL
        /\ \A call \in Unsettled(a) : deadline[a] <= call.sent + TTL
        /\ TxOf(a, boot[a]) => deadline[a] <= tx.until
        /\ deadline[a] \in Int
    BY <1>2, <2>1 DEF UseOK, Entitled, ClientOK
  <2>3. deadline[a] <= clock + TTL
    <3>1. syncs[a][boot[a]].at \in Int /\ syncs[a][boot[a]].at <= clock
      BY <2>2 DEF LeaseInv, ServerInv, StateOK
    <3> QED  BY <1>2, <2>2, <3>1, LeaseParameters
  <2>4. \A call \in Unsettled(a)' : deadline[a] <= call.sent + TTL
    BY <2>2, <2>3
  <2> QED  BY <1>1, <2>2, <2>4 DEF Entitled, TxOf, Starts
<1>5. ASSUME NEW l \in Locals  PROVE HeldOK(a, l)'
  <2>1. SUFFICES ASSUME MayUse(a, l)'  PROVE HeldOK(a, l)'
    BY DEF HeldOK
  <2>2. MayUse(a, l) /\ held'[a][l] = held[a][l] /\ desired'[a][l] = desired[a][l]
        /\ held'[a][l] # NoLease
    BY <1>1, <2>1 DEF MayUse
  <2> QED  BY <1>1, <1>2, <2>2 DEF UseOK, HeldOK, ServedIn, TxOf
<1> QED  BY <1>3, <1>4, <1>5 DEF UseOK

LEMMA UnsettledKept ==
  ASSUME NEW a, UNCHANGED <<calls, syncs>>, boot'[a] = boot[a]
  PROVE  Unsettled(a)' = Unsettled(a)
BY DEF Unsettled, Settled

LEMMA UseQuiet ==
  ASSUME LeaseInv, NEW a \in Agents, FailSync(a) \/ Resume(a)
  PROVE  UseOK(a)'
<1>1. UNCHANGED <<clock, rows, syncs, licence, tx, settings, calls, boot, seq, ops, desired,
                  held, deadline>>
  BY DEF FailSync, Resume, ServerKept, hostedVars
<1>2. UseOK(a) /\ Unsettled(a)' = Unsettled(a)
  BY <1>1, UnsettledKept DEF LeaseInv, UseInv
<1>3. answer'[a] = NoAnswer \/ (answer' = answer /\ open' = open)
  BY DisconnectFits DEF LeaseInv, FailSync, Resume
<1>4. AnswerTimed(a)' /\ AnswerOK(a)'
  BY <1>1, <1>2, <1>3 DEF UseOK, AnswerTimed, AnswerOK, Usable, TxOf, Starts
<1>5. Entitled(a)'
  BY <1>1, <1>2 DEF UseOK, Entitled, TxOf, Starts
<1>6. ASSUME NEW l \in Locals  PROVE HeldOK(a, l)'
  BY <1>1, <1>2 DEF UseOK, HeldOK, MayUse, ServedIn, TxOf
<1> QED  BY <1>4, <1>5, <1>6 DEF UseOK

LEMMA UseAdd ==
  ASSUME LeaseInv, NEW a \in Agents, NEW l \in Locals, NEW p \in Platforms, AddAccount(a, l, p)
  PROVE  UseOK(a)'
<1>1. /\ OnlyOf(a) /\ ClientOK(a) /\ ClientsShaped /\ open[a] = NoCall /\ desired[a][l] = NoPlatform
      /\ UNCHANGED <<boot, deadline, answer, held, calls, syncs>>
      /\ desired' = [desired EXCEPT ![a][l] = p]
  BY TouchesByAgent, TouchesOnly DEF LeaseInv, ClientInv, AddAccount, ServerKept
<1>2. ASSUME NEW k \in Locals, held[a][k] # NoLease  PROVE desired'[a][k] = desired[a][k]
  <2>1. k # l  BY <1>1, <1>2, HeldIsDesired
  <2> QED  BY <1>1, <2>1 DEF ClientsShaped, OnAgents
<1>3. Unsettled(a)' = Unsettled(a)  BY <1>1, UnsettledKept
<1> QED  BY <1>1, <1>2, <1>3, UseBetween

LEMMA UseRemove ==
  ASSUME LeaseInv, NEW a \in Agents, NEW l \in Locals, RemoveAccount(a, l)
  PROVE  UseOK(a)'
<1>1. /\ OnlyOf(a) /\ ClientOK(a) /\ ClientsShaped /\ open[a] = NoCall
      /\ UNCHANGED <<boot, deadline, answer, calls, syncs>>
      /\ desired' = [desired EXCEPT ![a][l] = NoPlatform]
      /\ held' = [held EXCEPT ![a] = [held[a] EXCEPT ![l] = NoLease]]
  BY TouchesByAgent, TouchesOnly DEF LeaseInv, ClientInv, RemoveAccount, ServerKept
<1>2. ASSUME NEW k \in Locals, held'[a][k] # NoLease
      PROVE  held'[a][k] = held[a][k] /\ desired'[a][k] = desired[a][k]
  <2>1. held'[a] = [held[a] EXCEPT ![l] = NoLease] /\ held[a] = [m \in Locals |-> held[a][m]]
    BY <1>1 DEF ClientsShaped, OnAgents, ClientOK
  <2>2. k # l  BY <1>2, <2>1
  <2> QED  BY <1>1, <2>1, <2>2 DEF ClientsShaped, OnAgents
<1>3. Unsettled(a)' = Unsettled(a)  BY <1>1, UnsettledKept
<1> QED  BY <1>1, <1>2, <1>3, UseBetween

LEMMA UseSend ==
  ASSUME LeaseInv, NEW a \in Agents, SendSync(a)
  PROVE  UseOK(a)' /\ \A call \in calls' : call \in calls \/ call.agent = a
<1>1. /\ OnlyOf(a) /\ ClientOK(a) /\ open[a] = NoCall
      /\ UNCHANGED <<boot, deadline, answer, held, desired, syncs>>
  BY TouchesByAgent, TouchesOnly DEF LeaseInv, ClientInv, SendSync, ServerKept
<1>2. PICK call : calls' = calls \cup {call} /\ call.agent = a /\ call.ops = ops[a] /\ call.sent = clock
  <2> DEFINE sync == [agent |-> a, boot |-> boot[a], seq |-> seq'[a], ops |-> ops[a],
                      sent |-> clock]
  <2>1. calls' = calls \cup {sync} /\ sync.agent = a /\ sync.ops = ops[a] /\ sync.sent = clock
    BY DEF SendSync
  <2> HIDE DEF sync
  <2> QED  BY <2>1
<1>3. ASSUME NEW l \in Locals, held[a][l] # NoLease  PROVE NoRelease(ops[a], l)
  BY <1>1, <1>3 DEF ClientOK, BodyFits, Asks, OneOpPerLocal, NoRelease
<1>4. \A c \in Unsettled(a)' : c \in Unsettled(a) \/ c = call
  BY <1>1, <1>2 DEF Unsettled, Settled
<1>5. UseOK(a)'
  BY <1>1, <1>2, <1>3, <1>4, UseBetween
<1> QED  BY <1>2, <1>5

(* A usable answer: every request of this start is settled, and what it     *)
(* grants is desired and reserved.                                          *)
LEMMA UsableAnswer ==
  ASSUME LeaseInv, NEW a \in Agents, Usable(a)
  PROVE  /\ Unsettled(a) = {} /\ ~TxOf(a, boot[a]) /\ boot[a] \in Starts(a)
         /\ answer[a].until \in Int /\ clock < answer[a].until
         /\ syncs[a][boot[a]] # NoState /\ answer[a].until <= licence[a].until
         /\ answer[a].until <= syncs[a][boot[a]].at + TTL
         /\ Answers(answer[a].results, ops[a])
         /\ ServesAll(rows, a, boot[a], answer[a].results, answer[a].until)
         /\ tx # NoTx => ServesAll(tx.rows, a, boot[a], answer[a].results, answer[a].until)
<1> DEFINE state == syncs[a][boot[a]]
<1>1. /\ boot[a] \in Starts(a) /\ ~TxOf(a, boot[a])
      /\ state # NoState /\ state.seq = seq[a] /\ state.ops = ops[a]
      /\ answer[a].results = state.results /\ answer[a].until = state.until
      /\ answer[a].until \in Int /\ clock < answer[a].until
  BY DEF LeaseInv, UseInv, UseOK, AnswerOK, AnswerTimed, Usable
<1>2. StateOK(a, boot[a]) /\ Reserved(a, boot[a])
  BY <1>1 DEF LeaseInv, ServerInv
<1>3. Unsettled(a) = {}
  <2>1. SUFFICES ASSUME NEW call \in Unsettled(a)  PROVE FALSE
    OBVIOUS
  <2>2. call.agent = a /\ call.boot = boot[a] /\ ~Settled(call) /\ CallOK(call)
    BY DEF Unsettled, LeaseInv, ClientInv, Pending
  <2> QED  BY <1>1, <2>2 DEF Settled, CallOK
<1>4. /\ answer[a].until <= licence[a].until /\ answer[a].until <= state.at + TTL
      /\ Answers(answer[a].results, ops[a])
  BY <1>1, <1>2 DEF StateOK
<1>5. /\ ServesAll(rows, a, boot[a], answer[a].results, answer[a].until)
      /\ tx # NoTx => ServesAll(tx.rows, a, boot[a], answer[a].results, answer[a].until)
  BY <1>1, <1>2 DEF Reserved, ReservedIn
<1> QED  BY <1>1, <1>3, <1>4, <1>5

LEMMA UsableGrant ==
  ASSUME LeaseInv, NEW a \in Agents, Usable(a), NEW r \in Owned(a)
  PROVE  /\ r.local \in Locals /\ r.platform \in Platforms /\ r.platform = desired[a][r.local]
         /\ Serves(rows, a, boot[a], r.local, r.platform, r.epoch, answer[a].until)
         /\ tx # NoTx => Serves(tx.rows, a, boot[a], r.local, r.platform, r.epoch, answer[a].until)
<1>1. r \in answer[a].results /\ r.status = "owned"  BY DEF Owned
<1>2. ClientOK(a)  BY DEF LeaseInv, ClientInv
<1>3. /\ Answers(answer[a].results, ops[a])
      /\ ServesAll(rows, a, boot[a], answer[a].results, answer[a].until)
      /\ tx # NoTx => ServesAll(tx.rows, a, boot[a], answer[a].results, answer[a].until)
  BY UsableAnswer
<1>4. PICK op \in ops[a] : op.local = r.local /\ op.platform = r.platform /\ op.action # "release"
  BY <1>1, <1>3 DEF Answers
<1>5. op.platform \in Platforms /\ op.local \in Locals /\ op.platform = desired[a][op.local]
  BY <1>2, <1>4 DEF ClientOK, BodyFits, OneOpPerLocal, Follows
<1> QED  BY <1>1, <1>3, <1>4, <1>5 DEF ServesAll

LEMMA UseApply ==
  ASSUME LeaseInv, NEW a \in Agents, ApplyBatch(a)
  PROVE  UseOK(a)'
<1>1. /\ Usable(a) /\ ClientOK(a) /\ ClientsShaped /\ OnlyOf(a) /\ clock \in Nat
      /\ UNCHANGED <<clock, rows, syncs, licence, tx, settings, calls, boot, desired>>
  BY TouchesByAgent, TouchesOnly
  DEF LeaseInv, TimesInv, ClientInv, ApplyBatch, ServerKept
<1>2. held'[a] = LeasesAfter(a) /\ deadline'[a] = answer[a].until
  BY <1>1 DEF ApplyBatch, ClientsShaped, OnAgents
<1>3. answer'[a] = NoAnswer  BY DisconnectFits DEF LeaseInv, ApplyBatch
<1>4. /\ Unsettled(a) = {} /\ ~TxOf(a, boot[a]) /\ boot[a] \in Starts(a)
      /\ answer[a].until \in Int /\ clock < answer[a].until
      /\ syncs[a][boot[a]] # NoState /\ answer[a].until <= licence[a].until
      /\ answer[a].until <= syncs[a][boot[a]].at + TTL
      /\ Answers(answer[a].results, ops[a])
  BY <1>1, UsableAnswer
<1>5. Unsettled(a)' = {}  BY <1>1, <1>4, UnsettledKept
<1>6. AnswerTimed(a)' /\ AnswerOK(a)'
  BY <1>3 DEF AnswerTimed, AnswerOK, Usable
<1>7. Entitled(a)'
  BY <1>1, <1>2, <1>4, <1>5 DEF Entitled, TxOf, Starts
<1>8. ASSUME NEW l \in Locals  PROVE HeldOK(a, l)'
  <2>1. SUFFICES ASSUME held'[a][l] # NoLease  PROVE HeldOK(a, l)'
    BY DEF HeldOK, MayUse
  <2>2. PICK r \in Owned(a) : r.local = l /\ r.epoch = held'[a][l]
    <3>1. CASE \E r \in Owned(a) : r.local = l
      <4>1. LeasesAfter(a)[l] = (CHOOSE r \in Owned(a) : r.local = l).epoch
        BY <3>1 DEF LeasesAfter
      <4> QED  BY <1>2, <3>1, <4>1
    <3>2. CASE ~\E r \in Owned(a) : r.local = l
      <4>1. held[a][l] # NoLease /\ ~Answered(a, l)
        BY <1>2, <2>1, <3>2 DEF LeasesAfter
      <4>2. \E op \in ops[a] : op.local = l
        BY <1>1, <4>1 DEF ClientOK, BodyFits, Asks
      <4> QED  BY <1>4, <4>1, <4>2 DEF Answers, Answered
    <3> QED  BY <3>1, <3>2
  <2>3. /\ r.platform = desired[a][l]
        /\ Serves(rows, a, boot[a], l, r.platform, r.epoch, answer[a].until)
        /\ tx # NoTx => Serves(tx.rows, a, boot[a], l, r.platform, r.epoch, answer[a].until)
    BY <1>1, <2>2, UsableGrant
  <2>4. ServedIn(rows, a, l)' /\ (tx # NoTx => ServedIn(tx.rows, a, l)')
    BY <1>1, <1>2, <2>2, <2>3 DEF ServedIn
  <2> QED  BY <1>1, <1>4, <1>5, <2>4 DEF HeldOK, TxOf
<1> QED  BY <1>6, <1>7, <1>8 DEF UseOK

-----------------------------------------------------------------------------
(* Every step keeps the invariant.                                          *)
Kept == ClientInv' /\ ServerInv' /\ UseInv'

LEMMA AgentPreserves ==
  ASSUME LeaseInv, NEW a \in Installed,
         \/ ControllerNext(a)
         \/ FailSync(a) \/ Suspend(a) \/ Shutdown(a) \/ Restart(a)
         \/ \E l \in Locals : RemoveAccount(a, l) \/ \E p \in Platforms : AddAccount(a, l, p)
  PROVE  Kept
<1>1. a \in Agents /\ clock \in Nat /\ ClientInv
  BY AgentTypes DEF LeaseInv, TimesInv
<1>2. ASSUME TouchesAll(a), AgentKeeps(a), UseOK(a)',
             \A call \in calls' : call \in calls \/ call.agent = a
      PROVE  Kept
  <2>1. OnlyOf(a) /\ ServerKept /\ settings' = settings
    BY <1>2 DEF AgentKeeps, TouchesAll
  <2> QED
    BY <1>1, <1>2, <2>1, KeepsSuffice, AgentKeepsServer, OthersKeepUse DEF Kept
<1>3. CASE SendSync(a)
  BY <1>1, <1>2, <1>3, TouchesByAgent, KeepsSend, UseSend
<1>4. CASE ApplyBatch(a)
  <2>1. GrantsDesired(a)
    BY <1>1, UsableGrant, HostedParameters DEF GrantsDesired
  <2>2. Usable(a) => answer[a].until \in Int
    BY <1>1, UsableAnswer
  <2>3. calls' = calls  BY <1>4 DEF ApplyBatch
  <2> QED
    BY <1>1, <1>2, <1>4, <2>1, <2>2, <2>3, TouchesByAgent, KeepsApply, UseApply
<1>5. CASE EndController(a)
  <2>1. \A call \in calls' : call \in calls \/ call.agent = a
    BY <1>5 DEF EndController
  <2> QED  BY <1>1, <1>2, <1>5, <2>1, TouchesByAgent, KeepsEnd, UseDropped
<1>6. CASE Suspend(a)
  BY <1>1, <1>2, <1>6, TouchesByAgent, KeepsSuspend, UseDropped DEF Suspend
<1>7. CASE PassDeadline(a)
  BY <1>1, <1>2, <1>7, TouchesByAgent, KeepsDeadline, UseDropped DEF PassDeadline
<1>8. CASE Restart(a)
  BY <1>1, <1>2, <1>8, TouchesByAgent, KeepsRestart, UseDropped DEF Restart
<1>9. CASE FailSync(a) \/ Resume(a)
  <2>1. calls' = calls  BY <1>9 DEF FailSync, Resume
  <2> QED  BY <1>1, <1>2, <1>9, <2>1, TouchesByAgent, KeepsQuiet, UseQuiet
<1>10. ASSUME NEW l \in Locals, RemoveAccount(a, l)  PROVE Kept
  <2>1. calls' = calls  BY <1>10 DEF RemoveAccount
  <2> QED  BY <1>1, <1>2, <1>10, <2>1, TouchesByAgent, KeepsRemove, UseRemove
<1>11. ASSUME NEW l \in Locals, NEW p \in Platforms, AddAccount(a, l, p)  PROVE Kept
  <2>1. calls' = calls  BY <1>11 DEF AddAccount
  <2> QED  BY <1>1, <1>2, <1>11, <2>1, TouchesByAgent, KeepsAdd, UseAdd
<1> QED
  BY <1>3, <1>4, <1>5, <1>6, <1>7, <1>8, <1>9, <1>10, <1>11
  DEF ControllerNext, RefuseGrant, Shutdown

LEMMA ServerLeavesClients ==
  ASSUME LeaseInv, UNCHANGED <<hostedVars, open>>, OnAgents(answer'), clock' \in Nat, clock <= clock',
         calls' \subseteq calls, tx' = NoTx \/ tx'.call \in calls \/ (tx # NoTx /\ tx'.call = tx.call)
  PROVE  ClientInv'
<1>1. Pending' \subseteq Pending  BY DEF Pending
<1>2. clock \in Int /\ clock' \in Int  BY DEF LeaseInv, TimesInv
<1> QED  BY <1>1, <1>2, ClientsUntouched DEF LeaseInv

LEMMA QuietPreserves ==
  ASSUME LeaseInv, QuietServer, OnAgents(answer'), \A a \in Agents : QuietAnswer(a)
  PROVE  Kept
<1>1. ClientInv'
  <2>1. tx' = NoTx \/ (tx # NoTx /\ tx'.call = tx.call)  BY DEF QuietServer
  <2> QED  BY <2>1, ServerLeavesClients DEF QuietServer
<1> QED  BY <1>1, QuietKeepsServer, QuietKeepsUse DEF Kept

LEMMA AnswersStay ==
  ASSUME LeaseInv, answer' = answer
  PROVE  OnAgents(answer') /\ \A a \in Agents : QuietAnswer(a)
BY DEF LeaseInv, ClientInv, ClientsShaped, OnAgents, QuietAnswer

LEMMA LicencesStay ==
  ASSUME LeaseInv, licence' = licence, clock' \in Nat, clock <= clock'
  PROVE  \A a \in Agents : /\ licence'[a].until \in Int /\ licence[a].until <= licence'[a].until
                           /\ licence'[a].until <= clock' + LicenceTerm
BY LeaseParameters DEF LeaseInv, TimesInv, LicencesTyped, ServerInv

LEMMA HandlerPreserves ==
  ASSUME LeaseInv, LeaseServerNext, UNCHANGED hostedVars
  PROVE  Kept
<1>1. clock \in Nat /\ clock <= clock /\ ClientInv  BY DEF LeaseInv, TimesInv
<1>2. ASSUME UNCHANGED <<clock, rows, syncs, open, licence>>, tx' = tx \/ tx' = NoTx,
             calls' \subseteq calls
      PROVE  QuietServer
  BY <1>1, <1>2, LicencesStay DEF QuietServer
<1>3. ASSUME NEW call \in calls, NEW at \in HandlerTimes(call), RefuseUnauthorized(call, at)
      PROVE  Kept
  <2>1. call.agent \in Agents  BY DEF LeaseInv, TimesInv, CallsTyped
  <2>2. QuietServer /\ Reply(call, TRUE, {}, 0)
    BY <1>2, <1>3 DEF RefuseUnauthorized
  <2> QED  BY <1>1, <2>1, <2>2, RefusalShape, QuietPreserves
<1>4. ASSUME NEW call \in calls, NEW at \in HandlerTimes(call), ReplayStored(call, at)
      PROVE  Kept
  <2>1. QuietServer /\ tx' = NoTx  BY <1>2, <1>4 DEF ReplayStored
  <2>2. UseInv' /\ OnAgents(answer')  BY <1>4, <2>1, ReplayKeepsUse
  <2>3. ClientInv'  BY <1>1, <2>1, <2>2, ServerLeavesClients DEF QuietServer
  <2> QED  BY <2>1, <2>2, <2>3, QuietKeepsServer DEF Kept
<1>5. ASSUME NEW call \in calls, NEW at \in HandlerTimes(call), RefuseConflict(call, at)
      PROVE  Kept
  <2>1. QuietServer /\ answer' = answer  BY <1>2, <1>5 DEF RefuseConflict
  <2> QED  BY <2>1, AnswersStay, QuietPreserves
<1>6. ASSUME NEW call \in calls, NEW at \in HandlerTimes(call), BeginSync(call, at)
      PROVE  Kept
  <2>1. /\ tx'.call = call /\ UNCHANGED <<clock, open, answer>> /\ calls' \subseteq calls
    BY <1>6, BeginTx
  <2>2. ClientInv'  BY <1>1, <2>1, AnswersStay, ServerLeavesClients
  <2> QED  BY <1>6, <2>2, BeginKeepsServer, BeginKeepsUse DEF Kept
<1>7. ASSUME tx # NoTx, NEW op \in tx.todo, OneOperation(op)  PROVE Kept
  <2>1. tx'.call = tx.call /\ UNCHANGED <<clock, open, answer, calls>>
    BY <1>7, OperationTx
  <2>2. ClientInv'  BY <1>1, <1>7, <2>1, AnswersStay, ServerLeavesClients
  <2> QED  BY <1>7, <2>2, OperationKeepsServer, OperationKeepsUse DEF Kept
<1>8. CASE CommitSync
  <2>1. tx' = NoTx /\ UNCHANGED <<clock, calls, open>>  BY <1>8 DEF CommitSync
  <2>2. UseInv' /\ OnAgents(answer')  BY <1>8, CommitKeepsUse
  <2>3. ClientInv'  BY <1>1, <2>1, <2>2, ServerLeavesClients
  <2> QED  BY <1>8, <2>2, <2>3, CommitKeepsServer DEF Kept
<1>9. CASE SaveKey
  <2>1. QuietServer /\ answer' = answer  BY <1>2, <1>9 DEF SaveKey
  <2> QED  BY <2>1, AnswersStay, QuietPreserves
<1> QED
  BY <1>3, <1>4, <1>5, <1>6, <1>7, <1>8, <1>9 DEF LeaseServerNext

LEMMA OutsidePreserves ==
  ASSUME LeaseInv, UNCHANGED hostedVars,
         \/ LeaseTick \/ RollbackSync \/ LoadKey
         \/ \E a \in Agents : RenewLicence(a) \/ RevokeLicence(a)
  PROVE  Kept
<1>1. clock \in Nat /\ clock <= clock  BY DEF LeaseInv, TimesInv
<1>2. CASE LeaseTick \/ RollbackSync \/ LoadKey
  <2>1. /\ UNCHANGED <<rows, syncs, open, licence, answer, calls>> /\ (tx' = tx \/ tx' = NoTx)
        /\ clock' \in Nat /\ clock <= clock'
    BY <1>1, <1>2 DEF LeaseTick, RollbackSync, LoadKey
  <2>2. QuietServer  BY <2>1, LicencesStay DEF QuietServer
  <2> QED  BY <2>1, <2>2, AnswersStay, QuietPreserves
<1>3. ASSUME NEW a \in Agents, RenewLicence(a) \/ RevokeLicence(a)  PROVE Kept
  <2>1. UNCHANGED <<clock, rows, syncs, open, answer, calls, tx>>
    BY <1>3 DEF RenewLicence, RevokeLicence
  <2>2. ASSUME NEW b \in Agents
        PROVE  /\ licence'[b].until \in Int /\ licence[b].until <= licence'[b].until
               /\ licence'[b].until <= clock + LicenceTerm
    <3>1. /\ licence[b].until \in Int /\ licence[b].until <= clock + LicenceTerm
          /\ licence'[b].until \in {licence[b].until, clock + LicenceTerm}
      <4>1. /\ licence[b].until \in Int /\ licence[b].until <= clock + LicenceTerm
            /\ licence = [c \in Agents |-> licence[c]]
            /\ DOMAIN licence[a] = {"usable", "until", "revoked"}
        BY DEF LeaseInv, TimesInv, LicencesTyped, ServerInv
      <4> DEFINE renewed == [licence[a] EXCEPT !.until = clock + LicenceTerm]
                 revoked == [licence[a] EXCEPT !.usable = FALSE, !.revoked = clock]
      <4>2. licence' = [licence EXCEPT ![a] = renewed] \/ licence' = [licence EXCEPT ![a] = revoked]
        BY <1>3 DEF RenewLicence, RevokeLicence
      <4>3. renewed.until = clock + LicenceTerm /\ revoked.until = licence[a].until
        BY <4>1
      <4> HIDE DEF renewed, revoked
      <4> QED  BY <4>1, <4>2, <4>3
    <3> QED  BY <1>1, <3>1, LeaseParameters
  <2>3. QuietServer  BY <1>1, <2>1, <2>2 DEF QuietServer
  <2> QED  BY <2>1, <2>3, AnswersStay, QuietPreserves
<1> QED  BY <1>2, <1>3

LEMMA LeasesAtStart == HostedInit => LeaseInv
<1>1. SUFFICES ASSUME HostedInit  PROVE LeaseInv
  OBVIOUS
<1>2. /\ settings \in Settings /\ clock = 0 /\ tx = NoTx /\ calls = {}
      /\ rows = [p \in Platforms |-> NoRow]
      /\ syncs = [a \in Agents |-> [b \in 1..settings.starts[a] |-> NoState]]
      /\ licence = [a \in Agents |-> [usable |-> TRUE, until |-> LicenceTerm, revoked |-> 0]]
      /\ open = [a \in Agents |-> NoCall] /\ answer = [a \in Agents |-> NoAnswer]
      /\ boot = [a \in Agents |-> 1] /\ seq = [a \in Agents |-> 1]
      /\ desired = settings.wants
      /\ ops = [a \in Agents |-> NextOps(settings.wants[a], NothingHeld)]
      /\ held = [a \in Agents |-> NothingHeld] /\ deadline = [a \in Agents |-> 0]
  BY <1>1 DEF HostedInit
<1>3. /\ desired \in [Agents -> [Locals -> Platforms \cup {NoPlatform}]]
      /\ settings.starts \in [Agents -> Nat]
  BY <1>2, HostedParameters
<1>4. ClientsShaped
  BY <1>2, <1>3 DEF ClientsShaped, OnAgents
<1>5. ASSUME NEW a \in Agents  PROVE ClientOK(a) /\ OpenCurrent(a)
  <2>1. BodyFits(ops[a], desired[a], held[a])
    BY <1>2, <1>3, NextOpsFit, NothingHeldFits
  <2> QED  BY <1>2, <1>3, <2>1, NothingHeldFits DEF ClientOK, OpenCurrent
<1>6. ClientInv  BY <1>2, <1>4, <1>5 DEF ClientInv, Pending
<1>7. SyncsShaped
  BY <1>2 DEF SyncsShaped, Starts
<1>8. ASSUME NEW a \in Agents, NEW b \in Starts(a)  PROVE StateOK(a, b) /\ Reserved(a, b)
  BY <1>2 DEF StateOK, Reserved, ReservedIn, Starts
<1>9. ServerInv
  BY <1>2, <1>7, <1>8, LeaseParameters DEF ServerInv, TxOK
<1>10. UseInv
  BY <1>2, LeaseParameters DEF UseInv, UseOK, AnswerTimed, AnswerOK, Usable, Entitled, HeldOK, MayUse
<1> QED  BY <1>1, <1>6, <1>9, <1>10, TimesAtStart, TermsAtStart DEF LeaseInv

LEMMA LeasesPreserved == LeaseInv /\ [HostedNext]_allVars => LeaseInv'
<1>1. SUFFICES ASSUME LeaseInv, [HostedNext]_allVars  PROVE LeaseInv'
  OBVIOUS
<1>2. TimesInv' /\ TermsInv'
  BY <1>1, TimesPreserved, TermsPreserved DEF LeaseInv, allVars
<1>3. ASSUME Kept  PROVE LeaseInv'
  BY <1>2, <1>3 DEF Kept, LeaseInv
<1>4. CASE UNCHANGED allVars
  <2>1. UNCHANGED <<clock, rows, syncs, licence, tx, calls, open, answer, hostedVars>>
    BY <1>4 DEF allVars, leaseVars
  <2>2. clock \in Nat /\ clock <= clock  BY <1>1 DEF LeaseInv, TimesInv
  <2>3. QuietServer  BY <1>1, <2>1, <2>2, LicencesStay DEF QuietServer
  <2> QED  BY <1>1, <1>3, <2>1, <2>3, AnswersStay, QuietPreserves
<1>5. CASE HostedNext
  BY <1>1, <1>3, <1>5, AgentPreserves, HandlerPreserves, OutsidePreserves, AgentTypes
  DEF HostedNext, Disturbance
<1> QED  BY <1>1, <1>4, <1>5

LEMMA HeldIsServed == LeaseInv => HeldLeaseIsServed
<1>1. SUFFICES ASSUME LeaseInv, NEW a \in Agents, NEW l \in Locals, MayUse(a, l)
               PROVE  LET row == rows[desired[a][l]]
                      IN  /\ LiveAt(row, clock) /\ row.until >= deadline[a]
                          /\ row.agent = a /\ row.boot = boot[a] /\ row.local = l
                          /\ row.epoch = held[a][l]
  BY DEF HeldLeaseIsServed
<1> DEFINE p == desired[a][l]
<1>2. p \in Platforms /\ RowServes(rows[p], a, boot[a], l, held[a][l], deadline[a])
  BY <1>1 DEF LeaseInv, UseInv, UseOK, HeldOK, ServedIn, Serves
<1>3. rows[p].until \in Int /\ deadline[a] \in Int /\ clock < deadline[a] /\ clock \in Nat
  BY <1>1, <1>2 DEF RowServes, LeaseInv, TermsInv, RowsTimed, TimedRow, TimesInv, ClientInv,
                    ClientOK, MayUse
<1> QED  BY <1>2, <1>3 DEF RowServes, LiveAt

(* What an agent may still use is a live row of the server, its own, with   *)
(* its epoch, that lasts at least as long: through retries, answers that    *)
(* come late or out of order, restarts and pruned tables.                   *)
THEOREM HeldTheorem == HostedSpec => []HeldLeaseIsServed
BY HeldIsServed, LeasesAtStart, LeasesPreserved, PTL DEF HostedSpec, allVars

(* Two installations never both hold an unexpired right to act for one      *)
(* platform account: the purpose of sync_account_leases.                    *)
OneHolderPerAccount ==
  \A a, b \in Agents : \A k, l \in Locals :
    MayUse(a, k) /\ MayUse(b, l) /\ desired[a][k] = desired[b][l] => a = b /\ k = l

(* Exclusive use follows from HeldLeaseIsServed: both leases would be the   *)
(* one row of the account.                                                  *)
THEOREM OneHolderTheorem == HostedSpec => []OneHolderPerAccount
<1>1. HeldLeaseIsServed => OneHolderPerAccount
  BY DEF HeldLeaseIsServed, OneHolderPerAccount
<1> QED  BY <1>1, HeldTheorem, PTL

(***************************************************************************)
(* A batch of lease operations stays within the plan's quota: for any      *)
(* quota, any accounts and any mix of releases, extensions and grants.     *)
(***************************************************************************)

Live == LiveRows(tx.rows, tx.at)

(* Places that are taken, or may still be given away by this batch.         *)
Places == Cardinality(Live) + tx.capacity

QuotaInv ==
  tx # NoTx =>
    /\ tx.capacity \in Nat
    /\ Places <= Quota \/ Places <= Cardinality(LiveRows(rows, tx.at))

LEMMA LiveFinite ==
  ASSUME NEW table, NEW at
  PROVE  /\ IsFiniteSet(LiveRows(table, at)) /\ Cardinality(LiveRows(table, at)) \in Nat
         /\ LiveRows(table, at) \subseteq Platforms
<1>1. LiveRows(table, at) \subseteq Platforms  BY DEF LiveRows
<1>2. IsFiniteSet(LiveRows(table, at))  BY <1>1, LeaseParameters, FS_Subset
<1> QED  BY <1>1, <1>2, FS_CardinalityType

LEMMA RoomDecided ==
  ASSUME LeaseInv, tx # NoTx, NEW op, op.platform \in Platforms,
         NEW result, NEW row, NEW room, tx' = Decided(op, result, row, room)
  PROVE  /\ tx'.capacity = room /\ tx'.at = tx.at
         /\ LiveRows(tx'.rows, tx'.at) =
              IF LiveAt(row, tx.at) THEN Live \cup {op.platform} ELSE Live \ {op.platform}
<1>1. DOMAIN tx = TxFields /\ tx.rows = [p \in Platforms |-> tx.rows[p]]
  BY DEF LeaseInv, TimesInv, TxTimes, TermsInv, RowsTimed
<1> DEFINE done == Decided(op, result, row, room)
<1>2. /\ DOMAIN done = TxFields
      /\ done.at = tx.at /\ done.until = tx.until /\ done.call = tx.call
      /\ done.fence = tx.fence /\ done.granted = tx.granted /\ done.capacity = room
      /\ done.rows = [tx.rows EXCEPT ![op.platform] = row]
  BY <1>1, DecidedFields
<1>3. /\ tx'.capacity = room /\ tx'.at = tx.at
      /\ tx'.rows = [tx.rows EXCEPT ![op.platform] = row]
  BY <1>2
<1> QED  BY <1>1, <1>3 DEF Live, LiveRows

LEMMA RoomOperation ==
  ASSUME LeaseInv, QuotaInv, tx # NoTx, NEW op \in tx.todo, OneOperation(op)
  PROVE  tx'.at = tx.at /\ tx'.capacity \in Nat /\ Places' = Places
<1> DEFINE p == op.platform
           old == tx.rows[p]
<1>1. /\ p \in Platforms /\ tx.at \in Int /\ tx.until \in Int /\ tx.at < tx.until
      /\ tx.capacity \in Nat /\ DOMAIN tx = TxFields
      /\ old # NoRow => DOMAIN old = RowFields
      /\ tx.rows = [q \in Platforms |-> tx.rows[q]]
  BY OperationTx DEF QuotaInv, RowsTimed, TimedRow, LeaseInv, TimesInv, TxTimes
<1>2. /\ IsFiniteSet(Live) /\ Cardinality(Live) \in Nat
      /\ LiveAt(old, tx.at) <=> p \in Live
  BY <1>1, LiveFinite DEF Live, LiveRows
<1>3. Places' = Cardinality(LiveRows(tx'.rows, tx'.at)) + tx'.capacity
  BY DEF Places, Live, LiveRows, LiveAt
<1>4. CASE OpStale(op) \/ OpBusy(op) \/ OpQuota(op)
  <2>1. PICK result : tx' = Decided(op, result, old, tx.capacity)
    BY <1>4 DEF OpStale, OpBusy, OpQuota, Unchanged
  <2>2. /\ tx'.capacity = tx.capacity /\ tx'.at = tx.at
        /\ LiveRows(tx'.rows, tx'.at) = IF LiveAt(old, tx.at) THEN Live \cup {p} ELSE Live \ {p}
    BY <1>1, <2>1, RoomDecided
  <2>3. LiveRows(tx'.rows, tx'.at) = Live  BY <1>2, <2>2
  <2> QED  BY <1>1, <1>3, <2>2, <2>3 DEF Places
<1>5. CASE OpRelease(op)
  <2> DEFINE row == [old EXCEPT !.released = TRUE, !.until = tx.at]
  <2>1. /\ LiveAt(old, tx.at)
        /\ tx' = Decided(op, Result(op, "released", op.epoch), row, tx.capacity + 1)
    BY <1>5 DEF OpRelease, Matches, Holds
  <2>2. ~LiveAt(row, tx.at)
    <3>1. DOMAIN old = RowFields  BY <1>1, <2>1 DEF LiveAt
    <3>2. row.until = tx.at  BY <3>1 DEF RowFields
    <3> QED  BY <1>1, <3>2 DEF LiveAt
  <2> HIDE DEF row
  <2>3. /\ tx'.capacity = tx.capacity + 1 /\ tx'.at = tx.at
        /\ LiveRows(tx'.rows, tx'.at) = Live \ {p}
    BY <1>1, <2>1, <2>2, RoomDecided
  <2>4. Cardinality(Live \ {p}) = Cardinality(Live) - 1
    BY <1>2, <2>1, FS_RemoveElement
  <2> QED  BY <1>1, <1>2, <1>3, <2>3, <2>4 DEF Places
<1>6. CASE OpExtend(op)
  <2> DEFINE row == [old EXCEPT !.until = tx.until]
  <2>1. /\ LiveAt(old, tx.at)
        /\ tx' = Decided(op, Result(op, "owned", old.epoch), row, tx.capacity)
    BY <1>6 DEF OpExtend, Matches, Holds
  <2>2. LiveAt(row, tx.at)
    <3>1. DOMAIN old = RowFields  BY <1>1, <2>1 DEF LiveAt
    <3>2. /\ row.until = tx.until /\ row.released = old.released
          /\ DOMAIN row = RowFields
      BY <3>1 DEF RowFields
    <3> HIDE DEF row, old
    <3> QED  BY <1>1, <2>1, <3>2 DEF LiveAt, NoRow, RowFields
  <2> HIDE DEF row
  <2>3. /\ tx'.capacity = tx.capacity /\ tx'.at = tx.at
        /\ LiveRows(tx'.rows, tx'.at) = Live
    BY <1>1, <1>2, <2>1, <2>2, RoomDecided
  <2> QED  BY <1>1, <1>3, <2>3 DEF Places
<1>7. CASE OpGrant(op)
  <2>1. ~LiveAt(old, tx.at) /\ tx.capacity > 0 /\ tx' = Granting(op)
    BY <1>1, <1>7 DEF OpGrant, Vacant, NoRoom, Granting
  <2>2. /\ tx'.at = tx.at /\ tx'.capacity = tx.capacity - 1
        /\ tx'.rows = [tx.rows EXCEPT ![p] = NewRow(op)]
    BY <1>1, <2>1, GrantingFields
  <2>3. LiveAt(NewRow(op), tx.at)
    BY <1>1 DEF NewRow, LiveAt, NoRow
  <2>4. LiveRows(tx'.rows, tx'.at) = Live \cup {p}
    BY <1>1, <2>2, <2>3 DEF Live, LiveRows
  <2>5. Cardinality(Live \cup {p}) = Cardinality(Live) + 1
    BY <1>2, <2>1, FS_AddElement
  <2> QED  BY <1>1, <1>2, <1>3, <2>1, <2>2, <2>4, <2>5 DEF Places
<1> QED  BY <1>4, <1>5, <1>6, <1>7 DEF OneOperation

LEMMA QuotaBegin ==
  ASSUME LeaseInv, NEW call \in calls, NEW at \in HandlerTimes(call), BeginSync(call, at)
  PROVE  QuotaInv'
<1> DEFINE kept == PrunedRows(at)
           live == {p \in Platforms : LiveAt(kept[p], at)}
<1>1. /\ tx'.capacity = AtLeast0(Quota - Cardinality(live)) /\ tx'.rows = kept /\ tx'.at = at
      /\ rows' = rows
  BY DEF BeginSync
<1>2. live = LiveRows(kept, at)  BY DEF LiveRows
<1>3. live \subseteq LiveRows(rows, at)  BY DEF LiveRows, PrunedRows, LiveAt
<1>4. /\ Cardinality(live) \in Nat /\ Cardinality(LiveRows(rows, at)) \in Nat
      /\ Cardinality(live) <= Cardinality(LiveRows(rows, at))
  BY <1>2, <1>3, LiveFinite, FS_Subset
<1>5. Live' = live /\ LiveRows(rows, tx.at)' = LiveRows(rows, at)
  BY <1>1 DEF Live, LiveRows, LiveAt
<1> HIDE DEF live
<1> QED
  BY <1>1, <1>4, <1>5, LeaseParameters DEF QuotaInv, Places, AtLeast0

LEMMA QuotaUntouched ==
  ASSUME QuotaInv, tx' = NoTx \/ UNCHANGED <<tx, rows>>  PROVE QuotaInv'
BY DEF QuotaInv, Places, Live, LiveRows, LiveAt

LEMMA QuotaPreserved == LeaseInv /\ QuotaInv /\ [HostedNext]_allVars => QuotaInv'
<1>1. SUFFICES ASSUME LeaseInv, QuotaInv, [HostedNext]_allVars  PROVE QuotaInv'
  OBVIOUS
<1>2. ASSUME NEW call \in calls, NEW at \in HandlerTimes(call), BeginSync(call, at)
      PROVE  QuotaInv'
  BY <1>1, <1>2, QuotaBegin
<1>3. ASSUME tx # NoTx, NEW op \in tx.todo, OneOperation(op)  PROVE QuotaInv'
  <2>1. tx'.at = tx.at /\ tx'.capacity \in Nat /\ Places' = Places
    BY <1>1, <1>3, RoomOperation
  <2>2. LiveRows(rows, tx.at)' = LiveRows(rows, tx.at)
    BY <1>3, <2>1 DEF OneOperation, LiveRows, LiveAt
  <2> QED  BY <1>1, <1>3, <2>1, <2>2 DEF QuotaInv
<1>4. CASE LeaseServerNext
  <2>1. ASSUME NEW call \in calls, NEW at \in HandlerTimes(call),
               \/ RefuseUnauthorized(call, at) \/ ReplayStored(call, at)
               \/ RefuseConflict(call, at)
        PROVE  QuotaInv'
    BY <1>1, <2>1, QuotaUntouched DEF RefuseUnauthorized, ReplayStored, RefuseConflict
  <2>2. CASE CommitSync \/ SaveKey
    BY <1>1, <2>2, QuotaUntouched DEF CommitSync, SaveKey
  <2> QED  BY <1>2, <1>3, <1>4, <2>1, <2>2 DEF LeaseServerNext
<1>5. CASE LeaseTick \/ RollbackSync \/ LoadKey
  BY <1>1, <1>5, QuotaUntouched DEF LeaseTick, RollbackSync, LoadKey
<1>6. ASSUME NEW a \in Agents, RenewLicence(a) \/ RevokeLicence(a)  PROVE QuotaInv'
  BY <1>1, <1>6, QuotaUntouched DEF RenewLicence, RevokeLicence
<1>7. ASSUME NEW a \in Agents,
             \/ ControllerNext(a)
             \/ FailSync(a) \/ Suspend(a) \/ Shutdown(a) \/ Restart(a)
             \/ \E l \in Locals : RemoveAccount(a, l) \/ \E p \in Platforms : AddAccount(a, l, p)
      PROVE  QuotaInv'
  <2>1. ServerKept  BY <1>1, <1>7, AgentLeavesServer DEF LeaseInv
  <2> QED  BY <1>1, <2>1, QuotaUntouched DEF ServerKept
<1>8. CASE UNCHANGED allVars
  BY <1>1, <1>8, QuotaUntouched DEF allVars, leaseVars
<1> QED
  BY <1>1, <1>4, <1>5, <1>6, <1>7, <1>8, AgentTypes DEF HostedNext, Disturbance

(* A batch never takes the live accounts over the plan's quota, nor further *)
(* over it than an earlier one whose handler had read an older time: each   *)
(* grant of _one_operation uses up a place, which only a release gives back. *)
THEOREM QuotaTheorem == HostedSpec => []GrantsWithinQuota
<1>1. QuotaInv => GrantsWithinQuota
  <2>1. SUFFICES ASSUME QuotaInv, tx # NoTx
                 PROVE  \/ Cardinality(Live) <= Quota
                        \/ Cardinality(Live) <= Cardinality(LiveRows(rows, tx.at))
    BY DEF GrantsWithinQuota, Live
  <2>2. /\ Cardinality(Live) \in Nat /\ Cardinality(LiveRows(rows, tx.at)) \in Nat
        /\ tx.capacity \in Nat
    BY <2>1, LiveFinite DEF Live, QuotaInv
  <2> QED  BY <2>1, <2>2, LeaseParameters DEF QuotaInv, Places
<1>2. HostedInit => QuotaInv
  BY DEF HostedInit, QuotaInv
<1> QED
  BY <1>1, <1>2, LeasesAtStart, LeasesPreserved, QuotaPreserved, PTL DEF HostedSpec, allVars
=============================================================================
