---------------------------- MODULE AgentLeases ----------------------------
(* The account-ownership authority of the hosted backend: one license key, *)
(* its lease rows, and sync_account_leases, which serves the signed batch  *)
(* that is the only lease grant an agent accepts.  A sync is one database  *)
(* transaction holding the key's row lock, so it works on a private copy   *)
(* (tx) that Commit publishes and Rollback drops.                          *)
EXTENDS Integers, FiniteSets

CONSTANTS
  Agents,         \* activations, one installation each
  Locals,         \* account ids of an installation
  Platforms,      \* platform account ids
  NoTx, NoAnswer, NoCopy,
  TTL,            \* TTL_SECONDS
  RowRetention,   \* 2 * TTL_SECONDS
  SyncRetention,  \* RETENTION_HOURS
  Quota,          \* max_accounts of the plan, at most 512
  MaxRows,        \* MAX_LEASE_ROWS
  MaxBoots,       \* MAX_BOOT_RECORDS
  MaxFence,       \* MAX_EPOCH
  LicenceTerm,    \* how far a check-in moves activation.lease_expires_at
  LockWait,       \* bound: how long a handler waits for the key's row lock
  LeaseHorizon    \* bound: last tick of the clock

ASSUME LeaseParameters ==
  /\ IsFiniteSet(Platforms)
  /\ TTL \in Nat \ {0} /\ RowRetention \in Nat /\ SyncRetention \in Nat /\ TTL <= SyncRetention
  /\ Quota \in Nat /\ MaxRows \in Nat /\ MaxBoots \in Nat /\ MaxFence \in Nat
  /\ LicenceTerm \in Nat /\ LockWait \in Nat /\ LeaseHorizon \in Nat

VARIABLES
  clock,     \* the wall clock, shared with the agents
  rows,      \* AgentAccountLease by platform account
  fence,     \* LicenseKey.agent_fence_counter
  keyCopy,   \* the counter in a LicenseKey another handler has loaded
  syncs,     \* AgentSyncState by agent and boot
  licence,   \* per activation: usable, and lease_expires_at
  tx,        \* the transaction that holds the key's lock
  calls,     \* sync requests a handler may still start on
  open,      \* per agent: the request whose connection is open
  answer,    \* per agent: the HTTP answer that came back on it
  grants,    \* history: every lease ever committed
  lowered    \* history: a stale copy of the key has put its counter back

leaseVars ==
  <<clock, rows, fence, keyCopy, syncs, licence, tx, calls, open, answer, grants, lowered>>

(* No lease row, no stored answer, no connection.                          *)
NoRow == [released |-> TRUE]

NoState == [seq |-> 0]

NoCall == [seq |-> 0]

LiveAt(row, t) == row # NoRow /\ ~row.released /\ row.until > t

(* Faulty variant: the boot is not compared.                               *)
OwnedByAgent(row, call, op) ==
  row.agent = call.agent /\ row.local = op.local

OwnedBy(row, call, op) ==
  row.agent = call.agent /\ row.boot = call.boot /\ row.local = op.local

(* Faulty variant: a revocation is only noticed at the end of the term.    *)
AuthorizedByTerm(a, t) == licence[a].until > t

Authorized(a, t) == licence[a].usable /\ licence[a].until > t

Earlier(x, y) == IF x < y THEN x ELSE y

AtLeast0(n) == IF n > 0 THEN n ELSE 0

(* A request at or below the stored sequence is a retry of the last one or *)
(* is refused.                                                             *)
Settled(call) ==
  LET state == syncs[call.agent][call.boot]
  IN  state # NoState /\ call.seq <= state.seq

SameRequest(call) ==
  LET state == syncs[call.agent][call.boot]
  IN  call.seq = state.seq /\ call.ops = state.ops

(* The answer, signed over by _sign; an answer to a request its agent has  *)
(* given up on goes nowhere.                                               *)
Reply(call, denied, results, until) ==
  answer' = IF open[call.agent] = call
            THEN [answer EXCEPT ![call.agent] =
                    [denied |-> denied, results |-> results, until |-> until]]
            ELSE answer

-----------------------------------------------------------------------------
(* The handler.                                                            *)

(* 401 or 403: the activation is not usable (any of the checks of          *)
(* _authorize); nothing is stored.                                         *)
RefuseUnauthorized(call, at) ==
  /\ tx = NoTx
  /\ ~Authorized(call.agent, at)
  /\ Reply(call, TRUE, {}, 0)
  /\ calls' = calls \ {call}
  /\ UNCHANGED <<clock, rows, fence, keyCopy, syncs, licence, tx, open, grants, lowered>>

(* A retry of the last request gets the stored claims: nothing is extended. *)
ReplayStored(call, at) ==
  /\ tx = NoTx
  /\ Authorized(call.agent, at)
  /\ Settled(call) /\ SameRequest(call)
  /\ LET state == syncs[call.agent][call.boot]
     IN  Reply(call, FALSE, state.results, state.until)
  /\ calls' = calls \ {call}
  /\ UNCHANGED <<clock, rows, fence, keyCopy, syncs, licence, tx, open, grants, lowered>>

(* 409, 429: an outdated sequence, too many boots, or a local account that *)
(* still holds another platform identity.  The transaction is rolled back. *)
PrunedSyncs(a, at) ==
  [b \in DOMAIN syncs[a] |->
     IF syncs[a][b] # NoState /\ syncs[a][b].at < at - SyncRetention
     THEN NoState ELSE syncs[a][b]]

PrunedRows(at) ==
  [p \in Platforms |->
     IF rows[p] # NoRow /\ rows[p].until < at - RowRetention
     THEN NoRow ELSE rows[p]]

Boots(states) == {b \in DOMAIN states : states[b] # NoState}

TooManyBoots(call, at) ==
  /\ PrunedSyncs(call.agent, at)[call.boot] = NoState
  /\ Cardinality(Boots(PrunedSyncs(call.agent, at))) >= MaxBoots

Rebinds(call, at) ==
  \E op \in call.ops, p \in Platforms :
    /\ LiveAt(rows[p], at) /\ OwnedBy(rows[p], call, op)
    /\ p # op.platform

RefuseConflict(call, at) ==
  /\ tx = NoTx
  /\ Authorized(call.agent, at)
  /\ \/ Settled(call) /\ ~SameRequest(call)
     \/ ~Settled(call) /\ (TooManyBoots(call, at) \/ Rebinds(call, at))
  /\ calls' = calls \ {call}
  /\ UNCHANGED <<clock, rows, fence, keyCopy, syncs, licence, tx, open, answer, grants, lowered>>

(* _sync_locked up to its loop: prune, then the quota and the metadata     *)
(* slots as this transaction sees them.                                    *)
BeginSync(call, at) ==
  /\ tx = NoTx
  /\ Authorized(call.agent, at)
  /\ ~Settled(call)
  /\ ~TooManyBoots(call, at) /\ ~Rebinds(call, at)
  /\ LET kept == PrunedRows(at)
         live == {p \in Platforms : LiveAt(kept[p], at)}
         used == {p \in Platforms : kept[p] # NoRow}
     IN  tx' = [call |-> call, at |-> at,
                until |-> Earlier(at + TTL, licence[call.agent].until),
                rows |-> kept, syncs |-> PrunedSyncs(call.agent, at),
                fence |-> fence,
                capacity |-> AtLeast0(Quota - Cardinality(live)),
                slots |-> AtLeast0(MaxRows - Cardinality(used)),
                todo |-> call.ops, results |-> {}, granted |-> {}]
  /\ calls' = calls \ {call}
  /\ UNCHANGED <<clock, rows, fence, keyCopy, syncs, licence, open, answer, grants, lowered>>

(* _one_operation: the outcomes of one account of the batch.               *)
Result(op, status, epoch) ==
  [local |-> op.local, platform |-> op.platform, status |-> status, epoch |-> epoch]

Decided(op, result, row, room) ==
  [tx EXCEPT !.todo = @ \ {op}, !.results = @ \cup {result},
             !.rows[op.platform] = row, !.capacity = room]

Unchanged(op, status) ==
  tx' = Decided(op, Result(op, status, 0), tx.rows[op.platform], tx.capacity)

Holds(op) ==
  LET row == tx.rows[op.platform]
  IN  LiveAt(row, tx.at) /\ OwnedBy(row, tx.call, op)

Matches(op) == Holds(op) /\ tx.rows[op.platform].epoch = op.epoch

OpStale(op) ==
  op.action # "acquire" /\ ~Matches(op) /\ Unchanged(op, "stale")

OpRelease(op) ==
  /\ op.action = "release" /\ Matches(op)
  /\ tx' = Decided(op, Result(op, "released", op.epoch),
                   [tx.rows[op.platform] EXCEPT !.released = TRUE, !.until = tx.at],
                   tx.capacity + 1)

OpBusy(op) ==
  /\ op.action = "acquire"
  /\ LiveAt(tx.rows[op.platform], tx.at) /\ ~Holds(op)
  /\ Unchanged(op, "busy")

OpExtend(op) ==
  /\ \/ op.action = "renew" /\ Matches(op)
     \/ op.action = "acquire" /\ Holds(op)
  /\ tx' = Decided(op, Result(op, "owned", tx.rows[op.platform].epoch),
                   [tx.rows[op.platform] EXCEPT !.until = tx.until], tx.capacity)

Vacant(op) == op.action = "acquire" /\ ~LiveAt(tx.rows[op.platform], tx.at)

(* Faulty variant: the last place is given away twice.                     *)
NoRoomBelow(op) == tx.capacity < 0 \/ (tx.rows[op.platform] = NoRow /\ tx.slots <= 0)

NoRoom(op) == tx.capacity <= 0 \/ (tx.rows[op.platform] = NoRow /\ tx.slots <= 0)

OpQuota(op) == Vacant(op) /\ NoRoom(op) /\ Unchanged(op, "quota")

NewRow(op) ==
  [agent |-> tx.call.agent, boot |-> tx.call.boot, local |-> op.local,
   epoch |-> tx.fence + 1, until |-> tx.until, released |-> FALSE]

OpGrant(op) ==
  /\ Vacant(op) /\ ~NoRoom(op)
  /\ tx.fence < MaxFence
  /\ LET result == Result(op, "owned", tx.fence + 1)
         grant == [epoch |-> tx.fence + 1, platform |-> op.platform,
                   agent |-> tx.call.agent, boot |-> tx.call.boot]
     IN  tx' = [Decided(op, result, NewRow(op), tx.capacity - 1)
                  EXCEPT !.fence = @ + 1, !.granted = @ \cup {grant},
                         !.slots = IF tx.rows[op.platform] = NoRow THEN @ - 1 ELSE @]

OneOperation(op) ==
  /\ \/ OpStale(op) \/ OpRelease(op) \/ OpBusy(op)
     \/ OpExtend(op) \/ OpQuota(op) \/ OpGrant(op)
  /\ UNCHANGED <<clock, rows, fence, keyCopy, syncs, licence, calls, open, answer, grants, lowered>>

(* Faulty variant: the counter is worked out from the rows that are left.  *)
FenceOfRows(done) ==
  LET epochs == {0} \cup {done.rows[p].epoch : p \in {q \in Platforms : done.rows[q] # NoRow}}
  IN  CHOOSE e \in epochs : \A f \in epochs : f <= e

FenceAfter(done) == done.fence

CommitSync ==
  /\ tx # NoTx /\ tx.todo = {}
  /\ rows' = tx.rows
  /\ fence' = FenceAfter(tx)
  /\ grants' = grants \cup tx.granted
  /\ syncs' = [syncs EXCEPT ![tx.call.agent] =
       [tx.syncs EXCEPT ![tx.call.boot] =
          [seq |-> tx.call.seq, ops |-> tx.call.ops, at |-> tx.at,
           results |-> tx.results, until |-> tx.until]]]
  /\ Reply(tx.call, FALSE, tx.results, tx.until)
  /\ tx' = NoTx
  /\ UNCHANGED <<clock, keyCopy, licence, calls, open, lowered>>

(* The counter is exhausted, signing fails, or the database drops the      *)
(* transaction: every write of the batch is undone.                        *)
RollbackSync ==
  /\ tx # NoTx
  /\ tx' = NoTx
  /\ UNCHANGED <<clock, rows, fence, keyCopy, syncs, licence, calls, open, answer, grants, lowered>>

(* The license service, which locks the same key row.                      *)
RenewLicence(a) ==
  /\ tx = NoTx
  /\ licence[a].usable
  /\ licence' = [licence EXCEPT ![a].until = clock + LicenceTerm]
  /\ UNCHANGED <<clock, rows, fence, keyCopy, syncs, tx, calls, open, answer, grants, lowered>>

RevokeLicence(a) ==
  /\ tx = NoTx
  /\ licence[a].usable
  /\ licence' = [licence EXCEPT ![a].usable = FALSE, ![a].revoked = clock]
  /\ UNCHANGED <<clock, rows, fence, keyCopy, syncs, tx, calls, open, answer, grants, lowered>>

(* activate_license and patch_license_key load the key without its lock    *)
(* and save every column of it later.                                      *)
LoadKey ==
  /\ keyCopy = NoCopy
  /\ keyCopy' = fence
  /\ UNCHANGED <<clock, rows, fence, syncs, licence, tx, calls, open, answer, grants, lowered>>

SaveKey ==
  /\ tx = NoTx /\ keyCopy # NoCopy
  /\ fence' = keyCopy
  /\ lowered' = (lowered \/ keyCopy < fence)
  /\ keyCopy' = NoCopy
  /\ UNCHANGED <<clock, rows, syncs, licence, tx, calls, open, answer, grants>>

LeaseTick ==
  /\ clock < LeaseHorizon
  /\ clock' = clock + 1
  /\ UNCHANGED <<rows, fence, keyCopy, syncs, licence, tx, calls, open, answer, grants, lowered>>

HandlerTimes(call) == {t \in call.sent..clock : t >= clock - LockWait}

LeaseServerNext ==
  \/ \E call \in calls : \E at \in HandlerTimes(call) :
       \/ RefuseUnauthorized(call, at) \/ ReplayStored(call, at)
       \/ RefuseConflict(call, at) \/ BeginSync(call, at)
  \/ tx # NoTx /\ \E op \in tx.todo : OneOperation(op)
  \/ CommitSync
  \/ SaveKey
=============================================================================
