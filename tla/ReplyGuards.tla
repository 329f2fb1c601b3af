----------------------------- MODULE ReplyGuards -----------------------------
(***************************************************************************)
(* store_guards.rs: the durable account, rule and peer scopes that limit   *)
(* automatic replies. A scope is reserved by the one batch that may still  *)
(* charge it; settling a batch charges its scopes once, on the local day   *)
(* of the delivery, or releases them. Constant-level: CoreStore calls      *)
(* these inside its transactions.                                          *)
(***************************************************************************)
EXTENDS Integers, FiniteSets

CONSTANTS
  Policies,     \* GuardPolicy values automatic planning may pass
  NoPolicy,     \* a batch without an auto_reply_batches row
  NoTrigger,    \* reserved_batch_id IS NULL
  NoZone,       \* the zone of a scope that has no row yet
  DayLength,    \* milliseconds of a local day, scaled
  MaxScopes     \* MAX_SCOPES_PER_ACCOUNT

ASSUME GuardAssumption ==
  /\ NoPolicy \notin Policies
  /\ DayLength \in Nat \ {0}
  /\ MaxScopes \in Nat
  /\ \A p \in Policies :
       /\ p.zone # NoZone
       /\ p.offset \in Nat
       /\ {p.quota, p.cooldown, p.interval} \subseteq Nat
       /\ p.peerLimit \in BOOLEAN
  /\ \A p, q \in Policies : p.zone = q.zone => p.offset = q.offset

AccountScope == <<"account">>
RuleScope(p) == <<"rule", p.rule, p.conversation>>
PeerScope(p) == <<"peer", p.peer>>
ScopesOf(p) == {AccountScope, RuleScope(p), PeerScope(p)}
GuardScopes == UNION {ScopesOf(p) : p \in Policies}

(* A moment's local day. Time zones are offsets; skipped and repeated      *)
(* midnights are left out.                                                 *)
Day(p, at) == (at + p.offset) \div DayLength

Never == -1

EmptyScope ==
  [zone |-> NoZone, last |-> Never, day |-> Never, used |-> 0, reserved |-> NoTrigger]

UsedToday(scope, p, now) == IF scope.day = Day(p, now) THEN scope.used ELSE 0

(* Faulty variant, for the mutation runs: the rule cooldown is not applied.*)
DelayWithoutCooldown(p, kind) == IF kind = AccountScope THEN p.interval ELSE 0

DelayOf(p, kind) ==
  IF kind = AccountScope THEN p.interval
  ELSE IF kind = RuleScope(p) THEN p.cooldown
  ELSE 0

(* Faulty variant: a quota that admits one reply too many.                 *)
ScopeAdmitsOneMore(scope, p, kind, trigger, now) ==
  /\ scope.zone = p.zone
  /\ scope.reserved \in {NoTrigger, trigger}
  /\ kind = AccountScope => UsedToday(scope, p, now) <= p.quota
  /\ kind = PeerScope(p) /\ p.peerLimit => UsedToday(scope, p, now) = 0
  /\ scope.last # Never => now >= scope.last + DelayOf(p, kind)

(* check_scope: an existing scope admits a reservation now.                *)
ScopeAdmits(scope, p, kind, trigger, now) ==
  /\ scope.zone = p.zone
  /\ scope.reserved \in {NoTrigger, trigger}
  /\ kind = AccountScope => UsedToday(scope, p, now) < p.quota
  /\ kind = PeerScope(p) /\ p.peerLimit => UsedToday(scope, p, now) = 0
  /\ scope.last # Never => now >= scope.last + DelayOf(p, kind)

RowExists(scope) == scope.zone # NoZone

(* Whether `reserve' lets a batch that holds no reservation yet take one.  *)
CanReserve(scopes, p, trigger, now) ==
  LET rows    == {k \in DOMAIN scopes : RowExists(scopes[k])}
      missing == ScopesOf(p) \ rows
  IN  /\ p.quota > 0
      /\ \A k \in ScopesOf(p) \cap rows : ScopeAdmits(scopes[k], p, k, trigger, now)
      /\ missing # {} => Cardinality(rows) + Cardinality(missing) <= MaxScopes

(* The upsert keeps a row's counters and changes its reservation only.     *)
Reserve(scopes, p, trigger) ==
  [k \in DOMAIN scopes |->
     IF k \notin ScopesOf(p) THEN scopes[k]
     ELSE [scopes[k] EXCEPT !.zone = IF @ = NoZone THEN p.zone ELSE @,
                            !.reserved = trigger]]

HoldsReservation(scopes, p, trigger) ==
  \A k \in ScopesOf(p) : RowExists(scopes[k]) /\ scopes[k].reserved = trigger

(* Faulty variant: the first delivery of a day only resets the counter.    *)
ChargeWithoutFirst(scope, p, deliveredAt) ==
  LET day == Day(p, deliveredAt)
  IN  [zone |-> scope.zone, last |-> deliveredAt, day |-> day,
       used |-> IF scope.day = day THEN scope.used + 1 ELSE 0,
       reserved |-> NoTrigger]

(* One delivered batch charges each of its scopes once.                    *)
Charge(scope, p, deliveredAt) ==
  LET day == Day(p, deliveredAt)
  IN  [zone |-> scope.zone, last |-> deliveredAt, day |-> day,
       used |-> IF scope.day = day THEN scope.used + 1 ELSE 1,
       reserved |-> NoTrigger]

(* Faulty variants: a release that keeps the reservation, and one that     *)
(* gives back a charge that was never made.                                *)
KeepReservation(scope) == scope

ReleaseWithRefund(scope) == [scope EXCEPT !.reserved = NoTrigger, !.used = @ - 1]

Release(scope) == [scope EXCEPT !.reserved = NoTrigger]

(* deliveries: the updated_at of the batch's confirmed segments.           *)
Settle(scopes, p, deliveries) ==
  LET deliveredAt == CHOOSE m \in deliveries : \A d \in deliveries : d <= m
  IN  [k \in DOMAIN scopes |->
         IF k \notin ScopesOf(p) THEN scopes[k]
         ELSE IF deliveries = {} THEN Release(scopes[k])
         ELSE Charge(scopes[k], p, deliveredAt)]
=============================================================================
