------------------------------ MODULE Licensing ------------------------------
(* The licence authority of the backend: one licence key, the activation    *)
(* rows that bind it to devices, and the handlers that issue, rotate,       *)
(* replay and close the credentials.  Handlers of different devices run at  *)
(* once under READ COMMITTED; the only exclusion is the row locks they take. *)
EXTENDS Integers, FiniteSets

CONSTANTS
  Devices,
  Native,        \* the devices whose client names its renewals by a request id
  NoReceipt, NoHandler, NoAsk, NoTold,
  MaxDevices,    \* get_effective_max_devices
  Grace,         \* grace_period_minutes
  LeaseTerm,     \* lease_ttl_minutes
  KeyLife,       \* valid_days of a key that is activated
  MaxMinted,     \* bound: credential pairs ever issued
  LicHorizon     \* bound: last tick of the clock

ASSUME LicensingParameters ==
  /\ Native \subseteq Devices
  /\ {MaxDevices, Grace, LeaseTerm, KeyLife, MaxMinted, LicHorizon} \subseteq Nat

VARIABLES
  hour,        \* the clock
  key,         \* LicenseKey: status, is_deleted, expires_at (0: none yet)
  acts,        \* LicenseActivation of the key, by device
  activating,  \* an activate_license under way, by device
  closing,     \* the row an unbind or deactivate has loaded, by device
  keyHeld,     \* the check-in that has locked the key's row
  asks,        \* requests a handler may still start on
  asked,       \* per device: the request its client waits on
  told,        \* per device: the answer to it
  minted,      \* credential pairs issued so far
  published,   \* history: what was issued
  closed       \* history: when a device's activation was closed (-1: never)

licVars == <<hour, key, acts, activating, closing, keyHeld, asks, asked, told,
             minted, published, closed>>

ClosedStates == {"deactivated", "revoked"}

(* No row of this key and device.                                           *)
NoActivation == [status |-> "none", cred |-> 0, seq |-> 0, refresh |-> FALSE,
                 leaseEnd |-> 0, graceEnd |-> 0, expires |-> 0, receipt |-> NoReceipt]

(* ensure_license_usable; its own write of EXPIRED is rolled back with the  *)
(* request that meets it.                                                   *)
KeyExpired(k) == k.expires # 0 /\ k.expires <= hour
KeyUsable(k) == k.status # "revoked" /\ ~KeyExpired(k)

Active(d) == acts[d].status = "active"

(* Faulty variant: select_for_update is left out.                           *)
NeverLocked(d) == FALSE

(* The row of d is locked by an activation that is about to update it.      *)
RowLocked(d) ==
  activating[d] # NoHandler /\ activating[d].stage = "found" /\ activating[d].row # NoActivation

Later(x, y) == IF x > y THEN x ELSE y

Tell(ask, answer) ==
  told' = IF asked[ask.device] = ask THEN [told EXCEPT ![ask.device] = answer] ELSE told

Refusal(error) == [ok |-> FALSE, error |-> error]

Grant(row) ==
  [ok |-> TRUE, cred |-> row.cred, seq |-> row.seq,
   leaseEnd |-> row.leaseEnd, graceEnd |-> row.graceEnd]

(* Faulty variant: a rotation that keeps the sequence.                      *)
RotatedInPlace(row, cred) ==
  [row EXCEPT !.cred = cred, !.refresh = TRUE,
              !.leaseEnd = hour + LeaseTerm, !.graceEnd = hour + Grace]

(* A rotation: both tokens, the next sequence, both deadlines.              *)
Rotated(row, cred) ==
  [row EXCEPT !.cred = cred, !.seq = @ + 1, !.refresh = TRUE,
              !.leaseEnd = hour + LeaseTerm, !.graceEnd = hour + Grace]

Publish(d, row) ==
  /\ minted < MaxMinted
  /\ minted' = minted + 1
  /\ published' = published \cup {[device |-> d, seq |-> row.seq, cred |-> row.cred,
                                   until |-> Later(row.leaseEnd, row.graceEnd)]}

Refuse(ask, error) ==
  /\ Tell(ask, Refusal(error))
  /\ asks' = asks \ {ask}

-----------------------------------------------------------------------------
(* activate_license.  The key is read without a lock and every column of    *)
(* it is saved at the end.                                                  *)
ActivateRead(ask) ==
  /\ ask.kind = "activate" /\ activating[ask.device] = NoHandler
  /\ IF KeyUsable(key) /\ ~key.deleted
     THEN /\ activating' = [activating EXCEPT ![ask.device] =
               [stage |-> "read", ask |-> ask, key |-> key, row |-> NoActivation]]
          /\ asks' = asks \ {ask}
          /\ UNCHANGED told
     ELSE Refuse(ask, "closed") /\ UNCHANGED activating
  /\ UNCHANGED <<hour, key, acts, closing, keyHeld, asked, minted, published, closed>>

(* The device's own active row is locked; without one, the devices that     *)
(* hold the key are counted.                                                *)
ActivateFind(d) ==
  /\ activating[d] # NoHandler /\ activating[d].stage = "read"
  /\ LET room == Cardinality({e \in Devices : Active(e)}) < MaxDevices
         row == IF Active(d) THEN acts[d] ELSE NoActivation
     IN  IF Active(d) \/ room
         THEN /\ activating' = [activating EXCEPT ![d].stage = "found", ![d].row = row]
              /\ UNCHANGED told
         ELSE /\ activating' = [activating EXCEPT ![d] = NoHandler]
              /\ Tell(activating[d].ask, Refusal("other"))
  /\ UNCHANGED <<hour, key, acts, closing, keyHeld, asks, asked, minted, published, closed>>

NewActivation(cred, expires) ==
  [status |-> "active", cred |-> cred, seq |-> 1, refresh |-> TRUE,
   leaseEnd |-> hour + LeaseTerm, graceEnd |-> hour + Grace,
   expires |-> expires, receipt |-> NoReceipt]

Expiry(k) == IF k.expires # 0 THEN k.expires ELSE hour + KeyLife

SavedKey(copy) ==
  [copy EXCEPT !.status = IF @ = "pending" THEN "active" ELSE @, !.expires = Expiry(copy)]

(* Faulty variant: a reactivation starts the sequence again.                *)
ReissuedFromOne(row, cred, expires) ==
  [Rotated(row, cred) EXCEPT !.expires = expires, !.seq = 1]

Reissued(row, cred, expires) == [Rotated(row, cred) EXCEPT !.expires = expires]

ActivateSave(d) ==
  /\ activating[d] # NoHandler /\ activating[d].stage = "found"
  /\ activating[d].row # NoActivation \/ acts[d] = NoActivation
  /\ keyHeld = NoAsk
  /\ LET handler == activating[d]
         cred == minted + 1
         expires == Expiry(handler.key)
         row == IF handler.row = NoActivation THEN NewActivation(cred, expires)
                ELSE Reissued(handler.row, cred, expires)
     IN  /\ acts' = [acts EXCEPT ![d] = row]
         /\ key' = SavedKey(handler.key)
         /\ Publish(d, row)
         /\ Tell(handler.ask, Grant(row))
  /\ activating' = [activating EXCEPT ![d] = NoHandler]
  /\ UNCHANGED <<hour, closing, keyHeld, asks, asked, closed>>

(* A closed row of the same key and device: the insert violates the unique  *)
(* constraint.  Or the database ends a lock cycle with a check-in.          *)
ActivateFails(d) ==
  /\ activating[d] # NoHandler /\ activating[d].stage = "found"
  /\ \/ activating[d].row = NoActivation /\ acts[d] # NoActivation
     \/ activating[d].row # NoActivation /\ keyHeld # NoAsk /\ keyHeld.device = d
  /\ activating' = [activating EXCEPT ![d] = NoHandler]
  /\ Tell(activating[d].ask, Refusal("unavailable"))
  /\ UNCHANGED <<hour, key, acts, closing, keyHeld, asks, asked, minted, published, closed>>

-----------------------------------------------------------------------------
(* renew_once and check_in_activation: the key's row is locked first, then  *)
(* the activation's, and everything is read again under both locks.         *)
LockKey(ask) ==
  /\ ask.kind = "check-in" /\ keyHeld = NoAsk
  /\ keyHeld' = ask
  /\ asks' = asks \ {ask}
  /\ UNCHANGED <<hour, key, acts, activating, closing, asked, told, minted, published, closed>>

Replays(ask) ==
  /\ ask.device \in Native
  /\ acts[ask.device].receipt # NoReceipt
  /\ acts[ask.device].receipt.nonce = ask.cred

ActivationUsable(d) == Active(d) /\ acts[d].expires > hour

(* The stored response, as long as nothing has been issued since.           *)
CheckInReplay(d) ==
  /\ keyHeld # NoAsk /\ keyHeld.device = d /\ ~RowLocked(d)
  /\ Replays(keyHeld)
  /\ LET receipt == acts[d].receipt
     IN  Tell(keyHeld,
              IF ~KeyUsable(key) \/ ~ActivationUsable(d) THEN Refusal("closed")
              ELSE IF receipt.seq # acts[d].seq THEN Refusal("other")
              ELSE receipt.grant)
  /\ keyHeld' = NoAsk
  /\ UNCHANGED <<hour, key, acts, activating, closing, asks, asked, minted, published, closed>>

(* Faulty variant: whatever the row's status, a known token is rotated.     *)
AdmittedByToken(ask) ==
  acts[ask.device].cred = ask.cred /\ acts[ask.device].refresh

Admitted(ask) == AdmittedByToken(ask) /\ KeyUsable(key) /\ ActivationUsable(ask.device)

CheckInRotate(d) ==
  /\ keyHeld # NoAsk /\ keyHeld.device = d /\ ~RowLocked(d)
  /\ ~Replays(keyHeld) /\ Admitted(keyHeld)
  /\ LET row == Rotated(acts[d], minted + 1)
         receipt == [nonce |-> keyHeld.cred, seq |-> row.seq, grant |-> Grant(row)]
     IN  /\ acts' = [acts EXCEPT ![d] =
                       IF d \in Native THEN [row EXCEPT !.receipt = receipt] ELSE row]
         /\ Publish(d, row)
         /\ Tell(keyHeld, Grant(row))
  /\ keyHeld' = NoAsk
  /\ UNCHANGED <<hour, key, activating, closing, asks, asked, closed>>

CheckInRefused(d) ==
  /\ keyHeld # NoAsk /\ keyHeld.device = d /\ ~RowLocked(d)
  /\ ~Replays(keyHeld) /\ ~Admitted(keyHeld)
  /\ Tell(keyHeld, Refusal(IF acts[d].cred # keyHeld.cred \/ ~acts[d].refresh THEN "token"
                           ELSE IF key.status = "revoked" THEN "revoked"
                           ELSE "closed"))
  /\ keyHeld' = NoAsk
  /\ UNCHANGED <<hour, key, acts, activating, closing, asks, asked, minted, published, closed>>

(* The database ends a lock cycle with an activation of the same device.    *)
CheckInFails(d) ==
  /\ keyHeld # NoAsk /\ keyHeld.device = d /\ RowLocked(d)
  /\ Tell(keyHeld, Refusal("unavailable"))
  /\ keyHeld' = NoAsk
  /\ UNCHANGED <<hour, key, acts, activating, closing, asks, asked, minted, published, closed>>

-----------------------------------------------------------------------------
(* deactivate_activation and unbind_device load the row without a lock and  *)
(* save every column of it.                                                 *)
CloseRead(d, refresh) ==
  /\ closing[d] = NoActivation /\ acts[d] # NoActivation
  /\ closing' = [closing EXCEPT ![d] = [acts[d] EXCEPT !.status = "deactivated",
                                                        !.refresh = refresh /\ acts[d].refresh]]
  /\ UNCHANGED <<hour, key, acts, activating, keyHeld, asked, minted, published, closed>>

UnbindDevice(d) == CloseRead(d, TRUE) /\ UNCHANGED <<asks, told>>

Deactivate(ask) ==
  /\ ask.kind = "deactivate" /\ asks' = asks \ {ask}
  /\ IF acts[ask.device].cred = ask.cred
     THEN CloseRead(ask.device, FALSE) /\ UNCHANGED told
     ELSE /\ Tell(ask, Refusal("token"))
          /\ UNCHANGED <<hour, key, acts, activating, closing, keyHeld, asked,
                         minted, published, closed>>

CloseTime(d) == IF closed[d] = -1 THEN hour ELSE closed[d]

CloseSave(d) ==
  /\ closing[d] # NoActivation /\ ~RowLocked(d)
  /\ acts' = [acts EXCEPT ![d] = closing[d]]
  /\ closing' = [closing EXCEPT ![d] = NoActivation]
  /\ closed' = [closed EXCEPT ![d] = CloseTime(d)]
  /\ told' = IF asked[d] # NoAsk /\ asked[d].kind = "deactivate"
             THEN [told EXCEPT ![d] = Refusal("none")] ELSE told
  /\ UNCHANGED <<hour, key, activating, keyHeld, asks, asked, minted, published>>

(* revoke_license_key, delete_license_key and delete_license_plan.          *)
CloseActive ==
  /\ keyHeld = NoAsk /\ \A d \in Devices : ~RowLocked(d)
  /\ acts' = [d \in Devices |-> IF Active(d) THEN [acts[d] EXCEPT !.status = "revoked"]
                                ELSE acts[d]]
  /\ closed' = [d \in Devices |-> IF Active(d) THEN CloseTime(d) ELSE closed[d]]
  /\ UNCHANGED <<hour, activating, closing, keyHeld, asks, asked, told, minted, published>>

RevokeKey == key.status # "revoked" /\ key' = [key EXCEPT !.status = "revoked"] /\ CloseActive

DeleteKey == ~key.deleted /\ key' = [key EXCEPT !.deleted = TRUE] /\ CloseActive

LicTick ==
  /\ hour < LicHorizon
  /\ hour' = hour + 1
  /\ UNCHANGED <<key, acts, activating, closing, keyHeld, asks, asked, told, minted,
                 published, closed>>

LicServerNext ==
  \/ \E ask \in asks : ActivateRead(ask) \/ LockKey(ask) \/ Deactivate(ask)
  \/ \E d \in Devices :
       \/ ActivateFind(d) \/ ActivateSave(d) \/ ActivateFails(d)
       \/ CheckInReplay(d) \/ CheckInRotate(d) \/ CheckInRefused(d) \/ CheckInFails(d)
       \/ CloseSave(d)

Administration == RevokeKey \/ DeleteKey \/ \E d \in Devices : UnbindDevice(d)
=============================================================================
