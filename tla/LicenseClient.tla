---------------------------- MODULE LicenseClient ----------------------------
(* The device's side of the licence: the state file a client keeps, its     *)
(* serialized operations (activate, check in, deactivate) and the status    *)
(* readers, which read and write the same file outside the lock.            *)
EXTENDS Licensing

CONSTANTS
  NoFile,
  MaxRequests,   \* bound per device: requests it ever sends
  MaxUpsets      \* bound: abandoned requests, status writers, administration

VARIABLES
  file,       \* the state file, by device
  snapshot,   \* what the operation that holds the lock loaded, or NoFile
  reader,     \* what a status reader is about to write, or NoFile
  requests,   \* requests a device has sent
  upsets      \* how many upsets there have been (only for the bound)

clientVars == <<file, snapshot, reader, requests>>

Fresh == [bound |-> FALSE, cred |-> 0, seq |-> 0, leaseEnd |-> -1, graceEnd |-> -1,
          state |-> "unactivated", error |-> "none"]

(* _derive_local_state: a refusal is remembered only when it says revoked,  *)
(* or that the token is not valid.                                          *)
Derived(f) ==
  IF ~f.bound THEN "unactivated"
  ELSE IF f.state = "revoked" \/ (f.state = "invalid" /\ f.error = "token") THEN f.state
  ELSE IF hour <= f.leaseEnd THEN "active"
  ELSE IF hour <= f.graceEnd THEN "grace"
  ELSE "expired"

DerivedError(f) ==
  IF f.bound /\ Derived(f) \in {"expired", "revoked", "invalid"}
  THEN f.error ELSE "none"

(* _build_public_status                                                     *)
Shown(f) == [f EXCEPT !.state = Derived(f), !.error = DerivedError(f)]

CanUseBusiness(d) == Derived(file[d]) \in {"active", "grace"}

Send(d, kind, cred) ==
  LET ask == [device |-> d, kind |-> kind, cred |-> cred]
  IN  /\ asked' = [asked EXCEPT ![d] = ask]
      /\ asks' = asks \cup {ask}

(* The lock is taken, the file loaded and the request posted.               *)
StartOperation(d, kind) ==
  /\ snapshot[d] = NoFile /\ requests[d] < MaxRequests[d]
  /\ kind = "activate" \/ file[d].bound
  /\ snapshot' = [snapshot EXCEPT ![d] = file[d]]
  /\ requests' = [requests EXCEPT ![d] = @ + 1]
  /\ Send(d, kind, file[d].cred)
  /\ UNCHANGED <<file, reader, hour, key, acts, activating, closing, keyHeld, told,
                 minted, published, closed>>

(* _apply_remote_state                                                      *)
Granted(f, grant) ==
  [f EXCEPT !.bound = TRUE, !.cred = grant.cred, !.seq = grant.seq,
            !.leaseEnd = grant.leaseEnd, !.graceEnd = grant.graceEnd,
            !.state = "active", !.error = "none"]

Fallback(f, error) ==
  IF hour <= f.graceEnd THEN "grace"
  ELSE IF error = "unavailable" THEN "expired" ELSE "invalid"

(* The error branch of refresh_remote_license.                              *)
Refused(f, error) ==
  [f EXCEPT !.state = CASE error = "revoked" -> "revoked"
                        [] error \in {"token", "closed"} -> "invalid"
                        [] OTHER -> Fallback(f, error),
            !.error = error]

Outcome(d) ==
  IF asked[d].kind = "deactivate" THEN Fresh
  ELSE IF told[d].ok THEN Granted(snapshot[d], told[d])
  ELSE IF asked[d].kind = "activate" THEN file[d]
  ELSE Refused(snapshot[d], told[d].error)

EndOperation(d, outcome) ==
  /\ file' = [file EXCEPT ![d] = outcome]
  /\ snapshot' = [snapshot EXCEPT ![d] = NoFile]
  /\ asked' = [asked EXCEPT ![d] = NoAsk]
  /\ told' = [told EXCEPT ![d] = NoTold]
  /\ UNCHANGED <<reader, requests, hour, key, acts, activating, closing, keyHeld, asks,
                 minted, published, closed>>

FinishOperation(d) ==
  /\ asked[d] # NoAsk /\ told[d] # NoTold
  /\ EndOperation(d, Shown(Outcome(d)))

(* The twelve seconds pass, or the connection breaks: a check-in falls back *)
(* on what the file still allows, a deactivation forgets everything.        *)
AbandonOperation(d) ==
  /\ asked[d] # NoAsk
  /\ EndOperation(d, CASE asked[d].kind = "deactivate" -> Fresh
                       [] asked[d].kind = "activate" -> file[d]
                       [] OTHER -> Shown(Refused(snapshot[d], "unavailable")))

(* get_public_license_status: loads the file, and when the derived state    *)
(* differs writes the whole of what it loaded back.                         *)
ReadStatus(d) ==
  /\ reader[d] = NoFile /\ Shown(file[d]) # file[d]
  /\ reader' = [reader EXCEPT ![d] = Shown(file[d])]
  /\ UNCHANGED <<file, snapshot, requests, licVars>>

WriteStatus(d) ==
  /\ reader[d] # NoFile
  /\ file' = [file EXCEPT ![d] = reader[d]]
  /\ reader' = [reader EXCEPT ![d] = NoFile]
  /\ UNCHANGED <<snapshot, requests, licVars>>

LicInit ==
  /\ hour = 0
  /\ key = [status |-> "pending", deleted |-> FALSE, expires |-> 0]
  /\ acts = [d \in Devices |-> NoActivation]
  /\ activating = [d \in Devices |-> NoHandler]
  /\ closing = [d \in Devices |-> NoActivation]
  /\ keyHeld = NoAsk /\ asks = {}
  /\ asked = [d \in Devices |-> NoAsk]
  /\ told = [d \in Devices |-> NoTold]
  /\ minted = 0 /\ published = {}
  /\ closed = [d \in Devices |-> -1]
  /\ file = [d \in Devices |-> Fresh]
  /\ snapshot = [d \in Devices |-> NoFile]
  /\ reader = [d \in Devices |-> NoFile]
  /\ requests = [d \in Devices |-> 0] /\ upsets = 0

LicNext ==
  \/ (LicServerNext \/ LicTick) /\ UNCHANGED <<clientVars, upsets>>
  \/ /\ UNCHANGED upsets
     /\ \E d \in Devices :
          \/ \E kind \in {"activate", "check-in", "deactivate"} : StartOperation(d, kind)
          \/ FinishOperation(d) \/ WriteStatus(d)
  \/ /\ upsets < MaxUpsets
     /\ upsets' = upsets + 1
     /\ \/ Administration /\ UNCHANGED clientVars
        \/ \E d \in Devices : AbandonOperation(d) \/ ReadStatus(d)

LicSpec == LicInit /\ [][LicNext]_<<licVars, clientVars, upsets>>

-----------------------------------------------------------------------------
(* Properties.                                                              *)

(* Invariant: one sequence number of an activation was issued with one pair *)
(* of tokens, however many check-ins and activations raced for it.          *)
SequenceNamesOneCredential ==
  \A p, q \in published : p.device = q.device /\ p.seq = q.seq => p = q

(* Invariant: a stored renewal answer that may still be replayed carries    *)
(* the tokens that are valid now, and nothing newer has been issued.        *)
ReplayableReceiptIsCurrent ==
  \A d \in Devices :
    Active(d) /\ acts[d].receipt # NoReceipt /\ acts[d].receipt.seq = acts[d].seq
      => acts[d].receipt.grant = Grant(acts[d])

(* Action property: a closed activation is never active again.              *)
ClosedStaysClosed ==
  [][\A d \in Devices : closed[d] # -1 => acts'[d].status \in ClosedStates]_licVars

(* Invariant: a client does business only while something it was issued     *)
(* lasts, and at most one term after its activation was closed, whatever    *)
(* answers it lost and whatever its status readers wrote back.              *)
BusinessEndsAfterClosing ==
  \A d \in Devices : CanUseBusiness(d) =>
    /\ \E p \in published : p.device = d /\ hour <= p.until
    /\ closed[d] # -1 => hour <= closed[d] + Later(Grace, LeaseTerm)
=============================================================================
