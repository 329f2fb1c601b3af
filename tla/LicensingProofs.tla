--------------------------- MODULE LicensingProofs ---------------------------
(* The licence service with its clients, for any devices, bounds and terms: *)
(* no two credentials share a sequence number, a stored answer that may be  *)
(* replayed is current, a closed activation stays closed, and its client    *)
(* does business at most a term longer.                                     *)
EXTENDS LicenseClient, TLAPS

IsRow(r) ==
  /\ DOMAIN r = {"status", "cred", "seq", "refresh", "leaseEnd", "graceEnd", "expires", "receipt"}
  /\ r.seq \in Nat

IsHandler(h) == DOMAIN h = {"stage", "ask", "key", "row"} /\ IsRow(h.row)

RowsShaped ==
  /\ acts = [d \in Devices |-> acts[d]]
  /\ activating = [d \in Devices |-> activating[d]]
  /\ closing = [d \in Devices |-> closing[d]]
  /\ \A d \in Devices :
       /\ IsRow(acts[d]) /\ IsRow(closing[d])
       /\ activating[d] # NoHandler => IsHandler(activating[d])

(* A row an activation has locked is active and is the row it read.         *)
LockedRowIsCurrent ==
  \A d \in Devices : RowLocked(d) => activating[d].row = acts[d] /\ Active(d)

(* A row about to be closed exists.                                         *)
ClosingRowExists ==
  \A d \in Devices : closing[d] # NoActivation =>
    closing[d].status = "deactivated" /\ acts[d] # NoActivation

(* What was published belongs to a row, and an active row has the highest   *)
(* sequence published for it.                                               *)
PublishedOnRows ==
  \A p \in published :
    /\ p.seq \in Nat /\ p.device \in Devices /\ acts[p.device] # NoActivation
    /\ Active(p.device) => p.seq <= acts[p.device].seq

ReceiptBehindRow ==
  \A d \in Devices : Active(d) /\ acts[d].receipt # NoReceipt =>
    /\ acts[d].receipt.seq \in Nat
    /\ acts[d].receipt.seq <= acts[d].seq
    /\ acts[d].receipt.seq = acts[d].seq => acts[d].receipt.grant = Grant(acts[d])

ClosedIsClosed == \A d \in Devices : closed[d] # -1 => acts[d].status \in ClosedStates

LedgerInv ==
  /\ RowsShaped /\ LockedRowIsCurrent /\ ClosingRowExists /\ PublishedOnRows
  /\ SequenceNamesOneCredential /\ ReceiptBehindRow
  /\ closed = [d \in Devices |-> closed[d]] /\ ClosedIsClosed

(* What the invariant reads of the state.                                   *)
ledger == <<acts, activating, closing, published, closed>>

-----------------------------------------------------------------------------
LEMMA NoActivationShape ==
  IsRow(NoActivation) /\ NoActivation.status = "none" /\ NoActivation.receipt = NoReceipt
BY DEF IsRow, NoActivation

LEMMA RotatedShape ==
  ASSUME NEW row, IsRow(row), NEW cred
  PROVE  /\ IsRow(Rotated(row, cred))
         /\ Rotated(row, cred).status = row.status
         /\ Rotated(row, cred).seq = row.seq + 1
         /\ Rotated(row, cred).receipt = row.receipt
BY DEF IsRow, Rotated

LEMMA ReissuedShape ==
  ASSUME NEW row, IsRow(row), NEW cred, NEW expires
  PROVE  /\ IsRow(Reissued(row, cred, expires))
         /\ Reissued(row, cred, expires).status = row.status
         /\ Reissued(row, cred, expires).seq = row.seq + 1
         /\ Reissued(row, cred, expires).receipt = row.receipt
<1> DEFINE r == Rotated(row, cred)
<1>1. IsRow(r) /\ r.status = row.status /\ r.seq = row.seq + 1 /\ r.receipt = row.receipt
  BY RotatedShape
<1> HIDE DEF r
<1>2. LET s == [r EXCEPT !.expires = expires]
      IN  IsRow(s) /\ s.status = r.status /\ s.seq = r.seq /\ s.receipt = r.receipt
  BY <1>1 DEF IsRow
<1> QED  BY <1>1, <1>2 DEF Reissued, r

LEMMA NewActivationShape ==
  ASSUME NEW cred, NEW expires
  PROVE  /\ IsRow(NewActivation(cred, expires))
         /\ NewActivation(cred, expires).status = "active"
         /\ NewActivation(cred, expires).seq = 1
         /\ NewActivation(cred, expires).receipt = NoReceipt
BY DEF IsRow, NewActivation

LEMMA ReceiptShape ==
  ASSUME NEW row, IsRow(row), NEW receipt
  PROVE  LET r == [row EXCEPT !.receipt = receipt]
         IN  /\ IsRow(r) /\ r.status = row.status /\ r.seq = row.seq /\ r.receipt = receipt
             /\ Grant(r) = Grant(row)
BY DEF IsRow, Grant

LEMMA StatusShape ==
  ASSUME NEW row, IsRow(row), NEW status
  PROVE  LET r == [row EXCEPT !.status = status]
         IN  IsRow(r) /\ r.status = status /\ r.seq = row.seq
BY DEF IsRow

LEMMA CloseShape ==
  ASSUME NEW row, IsRow(row), NEW flag
  PROVE  LET r == [row EXCEPT !.status = "deactivated", !.refresh = flag]
         IN  IsRow(r) /\ r.status = "deactivated"
BY DEF IsRow

-----------------------------------------------------------------------------
LEMMA LedgerAtStart == LicInit => LedgerInv
<1>1. SUFFICES ASSUME LicInit PROVE LedgerInv
  OBVIOUS
<1>2. RowsShaped
  BY <1>1, NoActivationShape DEF LicInit, RowsShaped
<1>3. \A d \in Devices : acts[d] = NoActivation /\ activating[d] = NoHandler /\ ~Active(d)
  BY <1>1, NoActivationShape DEF LicInit, Active
<1>4. LockedRowIsCurrent /\ ClosingRowExists /\ ReceiptBehindRow
  BY <1>1, <1>3 DEF LicInit, LockedRowIsCurrent, RowLocked, ClosingRowExists, ReceiptBehindRow
<1>5. PublishedOnRows /\ SequenceNamesOneCredential
  BY <1>1 DEF LicInit, PublishedOnRows, SequenceNamesOneCredential
<1>6. closed = [d \in Devices |-> closed[d]] /\ ClosedIsClosed
  BY <1>1 DEF LicInit, ClosedIsClosed
<1> QED  BY <1>2, <1>4, <1>5, <1>6 DEF LedgerInv

LEMMA LedgerUntouched == LedgerInv /\ UNCHANGED ledger => LedgerInv'
BY DEF LedgerInv, ledger, RowsShaped, LockedRowIsCurrent, RowLocked, ClosingRowExists,
       PublishedOnRows, SequenceNamesOneCredential, ReceiptBehindRow, ClosedIsClosed, Active

(* A step that only moves the activations under way: one of them starts or  *)
(* finds its row, or all that changes is that one ends.                     *)
LEMMA LedgerActivating ==
  ASSUME LedgerInv, UNCHANGED <<acts, closing, published, closed>>,
         activating' = [d \in Devices |-> activating'[d]],
         \A d \in Devices :
           \/ activating'[d] = activating[d] \/ activating'[d] = NoHandler
           \/ /\ IsHandler(activating'[d])
              /\ activating'[d].row = NoActivation \/ (Active(d) /\ activating'[d].row = acts[d])
  PROVE  LedgerInv'
<1>1. RowsShaped'  BY DEF LedgerInv, RowsShaped
<1>2. LockedRowIsCurrent'
  BY DEF LedgerInv, LockedRowIsCurrent, RowLocked, Active
<1> QED
  BY <1>1, <1>2 DEF LedgerInv, ClosingRowExists, PublishedOnRows, SequenceNamesOneCredential,
                    ReceiptBehindRow, ClosedIsClosed, Active

(* A step that gives an activation a new sequence and publishes it: the row *)
(* was missing, or was active and moves to its next sequence.               *)
LEMMA LedgerPublish ==
  ASSUME LedgerInv, NEW d \in Devices, NEW row, IsRow(row), row.status = "active",
         acts' = [acts EXCEPT ![d] = row], Publish(d, row),
         UNCHANGED <<closing, closed>>,
         \/ acts[d] = NoActivation /\ row.seq = 1
         \/ Active(d) /\ row.seq = acts[d].seq + 1,
         row.receipt # NoReceipt =>
           \/ acts[d] # NoActivation /\ row.receipt = acts[d].receipt
           \/ row.receipt.seq = row.seq /\ row.receipt.grant = Grant(row),
         ~RowLocked(d)', activating' = [e \in Devices |-> activating'[e]],
         \A e \in Devices : activating'[e] = activating[e] \/ activating'[e] = NoHandler
  PROVE  LedgerInv'
<1> DEFINE p == [device |-> d, seq |-> row.seq, cred |-> row.cred,
                 until |-> Later(row.leaseEnd, row.graceEnd)]
<1>1. published' = published \cup {p}  BY DEF Publish
<1>2. /\ acts'[d] = row /\ acts' = [e \in Devices |-> acts'[e]]
      /\ \A e \in Devices \ {d} : acts'[e] = acts[e]
  BY DEF LedgerInv, RowsShaped
<1>3. row # NoActivation /\ row.seq \in Nat
  BY NoActivationShape DEF IsRow
<1>4. RowsShaped'
  BY <1>2 DEF LedgerInv, RowsShaped
<1>5. LockedRowIsCurrent'
  BY <1>2 DEF LedgerInv, LockedRowIsCurrent, RowLocked, Active
<1>6. ClosingRowExists'
  BY <1>2, <1>3 DEF LedgerInv, ClosingRowExists
<1>7. \A q \in published : q.device = d => q.seq < row.seq
  BY <1>3 DEF LedgerInv, PublishedOnRows, RowsShaped, IsRow
<1>8. p.device = d /\ p.seq = row.seq  OBVIOUS
<1> HIDE DEF p
<1>9. PublishedOnRows'
  <2> SUFFICES ASSUME NEW q \in published'
               PROVE  /\ q.seq \in Nat /\ q.device \in Devices /\ acts'[q.device] # NoActivation
                      /\ Active(q.device)' => q.seq <= acts'[q.device].seq
    BY DEF PublishedOnRows
  <2>1. CASE q = p
    BY <2>1, <1>2, <1>3, <1>8
  <2>2. CASE q \in published /\ q.device = d
    BY <2>2, <1>2, <1>3, <1>7 DEF LedgerInv, PublishedOnRows
  <2>3. CASE q \in published /\ q.device # d
    BY <2>3, <1>2 DEF LedgerInv, PublishedOnRows, Active
  <2> QED  BY <1>1, <2>1, <2>2, <2>3
<1>10. SequenceNamesOneCredential'
  BY <1>1, <1>3, <1>7, <1>8 DEF LedgerInv, SequenceNamesOneCredential, PublishedOnRows
<1>11. ReceiptBehindRow'
  <2> SUFFICES ASSUME NEW e \in Devices, Active(e)', acts'[e].receipt # NoReceipt
               PROVE  /\ acts'[e].receipt.seq \in Nat
                      /\ acts'[e].receipt.seq <= acts'[e].seq
                      /\ acts'[e].receipt.seq = acts'[e].seq
                           => acts'[e].receipt.grant = Grant(acts'[e])
    BY DEF ReceiptBehindRow, Grant
  <2>1. CASE e # d
    BY <2>1, <1>2 DEF LedgerInv, ReceiptBehindRow, Active
  <2>2. CASE e = d /\ row.receipt.seq = row.seq /\ row.receipt.grant = Grant(row)
    BY <2>2, <1>2, <1>3
  <2>3. CASE e = d /\ acts[d] # NoActivation /\ row.receipt = acts[d].receipt
    <3>1. acts[d].receipt.seq \in Nat /\ acts[d].receipt.seq <= acts[d].seq
          /\ row.seq = acts[d].seq + 1 /\ acts[d].seq \in Nat
      BY <2>3, <1>2 DEF LedgerInv, ReceiptBehindRow, RowsShaped, IsRow
    <3> QED  BY <2>3, <3>1, <1>2
  <2> QED  BY <1>2, <2>1, <2>2, <2>3
<1>12. ClosedIsClosed'
  BY <1>2, NoActivationShape DEF LedgerInv, ClosedIsClosed, ClosedStates, Active
<1> QED
  BY <1>4, <1>5, <1>6, <1>9, <1>10, <1>11, <1>12 DEF LedgerInv

(* A step that closes rows: none of them is locked by an activation.        *)
LEMMA LedgerClose ==
  ASSUME LedgerInv, UNCHANGED <<activating, published>>,
         acts' = [d \in Devices |-> acts'[d]], closing' = [d \in Devices |-> closing'[d]],
         closed' = [d \in Devices |-> closed'[d]],
         \A d \in Devices :
           \/ acts'[d] = acts[d] /\ closed'[d] = closed[d]
           \/ ~RowLocked(d) /\ IsRow(acts'[d]) /\ acts'[d].status \in ClosedStates,
         \A d \in Devices : closing'[d] = closing[d] \/ closing'[d] = NoActivation
  PROVE  LedgerInv'
<1>1. RowsShaped'  BY NoActivationShape DEF LedgerInv, RowsShaped
<1>2. LockedRowIsCurrent'
  BY DEF LedgerInv, LockedRowIsCurrent, RowLocked, Active
<1>3. \A d \in Devices : acts'[d] = acts[d] \/ (acts'[d] # NoActivation /\ ~Active(d)')
  BY NoActivationShape DEF ClosedStates, Active
<1>4. ClosingRowExists'
  BY <1>3 DEF LedgerInv, ClosingRowExists
<1>5. PublishedOnRows'
  BY <1>3 DEF LedgerInv, PublishedOnRows, Active
<1>6. ReceiptBehindRow'
  BY <1>3 DEF LedgerInv, ReceiptBehindRow, Active, Grant
<1>7. ClosedIsClosed'
  BY DEF LedgerInv, ClosedIsClosed
<1> QED
  BY <1>1, <1>2, <1>4, <1>5, <1>6, <1>7 DEF LedgerInv, SequenceNamesOneCredential

-----------------------------------------------------------------------------
(* The handlers.                                                            *)
LEMMA LedgerActivateRead ==
  ASSUME LedgerInv, NEW ask, ActivateRead(ask)
  PROVE  LedgerInv'
<1> DEFINE h == [stage |-> "read", ask |-> ask, key |-> key, row |-> NoActivation]
<1>1. UNCHANGED <<acts, closing, published, closed>>  BY DEF ActivateRead
<1>2. CASE UNCHANGED activating
  BY <1>1, <1>2, LedgerUntouched DEF ledger
<1>3. CASE activating' = [activating EXCEPT ![ask.device] = h]
  <2>1. IsHandler(h) /\ h.row = NoActivation  BY NoActivationShape DEF IsHandler
  <2> HIDE DEF h
  <2>2. /\ activating' = [d \in Devices |-> activating'[d]]
        /\ \A d \in Devices : activating'[d] = activating[d] \/ activating'[d] = h
    BY <1>3 DEF LedgerInv, RowsShaped
  <2> QED  BY <1>1, <2>1, <2>2, LedgerActivating
<1> QED  BY <1>2, <1>3 DEF ActivateRead

LEMMA LedgerActivateFind ==
  ASSUME LedgerInv, NEW d \in Devices, ActivateFind(d)
  PROVE  LedgerInv'
<1> DEFINE row == IF Active(d) THEN acts[d] ELSE NoActivation
           h == [activating[d] EXCEPT !.stage = "found", !.row = row]
<1>1. UNCHANGED <<acts, closing, published, closed>> /\ activating[d] # NoHandler
  BY DEF ActivateFind
<1>2. IsHandler(activating[d]) /\ IsRow(row)
  BY <1>1, NoActivationShape DEF LedgerInv, RowsShaped
<1>3. row = NoActivation \/ (Active(d) /\ row = acts[d])  OBVIOUS
<1> HIDE DEF row
<1>4. IsHandler(h) /\ h.row = row
  BY <1>2 DEF IsHandler
<1> HIDE DEF h
<1>5. \/ activating' = [activating EXCEPT ![d] = h]
      \/ activating' = [activating EXCEPT ![d] = NoHandler]
  BY DEF ActivateFind, h, row, LedgerInv, RowsShaped
<1>6. /\ activating' = [e \in Devices |-> activating'[e]]
      /\ \A e \in Devices : \/ activating'[e] = activating[e] \/ activating'[e] = NoHandler
                            \/ e = d /\ activating'[e] = h
  BY <1>5 DEF LedgerInv, RowsShaped
<1> QED  BY <1>1, <1>3, <1>4, <1>6, LedgerActivating

LEMMA LedgerActivateSave ==
  ASSUME LedgerInv, NEW d \in Devices, ActivateSave(d)
  PROVE  LedgerInv'
<1> DEFINE h == activating[d]
           expires == Expiry(h.key)
           row == IF h.row = NoActivation THEN NewActivation(minted + 1, expires)
                  ELSE Reissued(h.row, minted + 1, expires)
<1>1. /\ h # NoHandler /\ h.stage = "found"
      /\ h.row # NoActivation \/ acts[d] = NoActivation
      /\ acts' = [acts EXCEPT ![d] = row] /\ Publish(d, row)
      /\ activating' = [activating EXCEPT ![d] = NoHandler]
      /\ UNCHANGED <<closing, closed>>
  BY DEF ActivateSave
<1>2. h.row # NoActivation => h.row = acts[d] /\ Active(d) /\ IsRow(acts[d])
  BY <1>1 DEF LedgerInv, LockedRowIsCurrent, RowLocked, RowsShaped
<1>3. /\ IsRow(row) /\ row.status = "active"
      /\ \/ acts[d] = NoActivation /\ row.seq = 1
         \/ Active(d) /\ row.seq = acts[d].seq + 1
      /\ row.receipt # NoReceipt => acts[d] # NoActivation /\ row.receipt = acts[d].receipt
  <2>1. CASE h.row = NoActivation
    BY <1>1, <2>1, NewActivationShape
  <2>2. CASE h.row # NoActivation
    <3>1. row = Reissued(acts[d], minted + 1, expires)  BY <1>2, <2>2
    <3>2. /\ IsRow(row) /\ row.status = acts[d].status /\ row.seq = acts[d].seq + 1
          /\ row.receipt = acts[d].receipt
      BY <1>2, <2>2, <3>1, ReissuedShape
    <3> QED  BY <1>2, <2>2, <3>2 DEF Active
  <2> QED  BY <2>1, <2>2
<1> HIDE DEF row, expires
<1>4. /\ activating'[d] = NoHandler /\ activating' = [e \in Devices |-> activating'[e]]
      /\ \A e \in Devices : activating'[e] = activating[e] \/ activating'[e] = NoHandler
  BY <1>1 DEF LedgerInv, RowsShaped
<1> QED  BY <1>1, <1>3, <1>4, LedgerPublish DEF RowLocked

LEMMA LedgerActivateFails ==
  ASSUME LedgerInv, NEW d \in Devices, ActivateFails(d)
  PROVE  LedgerInv'
<1>1. /\ UNCHANGED <<acts, closing, published, closed>>
      /\ activating' = [activating EXCEPT ![d] = NoHandler]
  BY DEF ActivateFails
<1>2. /\ activating' = [e \in Devices |-> activating'[e]]
      /\ \A e \in Devices : activating'[e] = activating[e] \/ activating'[e] = NoHandler
  BY <1>1 DEF LedgerInv, RowsShaped
<1> QED  BY <1>1, <1>2, LedgerActivating

LEMMA LedgerRotate ==
  ASSUME LedgerInv, NEW d \in Devices, CheckInRotate(d)
  PROVE  LedgerInv'
<1> DEFINE row == Rotated(acts[d], minted + 1)
           receipt == [nonce |-> keyHeld.cred, seq |-> row.seq, grant |-> Grant(row)]
           written == IF d \in Native THEN [row EXCEPT !.receipt = receipt] ELSE row
<1>1. /\ acts' = [acts EXCEPT ![d] = written] /\ Publish(d, row) /\ Active(d) /\ ~RowLocked(d)
      /\ UNCHANGED <<activating, closing, closed>>
  BY DEF CheckInRotate, Admitted, ActivationUsable
<1>2. IsRow(acts[d])  BY DEF LedgerInv, RowsShaped
<1>3. /\ IsRow(row) /\ row.status = "active" /\ row.seq = acts[d].seq + 1
      /\ row.receipt = acts[d].receipt
  BY <1>1, <1>2, RotatedShape DEF Active
<1>4. acts[d] # NoActivation  BY <1>1, NoActivationShape DEF Active
<1>5. receipt.seq = row.seq /\ receipt.grant = Grant(row)  OBVIOUS
<1> HIDE DEF row, receipt
<1>6. /\ IsRow(written) /\ written.status = "active" /\ written.seq = row.seq
      /\ Grant(written) = Grant(row)
      /\ \/ written.receipt = acts[d].receipt \/ written.receipt = receipt
  BY <1>3, ReceiptShape
<1>7. Publish(d, written)
  <2>1. written.cred = row.cred /\ written.leaseEnd = row.leaseEnd
        /\ written.graceEnd = row.graceEnd
    BY <1>3 DEF IsRow
  <2> QED  BY <1>1, <1>6, <2>1 DEF Publish
<1> HIDE DEF written
<1>8. /\ ~RowLocked(d)' /\ activating' = [e \in Devices |-> activating'[e]]
      /\ \A e \in Devices : activating'[e] = activating[e]
  BY <1>1 DEF LedgerInv, RowsShaped, RowLocked
<1> QED
  BY <1>1, <1>3, <1>4, <1>5, <1>6, <1>7, <1>8, LedgerPublish

LEMMA LedgerCloseRead ==
  ASSUME LedgerInv, NEW d, NEW refresh, CloseRead(d, refresh)
  PROVE  LedgerInv'
<1> DEFINE r == [acts[d] EXCEPT !.status = "deactivated",
                                !.refresh = refresh /\ acts[d].refresh]
<1>1. /\ closing' = [closing EXCEPT ![d] = r] /\ acts[d] # NoActivation
      /\ UNCHANGED <<acts, activating, published, closed>>
  BY DEF CloseRead
<1>2. d \in Devices => IsRow(r) /\ r.status = "deactivated"
  BY CloseShape DEF LedgerInv, RowsShaped
<1> HIDE DEF r
<1>3. /\ closing' = [e \in Devices |-> closing'[e]]
      /\ \A e \in Devices : closing'[e] = closing[e] \/ (e = d /\ closing'[e] = r)
  BY <1>1 DEF LedgerInv, RowsShaped
<1>4. RowsShaped' /\ ClosingRowExists'
  BY <1>1, <1>2, <1>3 DEF LedgerInv, RowsShaped, ClosingRowExists
<1> QED
  BY <1>1, <1>4 DEF LedgerInv, LockedRowIsCurrent, RowLocked, PublishedOnRows,
                    SequenceNamesOneCredential, ReceiptBehindRow, ClosedIsClosed, Active, Grant

LEMMA LedgerCloseSave ==
  ASSUME LedgerInv, NEW d \in Devices, CloseSave(d)
  PROVE  LedgerInv'
<1>1. /\ closing[d] # NoActivation /\ ~RowLocked(d)
      /\ acts' = [acts EXCEPT ![d] = closing[d]]
      /\ closing' = [closing EXCEPT ![d] = NoActivation]
      /\ closed' = [closed EXCEPT ![d] = CloseTime(d)]
      /\ UNCHANGED <<activating, published>>
  BY DEF CloseSave
<1>2. IsRow(closing[d]) /\ closing[d].status \in ClosedStates
  BY <1>1 DEF LedgerInv, RowsShaped, ClosingRowExists, ClosedStates
<1>3. /\ acts' = [e \in Devices |-> acts'[e]] /\ closing' = [e \in Devices |-> closing'[e]]
      /\ closed' = [e \in Devices |-> closed'[e]]
      /\ acts'[d] = closing[d]
      /\ \A e \in Devices \ {d} : acts'[e] = acts[e] /\ closed'[e] = closed[e]
      /\ \A e \in Devices : closing'[e] = closing[e] \/ closing'[e] = NoActivation
  BY <1>1 DEF LedgerInv, RowsShaped
<1> QED  BY <1>1, <1>2, <1>3, LedgerClose

LEMMA LedgerCloseActive ==
  ASSUME LedgerInv, CloseActive
  PROVE  LedgerInv'
<1> DEFINE r(d) == [acts[d] EXCEPT !.status = "revoked"]
<1>1. /\ \A d \in Devices : ~RowLocked(d)
      /\ acts' = [d \in Devices |-> IF Active(d) THEN r(d) ELSE acts[d]]
      /\ closed' = [d \in Devices |-> IF Active(d) THEN CloseTime(d) ELSE closed[d]]
      /\ UNCHANGED <<activating, closing, published>>
  BY DEF CloseActive
<1>2. \A d \in Devices : IsRow(r(d)) /\ r(d).status \in ClosedStates
  BY StatusShape DEF LedgerInv, RowsShaped, ClosedStates
<1> HIDE DEF r
<1>3. /\ acts' = [d \in Devices |-> acts'[d]] /\ closed' = [d \in Devices |-> closed'[d]]
      /\ \A d \in Devices : \/ acts'[d] = acts[d] /\ closed'[d] = closed[d]
                            \/ acts'[d] = r(d)
  BY <1>1
<1>4. closing' = [d \in Devices |-> closing'[d]]
  BY <1>1 DEF LedgerInv, RowsShaped
<1> QED  BY <1>1, <1>2, <1>3, <1>4, LedgerClose

-----------------------------------------------------------------------------
LEMMA LedgerServer ==
  ASSUME LedgerInv, LicServerNext \/ LicTick \/ Administration
  PROVE  LedgerInv'
<1>1. ASSUME NEW ask, ActivateRead(ask)  PROVE LedgerInv'
  BY <1>1, LedgerActivateRead
<1>2. ASSUME NEW ask, LockKey(ask)  PROVE LedgerInv'
  BY <1>2, LedgerUntouched DEF LockKey, ledger
<1>3. ASSUME NEW ask, Deactivate(ask)  PROVE LedgerInv'
  <2>1. CASE CloseRead(ask.device, FALSE)
    BY <2>1, LedgerCloseRead
  <2>2. CASE ~CloseRead(ask.device, FALSE)
    BY <1>3, <2>2, LedgerUntouched DEF Deactivate, ledger
  <2> QED  BY <2>1, <2>2
<1>4. ASSUME NEW d \in Devices, ActivateFind(d) \/ ActivateSave(d) \/ ActivateFails(d)
      PROVE  LedgerInv'
  BY <1>4, LedgerActivateFind, LedgerActivateSave, LedgerActivateFails
<1>5. ASSUME NEW d \in Devices, CheckInReplay(d) \/ CheckInRefused(d) \/ CheckInFails(d)
      PROVE  LedgerInv'
  BY <1>5, LedgerUntouched DEF CheckInReplay, CheckInRefused, CheckInFails, ledger
<1>6. ASSUME NEW d \in Devices, CheckInRotate(d) \/ CloseSave(d)
      PROVE  LedgerInv'
  BY <1>6, LedgerRotate, LedgerCloseSave
<1>7. CASE LicTick
  BY <1>7, LedgerUntouched DEF LicTick, ledger
<1>8. CASE RevokeKey \/ DeleteKey
  BY <1>8, LedgerCloseActive DEF RevokeKey, DeleteKey
<1>9. ASSUME NEW d \in Devices, UnbindDevice(d)  PROVE LedgerInv'
  BY <1>9, LedgerCloseRead DEF UnbindDevice
<1> QED
  BY <1>1, <1>2, <1>3, <1>4, <1>5, <1>6, <1>7, <1>8, <1>9 DEF LicServerNext, Administration

LEMMA ClientLeavesLedger ==
  ASSUME NEW d \in Devices,
         \/ \E kind \in {"activate", "check-in", "deactivate"} : StartOperation(d, kind)
         \/ FinishOperation(d) \/ WriteStatus(d) \/ AbandonOperation(d) \/ ReadStatus(d)
  PROVE  UNCHANGED ledger
BY DEF StartOperation, FinishOperation, EndOperation, WriteStatus, AbandonOperation, ReadStatus,
       licVars, ledger

LEMMA LedgerPreserved == LedgerInv /\ [LicNext]_<<licVars, clientVars, upsets>> => LedgerInv'
<1>1. SUFFICES ASSUME LedgerInv, [LicNext]_<<licVars, clientVars, upsets>> PROVE LedgerInv'
  OBVIOUS
<1>2. CASE LicServerNext \/ LicTick \/ Administration
  BY <1>1, <1>2, LedgerServer
<1>3. CASE \E d \in Devices :
             \/ \E kind \in {"activate", "check-in", "deactivate"} : StartOperation(d, kind)
             \/ FinishOperation(d) \/ WriteStatus(d) \/ AbandonOperation(d) \/ ReadStatus(d)
  BY <1>1, <1>3, ClientLeavesLedger, LedgerUntouched
<1>4. CASE UNCHANGED <<licVars, clientVars, upsets>>
  BY <1>1, <1>4, LedgerUntouched DEF licVars, ledger
<1> QED  BY <1>1, <1>2, <1>3, <1>4 DEF LicNext

(* The time of a closing is kept.                                           *)
LEMMA ClosedNeverForgotten ==
  ASSUME LedgerInv, [LicNext]_<<licVars, clientVars, upsets>>,
         NEW d \in Devices, closed[d] # -1
  PROVE  closed'[d] = closed[d]
<1>1. ASSUME NEW e \in Devices, CloseSave(e)  PROVE closed'[d] = closed[d]
  BY <1>1 DEF CloseSave, CloseTime, LedgerInv
<1>2. ASSUME CloseActive  PROVE closed'[d] = closed[d]
  BY <1>2 DEF CloseActive, CloseTime
<1>3. ASSUME NEW e \in Devices,
             \/ ActivateFind(e) \/ ActivateSave(e) \/ ActivateFails(e) \/ CheckInReplay(e)
             \/ CheckInRotate(e) \/ CheckInRefused(e) \/ CheckInFails(e)
      PROVE  UNCHANGED closed
  BY <1>3 DEF ActivateFind, ActivateSave, ActivateFails, CheckInReplay, CheckInRotate,
              CheckInRefused, CheckInFails
<1>4. ASSUME NEW ask, ActivateRead(ask) \/ LockKey(ask) \/ Deactivate(ask)
      PROVE  UNCHANGED closed
  BY <1>4 DEF ActivateRead, LockKey, Deactivate, CloseRead
<1>5. ASSUME LicTick \/ \E e \in Devices : UnbindDevice(e)
      PROVE  UNCHANGED closed
  BY <1>5 DEF LicTick, UnbindDevice, CloseRead
<1>6. CASE LicServerNext \/ LicTick \/ Administration
  BY <1>1, <1>2, <1>3, <1>4, <1>5, <1>6 DEF LicServerNext, Administration, RevokeKey, DeleteKey
<1>7. CASE \E e \in Devices :
             \/ \E kind \in {"activate", "check-in", "deactivate"} : StartOperation(e, kind)
             \/ FinishOperation(e) \/ WriteStatus(e) \/ AbandonOperation(e) \/ ReadStatus(e)
  BY <1>7, ClientLeavesLedger DEF ledger
<1>8. CASE UNCHANGED <<licVars, clientVars, upsets>>
  BY <1>8 DEF licVars
<1> QED  BY <1>6, <1>7, <1>8 DEF LicNext

LEMMA LedgerAlways == LicSpec => []LedgerInv
BY LedgerAtStart, LedgerPreserved, PTL DEF LicSpec

(* However activations, check-ins and closings of any devices interleave,   *)
(* one sequence number of an activation names one credential pair: the row  *)
(* lock makes every rotation start from the row it replaces.                *)
THEOREM SequenceTheorem == LicSpec => []SequenceNamesOneCredential
<1>1. LedgerInv => SequenceNamesOneCredential  BY DEF LedgerInv
<1> QED  BY <1>1, LedgerAlways, PTL

(* A renewal receipt that renew_once may replay carries the tokens that are *)
(* on the row: any later issue has a higher sequence.                       *)
THEOREM ReceiptTheorem == LicSpec => []ReplayableReceiptIsCurrent
<1>1. LedgerInv => ReplayableReceiptIsCurrent
  BY DEF LedgerInv, ReceiptBehindRow, ReplayableReceiptIsCurrent
<1> QED  BY <1>1, LedgerAlways, PTL

(* An unbound, deactivated or revoked activation never comes back, although *)
(* the rows are closed by handlers that loaded them without a lock.         *)
THEOREM ClosedTheorem == LicSpec => ClosedStaysClosed
<1>1. LedgerInv /\ LedgerInv' /\ [LicNext]_<<licVars, clientVars, upsets>>
        => [\A d \in Devices : closed[d] # -1 => acts'[d].status \in ClosedStates]_licVars
  <2> SUFFICES ASSUME LedgerInv, LedgerInv', NEW d \in Devices, closed[d] # -1,
                      [LicNext]_<<licVars, clientVars, upsets>>
               PROVE  acts'[d].status \in ClosedStates
    OBVIOUS
  <2> QED  BY ClosedNeverForgotten DEF LedgerInv, ClosedIsClosed
<1> QED  BY <1>1, LedgerAlways, PTL DEF LicSpec, ClosedStaysClosed
-----------------------------------------------------------------------------
(* How long business lasts.                                                 *)
Term == Later(Grace, LeaseTerm)

(* Something d was issued lasts at least as long as r allows.               *)
Backed(d, r) ==
  /\ r.leaseEnd \in Int /\ r.graceEnd \in Int
  /\ \E p \in published : p.device = d /\ r.leaseEnd <= p.until /\ r.graceEnd <= p.until

FileShape(f) ==
  DOMAIN f = {"bound", "cred", "seq", "leaseEnd", "graceEnd", "state", "error"}

BackedFile(d, f) == FileShape(f) /\ (f.bound => Backed(d, f))

TermTyped ==
  /\ hour \in Nat
  /\ told = [d \in Devices |-> told[d]] /\ asked = [d \in Devices |-> asked[d]]
  /\ file = [d \in Devices |-> file[d]] /\ snapshot = [d \in Devices |-> snapshot[d]]
  /\ reader = [d \in Devices |-> reader[d]]
  /\ \A d \in Devices : closed[d] \in Nat \cup {-1}

(* Nothing issued lasts more than a term from now, nor, once its activation *)
(* was closed, more than a term from then.                                  *)
IssuedForATerm ==
  \A p \in published :
    /\ p.until \in Int /\ p.until <= hour + Term
    /\ closed[p.device] # -1 => p.until <= closed[p.device] + Term

(* Wherever the server or a client keeps deadlines (the row, an answer, the *)
(* file, an operation's copy of it, a status reader's copy), they are those *)
(* of something issued.                                                     *)
DeadlinesBacked ==
  \A d \in Devices :
    /\ activating[d] # NoHandler => activating[d].ask.device = d
    /\ Active(d) => Backed(d, acts[d])
    /\ told[d] # NoTold => told[d].ok \in BOOLEAN /\ (told[d].ok => Backed(d, told[d]))
    /\ BackedFile(d, file[d])
    /\ asked[d] # NoAsk => BackedFile(d, snapshot[d])
    /\ reader[d] # NoFile => BackedFile(d, reader[d])

TermInv == LedgerInv /\ TermTyped /\ IssuedForATerm /\ DeadlinesBacked

LEMMA TermIsNat == Term \in Nat /\ Grace \in Nat /\ LeaseTerm \in Nat /\ Grace <= Term /\ LeaseTerm <= Term
BY LicensingParameters DEF Term, Later

LEMMA BackedFurther ==
  ASSUME published \subseteq published', NEW d, NEW r, Backed(d, r)
  PROVE  \E p \in published' : p.device = d /\ r.leaseEnd <= p.until /\ r.graceEnd <= p.until
BY DEF Backed

LEMMA TermAtStart == LicInit => TermInv
<1>1. SUFFICES ASSUME LicInit PROVE TermInv
  OBVIOUS
<1>2. TermTyped
  BY <1>1 DEF LicInit, TermTyped
<1>3. IssuedForATerm
  BY <1>1 DEF LicInit, IssuedForATerm
<1>4. FileShape(Fresh) /\ ~Fresh.bound
  BY DEF FileShape, Fresh
<1>5. \A d \in Devices : activating[d] = NoHandler /\ ~Active(d) /\ told[d] = NoTold
                         /\ file[d] = Fresh /\ asked[d] = NoAsk /\ reader[d] = NoFile
  BY <1>1, NoActivationShape DEF LicInit, Active
<1>6. DeadlinesBacked
  BY <1>4, <1>5 DEF DeadlinesBacked, BackedFile
<1> QED  BY <1>1, <1>2, <1>3, <1>6, LedgerAtStart DEF TermInv

(* What the server keeps of the deadlines: the row and the answer.          *)
ServerBacked(d) ==
  /\ activating[d] # NoHandler => activating[d].ask.device = d
  /\ Active(d) => Backed(d, acts[d])
  /\ told[d] # NoTold => told[d].ok \in BOOLEAN /\ (told[d].ok => Backed(d, told[d]))

(* A step of the server leaves the clients' copies backed, for what has     *)
(* been issued stays issued.                                                *)
LEMMA TermServer ==
  ASSUME TermInv, LedgerInv', TermTyped', IssuedForATerm', published \subseteq published',
         UNCHANGED <<file, snapshot, reader, asked>>,
         \A d \in Devices : ServerBacked(d)'
  PROVE  TermInv'
<1>1. ASSUME NEW d \in Devices, NEW f, FileShape(f), f.bound => Backed(d, f)
      PROVE  f.bound => /\ f.leaseEnd \in Int /\ f.graceEnd \in Int
                        /\ \E p \in published' : p.device = d /\ f.leaseEnd <= p.until
                                                 /\ f.graceEnd <= p.until
  BY <1>1, BackedFurther DEF Backed
<1>2. ASSUME NEW d \in Devices
      PROVE  /\ BackedFile(d, file[d])'
             /\ asked'[d] # NoAsk => BackedFile(d, snapshot[d])'
             /\ reader'[d] # NoFile => BackedFile(d, reader[d])'
  BY <1>1 DEF TermInv, DeadlinesBacked, BackedFile, Backed, FileShape
<1>3. DeadlinesBacked'
  BY <1>2 DEF DeadlinesBacked, ServerBacked
<1> QED  BY <1>3 DEF TermInv

(* A step of the server that issues nothing: rows stay or are closed, now   *)
(* or as of an earlier closing, and an answer is kept, refused or backed.   *)
LEMMA TermKept ==
  ASSUME TermInv, LedgerInv', UNCHANGED <<published, file, snapshot, reader, asked>>,
         hour' \in {hour, hour + 1},
         told' = [d \in Devices |-> told'[d]],
         \A d \in Devices :
           /\ acts'[d] = acts[d] \/ ~Active(d)'
           /\ closed'[d] = closed[d] \/ closed'[d] = CloseTime(d)
           /\ \/ told'[d] = told[d] \/ told'[d].ok = FALSE
              \/ told'[d].ok = TRUE /\ Backed(d, told'[d])
           /\ \/ activating'[d] \in {activating[d], NoHandler}
              \/ activating'[d].ask.device = d
  PROVE  TermInv'
<1>1. TermTyped'
  BY DEF TermInv, TermTyped, CloseTime
<1>2. IssuedForATerm'
  <2> SUFFICES ASSUME NEW p \in published
               PROVE  /\ p.until \in Int /\ p.until <= hour' + Term
                      /\ closed'[p.device] # -1 => p.until <= closed'[p.device] + Term
    BY DEF IssuedForATerm, Term, Later
  <2>1. p.device \in Devices
    BY DEF TermInv, LedgerInv, PublishedOnRows
  <2>2. /\ p.until \in Int /\ p.until <= hour + Term
        /\ closed[p.device] # -1 => p.until <= closed[p.device] + Term
    BY DEF TermInv, IssuedForATerm
  <2> QED  BY <2>1, <2>2, TermIsNat DEF TermInv, TermTyped, CloseTime
<1>3. ASSUME NEW d \in Devices  PROVE ServerBacked(d)'
  <2>1. /\ activating[d] # NoHandler => activating[d].ask.device = d
        /\ Active(d) => Backed(d, acts[d])
        /\ told[d] # NoTold => told[d].ok \in BOOLEAN /\ (told[d].ok => Backed(d, told[d]))
    BY DEF TermInv, DeadlinesBacked
  <2>2. activating'[d] # NoHandler => activating'[d].ask.device = d
    BY <2>1
  <2>3. Active(d)' => Backed(d, acts[d])'
    BY <2>1 DEF Backed, Active
  <2>4. told'[d] # NoTold => told'[d].ok \in BOOLEAN /\ (told'[d].ok => Backed(d, told[d])')
    BY <2>1 DEF Backed
  <2> QED  BY <2>2, <2>3, <2>4 DEF ServerBacked
<1> QED  BY <1>1, <1>2, <1>3, TermServer

(* A step of the server that issues a pair on a row that is not closed.     *)
LEMMA TermPublish ==
  ASSUME TermInv, LedgerInv', NEW d \in Devices, NEW row, closed[d] = -1,
         row.leaseEnd = hour + LeaseTerm, row.graceEnd = hour + Grace,
         Publish(d, row),
         acts'[d].leaseEnd = row.leaseEnd, acts'[d].graceEnd = row.graceEnd,
         \A e \in Devices \ {d} : acts'[e] = acts[e],
         told' = [e \in Devices |-> told'[e]],
         \A e \in Devices : told'[e] = told[e] \/ (e = d /\ told'[e] = Grant(row)),
         \A e \in Devices : activating'[e] \in {activating[e], NoHandler},
         UNCHANGED <<hour, closed, file, snapshot, reader, asked>>
  PROVE  TermInv'
<1> DEFINE p == [device |-> d, seq |-> row.seq, cred |-> row.cred,
                 until |-> Later(row.leaseEnd, row.graceEnd)]
<1>1. published' = published \cup {p}  BY DEF Publish
<1>2. /\ p.device = d /\ p.until \in Int /\ p.until <= hour + Term
      /\ row.leaseEnd <= p.until /\ row.graceEnd <= p.until
      /\ row.leaseEnd \in Int /\ row.graceEnd \in Int
  BY TermIsNat DEF TermInv, TermTyped, Later, Term
<1> HIDE DEF p
<1>3. TermTyped'
  BY DEF TermInv, TermTyped
<1>4. IssuedForATerm'
  BY <1>1, <1>2 DEF TermInv, IssuedForATerm, Term, Later
<1>5. Grant(row).leaseEnd = row.leaseEnd /\ Grant(row).graceEnd = row.graceEnd
      /\ Grant(row).ok = TRUE
  BY DEF Grant
<1>6. p \in published' /\ published \subseteq published'
  BY <1>1
<1>7. Backed(d, acts[d])' /\ (told'[d] = Grant(row) => Backed(d, told[d])')
  BY <1>2, <1>5, <1>6 DEF Backed
<1>8. ASSUME NEW e \in Devices  PROVE ServerBacked(e)'
  <2>1. /\ activating[e] # NoHandler => activating[e].ask.device = e
        /\ Active(e) => Backed(e, acts[e])
        /\ told[e] # NoTold => told[e].ok \in BOOLEAN /\ (told[e].ok => Backed(e, told[e]))
    BY DEF TermInv, DeadlinesBacked
  <2>2. activating'[e] # NoHandler => activating'[e].ask.device = e
    BY <2>1
  <2>3. Active(e)' => Backed(e, acts[e])'
    BY <1>6, <1>7, <2>1 DEF Backed, Active
  <2>4. told'[e] # NoTold => told'[e].ok \in BOOLEAN /\ (told'[e].ok => Backed(e, told[e])')
    BY <1>5, <1>6, <1>7, <2>1 DEF Backed
  <2> QED  BY <2>2, <2>3, <2>4 DEF ServerBacked
<1> QED  BY <1>3, <1>4, <1>6, <1>8, TermServer

LEMMA Told ==
  ASSUME TermInv, NEW ask, NEW answer, Tell(ask, answer)
  PROVE  /\ told' = [e \in Devices |-> told'[e]]
         /\ \A e \in Devices : told'[e] = told[e] \/ (e = ask.device /\ told'[e] = answer)
BY DEF TermInv, TermTyped, Tell

LEMMA RefusalRefuses == \A error : Refusal(error).ok = FALSE
BY DEF Refusal

(* Handlers that refuse, or only get under way.                             *)
LEMMA TermRefuses ==
  ASSUME TermInv, LedgerInv', UNCHANGED <<hour, acts, published, closed>>,
         UNCHANGED <<file, snapshot, reader, asked>>,
         told' = told \/ \E ask, error : Tell(ask, Refusal(error)),
         \A d \in Devices : \/ activating'[d] \in {activating[d], NoHandler}
                            \/ activating'[d].ask.device = d
  PROVE  TermInv'
<1>1. /\ told' = [d \in Devices |-> told'[d]]
      /\ \A d \in Devices : told'[d] = told[d] \/ told'[d].ok = FALSE
  <2>1. CASE told' = told
    BY <2>1 DEF TermInv, TermTyped
  <2>2. ASSUME NEW ask, NEW error, Tell(ask, Refusal(error))
        PROVE  /\ told' = [d \in Devices |-> told'[d]]
               /\ \A d \in Devices : told'[d] = told[d] \/ told'[d].ok = FALSE
    BY <2>2, Told, RefusalRefuses
  <2> QED  BY <2>1, <2>2
<1>2. hour' \in {hour, hour + 1} /\ \A d \in Devices : acts'[d] = acts[d] /\ closed'[d] = closed[d]
  OBVIOUS
<1> QED  BY <1>1, <1>2, TermKept

-----------------------------------------------------------------------------
(* The handlers.                                                            *)
LEMMA TermActivateRead ==
  ASSUME TermInv, LedgerInv', NEW ask, ActivateRead(ask),
         UNCHANGED <<file, snapshot, reader, asked>>
  PROVE  TermInv'
<1> DEFINE h == [stage |-> "read", ask |-> ask, key |-> key, row |-> NoActivation]
<1>1. \A d \in Devices : activating'[d] \in {activating[d], NoHandler}
                         \/ activating'[d].ask.device = d
  <2>1. CASE activating' = activating
    BY <2>1
  <2>2. CASE activating' = [activating EXCEPT ![ask.device] = h]
    <3>1. h.ask.device = ask.device  OBVIOUS
    <3> HIDE DEF h
    <3>2. \A d \in Devices : activating'[d] = activating[d] \/ (d = ask.device /\ activating'[d] = h)
      BY <2>2 DEF TermInv, LedgerInv, RowsShaped
    <3> QED  BY <3>1, <3>2
  <2> QED  BY <2>1, <2>2 DEF ActivateRead
<1>2. told' = told \/ Tell(ask, Refusal("closed"))
  BY DEF ActivateRead, Refuse
<1>3. UNCHANGED <<hour, acts, published, closed>>  BY DEF ActivateRead
<1> QED  BY <1>1, <1>2, <1>3, TermRefuses

LEMMA TermActivateFind ==
  ASSUME TermInv, LedgerInv', NEW d \in Devices, ActivateFind(d) \/ ActivateFails(d),
         UNCHANGED <<file, snapshot, reader, asked>>
  PROVE  TermInv'
<1>1. activating[d] # NoHandler /\ UNCHANGED <<hour, acts, published, closed>>
  BY DEF ActivateFind, ActivateFails
<1>2. IsHandler(activating[d]) /\ activating[d].ask.device = d
  BY <1>1 DEF TermInv, LedgerInv, RowsShaped, DeadlinesBacked
<1>3. \A e \in Devices : activating'[e] \in {activating[e], NoHandler}
                         \/ activating'[e].ask.device = e
  <2>1. CASE activating' = [activating EXCEPT ![d] = NoHandler]
    BY <2>1 DEF TermInv, LedgerInv, RowsShaped
  <2>2. ASSUME NEW row, activating' = [activating EXCEPT ![d].stage = "found", ![d].row = row]
        PROVE  \A e \in Devices : activating'[e] \in {activating[e], NoHandler}
                                  \/ activating'[e].ask.device = e
    <3> DEFINE h == [activating[d] EXCEPT !.stage = "found", !.row = row]
    <3>1. h.ask = activating[d].ask  BY <1>2 DEF IsHandler
    <3>2. activating' = [activating EXCEPT ![d] = h]
      BY <2>2 DEF TermInv, LedgerInv, RowsShaped
    <3> HIDE DEF h
    <3> QED  BY <1>2, <3>1, <3>2 DEF TermInv, LedgerInv, RowsShaped
  <2> QED  BY <2>1, <2>2 DEF ActivateFind, ActivateFails
<1>4. told' = told \/ \E ask, error : Tell(ask, Refusal(error))
  BY DEF ActivateFind, ActivateFails
<1> QED  BY <1>1, <1>3, <1>4, TermRefuses

LEMMA IssuedDeadlines ==
  ASSUME NEW row, IsRow(row), NEW cred, NEW expires, NEW receipt
  PROVE  /\ Rotated(row, cred).leaseEnd = hour + LeaseTerm
         /\ Rotated(row, cred).graceEnd = hour + Grace
         /\ Reissued(row, cred, expires).leaseEnd = hour + LeaseTerm
         /\ Reissued(row, cred, expires).graceEnd = hour + Grace
         /\ NewActivation(cred, expires).leaseEnd = hour + LeaseTerm
         /\ NewActivation(cred, expires).graceEnd = hour + Grace
         /\ [row EXCEPT !.receipt = receipt].leaseEnd = row.leaseEnd
         /\ [row EXCEPT !.receipt = receipt].graceEnd = row.graceEnd
<1> DEFINE r == Rotated(row, cred)
<1>1. IsRow(r) /\ r.leaseEnd = hour + LeaseTerm /\ r.graceEnd = hour + Grace
  BY DEF IsRow, Rotated
<1> HIDE DEF r
<1>2. LET s == [r EXCEPT !.expires = expires]
      IN  s.leaseEnd = r.leaseEnd /\ s.graceEnd = r.graceEnd
  BY <1>1 DEF IsRow
<1>3. Reissued(row, cred, expires) = [r EXCEPT !.expires = expires]
  BY DEF Reissued, r
<1> QED  BY <1>1, <1>2, <1>3 DEF NewActivation, IsRow, r

LEMMA OpenWhenActive ==
  ASSUME LedgerInv, NEW d \in Devices, Active(d) \/ acts[d] = NoActivation
  PROVE  closed[d] = -1
BY NoActivationShape DEF LedgerInv, ClosedIsClosed, ClosedStates, Active

LEMMA TermActivateSave ==
  ASSUME TermInv, LedgerInv', NEW d \in Devices, ActivateSave(d),
         UNCHANGED <<file, snapshot, reader, asked>>
  PROVE  TermInv'
<1> DEFINE h == activating[d]
           expires == Expiry(h.key)
           row == IF h.row = NoActivation THEN NewActivation(minted + 1, expires)
                  ELSE Reissued(h.row, minted + 1, expires)
<1>1. /\ h # NoHandler /\ h.stage = "found"
      /\ h.row # NoActivation \/ acts[d] = NoActivation
      /\ acts' = [acts EXCEPT ![d] = row] /\ Publish(d, row) /\ Tell(h.ask, Grant(row))
      /\ activating' = [activating EXCEPT ![d] = NoHandler]
      /\ UNCHANGED <<hour, closed>>
  BY DEF ActivateSave
<1>2. /\ IsRow(h.row) /\ h.ask.device = d
      /\ h.row # NoActivation => Active(d)
  BY <1>1 DEF TermInv, LedgerInv, LockedRowIsCurrent, RowLocked, RowsShaped, IsHandler,
              DeadlinesBacked
<1>3. row.leaseEnd = hour + LeaseTerm /\ row.graceEnd = hour + Grace
  BY <1>2, IssuedDeadlines
<1>4. closed[d] = -1
  BY <1>1, <1>2, OpenWhenActive DEF TermInv
<1> HIDE DEF row, expires
<1>5. /\ acts'[d] = row /\ \A e \in Devices \ {d} : acts'[e] = acts[e]
      /\ \A e \in Devices : activating'[e] \in {activating[e], NoHandler}
  BY <1>1 DEF TermInv, LedgerInv, RowsShaped
<1>6. /\ told' = [e \in Devices |-> told'[e]]
      /\ \A e \in Devices : told'[e] = told[e] \/ (e = d /\ told'[e] = Grant(row))
  BY <1>1, <1>2, Told
<1> QED  BY <1>1, <1>3, <1>4, <1>5, <1>6, TermPublish

LEMMA TermRotate ==
  ASSUME TermInv, LedgerInv', NEW d \in Devices, CheckInRotate(d),
         UNCHANGED <<file, snapshot, reader, asked>>
  PROVE  TermInv'
<1> DEFINE row == Rotated(acts[d], minted + 1)
           receipt == [nonce |-> keyHeld.cred, seq |-> row.seq, grant |-> Grant(row)]
           written == IF d \in Native THEN [row EXCEPT !.receipt = receipt] ELSE row
<1>1. /\ acts' = [acts EXCEPT ![d] = written] /\ Publish(d, row) /\ Tell(keyHeld, Grant(row))
      /\ keyHeld.device = d /\ Active(d) /\ UNCHANGED <<hour, activating, closed>>
  BY DEF CheckInRotate, Admitted, ActivationUsable
<1>2. IsRow(acts[d])  BY DEF TermInv, LedgerInv, RowsShaped
<1>3. /\ IsRow(row) /\ row.leaseEnd = hour + LeaseTerm /\ row.graceEnd = hour + Grace
  BY <1>2, RotatedShape, IssuedDeadlines
<1>4. closed[d] = -1
  BY <1>1, OpenWhenActive DEF TermInv
<1> HIDE DEF row, receipt
<1>5. written.leaseEnd = row.leaseEnd /\ written.graceEnd = row.graceEnd
  BY <1>3, IssuedDeadlines
<1> HIDE DEF written
<1>6. /\ acts'[d] = written /\ \A e \in Devices \ {d} : acts'[e] = acts[e]
      /\ \A e \in Devices : activating'[e] \in {activating[e], NoHandler}
  BY <1>1 DEF TermInv, LedgerInv, RowsShaped
<1>7. /\ told' = [e \in Devices |-> told'[e]]
      /\ \A e \in Devices : told'[e] = told[e] \/ (e = d /\ told'[e] = Grant(row))
  BY <1>1, Told
<1> QED  BY <1>1, <1>3, <1>4, <1>5, <1>6, <1>7, TermPublish

(* A replayed answer is the one on the row, of which nothing newer exists.  *)
LEMMA TermReplay ==
  ASSUME TermInv, LedgerInv', NEW d \in Devices, CheckInReplay(d),
         UNCHANGED <<file, snapshot, reader, asked>>
  PROVE  TermInv'
<1> DEFINE receipt == acts[d].receipt
<1>1. /\ UNCHANGED <<hour, acts, published, closed, activating>> /\ keyHeld.device = d
      /\ receipt # NoReceipt
      /\ \/ \E error : Tell(keyHeld, Refusal(error))
         \/ Active(d) /\ receipt.seq = acts[d].seq /\ Tell(keyHeld, receipt.grant)
  BY DEF CheckInReplay, Replays, ActivationUsable
<1>2. CASE \E error : Tell(keyHeld, Refusal(error))
  BY <1>1, <1>2, TermRefuses
<1>3. CASE Active(d) /\ receipt.seq = acts[d].seq /\ Tell(keyHeld, receipt.grant)
  <2>1. receipt.grant = Grant(acts[d])
    BY <1>1, <1>3 DEF TermInv, LedgerInv, ReceiptBehindRow
  <2>2. Backed(d, acts[d])
    BY <1>3 DEF TermInv, DeadlinesBacked
  <2>3. receipt.grant.ok = TRUE /\ Backed(d, receipt.grant)
    BY <2>1, <2>2 DEF Grant, Backed
  <2> HIDE DEF receipt
  <2>4. /\ told' = [e \in Devices |-> told'[e]]
        /\ \A e \in Devices : \/ told'[e] = told[e]
                              \/ told'[e].ok = TRUE /\ Backed(e, told'[e])
    BY <1>1, <1>3, <2>3, Told
  <2>5. hour' \in {hour, hour + 1} /\ \A e \in Devices : acts'[e] = acts[e] /\ closed'[e] = closed[e]
                                       /\ activating'[e] = activating[e]
    BY <1>1
  <2> QED  BY <1>1, <2>4, <2>5, TermKept
<1> QED  BY <1>1, <1>2, <1>3

LEMMA TermCloseSave ==
  ASSUME TermInv, LedgerInv', NEW d \in Devices, CloseSave(d),
         UNCHANGED <<file, snapshot, reader, asked>>
  PROVE  TermInv'
<1>1. /\ closing[d] # NoActivation /\ UNCHANGED <<hour, activating, published>>
      /\ acts' = [acts EXCEPT ![d] = closing[d]]
      /\ closed' = [closed EXCEPT ![d] = CloseTime(d)]
      /\ told' = told \/ told' = [told EXCEPT ![d] = Refusal("none")]
  BY DEF CloseSave
<1>2. closing[d].status = "deactivated"
  BY <1>1 DEF TermInv, LedgerInv, ClosingRowExists
<1>3. ASSUME NEW e \in Devices
      PROVE  /\ acts'[e] = acts[e] \/ ~Active(e)'
             /\ closed'[e] = closed[e] \/ closed'[e] = CloseTime(e)
  BY <1>1, <1>2 DEF TermInv, LedgerInv, RowsShaped, Active
<1>4. /\ told' = [e \in Devices |-> told'[e]]
      /\ \A e \in Devices : told'[e] = told[e] \/ told'[e].ok = FALSE
  BY <1>1, RefusalRefuses DEF TermInv, TermTyped
<1>5. hour' \in {hour, hour + 1} /\ \A e \in Devices : activating'[e] = activating[e]
  BY <1>1
<1> QED  BY <1>1, <1>3, <1>4, <1>5, TermKept

LEMMA TermCloseActive ==
  ASSUME TermInv, LedgerInv', CloseActive, UNCHANGED <<file, snapshot, reader, asked>>
  PROVE  TermInv'
<1>1. /\ UNCHANGED <<hour, activating, told, published>>
      /\ acts' = [d \in Devices |-> IF Active(d) THEN [acts[d] EXCEPT !.status = "revoked"]
                                    ELSE acts[d]]
      /\ closed' = [d \in Devices |-> IF Active(d) THEN CloseTime(d) ELSE closed[d]]
  BY DEF CloseActive
<1>2. ASSUME NEW d \in Devices
      PROVE  /\ acts'[d] = acts[d] \/ ~Active(d)'
             /\ closed'[d] = closed[d] \/ closed'[d] = CloseTime(d)
  <2>1. IsRow(acts[d])  BY DEF TermInv, LedgerInv, RowsShaped
  <2>2. [acts[d] EXCEPT !.status = "revoked"].status = "revoked"
    BY <2>1, StatusShape
  <2> QED  BY <1>1, <2>2 DEF Active
<1>3. /\ told' = [d \in Devices |-> told'[d]]
      /\ \A d \in Devices : told'[d] = told[d] /\ activating'[d] = activating[d]
  BY <1>1 DEF TermInv, TermTyped
<1>4. hour' \in {hour, hour + 1}  BY <1>1
<1> QED  BY <1>1, <1>2, <1>3, <1>4, TermKept

LEMMA TermHandlers ==
  ASSUME TermInv, LedgerInv', LicServerNext \/ LicTick \/ Administration,
         UNCHANGED <<file, snapshot, reader>>
  PROVE  TermInv'
<1>0. UNCHANGED asked
  BY DEF LicServerNext, LicTick, Administration, ActivateRead, LockKey, Deactivate, CloseRead,
         ActivateFind, ActivateSave, ActivateFails, CheckInReplay, CheckInRotate, CheckInRefused,
         CheckInFails, CloseSave, CloseActive, RevokeKey, DeleteKey, UnbindDevice
<1>1. ASSUME NEW ask, ActivateRead(ask)  PROVE TermInv'
  BY <1>0, <1>1, TermActivateRead
<1>2. ASSUME NEW ask, LockKey(ask) \/ Deactivate(ask)  PROVE TermInv'
  <2>1. /\ UNCHANGED <<hour, acts, published, closed, activating>>
        /\ told' = told \/ Tell(ask, Refusal("token"))
    BY <1>2 DEF LockKey, Deactivate, CloseRead
  <2>2. told' = told \/ \E a, error : Tell(a, Refusal(error))
    BY <2>1
  <2> QED  BY <1>0, <2>1, <2>2, TermRefuses
<1>3. ASSUME NEW d \in Devices, ActivateFind(d) \/ ActivateSave(d) \/ ActivateFails(d)
      PROVE  TermInv'
  BY <1>0, <1>3, TermActivateFind, TermActivateSave
<1>4. ASSUME NEW d \in Devices, CheckInReplay(d) \/ CheckInRotate(d)
      PROVE  TermInv'
  BY <1>0, <1>4, TermReplay, TermRotate
<1>5. ASSUME NEW d \in Devices, CheckInRefused(d) \/ CheckInFails(d)
      PROVE  TermInv'
  <2>1. /\ UNCHANGED <<hour, acts, published, closed, activating>>
        /\ \E error : Tell(keyHeld, Refusal(error))
    BY <1>5 DEF CheckInRefused, CheckInFails
  <2> QED  BY <1>0, <2>1, TermRefuses
<1>6. ASSUME NEW d \in Devices, CloseSave(d) PROVE TermInv'
  BY <1>0, <1>6, TermCloseSave
<1>7. CASE LicTick
  <2>1. /\ hour' = hour + 1 /\ UNCHANGED <<acts, published, closed, activating, told>>
    BY <1>7 DEF LicTick
  <2>2. /\ told' = [d \in Devices |-> told'[d]] /\ hour' \in {hour, hour + 1}
        /\ \A d \in Devices : /\ told'[d] = told[d] /\ activating'[d] = activating[d]
                              /\ acts'[d] = acts[d] /\ closed'[d] = closed[d]
    BY <2>1 DEF TermInv, TermTyped
  <2> QED  BY <1>0, <2>1, <2>2, TermKept
<1>8. CASE RevokeKey \/ DeleteKey
  BY <1>0, <1>8, TermCloseActive DEF RevokeKey, DeleteKey
<1>9. ASSUME NEW d \in Devices, UnbindDevice(d)  PROVE TermInv'
  <2>1. UNCHANGED <<hour, acts, published, closed, activating, told>>
    BY <1>9 DEF UnbindDevice, CloseRead
  <2> QED  BY <1>0, <2>1, TermRefuses
<1> QED
  BY <1>1, <1>2, <1>3, <1>4, <1>5, <1>6, <1>7, <1>8, <1>9 DEF LicServerNext, Administration

-----------------------------------------------------------------------------
(* The clients.                                                             *)
LEMMA ShownShape ==
  ASSUME NEW f, FileShape(f)
  PROVE  /\ FileShape(Shown(f)) /\ Shown(f).bound = f.bound
         /\ Shown(f).leaseEnd = f.leaseEnd /\ Shown(f).graceEnd = f.graceEnd
<1> DEFINE s == Derived(f)
           e == DerivedError(f)
<1>1. Shown(f) = [f EXCEPT !.state = s, !.error = e]  BY DEF Shown
<1> HIDE DEF s, e
<1> QED  BY <1>1 DEF FileShape

LEMMA ShownBacked ==
  ASSUME NEW d, NEW f, BackedFile(d, f)
  PROVE  BackedFile(d, Shown(f))
BY ShownShape DEF BackedFile, Backed

LEMMA RefusedBacked ==
  ASSUME NEW d, NEW f, BackedFile(d, f), NEW error
  PROVE  BackedFile(d, Refused(f, error))
<1> DEFINE s == CASE error = "revoked" -> "revoked"
                  [] error \in {"token", "closed"} -> "invalid"
                  [] OTHER -> Fallback(f, error)
           r == [f EXCEPT !.state = s, !.error = error]
<1>1. Refused(f, error) = r  BY DEF Refused
<1> HIDE DEF s
<1>3. FileShape(f)  BY DEF BackedFile
<1>2. FileShape(r) /\ r.bound = f.bound /\ r.leaseEnd = f.leaseEnd /\ r.graceEnd = f.graceEnd
  BY <1>3 DEF FileShape
<1> HIDE DEF r
<1> QED  BY <1>1, <1>2 DEF BackedFile, Backed

LEMMA GrantedBacked ==
  ASSUME NEW d, NEW f, FileShape(f), NEW grant, Backed(d, grant)
  PROVE  BackedFile(d, Granted(f, grant))
<1> DEFINE r == Granted(f, grant)
<1>1. FileShape(r) /\ r.leaseEnd = grant.leaseEnd /\ r.graceEnd = grant.graceEnd
  BY DEF Granted, FileShape
<1> HIDE DEF r
<1> QED  BY <1>1 DEF BackedFile, Backed, r

LEMMA FreshBacked == \A d : BackedFile(d, Fresh)
BY DEF BackedFile, FileShape, Fresh

(* A step of a client that leaves every copy it keeps backed.               *)
LEMMA TermClient ==
  ASSUME TermInv, LedgerInv', UNCHANGED <<hour, acts, activating, published, closed>>,
         told' = [d \in Devices |-> told'[d]], asked' = [d \in Devices |-> asked'[d]],
         file' = [d \in Devices |-> file'[d]], snapshot' = [d \in Devices |-> snapshot'[d]],
         reader' = [d \in Devices |-> reader'[d]],
         \A d \in Devices :
           /\ told'[d] \in {told[d], NoTold}
           /\ file'[d] = file[d] \/ BackedFile(d, file'[d])
           /\ \/ asked'[d] = NoAsk
              \/ asked'[d] = asked[d] /\ snapshot'[d] = snapshot[d]
              \/ BackedFile(d, snapshot'[d])
           /\ reader'[d] \in {reader[d], NoFile} \/ BackedFile(d, reader'[d])
  PROVE  TermInv'
<1>1. TermTyped'  BY DEF TermInv, TermTyped
<1>2. IssuedForATerm'  BY DEF TermInv, IssuedForATerm, Term, Later
<1>3. ASSUME NEW d \in Devices
      PROVE  /\ activating'[d] # NoHandler => activating'[d].ask.device = d
             /\ Active(d)' => Backed(d, acts[d])'
             /\ told'[d] # NoTold => told'[d].ok \in BOOLEAN /\ (told'[d].ok => Backed(d, told[d])')
             /\ BackedFile(d, file[d])'
             /\ asked'[d] # NoAsk => BackedFile(d, snapshot[d])'
             /\ reader'[d] # NoFile => BackedFile(d, reader[d])'
  <2>1. /\ activating[d] # NoHandler => activating[d].ask.device = d
        /\ Active(d) => Backed(d, acts[d])
        /\ told[d] # NoTold => told[d].ok \in BOOLEAN /\ (told[d].ok => Backed(d, told[d]))
        /\ BackedFile(d, file[d])
        /\ asked[d] # NoAsk => BackedFile(d, snapshot[d])
        /\ reader[d] # NoFile => BackedFile(d, reader[d])
    BY DEF TermInv, DeadlinesBacked
  <2>2. /\ activating'[d] # NoHandler => activating'[d].ask.device = d
        /\ Active(d)' => Backed(d, acts[d])'
    BY <2>1 DEF Active, Backed
  <2>3. told'[d] # NoTold => told'[d].ok \in BOOLEAN /\ (told'[d].ok => Backed(d, told[d])')
    BY <2>1 DEF Backed
  <2>4. BackedFile(d, file[d])' /\ (asked'[d] # NoAsk => BackedFile(d, snapshot[d])')
        /\ (reader'[d] # NoFile => BackedFile(d, reader[d])')
    BY <2>1 DEF BackedFile, FileShape, Backed
  <2> QED  BY <2>2, <2>3, <2>4
<1>4. DeadlinesBacked'  BY <1>3 DEF DeadlinesBacked
<1> QED  BY <1>1, <1>2, <1>4 DEF TermInv

LEMMA TermEnds ==
  ASSUME TermInv, LedgerInv', NEW d \in Devices, NEW outcome, BackedFile(d, outcome),
         EndOperation(d, outcome)
  PROVE  TermInv'
<1>1. /\ file' = [file EXCEPT ![d] = outcome] /\ snapshot' = [snapshot EXCEPT ![d] = NoFile]
      /\ asked' = [asked EXCEPT ![d] = NoAsk] /\ told' = [told EXCEPT ![d] = NoTold]
      /\ UNCHANGED <<hour, acts, activating, published, closed, reader>>
  BY DEF EndOperation
<1>2. /\ told' = [e \in Devices |-> told'[e]] /\ asked' = [e \in Devices |-> asked'[e]]
      /\ file' = [e \in Devices |-> file'[e]] /\ snapshot' = [e \in Devices |-> snapshot'[e]]
      /\ reader' = [e \in Devices |-> reader'[e]]
  BY <1>1 DEF TermInv, TermTyped
<1>3. \A e \in Devices :
        /\ told'[e] \in {told[e], NoTold} /\ reader'[e] = reader[e]
        /\ file'[e] = file[e] \/ (e = d /\ file'[e] = outcome)
        /\ asked'[e] = NoAsk \/ (asked'[e] = asked[e] /\ snapshot'[e] = snapshot[e])
  BY <1>1 DEF TermInv, TermTyped
<1> QED  BY <1>1, <1>2, <1>3, TermClient

LEMMA TermFinishes ==
  ASSUME TermInv, LedgerInv', NEW d \in Devices, FinishOperation(d) \/ AbandonOperation(d)
  PROVE  TermInv'
<1>1. asked[d] # NoAsk /\ BackedFile(d, snapshot[d]) /\ BackedFile(d, file[d])
  BY DEF TermInv, DeadlinesBacked, FinishOperation, AbandonOperation
<1>2. CASE FinishOperation(d)
  <2>1. told[d] # NoTold /\ EndOperation(d, Shown(Outcome(d)))
        /\ told[d].ok \in BOOLEAN /\ (told[d].ok => Backed(d, told[d]))
    BY <1>2 DEF FinishOperation, TermInv, DeadlinesBacked
  <2>2. \/ Outcome(d) = Fresh
        \/ told[d].ok /\ Outcome(d) = Granted(snapshot[d], told[d])
        \/ Outcome(d) = file[d]
        \/ Outcome(d) = Refused(snapshot[d], told[d].error)
    BY <2>1 DEF Outcome
  <2>3. BackedFile(d, Outcome(d))
    BY <1>1, <2>1, <2>2, FreshBacked, GrantedBacked, RefusedBacked DEF BackedFile
  <2> QED  BY <2>1, <2>3, ShownBacked, TermEnds
<1>3. CASE AbandonOperation(d)
  <2> DEFINE outcome == CASE asked[d].kind = "deactivate" -> Fresh
                          [] asked[d].kind = "activate" -> file[d]
                          [] OTHER -> Shown(Refused(snapshot[d], "unavailable"))
  <2>1. EndOperation(d, outcome)  BY <1>3 DEF AbandonOperation
  <2>2. outcome \in {Fresh, file[d], Shown(Refused(snapshot[d], "unavailable"))}
    OBVIOUS
  <2>3. BackedFile(d, outcome)
    BY <1>1, <2>2, FreshBacked, RefusedBacked, ShownBacked
  <2> HIDE DEF outcome
  <2> QED  BY <2>1, <2>3, TermEnds
<1> QED  BY <1>2, <1>3

LEMMA TermStarts ==
  ASSUME TermInv, LedgerInv', NEW d \in Devices, NEW kind, StartOperation(d, kind)
  PROVE  TermInv'
<1>1. PICK ask : asked' = [asked EXCEPT ![d] = ask]
  BY DEF StartOperation, Send
<1>2. /\ snapshot' = [snapshot EXCEPT ![d] = file[d]]
      /\ UNCHANGED <<hour, acts, activating, published, closed, file, reader, told>>
  BY DEF StartOperation
<1>3. /\ told' = [e \in Devices |-> told'[e]] /\ asked' = [e \in Devices |-> asked'[e]]
      /\ file' = [e \in Devices |-> file'[e]] /\ snapshot' = [e \in Devices |-> snapshot'[e]]
      /\ reader' = [e \in Devices |-> reader'[e]]
  BY <1>1, <1>2 DEF TermInv, TermTyped
<1>4. BackedFile(d, file[d])  BY DEF TermInv, DeadlinesBacked
<1>5. \A e \in Devices :
        /\ told'[e] = told[e] /\ reader'[e] = reader[e] /\ file'[e] = file[e]
        /\ \/ asked'[e] = asked[e] /\ snapshot'[e] = snapshot[e]
           \/ e = d /\ snapshot'[e] = file[d]
  BY <1>1, <1>2 DEF TermInv, TermTyped
<1> QED  BY <1>2, <1>3, <1>4, <1>5, TermClient

LEMMA TermReads ==
  ASSUME TermInv, LedgerInv', NEW d \in Devices, ReadStatus(d) \/ WriteStatus(d)
  PROVE  TermInv'
<1>1. /\ UNCHANGED <<hour, acts, activating, published, closed, snapshot, asked, told>>
      /\ \/ reader' = [reader EXCEPT ![d] = Shown(file[d])] /\ file' = file
         \/ /\ reader[d] # NoFile /\ reader' = [reader EXCEPT ![d] = NoFile]
            /\ file' = [file EXCEPT ![d] = reader[d]]
  BY DEF ReadStatus, WriteStatus, licVars
<1>2. /\ told' = [e \in Devices |-> told'[e]] /\ asked' = [e \in Devices |-> asked'[e]]
      /\ file' = [e \in Devices |-> file'[e]] /\ snapshot' = [e \in Devices |-> snapshot'[e]]
      /\ reader' = [e \in Devices |-> reader'[e]]
  BY <1>1 DEF TermInv, TermTyped
<1>3. BackedFile(d, Shown(file[d])) /\ (reader[d] # NoFile => BackedFile(d, reader[d]))
  BY ShownBacked DEF TermInv, DeadlinesBacked
<1>4. \A e \in Devices :
        /\ told'[e] = told[e] /\ asked'[e] = asked[e] /\ snapshot'[e] = snapshot[e]
        /\ file'[e] = file[e] \/ BackedFile(e, file'[e])
        /\ reader'[e] \in {reader[e], NoFile} \/ BackedFile(e, reader'[e])
  BY <1>1, <1>3 DEF TermInv, TermTyped
<1> QED  BY <1>1, <1>2, <1>4, TermClient

LEMMA TermPreserved == TermInv /\ [LicNext]_<<licVars, clientVars, upsets>> => TermInv'
<1>1. SUFFICES ASSUME TermInv, [LicNext]_<<licVars, clientVars, upsets>> PROVE TermInv'
  OBVIOUS
<1>2. LedgerInv'  BY <1>1, LedgerPreserved DEF TermInv
<1>3. CASE (LicServerNext \/ LicTick \/ Administration) /\ UNCHANGED clientVars
  BY <1>1, <1>2, <1>3, TermHandlers DEF clientVars
<1>4. ASSUME NEW d \in Devices, NEW kind, StartOperation(d, kind)
      PROVE  TermInv'
  BY <1>1, <1>2, <1>4, TermStarts
<1>5. ASSUME NEW d \in Devices,
             FinishOperation(d) \/ AbandonOperation(d) \/ ReadStatus(d) \/ WriteStatus(d)
      PROVE  TermInv'
  BY <1>1, <1>2, <1>5, TermFinishes, TermReads
<1>6. CASE UNCHANGED <<licVars, clientVars, upsets>>
  <2>1. /\ UNCHANGED <<hour, acts, activating, published, closed>>
        /\ UNCHANGED <<told, asked, file, snapshot, reader>>
    BY <1>6 DEF licVars, clientVars
  <2>2. told' = told /\ UNCHANGED <<file, snapshot, reader, asked>>
    BY <2>1
  <2> QED  BY <1>1, <1>2, <2>1, <2>2, TermRefuses
<1> QED  BY <1>1, <1>3, <1>4, <1>5, <1>6 DEF LicNext

(* Whatever answers a client lost and whatever its status readers wrote     *)
(* back, it does business only while something it was issued lasts, and at  *)
(* most one term after its activation was closed.                           *)
THEOREM BusinessTheorem == LicSpec => []BusinessEndsAfterClosing
<1>1. ASSUME TermInv  PROVE BusinessEndsAfterClosing
  <2> SUFFICES ASSUME NEW d \in Devices, CanUseBusiness(d)
               PROVE  /\ \E p \in published : p.device = d /\ hour <= p.until
                      /\ closed[d] # -1 => hour <= closed[d] + Term
    BY DEF BusinessEndsAfterClosing, Term
  <2>1. /\ file[d].bound
        /\ hour <= file[d].leaseEnd \/ hour <= file[d].graceEnd
    BY DEF CanUseBusiness, Derived
  <2>2. Backed(d, file[d])
    BY <1>1, <2>1 DEF TermInv, DeadlinesBacked, BackedFile
  <2>3. PICK p \in published : p.device = d /\ file[d].leaseEnd <= p.until
                               /\ file[d].graceEnd <= p.until
    BY <2>2 DEF Backed
  <2>4. /\ p.until \in Int /\ hour \in Nat /\ closed[d] \in Nat \cup {-1}
        /\ closed[p.device] # -1 => p.until <= closed[p.device] + Term
    BY <1>1 DEF TermInv, IssuedForATerm, TermTyped
  <2>5. hour <= p.until
    BY <2>1, <2>2, <2>3, <2>4 DEF Backed
  <2> QED  BY <2>3, <2>4, <2>5, TermIsNat
<1> QED  BY <1>1, TermAtStart, TermPreserved, PTL DEF LicSpec

=============================================================================
