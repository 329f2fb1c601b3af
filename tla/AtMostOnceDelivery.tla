------------------------- MODULE AtMostOnceDelivery -------------------------
(***************************************************************************)
(* What sending promises, whatever processes, works and takeovers are      *)
(* behind it: a segment is put on the wire at most once, after those       *)
(* before it were confirmed; it is confirmed only if it was delivered, and *)
(* rejected only if it will never be.                                      *)
(***************************************************************************)
CONSTANTS
  Segments,
  Before     \* the segments of the same message that come earlier

VARIABLES
  wire,      \* what became of a segment's request
  verdict    \* what is on record of it

Wire == {"unsent", "sent", "delivered", "refused"}
Verdict == {"open", "confirmed", "rejected"}

Init ==
  /\ wire = [s \in Segments |-> "unsent"]
  /\ verdict = [s \in Segments |-> "open"]

Post(s) ==
  /\ wire[s] = "unsent"
  /\ verdict[s] = "open"
  /\ \A b \in Before[s] : verdict[b] = "confirmed"
  /\ wire' = [wire EXCEPT ![s] = "sent"]
  /\ UNCHANGED verdict

Arrive(s) ==
  /\ wire[s] = "sent"
  /\ wire' \in {[wire EXCEPT ![s] = fate] : fate \in {"delivered", "refused"}}
  /\ UNCHANGED verdict

Confirm(s) ==
  /\ wire[s] = "delivered"
  /\ verdict[s] = "open"
  /\ verdict' = [verdict EXCEPT ![s] = "confirmed"]
  /\ UNCHANGED wire

Reject(s) ==
  /\ wire[s] \in {"unsent", "refused"}
  /\ verdict[s] = "open"
  /\ verdict' = [verdict EXCEPT ![s] = "rejected"]
  /\ UNCHANGED wire

Next == \E s \in Segments : Post(s) \/ Arrive(s) \/ Confirm(s) \/ Reject(s)

Spec == Init /\ [][Next]_<<wire, verdict>>
=============================================================================
