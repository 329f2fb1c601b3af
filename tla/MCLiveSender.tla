---------------------------- MODULE MCLiveSender ----------------------------
(* Instances of LiveSender for TLC: one account, one batch.                *)
EXTENDS LiveSender, TLC

CONSTANTS r1, r2   \* responses: r1 has one segment, r2 has two

OneSegment == [r \in {r1} |-> 1]
TwoSegments == [r \in {r2} |-> 2]

NoPolicies == {}

OnePolicy ==
  {[rule |-> "rule", conversation |-> "c1", peer |-> "p1", zone |-> "utc",
    offset |-> 0, quota |-> 9, cooldown |-> 0, interval |-> 0, peerLimit |-> FALSE]}
=============================================================================
