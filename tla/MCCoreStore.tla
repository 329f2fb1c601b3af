----------------------------- MODULE MCCoreStore -----------------------------
(* Instances of CoreStore for TLC. Each cfg asks one question and gives    *)
(* the parts of the store it is not about the empty set of inputs.         *)
EXTENDS CoreStore, TLC

CONSTANTS r1, r2   \* responses: r1 has one segment, r2 has two

EventSymmetry == Permutations(Events)

OneSegment == [r \in {r1} |-> 1]
TwoSegments == [r \in {r2} |-> 2]
TwoReplies == [r \in {r1, r2} |-> 1]

Policy(rule, conversation, peer, quota, cooldown, interval, peerLimit) ==
  [rule |-> rule, conversation |-> conversation, peer |-> peer, zone |-> "utc",
   offset |-> 0, quota |-> quota, cooldown |-> cooldown, interval |-> interval,
   peerLimit |-> peerLimit]

NoPolicies == {}

(* No limit that could refuse a reply.                                     *)
PlainPolicies == {Policy("rule", "c1", "p1", 9, 0, 0, FALSE)}

(* No limit, in two conversations.                                         *)
TwoConversations ==
  {Policy("rule", "c1", "p1", 9, 0, 0, FALSE), Policy("rule", "c2", "p2", 9, 0, 0, FALSE)}

(* Two conversations of the account, replies one tick apart: the first has *)
(* a cooldown of two ticks, the second one reply a day to a peer; and the  *)
(* first under a daily quota of one and nothing else.                      *)
LimitedPolicies ==
  {Policy("rule", "c1", "p1", 9, 2, 1, FALSE), Policy("rule", "c2", "p2", 9, 0, 1, TRUE),
   Policy("rule", "c1", "p1", 1, 0, 0, FALSE)}

(* What the run on automatic replies ranges over: two replies around a     *)
(* midnight under these limits, and three notices none of which is sent.   *)
ReplyPolicies == LimitedPolicies \cup TwoConversations

Arrived(a) == {key.event : key \in {k \in InboundKey : receipts[a][k].status # "none"}}

UnderPolicies(a, policies) ==
  \A t \in Batches(a) : outbox[a][t].policy \in policies \cup {NoPolicy}

RepliesAtMidnight ==
  /\ claimLog = <<>>
  /\ \A a \in Accounts : Cardinality(Arrived(a)) <= 2 /\ UnderPolicies(a, LimitedPolicies)

OnlyNotices ==
  \A a \in Accounts : /\ UnderPolicies(a, TwoConversations)
                      /\ \A t \in Batches(a) : outbox[a][t].segs[1].attempts = 0

RepliesSpec == Init /\ [][Next /\ (RepliesAtMidnight \/ OnlyNotices)']_vars
=============================================================================
