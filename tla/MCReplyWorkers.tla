---------------------------- MODULE MCReplyWorkers ----------------------------
(* The reply workers for TLC: the fleet of processes, the reply loop of one  *)
(* account and the push side of its inbox.  The three models share no state, *)
(* so each is explored while the others have nothing to do.                  *)
EXTENDS WorkerFleet, AccountReplies, PushInbound

CONSTANTS w1, w2, a1

Command(id, kind) == [id |-> id, kind |-> kind, acct |-> a1]

Send == Command(1, "send")
Stop == Command(2, "stop")
Pause == Command(3, "pause")
Resume == Command(4, "resume")

Published == {Send, Stop, Pause, Resume}

Everywhere == [w \in Workers |-> Accts]

Sharded == [w \in Workers |-> IF w = w1 THEN Accts ELSE {}]

Deployment(leases, backend, owns, commands, upsets) ==
  [leases |-> leases, backend |-> backend, owns |-> owns, up |-> Workers,
   commands |-> commands, upsets |-> upsets]

WithLeases == Deployment(TRUE, "redis", Everywhere, {}, 1)

NoFleet == [WithLeases EXCEPT !.up = {}, !.upsets = 0]

SingleWorker == [WithLeases EXCEPT !.up = {w1}, !.upsets = 2]

Fleets ==
  {WithLeases, SingleWorker, NoFleet,
   Deployment(FALSE, "db", Sharded, {Send}, 1),
   Deployment(FALSE, "db", Sharded, {Stop}, 0),
   Deployment(FALSE, "redis", Sharded, {Pause, Resume}, 0)}

LeasesAlone == {WithLeases}

Inbox(size, upsets, peerLimit) ==
  [size |-> size, upsets |-> upsets, online |-> TRUE, peerLimit |-> peerLimit]

NoInbox == [size |-> 0, upsets |-> 0, online |-> FALSE, peerLimit |-> FALSE]

Traffic == {NoInbox, Inbox(3, 1, FALSE), Inbox(1, 2, FALSE), Inbox(3, 0, TRUE)}

NoTraffic == {NoInbox}

Pushes(size, upsets) == [size |-> size, upsets |-> upsets]

NoPush == Pushes(0, 0)

Feeds == {NoPush, Pushes(3, 0), Pushes(2, 1)}

NoFeed == {NoPush}

MCInit ==
  /\ FleetInit /\ ReplyInit /\ PushInit
  /\ \/ inbox.size = 0 /\ stream.size = 0
     \/ deploy = NoFleet /\ stream.size = 0
     \/ deploy = NoFleet /\ inbox.size = 0

MCNext ==
  \/ FleetNext /\ UNCHANGED <<replyVars, pushVars>>
  \/ ReplyNext /\ UNCHANGED <<fleetVars, pushVars>>
  \/ PushNext /\ UNCHANGED <<fleetVars, replyVars>>

MCSpec ==
  /\ MCInit /\ [][MCNext]_<<fleetVars, replyVars, pushVars>>
  /\ FleetFairness /\ ReplyFairness /\ PushFairness
=============================================================================
