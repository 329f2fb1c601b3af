------------------------------ MODULE MCBackend ------------------------------
(* The backend's services for TLC: the account leases with the agents that  *)
(* hold them, the licence service with its clients, and the scheduler.  The *)
(* models share no state: a behaviour is one of a single component.         *)
EXTENDS HostedControl, LicenseClient, Scheduler, TLC

CONSTANTS a1, a2, x, y, p1, p2, d1, d2

VARIABLE component

BindingsOf ==
  [a \in Agents |-> IF a = a1 THEN {<<x, p1>>, <<x, p2>>, <<y, p2>>} ELSE {}]

PerAgent(first, second) == [a \in Agents |-> IF a = a1 THEN first ELSE second]

Asks(onX, onY) == [l \in Locals |-> IF l = x THEN onX ELSE onY]

Scene(wants, sent, starts, disturbed) ==
  [wants |-> wants, requests |-> sent, starts |-> starts, upsets |-> disturbed]

(* Two agents ask for one account; one agent asks for two; one agent is     *)
(* started again.                                                           *)
Rivals == Scene(PerAgent(Asks(p1, NoPlatform), Asks(p1, NoPlatform)),
                PerAgent(2, 2), PerAgent(1, 1), 1)

Alone == Scene(PerAgent(Asks(p1, p2), Asks(NoPlatform, NoPlatform)),
               PerAgent(3, 0), PerAgent(1, 0), 2)

Restarted == Scene(PerAgent(Asks(p1, NoPlatform), Asks(NoPlatform, NoPlatform)),
                   PerAgent(3, 0), PerAgent(2, 0), 1)

Scenes == {Rivals, Alone, Restarted}

RequestsOf == [d \in Devices |-> IF d = d1 THEN 3 ELSE 1]

Row(code, status, once, sound) ==
  [code |-> code, status |-> status, once |-> once, sound |-> sound]

(* Rows of each status, a one-time job, and a job that add_job refuses.     *)
Choice ==
  UNION {{Row(c, s, FALSE, TRUE) : s \in Statuses}
           \cup {Row(c, "enabled", TRUE, TRUE), Row(c, "enabled", FALSE, FALSE)} : c \in Codes}

JobSymmetry == Permutations(Jobs) \cup Permutations(Codes) \cup Permutations(Requests)

(* The scheduler of the cfg runs in the web process; this one runs apart.   *)
Apart == INSTANCE Scheduler WITH InProcess <- FALSE

MCInit ==
  /\ component \in {"leases", "licensing", "scheduler", "scheduler_apart"}
  /\ HostedInit /\ LicInit /\ SchedulerInit
  /\ component # "leases" => settings = Rivals

leaseSide == <<leaseVars, hostedVars, disturbances>>

licenceSide == <<licVars, clientVars, upsets>>

MCNext ==
  /\ UNCHANGED component
  /\ \/ component = "leases" /\ HostedNext /\ UNCHANGED <<licenceSide, schedulerVars>>
     \/ component = "licensing" /\ LicNext /\ UNCHANGED <<leaseSide, schedulerVars>>
     \/ component = "scheduler" /\ SchedulerNext /\ UNCHANGED <<leaseSide, licenceSide>>
     \/ component = "scheduler_apart" /\ Apart!SchedulerNext /\ UNCHANGED <<leaseSide, licenceSide>>

MCSpec == MCInit /\ [][MCNext]_<<component, leaseSide, licenceSide, schedulerVars>>
=============================================================================
