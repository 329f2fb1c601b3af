---------------------------- MODULE HostedControl ----------------------------
(* The agents' side of the account leases: one controller per installation *)
(* keeps one signed request at a time against AgentLeases, installs what it *)
(* is granted in its own durable fence and drops every grant at the        *)
(* deadline.  The same body is retried until it is answered.               *)
EXTENDS AgentLeases

CONSTANTS
  NoPlatform, NoLease,
  Bindings,       \* per agent: <<local, platform>> pairs that may be added
  Settings,       \* records [wants, requests, starts, upsets]: the platform that
                  \* an agent's settings file asks for under a local account;
                  \* and the bounds: per agent, the requests of one start and
                  \* the starts, and how many failures, restarts, licence and
                  \* account changes there are
  MaxRequestAge   \* MAX_REQUEST_AGE

ASSUME HostedParameters ==
  /\ NoPlatform \notin Platforms
  /\ \A s \in Settings : /\ s.wants \in [Agents -> [Locals -> Platforms \cup {NoPlatform}]]
                         /\ s.starts \in [Agents -> Nat]

VARIABLES
  settings,       \* the settings files
  boot, seq,      \* this start of the installation, its request sequence
  ops, started,   \* the request body, and when its identity was chosen
  desired,        \* desired_accounts: platform of a local account
  held,           \* leases of the controller, by local account
  deadline,       \* until when they may be used
  installed,      \* the core store's fence: survives a restart
  waiting,        \* awaiting_auth
  down,           \* the controller's task has ended
  disturbances    \* how many have happened (only for the bound)

hostedVars == <<settings, boot, seq, ops, started, desired, held, deadline, installed, waiting, down>>

NextOps(want, leases) ==
  {[local |-> l, platform |-> want[l],
    action |-> IF leases[l] = NoLease THEN "acquire" ELSE "renew",
    epoch |-> IF leases[l] = NoLease THEN 0 ELSE leases[l]] :
     l \in {k \in Locals : want[k] # NoPlatform}}

NothingHeld == [l \in Locals |-> NoLease]

Releases(a) ==
  {[local |-> l, platform |-> desired[a][l], action |-> "release", epoch |-> held[a][l]] :
     l \in {k \in Locals : desired[a][k] # NoPlatform /\ held[a][k] # NoLease}}

OnlyReleases(a) == ops[a] # {} /\ \A op \in ops[a] : op.action = "release"

(* invalidate_account_lease for every lease that is dropped.               *)
Retired(a, kept) ==
  [l \in Locals |-> IF held[a][l] # NoLease /\ kept[l] = NoLease
                    THEN [installed[a][l] EXCEPT !.active = FALSE]
                    ELSE installed[a][l]]

(* advance_request, and the release batch that replaces its body.          *)
NewIdentity(a, body) ==
  /\ seq[a] < settings.requests[a]
  /\ seq' = [seq EXCEPT ![a] = @ + 1]
  /\ started' = [started EXCEPT ![a] = clock]
  /\ ops' = [ops EXCEPT ![a] = body]

Disconnect(a) ==
  /\ open' = [open EXCEPT ![a] = NoCall]
  /\ answer' = [answer EXCEPT ![a] = NoAnswer]

(* invalidate: nothing may be used before anything is asked of the server. *)
DropAll(a) ==
  /\ held' = [held EXCEPT ![a] = NothingHeld]
  /\ installed' = [installed EXCEPT ![a] = Retired(a, NothingHeld)]
  /\ deadline' = [deadline EXCEPT ![a] = 0]

ServerKept == UNCHANGED <<clock, rows, fence, keyCopy, syncs, licence, tx, grants, lowered>>

-----------------------------------------------------------------------------
(* One request at a time.  An identity that grew too old is replaced; its  *)
(* body is not.                                                            *)
SendSync(a) ==
  /\ ~down[a] /\ ~waiting[a] /\ open[a] = NoCall /\ ops[a] # {}
  /\ deadline[a] = 0 \/ clock < deadline[a]
  /\ IF clock - started[a] >= MaxRequestAge
     THEN NewIdentity(a, ops[a])
     ELSE UNCHANGED <<seq, started, ops>>
  /\ LET call == [agent |-> a, boot |-> boot[a], seq |-> seq'[a], ops |-> ops[a],
                  sent |-> clock]
     IN  open' = [open EXCEPT ![a] = call] /\ calls' = calls \cup {call}
  /\ ServerKept
  /\ UNCHANGED <<answer, settings, boot, desired, held, deadline, installed, waiting, down>>

(* Transport errors, 409, 429, 5xx and answers that came too late: the     *)
(* same body will be sent again.  The request may still be on its way: one  *)
(* that was lost is one no handler ever starts on.                         *)
FailSync(a) ==
  /\ open[a] # NoCall
  /\ Disconnect(a)
  /\ ServerKept
  /\ UNCHANGED <<calls, hostedVars>>

Owned(a) == {r \in answer[a].results : r.status = "owned"}

(* install_verified_account_lease: a higher epoch, or the current one      *)
(* while it was never invalidated.                                         *)
Installable(a, r) ==
  LET local == installed[a][r.local]
  IN  r.epoch > local.epoch \/ (r.epoch = local.epoch /\ local.active)

Usable(a) == answer[a] # NoAnswer /\ ~answer[a].denied /\ clock < answer[a].until

Answered(a, l) == \E r \in answer[a].results : r.local = l

LeasesAfter(a) ==
  [l \in Locals |->
     IF \E r \in Owned(a) : r.local = l
     THEN (CHOOSE r \in Owned(a) : r.local = l).epoch
     ELSE IF Answered(a, l) THEN NoLease ELSE held[a][l]]

(* apply: what the batch grants is installed and held, every other account *)
(* it names is given up; then the next request is prepared.                *)
ApplyBatch(a) ==
  /\ Usable(a) /\ \A r \in Owned(a) : Installable(a, r)
  /\ LET leases == LeasesAfter(a)
     IN  /\ held' = [held EXCEPT ![a] = leases]
         /\ installed' = [installed EXCEPT ![a] =
              [l \in Locals |-> IF \E r \in Owned(a) : r.local = l
                                THEN [epoch |-> leases[l], active |-> TRUE]
                                ELSE Retired(a, leases)[l]]]
         /\ NewIdentity(a, NextOps(desired[a], leases))
  /\ deadline' = [deadline EXCEPT ![a] = answer[a].until]
  /\ Disconnect(a)
  /\ ServerKept
  /\ UNCHANGED <<calls, settings, boot, desired, waiting, down>>

(* The task ends: every grant is dropped, one release is sent and its      *)
(* outcome is not waited for.                                              *)
EndController(a) ==
  /\ down' = [down EXCEPT ![a] = TRUE]
  /\ LET last == [agent |-> a, boot |-> boot[a], seq |-> seq[a] + 1,
                  ops |-> Releases(a), sent |-> clock]
     IN  IF Releases(a) = {}
         THEN UNCHANGED <<calls, seq, started, ops>>
         ELSE NewIdentity(a, Releases(a)) /\ calls' = calls \cup {last}
  /\ DropAll(a)
  /\ Disconnect(a)
  /\ ServerKept
  /\ UNCHANGED <<settings, boot, desired, waiting>>

Shutdown(a) == ~down[a] /\ EndController(a)

(* An epoch the store refuses ends the controller.                         *)
RefuseGrant(a) ==
  /\ Usable(a) /\ \E r \in Owned(a) : ~Installable(a, r)
  /\ EndController(a)

(* 401 or 403, or an authorization file that is not active: every grant is *)
(* dropped, and its release goes out first when the token has rotated.     *)
Suspend(a) ==
  /\ ~down[a] /\ ~waiting[a]
  /\ IF open[a] = NoCall THEN ops[a] # {} ELSE answer[a] # NoAnswer /\ answer[a].denied
  /\ LET first == IF OnlyReleases(a) THEN ops[a] ELSE Releases(a)
     IN  NewIdentity(a, IF first # {} THEN first ELSE NextOps(desired[a], NothingHeld))
  /\ DropAll(a)
  /\ Disconnect(a)
  /\ waiting' = [waiting EXCEPT ![a] = TRUE]
  /\ ServerKept
  /\ UNCHANGED <<calls, settings, boot, desired, down>>

Resume(a) ==
  /\ waiting[a] /\ ~down[a]
  /\ waiting' = [waiting EXCEPT ![a] = FALSE]
  /\ ServerKept
  /\ UNCHANGED <<calls, open, answer, settings, boot, seq, ops, started,
                 desired, held, deadline, installed, down>>

(* The deadline of the last batch: the request under way is given up and   *)
(* the server is asked to release what was held.                           *)
PassDeadline(a) ==
  /\ ~down[a] /\ deadline[a] # 0 /\ clock >= deadline[a]
  /\ NewIdentity(a, IF Releases(a) # {} THEN Releases(a)
                    ELSE NextOps(desired[a], NothingHeld))
  /\ DropAll(a)
  /\ Disconnect(a)
  /\ ServerKept
  /\ UNCHANGED <<calls, settings, boot, desired, waiting, down>>

(* apply_desired_changes, between two requests.                            *)
AddAccount(a, l, p) ==
  /\ ~down[a] /\ ~waiting[a] /\ open[a] = NoCall
  /\ <<l, p>> \in Bindings[a] /\ desired[a][l] = NoPlatform
  /\ \A k \in Locals : desired[a][k] # p
  /\ desired' = [desired EXCEPT ![a][l] = p]
  /\ NewIdentity(a, NextOps(desired'[a], held[a]))
  /\ ServerKept
  /\ UNCHANGED <<calls, open, answer, settings, boot, held, deadline, installed, waiting, down>>

RemoveAccount(a, l) ==
  /\ ~down[a] /\ ~waiting[a] /\ open[a] = NoCall
  /\ desired[a][l] # NoPlatform
  /\ LET leases == [held[a] EXCEPT ![l] = NoLease]
     IN  /\ desired' = [desired EXCEPT ![a][l] = NoPlatform]
         /\ held' = [held EXCEPT ![a] = leases]
         /\ installed' = [installed EXCEPT ![a] = Retired(a, leases)]
         /\ NewIdentity(a, NextOps(desired'[a], leases)
                           \cup {op \in Releases(a) : op.local = l})
  /\ ServerKept
  /\ UNCHANGED <<calls, open, answer, settings, boot, deadline, waiting, down>>

(* The process dies, or a stopped one starts again: a new boot, which owns *)
(* nothing and remembers only the fence.                                   *)
Restart(a) ==
  /\ boot[a] < settings.starts[a]
  /\ boot' = [boot EXCEPT ![a] = @ + 1]
  /\ seq' = [seq EXCEPT ![a] = 1]
  /\ started' = [started EXCEPT ![a] = clock]
  /\ desired' = [desired EXCEPT ![a] = settings.wants[a]]
  /\ ops' = [ops EXCEPT ![a] = NextOps(settings.wants[a], NothingHeld)]
  /\ held' = [held EXCEPT ![a] = NothingHeld]
  /\ deadline' = [deadline EXCEPT ![a] = 0]
  /\ waiting' = [waiting EXCEPT ![a] = FALSE]
  /\ down' = [down EXCEPT ![a] = FALSE]
  /\ Disconnect(a)
  /\ ServerKept
  /\ UNCHANGED <<calls, settings, installed>>

-----------------------------------------------------------------------------
HostedInit ==
  /\ settings \in Settings
  /\ clock = 0
  /\ rows = [p \in Platforms |-> NoRow]
  /\ fence = 0 /\ keyCopy = NoCopy
  /\ syncs = [a \in Agents |-> [b \in 1..settings.starts[a] |-> NoState]]
  /\ licence = [a \in Agents |-> [usable |-> TRUE, until |-> LicenceTerm, revoked |-> 0]]
  /\ tx = NoTx /\ calls = {} /\ grants = {} /\ lowered = FALSE
  /\ open = [a \in Agents |-> NoCall]
  /\ answer = [a \in Agents |-> NoAnswer]
  /\ boot = [a \in Agents |-> 1]
  /\ seq = [a \in Agents |-> 1]
  /\ started = [a \in Agents |-> 0]
  /\ desired = settings.wants
  /\ ops = [a \in Agents |-> NextOps(settings.wants[a], NothingHeld)]
  /\ held = [a \in Agents |-> NothingHeld]
  /\ deadline = [a \in Agents |-> 0]
  /\ installed = [a \in Agents |-> [l \in Locals |-> [epoch |-> 0, active |-> FALSE]]]
  /\ waiting = [a \in Agents |-> FALSE]
  /\ down = [a \in Agents |-> FALSE]
  /\ disturbances = 0

ControllerNext(a) ==
  SendSync(a) \/ ApplyBatch(a) \/ RefuseGrant(a) \/ Resume(a) \/ PassDeadline(a)

Disturbance(a) ==
  \/ FailSync(a) \/ Suspend(a) \/ Shutdown(a) \/ Restart(a)
  \/ \E l \in Locals : RemoveAccount(a, l) \/ \E p \in Platforms : AddAccount(a, l, p)
  \/ (RenewLicence(a) \/ RevokeLicence(a)) /\ UNCHANGED hostedVars

(* The agents of a behaviour: those that are ever started.                  *)
Installed == {a \in Agents : settings.starts[a] > 0}

HostedNext ==
  \/ /\ LeaseServerNext \/ LeaseTick
     /\ UNCHANGED <<hostedVars, disturbances>>
  \/ \E a \in Installed : ControllerNext(a) /\ UNCHANGED disturbances
  \/ /\ disturbances < settings.upsets
     /\ disturbances' = disturbances + 1
     /\ (\E a \in Installed : Disturbance(a)) \/ ((RollbackSync \/ LoadKey) /\ UNCHANGED hostedVars)

-----------------------------------------------------------------------------
(* Properties.                                                             *)

MayUse(a, l) == held[a][l] # NoLease /\ clock < deadline[a]

(* Invariant: what an agent may still use is a live lease row of the        *)
(* server, its own, with its epoch, that lasts at least as long.           *)
HeldLeaseIsServed ==
  \A a \in Agents : \A l \in Locals :
    MayUse(a, l) =>
      LET row == rows[desired[a][l]]
      IN  /\ LiveAt(row, clock) /\ row.until >= deadline[a]
          /\ row.agent = a /\ row.boot = boot[a] /\ row.local = l
          /\ row.epoch = held[a][l]

(* Invariant: a fence epoch is handed out once per key, also after the row  *)
(* that carried it has been pruned, as long as no handler that had loaded   *)
(* the key without its lock has saved an older counter over it.            *)
EpochGrantedOnce ==
  ~lowered => \A g, h \in grants : g.epoch = h.epoch => g = h

(* Invariant: a batch never takes the accounts that are live, at the time   *)
(* its handler read, over the plan's quota, nor further over it where a     *)
(* handler that had read an earlier time has already done so.               *)
LiveRows(table, at) == {p \in Platforms : LiveAt(table[p], at)}

GrantsWithinQuota ==
  tx # NoTx => \/ Cardinality(LiveRows(tx.rows, tx.at)) <= Quota
               \/ Cardinality(LiveRows(tx.rows, tx.at)) <= Cardinality(LiveRows(rows, tx.at))

(* Invariant: a revoked activation's leases die within one TTL.             *)
RevokedLeasesExpire ==
  \A p \in Platforms :
    rows[p] # NoRow /\ ~licence[rows[p].agent].usable
      => rows[p].until <= licence[rows[p].agent].revoked + TTL

HostedSpec == HostedInit /\ [][HostedNext]_<<leaseVars, hostedVars, disturbances>>
=============================================================================
