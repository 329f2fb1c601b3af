--------------------------- MODULE SchedulerProofs ---------------------------
(* Once nothing is under way, what is scheduled is what the table says: for *)
(* any jobs, codes, requests that overlap and number of restarts, with the  *)
(* scheduler in the web process or apart, where requests are atomic.        *)
EXTENDS Scheduler, TLAPS

-----------------------------------------------------------------------------
(* The inductive invariant.                                                 *)
SchedulerTyped ==
  /\ AtomicRequests
  /\ jobs \in [Jobs -> JobRows \cup {NoJob}]
  /\ planned \in [Codes -> Plans \cup {NoPlan}]
  /\ works \in [Requests -> Works \cup {NoRequest}]
  /\ \A item \in loading :
       item.task \in Jobs /\ item.row \in JobRows /\ item.row.status = "enabled"
  /\ cleaning \subseteq [task : Jobs, code : Codes, removed : BOOLEAN]
  /\ fresh \subseteq Jobs

Open(r) == works[r] # NoRequest

(* A request that saves has one row and its lock before it touches the      *)
(* schedule; one that switches locked what it found; a job that is being    *)
(* created has nobody else's attention.                                     *)
WorkFormed(r) ==
  /\ works[r].todo \subseteq works[r].tasks /\ works[r].written \subseteq works[r].tasks
  /\ works[r].kind \in {"create", "update"} <=> works[r].row # NoJob
  /\ Saves(r) => /\ \E t \in Jobs : works[r].tasks = {t}
                 /\ works[r].todo = works[r].tasks \/ works[r].written = works[r].tasks
  /\ Switches(r) => /\ works[r].written = works[r].tasks
                    /\ \A t \in works[r].tasks : Exists(t)
  /\ works[r].kind = "create" => \A t \in works[r].tasks : ~Exists(t) /\ WorksOn(t) = {r}

WorksFormed == \A r \in Requests : Open(r) => WorkFormed(r)

WritesOwnRow ==
  \A r, s \in Requests, t \in Jobs : r \in LockedBy(t) /\ s \in LockedBy(t) => r = s

(* Codes are unique, uncommitted rows included.                             *)
CodesDistinct ==
  /\ \A t, u \in Jobs : Exists(t) /\ Exists(u) /\ jobs[t].code = jobs[u].code => t = u
  /\ \A r \in Requests, t, u \in Jobs :
       Saves(r) /\ t \in works[r].written /\ Exists(u) /\ jobs[u].code = works[r].row.code => u = t
  /\ \A r, s \in Requests :
       Saves(r) /\ Saves(s) /\ works[r].written # {} /\ works[s].written # {}
       /\ works[r].row.code = works[s].row.code => r = s

RowsInv == SchedulerTyped /\ WorksFormed /\ WritesOwnRow /\ CodesDistinct

(* A request has put the schedule right for its row, and not committed.     *)
Synced(r, t) == Open(r) /\ works[r].kind # "delete" /\ t \in works[r].written \ works[r].todo

Loading(t) == \E item \in loading : item.task = t

Cleaning(t) == \E item \in cleaning : item.task = t

(* A row whose entry has been removed for good.                             *)
Dropped(t) ==
  \/ \E r \in WorksOn(t) : works[r].kind = "delete" /\ t \notin works[r].todo
  \/ Cleaning(t)

(* A row that somebody is about to add.                                     *)
Awaited(t) == Loading(t) \/ t \in fresh

(* What is scheduled under a code fits the committed row, unless a request  *)
(* has put it right for the row it will commit.                             *)
CommittedFits(t) ==
  LET plan == planned[jobs[t].code]
  IN  /\ plan # NoPlan => Fits(plan, jobs[t])
      /\ alive /\ Needs(jobs[t]) /\ t \notin HostedJobs /\ ~Dropped(t)
           => plan # NoPlan \/ Awaited(t)

CommittedFit ==
  \A t \in Jobs :
    Exists(t) /\ jobs[t].code \notin strayed
    /\ (\A r \in Requests : Synced(r, t) => Written(r, t).code # jobs[t].code)
      => CommittedFits(t)

SyncedFit ==
  KeepsPlans => \A r \in Requests, t \in Jobs :
    Synced(r, t) /\ Written(r, t).code \notin strayed
      => LET plan == planned[Written(r, t).code]
         IN  /\ plan # NoPlan => Fits(plan, Written(r, t))
             /\ Needs(Written(r, t)) => plan # NoPlan

PlansOwned ==
  \A c \in Codes \ strayed : planned[c] # NoPlan =>
    \/ \E t \in Jobs : Exists(t) /\ jobs[t].code = c
    \/ InProcess /\ \E r \in Requests, t \in Jobs : Synced(r, t) /\ Written(r, t).code = c

(* Nothing is scheduled under a code whose entry a delete or a clean-up has *)
(* removed.                                                                 *)
DroppedUnplanned ==
  /\ \A r \in Requests, t \in Jobs :
       Open(r) /\ works[r].kind = "delete" /\ t \in works[r].tasks \ works[r].todo
       /\ Exists(t) /\ jobs[t].code \notin strayed
         => planned[jobs[t].code] = NoPlan
  /\ \A item \in cleaning :
       item.removed /\ item.code \notin strayed => planned[item.code] = NoPlan

DeadIsEmpty == ~alive => loading = {} /\ \A c \in Codes : planned[c] = NoPlan

PlansInv == CommittedFit /\ SyncedFit /\ PlansOwned /\ DroppedUnplanned /\ DeadIsEmpty

(* A row that start has yet to add is the current one, and nobody works on  *)
(* it, or its codes have strayed.                                           *)
LoadingCurrent ==
  \A item \in loading :
    /\ \/ jobs[item.task] = item.row
       \/ /\ item.row.code \in strayed
          /\ Exists(item.task) => jobs[item.task].code \in strayed
    /\ WorksOn(item.task) # {} \/ Deletes(item.task)
         => item.row.code \in strayed /\ CodesAt(item.task) \subseteq strayed

(* So is a row that is being deleted,                                       *)
DeletesAlone ==
  \A r \in Requests : Open(r) /\ works[r].kind = "delete" =>
    \A t \in works[r].tasks : WorksOn(t) # {r} \/ Cleaning(t) => CodesAt(t) \subseteq strayed

(* ... or cleaned up.                                                       *)
CleaningAlone ==
  \A item \in cleaning :
    /\ WorksOn(item.task) # {} => CodesAt(item.task) \subseteq strayed
    /\ (\E r \in Requests : Open(r) /\ works[r].row # NoJob /\ works[r].row.code = item.code)
         => item.code \in strayed
    /\ Exists(item.task) /\ jobs[item.task].code \notin strayed => jobs[item.task].code = item.code
    /\ item.code \notin strayed =>
         \A u \in Jobs : Exists(u) /\ jobs[u].code = item.code => u = item.task

(* With the scheduler apart, a request that changes a row gives up its      *)
(* codes,                                                                   *)
ApartStrays ==
  ~InProcess => \A r \in Requests : Open(r) /\ works[r].kind # "create" =>
    \A t \in works[r].tasks : CodesAt(t) \subseteq strayed

(* ... and a row that is created is found by the next synchronisation, or   *)
(* has strayed.                                                             *)
ApartFinds ==
  ~InProcess => \A r \in Requests : Open(r) /\ works[r].kind = "create" =>
    \A t \in works[r].written : t \in fresh \/ CodesAt(t) \subseteq strayed

AloneInv == LoadingCurrent /\ DeletesAlone /\ CleaningAlone /\ ApartStrays /\ ApartFinds

SchedulerInv == RowsInv /\ PlansInv /\ AloneInv

-----------------------------------------------------------------------------
(* What the state says of a request and of its codes.                       *)
LEMMA WorkTyped ==
  ASSUME SchedulerTyped, NEW r \in Requests, Open(r)
  PROVE  works[r] \in Works
BY DEF SchedulerTyped, Open

LEMMA RowTyped ==
  ASSUME SchedulerTyped, NEW t \in Jobs, Exists(t)
  PROVE  jobs[t] \in JobRows
BY DEF SchedulerTyped, Exists

LEMMA SavesFacts ==
  ASSUME SchedulerTyped, WorksFormed, NEW r \in Requests, Saves(r)
  PROVE  /\ Open(r) /\ works[r].row \in JobRows /\ works[r].row # NoJob /\ ~Switches(r)
         /\ works[r].kind \in {"create", "update"}
         /\ \E t \in Jobs : works[r].tasks = {t}
         /\ works[r].todo = works[r].tasks \/ works[r].written = works[r].tasks
<1>1. Open(r) /\ WorkFormed(r) /\ works[r] \in Works
  BY WorkTyped DEF Saves, Open, WorksFormed
<1> QED  BY <1>1, SchedulerParameters DEF WorkFormed, Saves, Switches, Works

LEMMA SwitchesFacts ==
  ASSUME SchedulerTyped, WorksFormed, NEW r \in Requests, Switches(r)
  PROVE  /\ Open(r) /\ works[r].row = NoJob /\ ~Saves(r) /\ works[r].kind \in Statuses
         /\ works[r].written = works[r].tasks /\ \A t \in works[r].tasks : Exists(t)
<1>1. Open(r) /\ WorkFormed(r) /\ works[r] \in Works
  BY WorkTyped DEF Switches, Open, WorksFormed
<1> QED  BY <1>1, SchedulerParameters DEF WorkFormed, Saves, Switches, Works, Statuses

LEMMA SavesOrSwitches ==
  ASSUME SchedulerTyped, WorksFormed, NEW r \in Requests, Open(r), works[r].kind # "delete"
  PROVE  Saves(r) \/ Switches(r)
BY DEF WorksFormed, WorkFormed, Saves, Switches, Open

LEMMA WrittenBySave ==
  ASSUME SchedulerTyped, WorksFormed, NEW r \in Requests, NEW t, Saves(r)
  PROVE  Written(r, t) = works[r].row
BY DEF Written

LEMMA WrittenBySwitch ==
  ASSUME SchedulerTyped, WorksFormed, NEW r \in Requests, NEW t \in works[r].tasks, Switches(r)
  PROVE  /\ t \in Jobs /\ Exists(t)
         /\ Written(r, t) \in JobRows
         /\ Written(r, t).code = jobs[t].code /\ Written(r, t).once = jobs[t].once
         /\ Written(r, t).sound = jobs[t].sound
         /\ Written(r, t).status = works[r].kind
<1>1. t \in Jobs /\ Exists(t) /\ ~Saves(r) /\ works[r].kind \in Statuses
  BY SwitchesFacts, WorkTyped DEF Works
<1>2. jobs[t] \in JobRows  BY <1>1, RowTyped
<1>3. Written(r, t) = NewStatus(t, works[r].kind)
  BY <1>1 DEF Written, SchedulerTyped
<1> QED  BY <1>1, <1>2, <1>3 DEF NewStatus, JobRows

LEMMA WrittenTyped ==
  ASSUME SchedulerTyped, WorksFormed, NEW r \in Requests, NEW t \in works[r].tasks,
         Open(r), works[r].kind # "delete"
  PROVE  Written(r, t) \in JobRows
BY SavesOrSwitches, WrittenBySave, WrittenBySwitch, SavesFacts

(* A row that is being written has its code for itself.                     *)
LEMMA OwnRow ==
  ASSUME RowsInv, NEW r \in Requests, NEW t \in works[r].written, NEW u \in Jobs,
         Open(r), works[r].kind # "delete", Exists(u), jobs[u].code = Written(r, t).code
  PROVE  u = t
<1>1. t \in works[r].tasks /\ t \in Jobs
  BY WorkTyped DEF RowsInv, WorksFormed, WorkFormed, Works
<1>2. CASE Saves(r)
  BY <1>1, <1>2, WrittenBySave DEF RowsInv, CodesDistinct
<1>3. CASE Switches(r)
  BY <1>1, <1>3, WrittenBySwitch DEF RowsInv, CodesDistinct
<1> QED  BY <1>2, <1>3, SavesOrSwitches DEF RowsInv

LEMMA OwnCode ==
  ASSUME RowsInv, NEW r \in Requests, NEW s \in Requests,
         NEW t \in works[r].written, NEW u \in works[s].written,
         Open(r), Open(s), works[r].kind # "delete", works[s].kind # "delete",
         Written(r, t).code = Written(s, u).code
  PROVE  r = s /\ t = u
<1>1. /\ t \in works[r].tasks /\ t \in Jobs /\ u \in works[s].tasks /\ u \in Jobs
  BY WorkTyped DEF RowsInv, WorksFormed, WorkFormed, Works
<1>2. ASSUME t = u  PROVE r = s
  BY <1>1, <1>2 DEF RowsInv, WritesOwnRow, LockedBy, Open
<1>3. CASE Saves(r) /\ Saves(s)
  <2>1. r = s
    BY <1>1, <1>3, WrittenBySave DEF RowsInv, CodesDistinct
  <2> QED  BY <1>1, <1>3, <2>1, SavesFacts DEF RowsInv
<1>4. CASE Switches(s)
  BY <1>1, <1>2, <1>4, WrittenBySwitch, OwnRow DEF RowsInv
<1>5. CASE Switches(r)
  BY <1>1, <1>2, <1>5, WrittenBySwitch, OwnRow DEF RowsInv
<1> QED  BY <1>3, <1>4, <1>5, SavesOrSwitches DEF RowsInv

LEMMA SyncedFacts ==
  ASSUME RowsInv, NEW r \in Requests, NEW t \in Jobs, Synced(r, t)
  PROVE  /\ Open(r) /\ works[r].kind # "delete" /\ t \in works[r].tasks /\ t \in works[r].written
         /\ Written(r, t) \in JobRows /\ r \in WorksOn(t)
BY WrittenTyped DEF Synced, RowsInv, WorksFormed, WorkFormed, WorksOn, Open

LEMMA AtStake ==
  ASSUME NEW t, NEW c
  PROVE  c \in CodesAt(t) <=>
           \/ Exists(t) /\ c = jobs[t].code
           \/ \E r \in Requests :
                Open(r) /\ t \in works[r].tasks /\ works[r].row # NoJob /\ c = works[r].row.code
           \/ \E item \in cleaning : item.task = t /\ c = item.code
<1>1. \A r \in Requests : r \in WorksOn(t) <=> Open(r) /\ t \in works[r].tasks
  BY DEF WorksOn, Open
<1> QED  BY <1>1 DEF CodesAt, WorksOn

LEMMA AtStakeNext ==
  ASSUME NEW t, NEW c
  PROVE  c \in CodesAt(t)' <=>
           \/ Exists(t)' /\ c = jobs'[t].code
           \/ \E r \in Requests :
                Open(r)' /\ t \in works'[r].tasks /\ works'[r].row # NoJob /\ c = works'[r].row.code
           \/ \E item \in cleaning' : item.task = t /\ c = item.code
<1>1. \A r \in Requests : r \in WorksOn(t)' <=> Open(r)' /\ t \in works'[r].tasks
  BY DEF WorksOn, Open
<1> QED  BY <1>1 DEF CodesAt, WorksOn

(* The code a request writes for a row is at stake on that row.             *)
LEMMA WrittenAtStake ==
  ASSUME RowsInv, NEW r \in Requests, NEW t \in works[r].tasks,
         Open(r), works[r].kind # "delete"
  PROVE  Written(r, t).code \in CodesAt(t)
<1>1. CASE Saves(r)
  BY <1>1, SavesFacts, WrittenBySave, AtStake DEF RowsInv
<1>2. CASE Switches(r)
  BY <1>2, WrittenBySwitch, AtStake DEF RowsInv
<1> QED  BY <1>1, <1>2, SavesOrSwitches DEF RowsInv

-----------------------------------------------------------------------------
(* What a step does to the requests.                                        *)
Others(r) == \A s \in Requests \ {r} : works'[s] = works[s]

SameWork(r) ==
  /\ Open(r) /\ Open(r)'
  /\ works'[r].kind = works[r].kind /\ works'[r].tasks = works[r].tasks
  /\ works'[r].row = works[r].row

LEMMA TodoShrinks ==
  ASSUME SchedulerTyped, NEW r \in Requests, NEW t, Open(r),
         works' = [works EXCEPT ![r].todo = @ \ {t}]
  PROVE  /\ Others(r) /\ SameWork(r) /\ works' \in [Requests -> Works \cup {NoRequest}]
         /\ works'[r].written = works[r].written /\ works'[r].todo = works[r].todo \ {t}
<1>1. works[r] \in Works  BY WorkTyped
<1>2. works'[r] = [works[r] EXCEPT !.todo = @ \ {t}] /\ Others(r)
  BY DEF SchedulerTyped, Others
<1>3. /\ works'[r] \in Works
      /\ works'[r].kind = works[r].kind /\ works'[r].tasks = works[r].tasks
      /\ works'[r].row = works[r].row
      /\ works'[r].written = works[r].written /\ works'[r].todo = works[r].todo \ {t}
  BY <1>1, <1>2 DEF Works
<1>4. works' \in [Requests -> Works \cup {NoRequest}]
  BY <1>2, <1>3 DEF SchedulerTyped, Others
<1> QED  BY <1>2, <1>3, <1>4, SchedulerParameters DEF SameWork, Open

LEMMA WrittenGrows ==
  ASSUME SchedulerTyped, NEW r \in Requests, NEW t \in Jobs, Open(r),
         works' = [works EXCEPT ![r].written = @ \cup {t}]
  PROVE  /\ Others(r) /\ SameWork(r) /\ works' \in [Requests -> Works \cup {NoRequest}]
         /\ works'[r].written = works[r].written \cup {t} /\ works'[r].todo = works[r].todo
<1>1. works[r] \in Works  BY WorkTyped
<1>2. works'[r] = [works[r] EXCEPT !.written = @ \cup {t}] /\ Others(r)
  BY DEF SchedulerTyped, Others
<1>3. /\ works'[r] \in Works
      /\ works'[r].kind = works[r].kind /\ works'[r].tasks = works[r].tasks
      /\ works'[r].row = works[r].row
      /\ works'[r].written = works[r].written \cup {t} /\ works'[r].todo = works[r].todo
  BY <1>1, <1>2 DEF Works
<1>4. works' \in [Requests -> Works \cup {NoRequest}]
  BY <1>2, <1>3 DEF SchedulerTyped, Others
<1> QED  BY <1>2, <1>3, <1>4, SchedulerParameters DEF SameWork, Open

LEMMA WorkEnds ==
  ASSUME SchedulerTyped, NEW r \in Requests, works' = [works EXCEPT ![r] = NoRequest]
  PROVE  /\ Others(r) /\ ~Open(r)' /\ works' \in [Requests -> Works \cup {NoRequest}]
BY DEF SchedulerTyped, Others, Open

LEMMA SameWorksOn ==
  ASSUME NEW r \in Requests, Others(r), SameWork(r), NEW t
  PROVE  WorksOn(t)' = WorksOn(t)
BY DEF Others, SameWork, Open, WorksOn

LEMMA SameWorksOnWithout ==
  ASSUME NEW r \in Requests, Others(r), ~Open(r)', NEW t
  PROVE  WorksOn(t)' = WorksOn(t) \ {r}
BY DEF Others, Open, WorksOn

LEMMA OtherWork ==
  ASSUME NEW r \in Requests, Others(r), NEW s \in Requests \ {r}
  PROVE  /\ works'[s] = works[s] /\ (Open(s)' <=> Open(s))
         /\ (Saves(s)' <=> Saves(s)) /\ (Switches(s)' <=> Switches(s))
BY DEF Others, Open, Saves, Switches

LEMMA SameWorkKinds ==
  ASSUME NEW r \in Requests, SameWork(r)
  PROVE  (Saves(r)' <=> Saves(r)) /\ (Switches(r)' <=> Switches(r))
BY DEF SameWork, Open, Saves, Switches

(* What a request commits depends on the committed row only while it holds  *)
(* the row's lock.                                                          *)
LEMMA OtherFormed ==
  ASSUME SchedulerTyped, WorksFormed, NEW r \in Requests, Others(r),
         NEW s \in Requests \ {r}, Open(s)',
         Switches(s) => \A t \in works[s].tasks : Exists(t)',
         works[s].kind = "create" => \A t \in works[s].tasks : ~Exists(t)' /\ WorksOn(t)' = {s}
  PROVE  WorkFormed(s)'
BY OtherWork DEF WorksFormed, WorkFormed

LEMMA RowsTodo ==
  ASSUME RowsInv, SchedulerTyped', NEW r \in Requests, Others(r), SameWork(r), jobs' = jobs,
         works'[r].written = works[r].written, works'[r].todo \subseteq works[r].todo,
         works'[r].todo # works[r].todo => works[r].written = works[r].tasks \/ works[r].kind = "delete"
  PROVE  RowsInv'
<1>1. \A t : Exists(t)' <=> Exists(t)  BY DEF Exists
<1>2. \A t : WorksOn(t)' = WorksOn(t)  BY SameWorksOn
<1>3. WorkFormed(r)  BY DEF RowsInv, WorksFormed, SameWork
<1>4. WorkFormed(r)'
  BY <1>1, <1>2, <1>3, SameWorkKinds DEF WorkFormed, SameWork, Saves
<1>5. \A s \in Requests \ {r} : Open(s)' => WorkFormed(s)'
  <2> SUFFICES ASSUME NEW s \in Requests \ {r}, Open(s)'  PROVE WorkFormed(s)'
    OBVIOUS
  <2>1. Open(s) /\ WorkFormed(s)  BY OtherWork DEF RowsInv, WorksFormed
  <2> QED  BY <1>1, <1>2, <2>1, OtherFormed, SwitchesFacts DEF WorkFormed, RowsInv
<1>6. WorksFormed'  BY <1>4, <1>5 DEF WorksFormed
<1>7. \A s \in Requests : /\ (Saves(s)' <=> Saves(s)) /\ (Open(s)' <=> Open(s))
                          /\ works'[s].written = works[s].written /\ works'[s].row = works[s].row
  BY OtherWork, SameWorkKinds DEF SameWork
<1>8. \A t \in Jobs : LockedBy(t)' = LockedBy(t)
  BY <1>7 DEF LockedBy, Open
<1> QED  BY <1>1, <1>6, <1>7, <1>8 DEF RowsInv, WritesOwnRow, CodesDistinct

LEMMA RowsWritten ==
  ASSUME RowsInv, SchedulerTyped', NEW r \in Requests, NEW t \in works[r].tasks \ works[r].written,
         Others(r), SameWork(r), jobs' = jobs,
         works'[r].written = works[r].written \cup {t}, works'[r].todo = works[r].todo,
         RowFree(t), Saves(r) => UniqueCode(t, works[r].row) /\ CodeFree(t, works[r].row)
  PROVE  RowsInv'
<1>1. works[r] \in Works /\ t \in Jobs  BY WorkTyped DEF RowsInv, SameWork, Works
<1>2. \A u : Exists(u)' <=> Exists(u)  BY DEF Exists
<1>3. \A u : WorksOn(u)' = WorksOn(u)  BY SameWorksOn
<1>4. WorkFormed(r)  BY DEF RowsInv, WorksFormed, SameWork
<1>5. WorkFormed(r)'
  BY <1>2, <1>3, <1>4, SameWorkKinds, SwitchesFacts DEF WorkFormed, SameWork, Saves, RowsInv
<1>6. \A s \in Requests \ {r} : Open(s)' => WorkFormed(s)'
  <2> SUFFICES ASSUME NEW s \in Requests \ {r}, Open(s)'  PROVE WorkFormed(s)'
    OBVIOUS
  <2>1. Open(s) /\ WorkFormed(s)  BY OtherWork DEF RowsInv, WorksFormed
  <2> QED  BY <1>2, <1>3, <2>1, OtherFormed, SwitchesFacts DEF WorkFormed, RowsInv
<1>7. WorksFormed'  BY <1>5, <1>6 DEF WorksFormed
<1>8. \A s \in Requests : /\ (Saves(s)' <=> Saves(s)) /\ (Open(s)' <=> Open(s))
                          /\ (s # r => works'[s].written = works[s].written)
                          /\ works'[s].row = works[s].row
  BY OtherWork, SameWorkKinds DEF SameWork
<1>9. WritesOwnRow'
  <2>1. \A u \in Jobs : LockedBy(u)' \subseteq LockedBy(u) \cup (IF u = t THEN {r} ELSE {})
    BY <1>8 DEF LockedBy, Open
  <2> QED  BY <1>8, <2>1 DEF RowFree, RowsInv, SchedulerTyped, WritesOwnRow
<1>10. CodesDistinct'
  <2>1. \A u, v \in Jobs : Exists(u)' /\ Exists(v)' /\ jobs'[u].code = jobs'[v].code => u = v
    BY <1>2 DEF RowsInv, CodesDistinct
  <2>2. ASSUME NEW s \in Requests, NEW v \in Jobs, NEW u \in Jobs, Saves(s)',
               v \in works'[s].written, Exists(u)', jobs'[u].code = works'[s].row.code
        PROVE  u = v
    <3>1. CASE s = r /\ v = t
      BY <1>2, <1>8, <2>2, <3>1 DEF UniqueCode
    <3>2. CASE v \in works[s].written
      BY <1>2, <1>8, <2>2, <3>2 DEF RowsInv, CodesDistinct
    <3> QED  BY <1>8, <2>2, <3>1, <3>2
  <2>3. ASSUME NEW s \in Requests \ {r}, Saves(s), works[s].written # {}, Saves(r)
        PROVE  works[s].row.code # works[r].row.code
    <3>1. t \notin works[s].tasks
      <4>1. \E u \in Jobs : works[s].tasks = {u}  BY <2>3, SavesFacts DEF RowsInv
      <4>2. WorkFormed(s)  BY <2>3 DEF RowsInv, WorksFormed, Saves, Open
      <4> QED  BY <2>3, <4>1, <4>2 DEF RowFree, RowsInv, SchedulerTyped, LockedBy, WorkFormed, Saves
    <3> QED  BY <2>3, <3>1, SavesFacts DEF CodeFree, RowsInv, SchedulerTyped, Saves
  <2>4. ASSUME NEW s \in Requests, NEW q \in Requests, Saves(s)', Saves(q)',
               works'[s].written # {}, works'[q].written # {},
               works'[s].row.code = works'[q].row.code
        PROVE  s = q
    BY <1>8, <2>3, <2>4 DEF RowsInv, CodesDistinct
  <2> QED  BY <2>1, <2>2, <2>4 DEF CodesDistinct
<1> QED  BY <1>7, <1>9, <1>10 DEF RowsInv

LEMMA RowsAborted ==
  ASSUME RowsInv, SchedulerTyped', NEW r \in Requests, Others(r), ~Open(r)', jobs' = jobs
  PROVE  RowsInv'
<1>1. \A u : Exists(u)' <=> Exists(u)  BY DEF Exists
<1>2. \A u : WorksOn(u)' = WorksOn(u) \ {r}  BY SameWorksOnWithout
<1>3. \A s \in Requests \ {r} : Open(s)' => WorkFormed(s)'
  <2> SUFFICES ASSUME NEW s \in Requests \ {r}, Open(s)'  PROVE WorkFormed(s)'
    OBVIOUS
  <2>1. Open(s) /\ WorkFormed(s)  BY OtherWork DEF RowsInv, WorksFormed
  <2> QED  BY <1>1, <1>2, <2>1, OtherFormed, SwitchesFacts DEF WorkFormed, RowsInv
<1>4. WorksFormed'  BY <1>3 DEF WorksFormed
<1>5. \A s \in Requests \ {r} : works'[s] = works[s] /\ (Saves(s)' <=> Saves(s))
  BY OtherWork
<1>6. ~Saves(r)'  BY DEF Saves, Open
<1>7. \A t \in Jobs : LockedBy(t)' \subseteq LockedBy(t)
  BY <1>5 DEF LockedBy, Open
<1>8. WritesOwnRow'  BY <1>7 DEF RowsInv, WritesOwnRow
<1>9. CodesDistinct'
  BY <1>1, <1>5, <1>6 DEF RowsInv, CodesDistinct
<1> QED  BY <1>4, <1>8, <1>9 DEF RowsInv

(* The requests that may begin, each with jobs unchanged.                   *)
Admitted(kind, tasks, row, written) ==
  \/ /\ kind = "create" /\ row \in JobRows /\ written = {}
     /\ \E t \in Jobs : tasks = {t} /\ ~Exists(t) /\ WorksOn(t) = {}
  \/ /\ kind = "update" /\ row \in JobRows /\ written = {}
     /\ \E t \in Jobs : tasks = {t} /\ Exists(t)
  \/ /\ kind \in Statuses /\ row = NoJob /\ written = tasks
     /\ \A t \in tasks : Exists(t) /\ RowFree(t)
  \/ /\ kind = "delete" /\ row = NoJob /\ written = {}
     /\ \A t \in tasks : Exists(t)

LEMMA WorkBegins ==
  ASSUME SchedulerTyped, NEW r \in Requests, NEW kind, NEW tasks \in SUBSET Jobs, NEW row,
         NEW written, Begin(r, kind, tasks, row, written), Admitted(kind, tasks, row, written)
  PROVE  /\ Others(r) /\ ~Open(r) /\ Open(r)'
         /\ works' \in [Requests -> Works \cup {NoRequest}]
         /\ works'[r].kind = kind /\ works'[r].tasks = tasks /\ works'[r].row = row
         /\ works'[r].todo = tasks /\ works'[r].written = written
<1> DEFINE work == [kind |-> kind, tasks |-> tasks, row |-> row, todo |-> tasks, written |-> written]
<1>1. work \in Works
  BY DEF Admitted, Works, Statuses
<1>2. /\ work.kind = kind /\ work.tasks = tasks /\ work.row = row
      /\ work.todo = tasks /\ work.written = written
  OBVIOUS
<1>3. works' = [works EXCEPT ![r] = work] /\ works[r] = NoRequest
  BY DEF Begin
<1> HIDE DEF work
<1>4. Others(r) /\ works'[r] = work /\ works' \in [Requests -> Works \cup {NoRequest}]
  BY <1>1, <1>3 DEF SchedulerTyped, Others
<1> QED  BY <1>1, <1>2, <1>3, <1>4, SchedulerParameters DEF Open

LEMMA WorksOnBegun ==
  ASSUME NEW r \in Requests, Others(r), ~Open(r), Open(r)', NEW t
  PROVE  WorksOn(t)' = IF t \in works'[r].tasks THEN WorksOn(t) \cup {r} ELSE WorksOn(t)
BY DEF Others, Open, WorksOn

LEMMA RowsBegin ==
  ASSUME RowsInv, SchedulerTyped', NEW r \in Requests, NEW kind, NEW tasks \in SUBSET Jobs,
         NEW row, NEW written, Begin(r, kind, tasks, row, written),
         Admitted(kind, tasks, row, written), jobs' = jobs
  PROVE  RowsInv'
<1>1. /\ Others(r) /\ ~Open(r) /\ Open(r)' /\ jobs' = jobs
      /\ works'[r].kind = kind /\ works'[r].tasks = tasks /\ works'[r].row = row
      /\ works'[r].todo = tasks /\ works'[r].written = written
  BY WorkBegins DEF RowsInv
<1>2. \A t : Exists(t)' <=> Exists(t)  BY <1>1 DEF Exists
<1>3. \A t : WorksOn(t)' = IF t \in tasks THEN WorksOn(t) \cup {r} ELSE WorksOn(t)
  BY <1>1, WorksOnBegun
<1>4. /\ Saves(r)' <=> kind \in {"create", "update"}
      /\ Switches(r)' <=> row = NoJob /\ kind # "delete"
  BY <1>1 DEF Saves, Switches, Open
<1>5. WorkFormed(r)'
  BY <1>1, <1>2, <1>3, <1>4, SchedulerParameters DEF WorkFormed, Admitted, Statuses
<1>6. \A s \in Requests \ {r} : Open(s)' => WorkFormed(s)'
  <2> SUFFICES ASSUME NEW s \in Requests \ {r}, Open(s)'  PROVE WorkFormed(s)'
    OBVIOUS
  <2>1. Open(s) /\ WorkFormed(s)  BY <1>1, OtherWork DEF RowsInv, WorksFormed
  <2>2. ASSUME works[s].kind = "create", NEW t \in works[s].tasks
        PROVE  ~Exists(t)' /\ WorksOn(t)' = {s}
    <3>1. ~Exists(t) /\ WorksOn(t) = {s}  BY <2>1, <2>2 DEF WorkFormed
    <3>2. t \notin tasks  BY <3>1 DEF Admitted
    <3> QED  BY <1>2, <1>3, <3>1, <3>2
  <2>3. Switches(s) => \A t \in works[s].tasks : Exists(t)'
    BY <1>2, <2>1 DEF WorkFormed
  <2> QED  BY <1>1, <2>2, <2>3, OtherFormed DEF RowsInv
<1>7. WorksFormed'  BY <1>5, <1>6 DEF WorksFormed
<1>8. \A s \in Requests \ {r} : works'[s] = works[s] /\ (Saves(s)' <=> Saves(s))
  BY <1>1, OtherWork
<1>9. WritesOwnRow'
  <2>1. \A t \in Jobs : LockedBy(t)' = LockedBy(t) \cup (IF t \in written THEN {r} ELSE {})
    BY <1>1, <1>8 DEF LockedBy, Open
  <2>2. \A t \in written : RowFree(t)  BY DEF Admitted
  <2> QED  BY <2>1, <2>2 DEF RowsInv, SchedulerTyped, WritesOwnRow, RowFree
<1>10. Saves(r)' => works'[r].written = {}
  BY <1>1, <1>4 DEF Admitted, Statuses
<1>11. CodesDistinct'
  BY <1>1, <1>2, <1>8, <1>10 DEF RowsInv, CodesDistinct
<1> QED  BY <1>7, <1>9, <1>11 DEF RowsInv

LEMMA Commits ==
  ASSUME RowsInv, NEW r \in Requests, Commit(r)
  PROVE  /\ Open(r) /\ Others(r) /\ ~Open(r)' /\ works' \in [Requests -> Works \cup {NoRequest}]
         /\ works[r].todo = {} /\ works[r].written = works[r].tasks /\ works[r].tasks \subseteq Jobs
         /\ jobs' \in [Jobs -> JobRows \cup {NoJob}]
         /\ \A t \in Jobs \ works[r].tasks : jobs'[t] = jobs[t] /\ (Exists(t)' <=> Exists(t))
         /\ works[r].kind = "delete" => \A t \in works[r].tasks : ~Exists(t)'
         /\ works[r].kind # "delete" => \A t \in works[r].tasks :
              /\ jobs'[t] = Written(r, t) /\ Exists(t)'
              /\ Synced(r, t)
<1>1. Open(r) /\ works[r].todo = {} /\ works[r].written = works[r].tasks
  BY DEF Commit, Open
<1>2. Others(r) /\ ~Open(r)' /\ works' \in [Requests -> Works \cup {NoRequest}]
  BY WorkEnds DEF Commit, RowsInv
<1>3. works[r] \in Works /\ works[r].tasks \subseteq Jobs
  BY <1>1, WorkTyped DEF RowsInv, Works
<1>4. jobs' = [t \in Jobs |-> IF t \notin works[r].tasks THEN jobs[t]
                              ELSE IF works[r].kind = "delete" THEN NoJob ELSE Written(r, t)]
  BY DEF Commit, RowsInv, SchedulerTyped
<1>5. works[r].kind # "delete" => \A t \in works[r].tasks : Written(r, t) \in JobRows
  BY <1>1, WrittenTyped DEF RowsInv
<1>6. \A t \in Jobs : jobs[t] \in JobRows \cup {NoJob}
  BY DEF RowsInv, SchedulerTyped
<1>7. jobs' \in [Jobs -> JobRows \cup {NoJob}]
  BY <1>4, <1>5, <1>6
<1>8. works[r].kind # "delete" => \A t \in works[r].tasks : Synced(r, t)
  BY <1>1 DEF Synced
<1> QED
  BY <1>1, <1>2, <1>3, <1>4, <1>5, <1>7, <1>8, SchedulerParameters DEF Exists

(* A committed row is nobody else's.                                        *)
LEMMA OthersElsewhere ==
  ASSUME RowsInv, NEW r \in Requests, Open(r), works[r].written = works[r].tasks,
         NEW s \in Requests \ {r}, NEW t \in works[s].written, Open(s)
  PROVE  t \notin works[r].tasks
<1>1. t \in Jobs
  BY WorkTyped DEF RowsInv, WorksFormed, WorkFormed, Works
<1> QED  BY <1>1 DEF RowsInv, WritesOwnRow, LockedBy, Open

LEMMA RowsCommit ==
  ASSUME RowsInv, SchedulerTyped', NEW r \in Requests, Commit(r)
  PROVE  RowsInv'
<1>1. /\ Open(r) /\ Others(r) /\ ~Open(r)'
      /\ works[r].todo = {} /\ works[r].written = works[r].tasks /\ works[r].tasks \subseteq Jobs
      /\ \A t \in Jobs \ works[r].tasks : jobs'[t] = jobs[t] /\ (Exists(t)' <=> Exists(t))
      /\ works[r].kind = "delete" => \A t \in works[r].tasks : ~Exists(t)'
      /\ works[r].kind # "delete" => \A t \in works[r].tasks : jobs'[t] = Written(r, t)
  BY Commits
<1>2. \A u : WorksOn(u)' = WorksOn(u) \ {r}  BY <1>1, SameWorksOnWithout
<1>3. \A s \in Requests \ {r} : Open(s)' => WorkFormed(s)'
  <2> SUFFICES ASSUME NEW s \in Requests \ {r}, Open(s)'  PROVE WorkFormed(s)'
    OBVIOUS
  <2>1. Open(s) /\ WorkFormed(s) /\ works[s].tasks \subseteq Jobs
    BY <1>1, OtherWork, WorkTyped DEF RowsInv, WorksFormed, Works
  <2>2. ASSUME works[s].kind = "create", NEW t \in works[s].tasks
        PROVE  ~Exists(t)' /\ WorksOn(t)' = {s}
    <3>1. ~Exists(t) /\ WorksOn(t) = {s}  BY <2>1, <2>2 DEF WorkFormed
    <3>2. t \notin works[r].tasks  BY <1>1, <3>1 DEF WorksOn, Open
    <3> QED  BY <1>1, <1>2, <2>1, <3>1, <3>2
  <2>3. ASSUME Switches(s), NEW t \in works[s].tasks  PROVE Exists(t)'
    <3>1. Exists(t) /\ t \in works[s].written  BY <2>1, <2>3 DEF WorkFormed
    <3>2. t \notin works[r].tasks  BY <1>1, <2>1, <3>1, OthersElsewhere
    <3> QED  BY <1>1, <2>1, <3>1, <3>2
  <2> QED  BY <1>1, <2>2, <2>3, OtherFormed DEF RowsInv
<1>4. WorksFormed'  BY <1>1, <1>3 DEF WorksFormed
<1>5. \A s \in Requests \ {r} : /\ works'[s] = works[s] /\ (Saves(s)' <=> Saves(s))
                                /\ (Saves(s) => Open(s) /\ works[s].kind # "delete")
  BY <1>1, OtherWork DEF Saves, Open
<1>6. ~Saves(r)'  BY <1>1 DEF Saves, Open
<1>7. \A t \in Jobs : LockedBy(t)' \subseteq LockedBy(t)
  BY <1>1, <1>5 DEF LockedBy, Open
<1>8. WritesOwnRow'  BY <1>7 DEF RowsInv, WritesOwnRow
<1>9. CodesDistinct'
  <2>1. ASSUME NEW t \in Jobs, NEW u \in Jobs, Exists(t)', Exists(u)', jobs'[t].code = jobs'[u].code
        PROVE  t = u
    <3>1. CASE t \notin works[r].tasks /\ u \notin works[r].tasks
      BY <1>1, <2>1, <3>1 DEF RowsInv, CodesDistinct
    <3>2. CASE t \in works[r].tasks /\ u \notin works[r].tasks
      BY <1>1, <2>1, <3>2, OwnRow
    <3>3. CASE t \notin works[r].tasks /\ u \in works[r].tasks
      BY <1>1, <2>1, <3>3, OwnRow
    <3>4. CASE t \in works[r].tasks /\ u \in works[r].tasks
      BY <1>1, <2>1, <3>4, OwnCode
    <3> QED  BY <3>1, <3>2, <3>3, <3>4
  <2>2. ASSUME NEW s \in Requests, NEW t \in Jobs, NEW u \in Jobs, Saves(s)',
               t \in works'[s].written, Exists(u)', jobs'[u].code = works'[s].row.code
        PROVE  u = t
    <3>1. s # r /\ Saves(s) /\ works'[s] = works[s] /\ Written(s, t) = works[s].row
      BY <1>5, <1>6, <2>2, WrittenBySave DEF RowsInv
    <3>2. CASE u \notin works[r].tasks
      BY <1>1, <2>2, <3>1, <3>2 DEF RowsInv, CodesDistinct
    <3>3. CASE u \in works[r].tasks
      <4>1. works[r].kind # "delete" /\ jobs'[u] = Written(r, u) /\ u \in works[r].written
        BY <1>1, <2>2, <3>3
      <4> QED  BY <1>1, <1>5, <2>2, <3>1, <4>1, OwnCode
    <3> QED  BY <3>2, <3>3
  <2>3. \A s, q \in Requests : Saves(s)' /\ Saves(q)' =>
          /\ s # r /\ q # r /\ Saves(s) /\ Saves(q)
          /\ works'[s] = works[s] /\ works'[q] = works[q]
    BY <1>5, <1>6
  <2>4. ASSUME NEW s \in Requests, NEW q \in Requests, Saves(s)', Saves(q)',
               works'[s].written # {}, works'[q].written # {},
               works'[s].row.code = works'[q].row.code
        PROVE  s = q
    BY <2>3, <2>4 DEF RowsInv, CodesDistinct
  <2> QED  BY <2>1, <2>2, <2>4 DEF CodesDistinct
<1> QED  BY <1>4, <1>8, <1>9 DEF RowsInv

LEMMA RowsCleaned ==
  ASSUME RowsInv, SchedulerTyped', NEW t \in Jobs, RowFree(t), works' = works,
         jobs' = [jobs EXCEPT ![t] = NoJob]
  PROVE  RowsInv'
<1>1. \A u \in Jobs : /\ (Exists(u)' <=> Exists(u) /\ u # t)
                      /\ (u # t => jobs'[u] = jobs[u])
  BY DEF Exists, RowsInv, SchedulerTyped
<1>2. \A u : WorksOn(u)' = WorksOn(u)  BY DEF WorksOn
<1>3. \A s \in Requests : /\ (Open(s)' <=> Open(s)) /\ (Saves(s)' <=> Saves(s))
                          /\ (Switches(s)' <=> Switches(s))
  BY DEF Open, Saves, Switches
<1>4. WorksFormed'
  <2> SUFFICES ASSUME NEW s \in Requests, Open(s)  PROVE WorkFormed(s)'
    BY <1>3 DEF WorksFormed
  <2>1. WorkFormed(s) /\ works[s].tasks \subseteq Jobs
    BY WorkTyped DEF RowsInv, WorksFormed, Works
  <2>2. t \notin works[s].written  BY DEF RowFree, RowsInv, SchedulerTyped, LockedBy, Open
  <2> QED  BY <1>1, <1>2, <1>3, <2>1, <2>2 DEF WorkFormed
<1>5. WritesOwnRow'  BY DEF RowsInv, WritesOwnRow, LockedBy
<1>6. CodesDistinct'  BY <1>1, <1>3 DEF RowsInv, CodesDistinct
<1> QED  BY <1>4, <1>5, <1>6 DEF RowsInv

LEMMA RowsUntouched ==
  ASSUME RowsInv, SchedulerTyped', works' = works, jobs' = jobs
  PROVE  RowsInv'
<1>1. WorksFormed'
  BY DEF RowsInv, WorksFormed, WorkFormed, Open, Saves, Switches, Exists, WorksOn
<1>2. WritesOwnRow'  BY DEF RowsInv, WritesOwnRow, LockedBy
<1>3. CodesDistinct'  BY DEF RowsInv, CodesDistinct, Exists, Saves
<1> QED  BY <1>1, <1>2, <1>3 DEF RowsInv

-----------------------------------------------------------------------------
(* What keeps the parts about plans and about rows at stake.                *)
LEMMA PlansKept ==
  ASSUME RowsInv, PlansInv, SchedulerTyped', jobs' = jobs, alive' = alive,
         strayed \subseteq strayed',
         \A c \in Codes \ strayed' : planned'[c] = planned[c],
         \A r \in Requests, t \in Jobs : Synced(r, t)' <=> Synced(r, t),
         \A r \in Requests, t \in Jobs : Synced(r, t) => Written(r, t)' = Written(r, t),
         \A t \in Jobs : Dropped(t) /\ Exists(t) /\ jobs[t].code \notin strayed' => Dropped(t)',
         \A t \in Jobs : Awaited(t) /\ Exists(t) /\ Needs(jobs[t]) /\ t \notin HostedJobs
           /\ jobs[t].code \notin strayed' => Awaited(t)' \/ planned[jobs[t].code] # NoPlan,
         \A r \in Requests, t \in Jobs :
           Open(r)' /\ works'[r].kind = "delete" /\ t \in works'[r].tasks \ works'[r].todo
             => Open(r) /\ works[r].kind = "delete" /\ t \in works[r].tasks \ works[r].todo,
         \A item \in cleaning' : item.removed => item \in cleaning,
         DeadIsEmpty'
  PROVE  PlansInv'
<1>1. \A t \in Jobs : /\ (Exists(t)' <=> Exists(t))
                      /\ (Exists(t) => jobs[t].code \in Codes)
  BY RowTyped DEF Exists, RowsInv, JobRows
<1>2. CommittedFit'
  <2> SUFFICES ASSUME NEW t \in Jobs, Exists(t), jobs[t].code \notin strayed',
                      \A r \in Requests : Synced(r, t)' => Written(r, t)'.code # jobs[t].code
               PROVE  CommittedFits(t)'
    BY <1>1 DEF CommittedFit
  <2>1. \A r \in Requests : Synced(r, t) => Written(r, t).code # jobs[t].code
    OBVIOUS
  <2>2. CommittedFits(t)
    BY <2>1 DEF PlansInv, CommittedFit
  <2>3. planned'[jobs[t].code] = planned[jobs[t].code]
    BY <1>1
  <2> QED  BY <2>2, <2>3 DEF CommittedFits
<1>3. SyncedFit'
  <2> SUFFICES ASSUME KeepsPlans, NEW r \in Requests, NEW t \in Jobs, Synced(r, t),
                      Written(r, t).code \notin strayed'
               PROVE  LET plan == planned'[Written(r, t).code]
                      IN  /\ plan # NoPlan => Fits(plan, Written(r, t))
                          /\ Needs(Written(r, t)) => plan # NoPlan
    BY DEF SyncedFit, KeepsPlans, Fits, Needs
  <2>1. Written(r, t).code \in Codes
    BY SyncedFacts DEF JobRows
  <2> QED  BY <2>1 DEF PlansInv, SyncedFit
<1>4. PlansOwned'
  BY <1>1 DEF PlansInv, PlansOwned
<1>5. DroppedUnplanned'
  <2>1. ASSUME NEW r \in Requests, NEW t \in Jobs, Open(r)', works'[r].kind = "delete",
               t \in works'[r].tasks \ works'[r].todo, Exists(t)', jobs'[t].code \notin strayed'
        PROVE  planned'[jobs'[t].code] = NoPlan
    BY <1>1, <2>1 DEF PlansInv, DroppedUnplanned
  <2>2. \A item \in cleaning' :
          item.removed /\ item.code \notin strayed' => planned'[item.code] = NoPlan
    <3> SUFFICES ASSUME NEW item \in cleaning', item.removed, item.code \notin strayed'
                 PROVE  planned'[item.code] = NoPlan
      OBVIOUS
    <3>1. item \in cleaning /\ item.code \in Codes
      BY DEF RowsInv, SchedulerTyped
    <3> QED  BY <3>1 DEF PlansInv, DroppedUnplanned
  <2> QED  BY <2>1, <2>2 DEF DroppedUnplanned
<1> QED  BY <1>2, <1>3, <1>4, <1>5 DEF PlansInv

(* Requests under way that only wrote rows the next synchronisation finds.  *)
SameShape ==
  \A r \in Requests : Open(r)' =>
    /\ Open(r) /\ works'[r].kind = works[r].kind /\ works'[r].tasks = works[r].tasks
    /\ works'[r].row = works[r].row
    /\ ~InProcess /\ works[r].kind = "create" => works'[r].written \subseteq works[r].written \cup fresh'

LEMMA AloneKept ==
  ASSUME AloneInv, jobs' = jobs, loading' \subseteq loading, cleaning' \subseteq cleaning,
         strayed \subseteq strayed', fresh \subseteq fresh', SameShape
  PROVE  AloneInv'
<1>1. \A t : Exists(t)' <=> Exists(t)  BY DEF Exists
<1>2. \A t : WorksOn(t)' \subseteq WorksOn(t)
  BY DEF WorksOn, Open, SameShape
<1>3. \A t : (Deletes(t)' => Deletes(t)) /\ (Cleaning(t)' => Cleaning(t))
  BY <1>2 DEF Deletes, Cleaning, WorksOn, Open, SameShape
<1>4. \A t : CodesAt(t)' \subseteq CodesAt(t)
  BY <1>1, AtStake, AtStakeNext DEF SameShape
<1>5. LoadingCurrent'
  BY <1>1, <1>2, <1>3, <1>4 DEF AloneInv, LoadingCurrent
<1>6. DeletesAlone'
  <2> SUFFICES ASSUME NEW r \in Requests, Open(r)', works'[r].kind = "delete",
                      NEW t \in works'[r].tasks, WorksOn(t)' # {r} \/ Cleaning(t)'
               PROVE  CodesAt(t)' \subseteq strayed'
    BY DEF DeletesAlone
  <2>1. r \in WorksOn(t)'  BY DEF WorksOn, Open
  <2>2. WorksOn(t) # {r} \/ Cleaning(t)
    BY <1>2, <1>3, <2>1
  <2> QED  BY <1>4, <2>2 DEF AloneInv, DeletesAlone, SameShape
<1>7. CleaningAlone'
  BY <1>1, <1>2, <1>4 DEF AloneInv, CleaningAlone, SameShape
<1>8. ApartStrays' /\ ApartFinds'
  BY <1>4 DEF AloneInv, ApartStrays, ApartFinds, SameShape
<1> QED  BY <1>5, <1>6, <1>7, <1>8 DEF AloneInv

(* The shape of works that SameWork and an ended request leave.             *)
LEMMA SameWorkKept ==
  ASSUME NEW r \in Requests, Others(r),
         \/ ~Open(r)'
         \/ SameWork(r) /\ (~InProcess /\ works[r].kind = "create"
                              => works'[r].written \subseteq works[r].written \cup fresh')
  PROVE  SameShape
BY DEF SameShape, Others, SameWork, Open

LEMMA WorksKeptShape ==
  ASSUME works' = works
  PROVE  SameShape
BY DEF SameShape, Open

LEMMA SyncedUntouched ==
  ASSUME works' = works, jobs' = jobs
  PROVE  /\ \A r \in Requests, t \in Jobs : Synced(r, t)' <=> Synced(r, t)
         /\ \A r \in Requests, t \in Jobs : Written(r, t)' = Written(r, t)
         /\ \A t \in Jobs : cleaning' = cleaning => (Deletes(t)' <=> Deletes(t))
         /\ \A t \in Jobs : cleaning' = cleaning => (Dropped(t)' <=> Dropped(t))
         /\ \A t \in Jobs : loading' = loading => (Loading(t)' <=> Loading(t))
         /\ \A t \in Jobs : loading' = loading /\ fresh' = fresh => (Awaited(t)' <=> Awaited(t))
         /\ \A t \in Jobs : WorksOn(t)' = WorksOn(t) /\ (Exists(t)' <=> Exists(t))
<1>1. \A t \in Jobs : WorksOn(t)' = WorksOn(t) /\ (Exists(t)' <=> Exists(t))
  BY DEF WorksOn, Exists
<1>2. \A t \in Jobs : cleaning' = cleaning =>
        (Deletes(t)' <=> Deletes(t)) /\ (Dropped(t)' <=> Dropped(t))
  BY <1>1 DEF Deletes, Dropped, Cleaning
<1> QED  BY <1>1, <1>2 DEF Synced, Written, Saves, NewStatus, Loading, Awaited, Open

-----------------------------------------------------------------------------
(* The steps.                                                               *)

(* A request that begins where others are at work gives up what it touches, *)
(* as does one that changes rows behind a scheduler that runs apart.        *)
Meddles(kind, u) ==
  \/ Deletes(u) \/ Loading(u)
  \/ kind = "delete" /\ WorksOn(u) # {}
  \/ kind # "create" /\ ~InProcess

LEMMA BeginStrays ==
  ASSUME NEW r, NEW kind, NEW tasks, NEW row, NEW written, Begin(r, kind, tasks, row, written)
  PROVE  /\ strayed \subseteq strayed'
         /\ \A u \in tasks : Meddles(kind, u)
              => CodesAt(u) \subseteq strayed' /\ (row # NoJob => row.code \in strayed')
         /\ \A item \in cleaning : row # NoJob /\ item.code = row.code => item.code \in strayed'
<1> DEFINE Gives(u) == CodesAt(u) \cup (IF row = NoJob THEN {} ELSE {row.code})
           Met == {u \in tasks : \/ Deletes(u) \/ \E item \in loading : item.task = u
                                 \/ kind = "delete" /\ WorksOn(u) # {}
                                 \/ kind # "create" /\ ~InProcess}
           Given == UNION {CodesAt(t) \cup (IF row = NoJob THEN {} ELSE {row.code}) :
                             t \in {u \in tasks : \/ Deletes(u) \/ \E item \in loading : item.task = u
                                                  \/ kind = "delete" /\ WorksOn(u) # {}
                                                  \/ kind # "create" /\ ~InProcess}}
           Cleaned == {item.code : item \in {i \in cleaning : row # NoJob /\ i.code = row.code}}
<1>1. strayed' = strayed \cup Cleaned \cup Given
  BY DEF Begin
<1>2. ASSUME NEW u \in Met  PROVE Gives(u) \subseteq Given
  OBVIOUS
<1>3. \A u \in tasks : Meddles(kind, u) => u \in Met
  BY DEF Meddles, Loading
<1>4. \A item \in cleaning : row # NoJob /\ item.code = row.code => item.code \in Cleaned
  OBVIOUS
<1> HIDE DEF Met, Given, Cleaned
<1> QED  BY <1>1, <1>2, <1>3, <1>4

LEMMA BeginKeeps ==
  ASSUME SchedulerInv, NEW r \in Requests, NEW kind, NEW tasks \in SUBSET Jobs, NEW row,
         NEW written, Begin(r, kind, tasks, row, written), Admitted(kind, tasks, row, written),
         jobs' = jobs
  PROVE  SchedulerInv'
<1>1. /\ Others(r) /\ ~Open(r) /\ Open(r)'
      /\ works' \in [Requests -> Works \cup {NoRequest}]
      /\ works'[r].kind = kind /\ works'[r].tasks = tasks /\ works'[r].row = row
      /\ works'[r].todo = tasks /\ works'[r].written = written
  BY WorkBegins DEF SchedulerInv, RowsInv
<1>2. UNCHANGED <<jobs, planned, alive, loading, cleaning, fresh>>
  BY DEF Begin
<1>3. SchedulerTyped'
  BY <1>1, <1>2 DEF SchedulerInv, RowsInv, SchedulerTyped
<1>4. RowsInv'
  BY <1>3, RowsBegin DEF SchedulerInv
<1>5. strayed \subseteq strayed'
  BY BeginStrays
<1>6. \A t : WorksOn(t)' = IF t \in tasks THEN WorksOn(t) \cup {r} ELSE WorksOn(t)
  BY <1>1, WorksOnBegun
<1>7. \A s \in Requests \ {r} : works'[s] = works[s] /\ (Open(s)' <=> Open(s))
  BY <1>1, OtherWork
<1>8. \A t : Exists(t)' <=> Exists(t)
  BY <1>2 DEF Exists
<1>9. \A t : Deletes(t)' <=> Deletes(t) \/ (kind = "delete" /\ t \in tasks)
  <2>1. \A t : \A s \in WorksOn(t) : s \in Requests \ {r}
    BY <1>1 DEF WorksOn, Open
  <2> QED  BY <1>1, <1>2, <1>6, <1>7, <2>1 DEF Deletes
<1>10. PlansInv'
  <2>1. \A s \in Requests, t \in Jobs : Synced(s, t)' <=> Synced(s, t)
    <3>1. \A t : ~Synced(r, t) /\ ~Synced(r, t)'
      BY <1>1, SchedulerParameters DEF Synced, Admitted
    <3> QED  BY <1>7, <3>1 DEF Synced
  <2>2. \A s \in Requests, t \in Jobs : Synced(s, t) => Written(s, t)' = Written(s, t)
    <3>1. \A t : ~Synced(r, t)  BY <1>1 DEF Synced
    <3> QED  BY <1>2, <1>7, <3>1 DEF Written, Saves, NewStatus
  <2>3. DeadIsEmpty'
    BY <1>2 DEF SchedulerInv, PlansInv, DeadIsEmpty
  <2>4. \A t \in Jobs : (Dropped(t) => Dropped(t)') /\ (Awaited(t) => Awaited(t)')
    <3>1. \A t : \A s \in WorksOn(t) : s \in Requests \ {r}
      BY <1>1 DEF WorksOn, Open
    <3> QED  BY <1>2, <1>6, <1>7, <3>1 DEF Dropped, Cleaning, Awaited, Loading
  <2>5. ASSUME NEW s \in Requests, NEW t \in Jobs,
               Open(s)' /\ works'[s].kind = "delete" /\ t \in works'[s].tasks \ works'[s].todo
        PROVE  Open(s) /\ works[s].kind = "delete" /\ t \in works[s].tasks \ works[s].todo
    BY <1>1, <1>7, <2>5
  <2>6. \A c \in Codes \ strayed' : planned'[c] = planned[c]
    BY <1>2
  <2>7. \A item \in cleaning' : item.removed => item \in cleaning
    BY <1>2
  <2> QED  BY <1>2, <1>3, <1>5, <2>1, <2>2, <2>3, <2>4, <2>5, <2>6, <2>7, PlansKept DEF SchedulerInv
<1>11. \A t, c : c \in CodesAt(t)' =>
         c \in CodesAt(t) \/ (t \in tasks /\ row # NoJob /\ c = row.code)
  BY <1>1, <1>2, <1>7, <1>8, AtStake, AtStakeNext
<1>12. \A u \in tasks : Meddles(kind, u) => CodesAt(u)' \subseteq strayed'
  BY <1>11, BeginStrays
<1>13. \A u : CodesAt(u) \subseteq strayed /\ u \notin tasks => CodesAt(u)' \subseteq strayed'
  BY <1>5, <1>11
<1>14. LoadingCurrent'
  <2> SUFFICES ASSUME NEW item \in loading
               PROVE  /\ \/ jobs[item.task] = item.row
                         \/ /\ item.row.code \in strayed'
                            /\ Exists(item.task) => jobs[item.task].code \in strayed'
                      /\ WorksOn(item.task)' # {} \/ Deletes(item.task)'
                           => item.row.code \in strayed' /\ CodesAt(item.task)' \subseteq strayed'
    BY <1>2, <1>8 DEF LoadingCurrent
  <2>1. /\ \/ jobs[item.task] = item.row
           \/ /\ item.row.code \in strayed
              /\ Exists(item.task) => jobs[item.task].code \in strayed
        /\ WorksOn(item.task) # {} \/ Deletes(item.task)
             => item.row.code \in strayed /\ CodesAt(item.task) \subseteq strayed
        /\ item.task \in Jobs /\ item.row \in JobRows
    BY DEF SchedulerInv, AloneInv, LoadingCurrent, RowsInv, SchedulerTyped
  <2>2. CASE item.task \in tasks
    <3>1. CodesAt(item.task)' \subseteq strayed' /\ CodesAt(item.task) \subseteq strayed'
      BY <1>12, <2>2, BeginStrays DEF Meddles, Loading
    <3>2. item.row.code \in strayed'
      <4>1. CASE jobs[item.task] = item.row
        BY <2>1, <3>1, <4>1, AtStake, SchedulerParameters DEF Exists
      <4> QED  BY <1>5, <2>1, <4>1
    <3> QED  BY <1>5, <2>1, <3>1, <3>2
  <2>3. CASE item.task \notin tasks
    BY <1>5, <1>6, <1>9, <1>13, <2>1, <2>3
  <2> QED  BY <2>2, <2>3
<1>15. DeletesAlone'
  <2> SUFFICES ASSUME NEW s \in Requests, Open(s)', works'[s].kind = "delete",
                      NEW t \in works'[s].tasks, WorksOn(t)' # {s} \/ Cleaning(t)'
               PROVE  CodesAt(t)' \subseteq strayed'
    BY DEF DeletesAlone
  <2>1. Cleaning(t)' <=> Cleaning(t)  BY <1>2 DEF Cleaning
  <2>2. CASE s = r
    <3>1. WorksOn(t) # {} \/ Deletes(t)
      BY <1>1, <1>6, <2>1, <2>2 DEF Cleaning, Deletes
    <3> QED  BY <1>1, <1>12, <2>2, <3>1 DEF Meddles
  <2>3. CASE s # r
    <3>1. Open(s) /\ works[s].kind = "delete" /\ t \in works[s].tasks /\ s \in WorksOn(t)
      BY <1>7, <2>3 DEF WorksOn, Open
    <3>2. CASE t \in tasks
      BY <1>12, <3>1, <3>2 DEF Meddles, Deletes
    <3>3. CASE t \notin tasks
      <4>1. CodesAt(t) \subseteq strayed
        BY <1>6, <2>1, <3>1, <3>3 DEF SchedulerInv, AloneInv, DeletesAlone
      <4> QED  BY <1>13, <3>3, <4>1
    <3> QED  BY <3>2, <3>3
  <2> QED  BY <2>2, <2>3
<1>16. CleaningAlone'
  <2> SUFFICES ASSUME NEW item \in cleaning
               PROVE  /\ WorksOn(item.task)' # {} => CodesAt(item.task)' \subseteq strayed'
                      /\ (\E s \in Requests : Open(s)' /\ works'[s].row # NoJob
                                              /\ works'[s].row.code = item.code)
                           => item.code \in strayed'
                      /\ Exists(item.task) /\ jobs[item.task].code \notin strayed'
                           => jobs[item.task].code = item.code
                      /\ item.code \notin strayed' =>
                           \A u \in Jobs : Exists(u) /\ jobs[u].code = item.code => u = item.task
    BY <1>2, <1>8 DEF CleaningAlone
  <2>1. /\ WorksOn(item.task) # {} => CodesAt(item.task) \subseteq strayed
        /\ (\E s \in Requests : Open(s) /\ works[s].row # NoJob
                                /\ works[s].row.code = item.code)
             => item.code \in strayed
        /\ Exists(item.task) /\ jobs[item.task].code \notin strayed
             => jobs[item.task].code = item.code
        /\ item.code \notin strayed =>
             \A u \in Jobs : Exists(u) /\ jobs[u].code = item.code => u = item.task
    BY DEF SchedulerInv, AloneInv, CleaningAlone
  <2>2. WorksOn(item.task)' # {} => CodesAt(item.task)' \subseteq strayed'
    <3>1. CASE item.task \in tasks
      BY <1>12, <3>1 DEF Meddles, Deletes
    <3>2. CASE item.task \notin tasks
      BY <1>6, <1>13, <2>1, <3>2
    <3> QED  BY <3>1, <3>2
  <2>3. ASSUME NEW s \in Requests, Open(s)', works'[s].row # NoJob,
               works'[s].row.code = item.code
        PROVE  item.code \in strayed'
    <3>1. CASE s = r
      BY <1>1, <2>3, <3>1, BeginStrays
    <3>2. CASE s # r
      BY <1>5, <1>7, <2>1, <2>3, <3>2
    <3> QED  BY <3>1, <3>2
  <2> QED  BY <1>5, <2>1, <2>2, <2>3
<1>17. ApartStrays'
  <2> SUFFICES ASSUME ~InProcess, NEW s \in Requests, Open(s)', works'[s].kind # "create",
                      NEW t \in works'[s].tasks
               PROVE  CodesAt(t)' \subseteq strayed'
    BY DEF ApartStrays
  <2>1. CASE s = r
    BY <1>1, <1>12, <2>1 DEF Meddles
  <2>2. CASE s # r
    <3>1. CodesAt(t) \subseteq strayed /\ s \in WorksOn(t)
      BY <1>7, <2>2 DEF SchedulerInv, AloneInv, ApartStrays, WorksOn, Open
    <3>2. CASE t \in tasks
      <4>1. kind # "create"  BY <3>1, <3>2 DEF Admitted, Statuses
      <4> QED  BY <1>12, <3>2, <4>1 DEF Meddles
    <3>3. CASE t \notin tasks
      BY <1>13, <3>1, <3>3
    <3> QED  BY <3>2, <3>3
  <2> QED  BY <2>1, <2>2
<1>18. ApartFinds'
  <2> SUFFICES ASSUME ~InProcess, NEW s \in Requests, Open(s)', works'[s].kind = "create",
                      NEW t \in works'[s].written
               PROVE  t \in fresh' \/ CodesAt(t)' \subseteq strayed'
    BY DEF ApartFinds
  <2>1. s # r
    BY <1>1 DEF Admitted, Statuses
  <2>2. /\ Open(s) /\ works[s].kind = "create" /\ t \in works[s].tasks
        /\ t \in fresh \/ CodesAt(t) \subseteq strayed
    BY <1>7, <2>1 DEF SchedulerInv, AloneInv, ApartFinds, RowsInv, WorksFormed, WorkFormed
  <2>3. ~Exists(t) /\ s \in WorksOn(t)
    BY <2>2 DEF SchedulerInv, RowsInv, WorksFormed, WorkFormed
  <2>4. t \notin tasks
    BY <2>3 DEF Admitted
  <2> QED  BY <1>2, <1>13, <2>2, <2>4
<1> QED  BY <1>4, <1>10, <1>14, <1>15, <1>16, <1>17, <1>18 DEF SchedulerInv, AloneInv

(* A step of a request that leaves rows and plans alone.                    *)
LEMMA WorkStepKeeps ==
  ASSUME SchedulerInv, UNCHANGED <<jobs, planned, alive, loading, cleaning, strayed>>,
         fresh \subseteq fresh', RowsInv', NEW r \in Requests, Others(r),
         \/ ~Open(r)' /\ works[r].kind # "delete"
         \/ SameWork(r) /\ (~InProcess /\ works[r].kind = "create"
                              => works'[r].written \subseteq works[r].written \cup fresh'),
         \A t \in Jobs : Synced(r, t)' <=> Synced(r, t),
         works[r].kind = "delete" => works'[r].todo = works[r].todo
  PROVE  SchedulerInv'
<1>1. \A s \in Requests \ {r} : works'[s] = works[s] /\ (Open(s)' <=> Open(s))
  BY OtherWork
<1>2. \A s \in Requests, t \in Jobs : Synced(s, t)' <=> Synced(s, t)
  BY <1>1 DEF Synced
<1>3. \A s \in Requests, t \in Jobs : Synced(s, t) => Written(s, t)' = Written(s, t)
  <2> SUFFICES ASSUME NEW s \in Requests, NEW t \in Jobs, Synced(s, t)
               PROVE  Written(s, t)' = Written(s, t)
    OBVIOUS
  <2>1. Open(s)'  BY <1>2 DEF Synced
  <2>2. works'[s].row = works[s].row /\ works'[s].kind = works[s].kind /\ (Saves(s)' <=> Saves(s))
    BY <1>1, <2>1, SameWorkKinds, OtherWork DEF SameWork
  <2> QED  BY <2>2 DEF Written, NewStatus
<1>4. \A t \in Jobs : (Awaited(t) => Awaited(t)') /\ (Dropped(t) => Dropped(t)')
  <2>1. \A s \in Requests, t \in Jobs :
          s \in WorksOn(t) /\ works[s].kind = "delete"
            => /\ s \in WorksOn(t)' /\ works'[s].kind = "delete"
               /\ works'[s].todo = works[s].todo
    BY <1>1 DEF WorksOn, Open, SameWork
  <2>2. \A s, t : s \in WorksOn(t) => s \in Requests  BY DEF WorksOn
  <2> QED  BY <2>1, <2>2 DEF Dropped, Cleaning, Awaited, Loading
<1>5. ASSUME NEW s \in Requests, NEW t \in Jobs,
             Open(s)' /\ works'[s].kind = "delete" /\ t \in works'[s].tasks \ works'[s].todo
      PROVE  Open(s) /\ works[s].kind = "delete" /\ t \in works[s].tasks \ works[s].todo
  BY <1>1, <1>5 DEF SameWork
<1>6. DeadIsEmpty'
  BY DEF SchedulerInv, PlansInv, DeadIsEmpty
<1>7. SchedulerTyped'  BY DEF RowsInv
<1>8. PlansInv'
  BY <1>2, <1>3, <1>4, <1>5, <1>6, <1>7, PlansKept DEF SchedulerInv
<1>9. AloneInv'
  <2>1. SameShape  BY SameWorkKept
  <2> QED  BY <2>1, AloneKept DEF SchedulerInv
<1> QED  BY <1>8, <1>9 DEF SchedulerInv

LEMMA SaveRowKeeps ==
  ASSUME SchedulerInv, NEW r \in Requests, NEW t \in Jobs, SaveRow(r, t)
  PROVE  SchedulerInv'
<1>1. /\ Open(r) /\ Saves(r) /\ t \in works[r].tasks \ works[r].written
      /\ RowFree(t) /\ CodeFree(t, works[r].row)
      /\ UNCHANGED <<jobs, planned, alive, loading, cleaning, strayed>>
      /\ \/ /\ UniqueCode(t, works[r].row)
            /\ works' = [works EXCEPT ![r].written = @ \cup {t}]
            /\ fresh' = IF InProcess \/ works[r].kind # "create" THEN fresh ELSE fresh \cup {t}
         \/ works' = [works EXCEPT ![r] = NoRequest] /\ fresh' = fresh
  BY DEF SaveRow, WorkKept, AtOnce, Saves, Open, SchedulerInv, RowsInv, SchedulerTyped
<1>2. SchedulerTyped /\ WorksFormed /\ RowsInv  BY DEF SchedulerInv, RowsInv
<1>3. works[r].todo = works[r].tasks /\ works[r].kind # "delete"
  BY <1>1, <1>2, SavesFacts
<1>4. \A u \in Jobs : ~Synced(r, u)
  <2>1. WorkFormed(r)  BY <1>1, <1>2 DEF WorksFormed
  <2> QED  BY <1>3, <2>1 DEF Synced, WorkFormed
<1>5. CASE /\ UniqueCode(t, works[r].row)
           /\ works' = [works EXCEPT ![r].written = @ \cup {t}]
           /\ fresh' = IF InProcess \/ works[r].kind # "create" THEN fresh ELSE fresh \cup {t}
  <2>1. works' = [works EXCEPT ![r].written = @ \cup {t}]
    BY <1>5
  <2>2. /\ Others(r) /\ SameWork(r) /\ works' \in [Requests -> Works \cup {NoRequest}]
        /\ works'[r].written = works[r].written \cup {t} /\ works'[r].todo = works[r].todo
    BY <1>1, <1>2, <2>1, WrittenGrows
  <2>3. SchedulerTyped'
    BY <1>1, <1>2, <1>5, <2>2 DEF SchedulerTyped
  <2>4. RowsInv'
    BY <1>1, <1>2, <1>5, <2>2, <2>3, RowsWritten
  <2>5. \A u \in Jobs : ~Synced(r, u)'
    <3>1. WorkFormed(r)'  BY <2>2, <2>4 DEF RowsInv, WorksFormed, SameWork
    <3> QED  BY <1>3, <2>2, <3>1 DEF Synced, WorkFormed, SameWork
  <2> QED  BY <1>1, <1>3, <1>4, <1>5, <2>2, <2>4, <2>5, WorkStepKeeps
<1>6. CASE works' = [works EXCEPT ![r] = NoRequest] /\ fresh' = fresh
  <2>1. works' = [works EXCEPT ![r] = NoRequest]
    BY <1>6
  <2>2. Others(r) /\ ~Open(r)' /\ works' \in [Requests -> Works \cup {NoRequest}]
    BY <1>2, <2>1, WorkEnds
  <2>3. SchedulerTyped'
    BY <1>1, <1>2, <1>6, <2>2 DEF SchedulerTyped
  <2>4. RowsInv'
    BY <1>1, <1>2, <2>2, <2>3, RowsAborted
  <2>5. \A u \in Jobs : ~Synced(r, u)'
    BY <2>2 DEF Synced
  <2> QED  BY <1>1, <1>3, <1>4, <1>6, <2>2, <2>4, <2>5, WorkStepKeeps
<1> QED  BY <1>1, <1>5, <1>6

LEMMA DeleteRowKeeps ==
  ASSUME SchedulerInv, NEW r \in Requests, NEW t \in Jobs, DeleteRow(r, t)
  PROVE  SchedulerInv'
<1>1. /\ Open(r) /\ works[r].kind = "delete" /\ t \in works[r].tasks \ works[r].written
      /\ RowFree(t) /\ ~Saves(r)
      /\ UNCHANGED <<jobs, planned, alive, loading, cleaning, fresh, strayed>>
      /\ works' = [works EXCEPT ![r].written = @ \cup {t}]
  BY DEF DeleteRow, WorkKept, AtOnce, Saves, Open, SchedulerInv, RowsInv, SchedulerTyped
<1>2. SchedulerTyped /\ RowsInv  BY DEF SchedulerInv, RowsInv
<1>3. /\ Others(r) /\ SameWork(r) /\ works' \in [Requests -> Works \cup {NoRequest}]
      /\ works'[r].written = works[r].written \cup {t} /\ works'[r].todo = works[r].todo
  BY <1>1, <1>2, WrittenGrows
<1>4. SchedulerTyped'
  BY <1>1, <1>2, <1>3 DEF SchedulerTyped
<1>5. RowsInv'
  BY <1>1, <1>2, <1>3, <1>4, RowsWritten
<1>6. \A u \in Jobs : ~Synced(r, u) /\ ~Synced(r, u)'
  BY <1>1, <1>3 DEF Synced, SameWork
<1> QED  BY <1>1, <1>3, <1>5, <1>6, WorkStepKeeps

LEMMA Resumed ==
  ASSUME NEW plan \in Plans
  PROVE  /\ [plan EXCEPT !.paused = FALSE] \in Plans
         /\ ~plan.paused => [plan EXCEPT !.paused = FALSE] = plan
<1> USE DEF Plans
<1>1. [plan EXCEPT !.paused = FALSE] \in Plans  OBVIOUS
<1>2. ASSUME ~plan.paused  PROVE [plan EXCEPT !.paused = FALSE] = plan
  BY <1>2
<1> QED  BY <1>1, <1>2

LEMMA ExecuteNowKeeps ==
  ASSUME SchedulerInv, NEW t \in Jobs, ExecuteNow(t)
  PROVE  SchedulerInv'
<1> DEFINE c == jobs[t].code
<1>1. /\ alive /\ Exists(t) /\ planned[c] # NoPlan
      /\ planned' = [planned EXCEPT ![c].paused = FALSE]
      /\ strayed' = IF planned[c].paused THEN strayed \cup {c} ELSE strayed
      /\ UNCHANGED <<jobs, alive, loading, works, cleaning, fresh>>
  BY DEF ExecuteNow, KeepsPlans, WorkKept
<1>2. SchedulerTyped /\ RowsInv /\ c \in Codes /\ planned[c] \in Plans
  BY <1>1, RowTyped DEF SchedulerInv, RowsInv, JobRows, SchedulerTyped
<1>3. strayed \subseteq strayed'  BY <1>1
<1>4. /\ \A d \in Codes \ {c} : planned'[d] = planned[d]
      /\ ~planned[c].paused => planned'[c] = planned[c]
      /\ planned' \in [Codes -> Plans \cup {NoPlan}]
  <2> DEFINE resumed == [planned[c] EXCEPT !.paused = FALSE]
  <2>1. resumed \in Plans /\ (~planned[c].paused => resumed = planned[c])
    BY <1>2, Resumed
  <2>2. planned' = [planned EXCEPT ![c] = resumed]
    BY <1>1
  <2> HIDE DEF c, resumed
  <2> QED  BY <1>2, <2>1, <2>2 DEF SchedulerTyped
<1>5. \A d \in Codes \ strayed' : planned'[d] = planned[d]
  <2> HIDE DEF c
  <2> QED  BY <1>1, <1>4
<1>6. SchedulerTyped'
  BY <1>1, <1>2, <1>4 DEF SchedulerTyped
<1>7. RowsInv'
  BY <1>1, <1>2, <1>6, RowsUntouched
<1>8. DeadIsEmpty'
  BY <1>1 DEF DeadIsEmpty
<1>9. PlansInv'
  <2> HIDE DEF c
  <2>1. /\ \A r \in Requests, u \in Jobs : Synced(r, u)' <=> Synced(r, u)
        /\ \A r \in Requests, u \in Jobs : Written(r, u)' = Written(r, u)
        /\ \A u \in Jobs : (Dropped(u)' <=> Dropped(u)) /\ (Awaited(u)' <=> Awaited(u))
    BY <1>1, SyncedUntouched
  <2>2. \A r \in Requests : Open(r)' <=> Open(r)  BY <1>1 DEF Open
  <2> QED  BY <1>1, <1>2, <1>3, <1>5, <1>6, <1>8, <2>1, <2>2, PlansKept DEF SchedulerInv
<1>10. AloneInv'
  <2> HIDE DEF c
  <2> QED  BY <1>1, <1>3, WorksKeptShape, AloneKept DEF SchedulerInv
<1> QED  BY <1>7, <1>9, <1>10 DEF SchedulerInv

(* A scheduler that stops forgets everything.                               *)
LEMMA StopKeeps ==
  ASSUME SchedulerInv, RowsInv', AloneInv', ~alive', loading' = {},
         planned' = [d \in Codes |-> NoPlan]
  PROVE  SchedulerInv'
<1>1. \A d \in Codes : planned'[d] = NoPlan  OBVIOUS
<1>2. \A t \in Jobs : Exists(t)' => jobs'[t].code \in Codes
  <2>1. jobs' \in [Jobs -> JobRows \cup {NoJob}]  BY DEF RowsInv, SchedulerTyped
  <2> QED  BY <2>1 DEF Exists, JobRows
<1>3. CommittedFit'
  BY <1>1, <1>2 DEF CommittedFit, CommittedFits
<1>4. SyncedFit' /\ PlansOwned' /\ DeadIsEmpty'
  BY <1>1 DEF SyncedFit, KeepsPlans, PlansOwned, DeadIsEmpty
<1>5. DroppedUnplanned'
  <2>1. \A item \in cleaning' : item.code \in Codes
    BY DEF RowsInv, SchedulerTyped
  <2> QED  BY <1>1, <1>2, <2>1 DEF DroppedUnplanned
<1> QED  BY <1>3, <1>4, <1>5 DEF SchedulerInv, PlansInv

LEMMA ShutdownKeeps ==
  ASSUME SchedulerInv, ShutdownScheduler
  PROVE  SchedulerInv'
<1>1. /\ alive' = FALSE /\ loading' = {} /\ planned' = [d \in Codes |-> NoPlan]
      /\ UNCHANGED <<jobs, works, cleaning, fresh, strayed>>
  BY DEF ShutdownScheduler
<1>2. SchedulerTyped' /\ SchedulerTyped
  BY <1>1 DEF SchedulerInv, RowsInv, SchedulerTyped
<1>3. RowsInv'
  BY <1>1, <1>2, RowsUntouched DEF SchedulerInv
<1>4. AloneInv'
  BY <1>1, WorksKeptShape, AloneKept DEF SchedulerInv
<1> QED  BY <1>1, <1>3, <1>4, StopKeeps

LEMMA CrashKeeps ==
  ASSUME SchedulerInv, CrashScheduler
  PROVE  SchedulerInv'
<1>1. /\ alive' = FALSE /\ loading' = {} /\ planned' = [d \in Codes |-> NoPlan]
      /\ cleaning' = {} /\ UNCHANGED <<jobs, fresh, strayed>>
      /\ works' = [r \in Requests |-> NoRequest] \/ works' = works
  BY DEF CrashScheduler
<1>2. SchedulerTyped' /\ SchedulerTyped
  BY <1>1 DEF SchedulerInv, RowsInv, SchedulerTyped
<1>3. RowsInv'
  <2>1. CASE works' = [r \in Requests |-> NoRequest]
    <3>1. \A r \in Requests : ~Open(r)' /\ ~Saves(r)'
      BY <2>1 DEF Open, Saves
    <3>2. WorksFormed' /\ WritesOwnRow'
      BY <3>1 DEF WorksFormed, WritesOwnRow, LockedBy, Open
    <3>3. CodesDistinct'
      BY <1>1, <3>1 DEF SchedulerInv, RowsInv, CodesDistinct, Exists
    <3> QED  BY <1>2, <3>2, <3>3 DEF RowsInv
  <2>2. CASE works' = works
    BY <1>1, <1>2, <2>2, RowsUntouched DEF SchedulerInv
  <2> QED  BY <1>1, <2>1, <2>2
<1>4. SameShape
  BY <1>1, WorksKeptShape DEF SameShape, Open
<1>5. AloneInv'
  BY <1>1, <1>4, AloneKept DEF SchedulerInv
<1> QED  BY <1>1, <1>3, <1>5, StopKeeps

LEMMA FireKeeps ==
  ASSUME SchedulerInv, NEW c \in Codes, Fire(c)
  PROVE  SchedulerInv'
<1>1. /\ alive /\ planned[c] # NoPlan
      /\ planned' = IF planned[c].once THEN [planned EXCEPT ![c] = NoPlan] ELSE planned
      /\ UNCHANGED <<jobs, alive, loading, works, cleaning, fresh, strayed>>
  BY DEF Fire
<1>2. SchedulerTyped /\ RowsInv
  BY DEF SchedulerInv, RowsInv
<1>3. \A d \in Codes : planned'[d] = planned[d] \/ (planned'[d] = NoPlan /\ planned[d].once /\ d = c)
  BY <1>1, <1>2 DEF SchedulerTyped
<1>4. SchedulerTyped'
  BY <1>1, <1>2 DEF SchedulerTyped
<1>5. RowsInv'
  BY <1>1, <1>2, <1>4, RowsUntouched
<1>6. /\ \A r \in Requests, t \in Jobs : Synced(r, t)' <=> Synced(r, t)
      /\ \A r \in Requests, t \in Jobs : Written(r, t)' = Written(r, t)
      /\ \A t \in Jobs : /\ (Dropped(t)' <=> Dropped(t)) /\ (Awaited(t)' <=> Awaited(t))
                         /\ (Exists(t)' <=> Exists(t))
  BY <1>1, SyncedUntouched
<1>7. \A t \in Jobs : Exists(t) => jobs[t].code \in Codes
  BY <1>2, RowTyped DEF JobRows
<1>8. CommittedFit'
  <2> SUFFICES ASSUME NEW t \in Jobs, Exists(t), jobs[t].code \notin strayed,
                      \A r \in Requests : Synced(r, t) => Written(r, t).code # jobs[t].code
               PROVE  CommittedFits(t)'
    BY <1>1, <1>6 DEF CommittedFit
  <2>1. CommittedFits(t)
    BY DEF SchedulerInv, PlansInv, CommittedFit
  <2>2. CASE planned'[jobs[t].code] = planned[jobs[t].code]
    BY <1>1, <1>6, <2>1, <2>2 DEF CommittedFits
  <2>3. CASE planned'[jobs[t].code] = NoPlan /\ planned[jobs[t].code].once /\ jobs[t].code = c
    BY <1>1, <2>1, <2>3 DEF CommittedFits, Fits, Needs
  <2> QED  BY <1>3, <1>7, <2>2, <2>3
<1>9. SyncedFit'
  <2> SUFFICES ASSUME KeepsPlans, NEW r \in Requests, NEW t \in Jobs, Synced(r, t),
                      Written(r, t).code \notin strayed
               PROVE  LET plan == planned'[Written(r, t).code]
                      IN  /\ plan # NoPlan => Fits(plan, Written(r, t))
                          /\ Needs(Written(r, t)) => plan # NoPlan
    BY <1>1, <1>6 DEF SyncedFit, KeepsPlans, Fits, Needs
  <2>1. /\ Written(r, t).code \in Codes
        /\ planned[Written(r, t).code] # NoPlan => Fits(planned[Written(r, t).code], Written(r, t))
        /\ Needs(Written(r, t)) => planned[Written(r, t).code] # NoPlan
    BY <1>1, <1>2, SyncedFacts DEF SchedulerInv, PlansInv, SyncedFit, JobRows
  <2> QED  BY <1>1, <1>3, <2>1 DEF Fits, Needs
<1>10. PlansOwned'
  BY <1>1, <1>3, <1>6 DEF SchedulerInv, PlansInv, PlansOwned
<1>11. DroppedUnplanned'
  <2>1. \A item \in cleaning : item.code \in Codes
    BY <1>2 DEF SchedulerTyped
  <2>2. \A r \in Requests : Open(r)' <=> Open(r)  BY <1>1 DEF Open
  <2> QED  BY <1>1, <1>3, <1>6, <1>7, <2>1, <2>2 DEF SchedulerInv, PlansInv, DroppedUnplanned
<1>12. DeadIsEmpty'
  BY <1>1 DEF DeadIsEmpty
<1>13. AloneInv'
  BY <1>1, WorksKeptShape, AloneKept DEF SchedulerInv
<1> QED  BY <1>5, <1>8, <1>9, <1>10, <1>11, <1>12, <1>13 DEF SchedulerInv, PlansInv

(* What is at stake while rows, requests and clean-ups stay as they are.    *)
LEMMA StakesUntouched ==
  ASSUME UNCHANGED <<jobs, works, cleaning>>
  PROVE  /\ \A t : WorksOn(t)' = WorksOn(t) /\ CodesAt(t)' = CodesAt(t)
         /\ \A t : (Exists(t)' <=> Exists(t)) /\ (Deletes(t)' <=> Deletes(t))
         /\ \A t : (Cleaning(t)' <=> Cleaning(t)) /\ (Dropped(t)' <=> Dropped(t))
         /\ \A r \in Requests : Open(r)' <=> Open(r)
<1>1. \A t : (Exists(t)' <=> Exists(t)) /\ WorksOn(t)' = WorksOn(t) /\ (Cleaning(t)' <=> Cleaning(t))
  BY DEF Exists, WorksOn, Cleaning
<1>2. \A r \in Requests : Open(r)' <=> Open(r)  BY DEF Open
<1>3. \A t, c : c \in CodesAt(t)' <=> c \in CodesAt(t)
  BY <1>1, <1>2, AtStake, AtStakeNext
<1>4. \A t : CodesAt(t)' = CodesAt(t)  BY <1>3
<1>5. \A t : (Deletes(t)' <=> Deletes(t)) /\ (Dropped(t)' <=> Dropped(t))
  BY <1>1 DEF Deletes, Dropped
<1> QED  BY <1>1, <1>2, <1>4, <1>5

(* What a scan of the table has read.                                       *)
LEMMA AddedFacts ==
  ASSUME SchedulerTyped, NEW tasks \in SUBSET Jobs
  PROVE  /\ \A item \in Added(tasks) :
              /\ item.task \in tasks /\ item.task \in Jobs /\ item.row = jobs[item.task]
              /\ Exists(item.task) /\ item.row \in JobRows /\ item.row.status = "enabled"
         /\ \A t \in tasks \ HostedJobs :
              Exists(t) /\ Needs(jobs[t]) => \E item \in Added(tasks) : item.task = t
<1>1. \A item \in Added(tasks) : /\ item.task \in tasks /\ item.row = jobs[item.task]
                                 /\ Exists(item.task) /\ item.row.status = "enabled"
  BY DEF Added
<1>2. ASSUME NEW t \in tasks \ HostedJobs, Exists(t), Needs(jobs[t])
      PROVE  \E item \in Added(tasks) : item.task = t
  <2>1. [task |-> t, row |-> jobs[t]] \in Added(tasks)
    BY <1>2 DEF Added, Needs
  <2>2. [task |-> t, row |-> jobs[t]].task = t  OBVIOUS
  <2> QED  BY <2>1, <2>2
<1> QED  BY <1>1, <1>2, RowTyped

LEMMA StartKeeps ==
  ASSUME SchedulerInv, StartScheduler
  PROVE  SchedulerInv'
<1> DEFINE Busy == {u \in Jobs : UnderWay(u)}
           Given == UNION {CodesAt(t) : t \in {u \in Jobs : UnderWay(u)}}
<1>1. /\ ~alive /\ alive' /\ loading' = Added(Jobs) /\ strayed' = Given /\ fresh' = {}
      /\ UNCHANGED <<jobs, planned, works, cleaning>>
  BY DEF StartScheduler
<1>2. SchedulerTyped /\ RowsInv
  BY DEF SchedulerInv, RowsInv
<1>3. \A u \in Busy : CodesAt(u) \subseteq Given
  OBVIOUS
<1>4. \A u \in Jobs : WorksOn(u) # {} \/ Deletes(u) => u \in Busy
  BY DEF UnderWay
<1> HIDE DEF Busy, Given
<1>5. \A u \in Jobs : WorksOn(u) # {} \/ Deletes(u) => CodesAt(u) \subseteq strayed'
  BY <1>1, <1>3, <1>4
<1>6. /\ \A item \in loading' : /\ item.task \in Jobs /\ item.row = jobs[item.task]
                                 /\ Exists(item.task) /\ item.row \in JobRows
                                 /\ item.row.status = "enabled"
      /\ \A t \in Jobs \ HostedJobs : Exists(t) /\ Needs(jobs[t]) => Awaited(t)'
  BY <1>1, <1>2, AddedFacts DEF Awaited, Loading
<1>7. \A c \in Codes : planned'[c] = NoPlan
  BY <1>1 DEF SchedulerInv, PlansInv, DeadIsEmpty
<1>8. SchedulerTyped'
  BY <1>1, <1>2, <1>6 DEF SchedulerTyped
<1>9. RowsInv'
  BY <1>1, <1>2, <1>8, RowsUntouched
<1>10. /\ \A t : WorksOn(t)' = WorksOn(t) /\ CodesAt(t)' = CodesAt(t)
       /\ \A t : (Exists(t)' <=> Exists(t)) /\ (Deletes(t)' <=> Deletes(t))
       /\ \A r \in Requests : Open(r)' <=> Open(r)
  BY <1>1, StakesUntouched
<1>11. /\ \A r \in Requests, t \in Jobs : Synced(r, t)' <=> Synced(r, t)
       /\ \A r \in Requests, t \in Jobs : Written(r, t)' = Written(r, t)
  BY <1>1, SyncedUntouched
<1>12. \A t \in Jobs : Exists(t) => jobs[t].code \in Codes
  BY <1>2, RowTyped DEF JobRows
<1>13. CommittedFit'
  BY <1>1, <1>6, <1>7, <1>10, <1>12 DEF CommittedFit, CommittedFits
<1>14. SyncedFit'
  <2>1. ASSUME NEW r \in Requests, NEW t \in Jobs, Synced(r, t)
        PROVE  Written(r, t).code \in strayed'
    <3>1. r \in WorksOn(t) /\ Written(r, t).code \in CodesAt(t)
      BY <1>2, <2>1, SyncedFacts, WrittenAtStake
    <3> QED  BY <1>5, <3>1
  <2> QED  BY <1>11, <2>1 DEF SyncedFit
<1>15. PlansOwned' /\ DeadIsEmpty'
  BY <1>1, <1>7 DEF PlansOwned, DeadIsEmpty
<1>16. \A item \in cleaning : item.task \in Jobs /\ item.code \in Codes /\ item.code \in strayed'
  <2>1. \A item \in cleaning : item.task \in Jobs /\ item.code \in Codes
    BY <1>2 DEF SchedulerTyped
  <2>2. \A item \in cleaning : Deletes(item.task) /\ item.code \in CodesAt(item.task)
    BY AtStake DEF Deletes
  <2> QED  BY <1>5, <2>1, <2>2
<1>17. DroppedUnplanned'
  BY <1>1, <1>7, <1>10, <1>12, <1>16 DEF DroppedUnplanned
<1>18. LoadingCurrent'
  <2> SUFFICES ASSUME NEW item \in loading'
               PROVE  /\ jobs[item.task] = item.row
                      /\ WorksOn(item.task) # {} \/ Deletes(item.task)
                           => item.row.code \in strayed' /\ CodesAt(item.task) \subseteq strayed'
    BY <1>1, <1>10 DEF LoadingCurrent
  <2>1. item.task \in Jobs /\ item.row = jobs[item.task] /\ item.row.code \in CodesAt(item.task)
    BY <1>6, AtStake
  <2> QED  BY <1>5, <2>1
<1>19. \A r \in Requests : Open(r) => \A t \in works[r].tasks :
         t \in Jobs /\ CodesAt(t)' \subseteq strayed'
  <2> SUFFICES ASSUME NEW r \in Requests, Open(r), NEW t \in works[r].tasks
               PROVE  t \in Jobs /\ CodesAt(t) \subseteq strayed'
    BY <1>10
  <2>1. t \in Jobs /\ r \in WorksOn(t)
    BY <1>2, WorkTyped DEF Works, WorksOn, Open
  <2> QED  BY <1>5, <2>1
<1>20. DeletesAlone' /\ ApartStrays'
  BY <1>1, <1>10, <1>19 DEF DeletesAlone, ApartStrays
<1>21. ApartFinds'
  <2>1. \A r \in Requests : Open(r) => works[r].written \subseteq works[r].tasks
    BY <1>2 DEF RowsInv, WorksFormed, WorkFormed
  <2> QED  BY <1>1, <1>10, <1>19, <2>1 DEF ApartFinds
<1>22. CleaningAlone'
  <2> SUFFICES ASSUME NEW item \in cleaning
               PROVE  /\ CodesAt(item.task) \subseteq strayed' /\ item.code \in strayed'
                      /\ Exists(item.task) => jobs[item.task].code \in strayed'
    BY <1>1, <1>10 DEF CleaningAlone
  <2>1. item.task \in Jobs /\ Deletes(item.task)
    BY <1>16 DEF Deletes
  <2> QED  BY <1>5, <1>16, <2>1, AtStake
<1> QED
  BY <1>9, <1>13, <1>14, <1>15, <1>17, <1>18, <1>20, <1>21, <1>22 DEF SchedulerInv, PlansInv, AloneInv

(* A scan that adds what it has read, and gives up what it may have missed. *)
LEMMA ScanKeeps ==
  ASSUME SchedulerInv, alive, UNCHANGED <<jobs, planned, alive, works, cleaning>>,
         loading = {}, fresh' = {}, strayed \subseteq strayed',
         NEW tasks \in SUBSET Jobs, loading' = Added(tasks) \/ loading' = {},
         \A item \in loading' : WorksOn(item.task) # {} \/ Deletes(item.task)
           => CodesAt(item.task) \subseteq strayed',
         \A t \in fresh : CodesAt(t) \subseteq strayed' \/ ~(WorksOn(t) # {} \/ Deletes(t)),
         \A t \in fresh : Exists(t) /\ Needs(jobs[t]) /\ t \notin HostedJobs
           /\ jobs[t].code \notin strayed' => Loading(t)' \/ planned[jobs[t].code] # NoPlan
  PROVE  SchedulerInv'
<1>1. SchedulerTyped /\ RowsInv
  BY DEF SchedulerInv, RowsInv
<1>2. \A item \in loading' : /\ item.task \in Jobs /\ item.row = jobs[item.task]
                             /\ Exists(item.task) /\ item.row \in JobRows
                             /\ item.row.status = "enabled"
  BY <1>1, AddedFacts
<1>3. SchedulerTyped'
  BY <1>1, <1>2 DEF SchedulerTyped
<1>4. RowsInv'
  BY <1>1, <1>3, RowsUntouched
<1>5. /\ \A r \in Requests, t \in Jobs : Synced(r, t)' <=> Synced(r, t)
      /\ \A r \in Requests, t \in Jobs : Written(r, t)' = Written(r, t)
  BY SyncedUntouched
<1>6. /\ \A t : WorksOn(t)' = WorksOn(t) /\ CodesAt(t)' = CodesAt(t)
      /\ \A t : (Exists(t)' <=> Exists(t)) /\ (Deletes(t)' <=> Deletes(t))
      /\ \A t : (Cleaning(t)' <=> Cleaning(t)) /\ (Dropped(t)' <=> Dropped(t))
      /\ \A r \in Requests : Open(r)' <=> Open(r)
  BY StakesUntouched
<1>7. PlansInv'
  <2>1. \A t \in Jobs : Awaited(t) /\ Exists(t) /\ Needs(jobs[t]) /\ t \notin HostedJobs
          /\ jobs[t].code \notin strayed' => Awaited(t)' \/ planned[jobs[t].code] # NoPlan
    BY DEF Awaited, Loading
  <2>2. DeadIsEmpty'
    BY DEF SchedulerInv, PlansInv, DeadIsEmpty
  <2> QED  BY <1>1, <1>3, <1>5, <1>6, <2>1, <2>2, PlansKept DEF SchedulerInv
<1>8. LoadingCurrent'
  <2> SUFFICES ASSUME NEW item \in loading'
               PROVE  /\ jobs[item.task] = item.row
                      /\ WorksOn(item.task) # {} \/ Deletes(item.task)
                           => item.row.code \in strayed' /\ CodesAt(item.task) \subseteq strayed'
    BY <1>6 DEF LoadingCurrent
  <2>1. item.row = jobs[item.task] /\ item.row.code \in CodesAt(item.task)
    BY <1>2, AtStake
  <2> QED  BY <2>1
<1>9. DeletesAlone' /\ CleaningAlone' /\ ApartStrays'
  BY <1>6 DEF SchedulerInv, AloneInv, DeletesAlone, CleaningAlone, ApartStrays
<1>10. ApartFinds'
  <2> SUFFICES ASSUME ~InProcess, NEW r \in Requests, Open(r), works[r].kind = "create",
                      NEW t \in works[r].written
               PROVE  CodesAt(t) \subseteq strayed'
    BY <1>6 DEF ApartFinds
  <2>1. t \in fresh \/ CodesAt(t) \subseteq strayed
    BY DEF SchedulerInv, AloneInv, ApartFinds
  <2>2. r \in WorksOn(t)
    BY <1>1 DEF RowsInv, WorksFormed, WorkFormed, WorksOn, Open
  <2> QED  BY <2>1, <2>2
<1> QED  BY <1>4, <1>7, <1>8, <1>9, <1>10 DEF SchedulerInv, AloneInv

LEMMA EnableSyncKeeps ==
  ASSUME SchedulerInv, EnableSync
  PROVE  SchedulerInv'
<1> DEFINE Given == UNION {CodesAt(t) : t \in fresh}
<1>1. /\ alive /\ loading = {} /\ fresh' = {} /\ loading' = {} /\ strayed' = strayed \cup Given
      /\ UNCHANGED <<jobs, planned, alive, works, cleaning>>
  BY DEF EnableSync, SyncKept
<1>2. \A t \in fresh : CodesAt(t) \subseteq Given
  OBVIOUS
<1> HIDE DEF Given
<1>3. \A t \in fresh : CodesAt(t) \subseteq strayed'
  BY <1>1, <1>2
<1>4. \A t \in fresh : Exists(t) => jobs[t].code \in strayed'
  BY <1>3, AtStake
<1> QED  BY <1>1, <1>3, <1>4, ScanKeeps

LEMMA SyncNewJobsKeeps ==
  ASSUME SchedulerInv, SyncNewJobs
  PROVE  SchedulerInv'
<1> DEFINE Given == UNION {CodesAt(t) : t \in {u \in fresh : UnderWay(u)}}
           Busy == {u \in fresh : UnderWay(u)}
           found == {t \in fresh : Exists(t) => planned[jobs[t].code] = NoPlan}
<1>1. /\ alive /\ loading = {} /\ fresh' = {} /\ loading' = Added(found)
      /\ strayed' = strayed \cup Given
      /\ UNCHANGED <<jobs, planned, alive, works, cleaning>>
  BY DEF SyncNewJobs, SyncKept
<1>2. \A t \in Busy : CodesAt(t) \subseteq Given
  OBVIOUS
<1>3. \A t \in fresh : WorksOn(t) # {} \/ Deletes(t) => t \in Busy
  BY DEF UnderWay
<1>4. found \in SUBSET Jobs /\ found \subseteq fresh
  BY DEF SchedulerInv, RowsInv, SchedulerTyped
<1>5. \A t \in fresh : t \in found \/ planned[jobs[t].code] # NoPlan
  OBVIOUS
<1> HIDE DEF Given, Busy, found
<1>6. /\ \A item \in loading' : item.task \in found
      /\ \A t \in found \ HostedJobs : Exists(t) /\ Needs(jobs[t]) => Loading(t)'
  BY <1>1, <1>4, AddedFacts DEF Loading, SchedulerInv, RowsInv
<1>7. \A t \in fresh : WorksOn(t) # {} \/ Deletes(t) => CodesAt(t) \subseteq strayed'
  BY <1>1, <1>2, <1>3
<1> QED  BY <1>1, <1>4, <1>5, <1>6, <1>7, ScanKeeps

LEMMA CleanupKeeps ==
  ASSUME SchedulerInv, NEW t \in Jobs, Exists(t), Cleanup(t),
         UNCHANGED <<jobs, planned, alive, loading, works, fresh>>
  PROVE  SchedulerInv'
<1> DEFINE new == [task |-> t, code |-> jobs[t].code, removed |-> FALSE]
<1>1. SchedulerTyped /\ RowsInv /\ jobs[t].code \in Codes
  BY RowTyped DEF SchedulerInv, RowsInv, JobRows
<1>2. /\ new \in [task : Jobs, code : Codes, removed : BOOLEAN]
      /\ new.task = t /\ new.code = jobs[t].code /\ ~new.removed
  BY <1>1
<1>3. /\ cleaning' = cleaning \cup {new} /\ strayed \subseteq strayed'
      /\ WorksOn(t) # {} \/ Loading(t) => CodesAt(t) \subseteq strayed'
      /\ (\E r \in Requests : Open(r) /\ works[r].row # NoJob /\ works[r].row.code = jobs[t].code)
           => CodesAt(t) \subseteq strayed'
  BY DEF Cleanup, Loading, Open
<1> HIDE DEF new
<1>4. SchedulerTyped'
  BY <1>1, <1>2, <1>3 DEF SchedulerTyped
<1>5. RowsInv'
  BY <1>1, <1>4, RowsUntouched
<1>6. /\ \A r \in Requests, u \in Jobs : Synced(r, u)' <=> Synced(r, u)
      /\ \A r \in Requests, u \in Jobs : Written(r, u)' = Written(r, u)
      /\ \A u \in Jobs : Awaited(u)' <=> Awaited(u)
  BY SyncedUntouched
<1>7. \A u : (Exists(u)' <=> Exists(u)) /\ WorksOn(u)' = WorksOn(u)
  BY DEF Exists, WorksOn
<1>8. \A r \in Requests : Open(r)' <=> Open(r)  BY DEF Open
<1>9. \A u : Cleaning(u)' <=> Cleaning(u) \/ u = t
  BY <1>2, <1>3 DEF Cleaning
<1>10. \A u : Deletes(u)' <=> Deletes(u) \/ u = t
  BY <1>7, <1>9 DEF Deletes, Cleaning
<1>11. \A u \in Jobs : Dropped(u) => Dropped(u)'
  BY <1>7, <1>9 DEF Dropped
<1>12. \A u : CodesAt(u)' = CodesAt(u)
  <2>1. \A u, c : c \in CodesAt(u)' <=> c \in CodesAt(u)
    BY <1>2, <1>3, <1>7, <1>8, AtStake, AtStakeNext
  <2> QED  BY <2>1
<1>13. jobs[t].code \in CodesAt(t)  BY AtStake
<1>14. PlansInv'
  <2>1. DeadIsEmpty'
    BY DEF SchedulerInv, PlansInv, DeadIsEmpty
  <2>2. \A item \in cleaning' : item.removed => item \in cleaning
    BY <1>2, <1>3
  <2> QED  BY <1>1, <1>3, <1>4, <1>6, <1>8, <1>11, <2>1, <2>2, PlansKept DEF SchedulerInv
<1>15. LoadingCurrent'
  <2> SUFFICES ASSUME NEW item \in loading
               PROVE  /\ \/ jobs[item.task] = item.row
                         \/ /\ item.row.code \in strayed'
                            /\ Exists(item.task) => jobs[item.task].code \in strayed'
                      /\ WorksOn(item.task) # {} \/ Deletes(item.task)'
                           => item.row.code \in strayed' /\ CodesAt(item.task) \subseteq strayed'
    BY <1>7, <1>12 DEF LoadingCurrent
  <2>1. /\ \/ jobs[item.task] = item.row
           \/ /\ item.row.code \in strayed
              /\ Exists(item.task) => jobs[item.task].code \in strayed
        /\ WorksOn(item.task) # {} \/ Deletes(item.task)
             => item.row.code \in strayed /\ CodesAt(item.task) \subseteq strayed
    BY DEF SchedulerInv, AloneInv, LoadingCurrent
  <2>2. CASE item.task = t
    <3>1. CodesAt(t) \subseteq strayed'
      BY <1>3, <2>2 DEF Loading
    <3> QED  BY <1>3, <1>13, <2>1, <2>2, <3>1
  <2>3. CASE item.task # t
    BY <1>3, <1>10, <2>1, <2>3
  <2> QED  BY <2>2, <2>3
<1>16. DeletesAlone'
  <2> SUFFICES ASSUME NEW r \in Requests, Open(r), works[r].kind = "delete",
                      NEW u \in works[r].tasks, WorksOn(u) # {r} \/ Cleaning(u)'
               PROVE  CodesAt(u) \subseteq strayed'
    BY <1>7, <1>8, <1>12 DEF DeletesAlone
  <2>1. r \in WorksOn(u)  BY DEF WorksOn, Open
  <2>2. CASE u = t
    BY <1>3, <2>1, <2>2
  <2>3. CASE u # t
    BY <1>3, <1>9, <2>3 DEF SchedulerInv, AloneInv, DeletesAlone
  <2> QED  BY <2>2, <2>3
<1>17. CleaningAlone'
  <2> SUFFICES ASSUME NEW item \in cleaning'
               PROVE  /\ WorksOn(item.task) # {} => CodesAt(item.task) \subseteq strayed'
                      /\ (\E r \in Requests : Open(r) /\ works[r].row # NoJob
                                              /\ works[r].row.code = item.code)
                           => item.code \in strayed'
                      /\ Exists(item.task) /\ jobs[item.task].code \notin strayed'
                           => jobs[item.task].code = item.code
                      /\ item.code \notin strayed' =>
                           \A u \in Jobs : Exists(u) /\ jobs[u].code = item.code => u = item.task
    BY <1>7, <1>8, <1>12 DEF CleaningAlone
  <2>1. CASE item = new
    BY <1>1, <1>2, <1>3, <1>13, <2>1 DEF RowsInv, CodesDistinct
  <2>2. CASE item \in cleaning
    BY <1>3, <2>2 DEF SchedulerInv, AloneInv, CleaningAlone
  <2> QED  BY <1>3, <2>1, <2>2
<1>18. ApartStrays' /\ ApartFinds'
  BY <1>3, <1>8, <1>12 DEF SchedulerInv, AloneInv, ApartStrays, ApartFinds
<1> QED  BY <1>5, <1>14, <1>15, <1>16, <1>17, <1>18 DEF SchedulerInv, AloneInv

LEMMA UnchangedKeeps ==
  ASSUME SchedulerInv, UNCHANGED <<jobs, planned, alive, loading, works, cleaning, fresh, strayed>>
  PROVE  SchedulerInv'
<1>1. SchedulerTyped'  BY DEF SchedulerInv, RowsInv, SchedulerTyped
<1>2. RowsInv'
  BY <1>1, RowsUntouched DEF SchedulerInv
<1>3. /\ \A r \in Requests, t \in Jobs : Synced(r, t)' <=> Synced(r, t)
      /\ \A r \in Requests, t \in Jobs : Written(r, t)' = Written(r, t)
      /\ \A t \in Jobs : (Dropped(t)' <=> Dropped(t)) /\ (Awaited(t)' <=> Awaited(t))
  BY SyncedUntouched
<1>4. DeadIsEmpty'
  BY DEF SchedulerInv, PlansInv, DeadIsEmpty
<1>5. \A r \in Requests : Open(r)' <=> Open(r)  BY DEF Open
<1>6. PlansInv'
  BY <1>1, <1>3, <1>4, <1>5, PlansKept DEF SchedulerInv
<1>7. AloneInv'
  BY WorksKeptShape, AloneKept DEF SchedulerInv
<1> QED  BY <1>2, <1>6, <1>7 DEF SchedulerInv

LEMMA EndRunKeeps ==
  ASSUME SchedulerInv, NEW c \in Codes, EndRun(c)
  PROVE  SchedulerInv'
<1>1. UNCHANGED <<jobs, planned, alive, loading, works, fresh>>
  BY DEF EndRun
<1>2. CASE UNCHANGED <<cleaning, strayed>>
  BY <1>1, <1>2, UnchangedKeeps
<1>3. CASE \E t \in Jobs : Exists(t) /\ Cleanup(t) /\ jobs[t].once
  BY <1>1, <1>3, CleanupKeeps
<1> QED  BY <1>2, <1>3 DEF EndRun

LEMMA EntryFacts ==
  ASSUME NEW row \in JobRows, row.status = "enabled", row.sound
  PROVE  Entry(row) \in Plans /\ Entry(row) # NoPlan /\ Fits(Entry(row), row)
<1>1. row.once \in BOOLEAN  BY DEF JobRows
<1>2. Entry(row) \in Plans  BY <1>1 DEF Entry, Plans
<1>3. Entry(row).once = row.once /\ Entry(row).paused = FALSE  BY DEF Entry
<1> QED  BY <1>2, <1>3, SchedulerParameters DEF Fits

(* A row that add_job refuses needs no entry.                               *)
LEMMA RefusalKeeps ==
  ASSUME SchedulerInv, NEW item \in loading, LoadJob(item), ~item.row.sound
  PROVE  SchedulerInv'
<1>1. /\ loading' = loading \ {item}
      /\ UNCHANGED <<jobs, planned, alive, works, cleaning, fresh, strayed>>
  BY DEF LoadJob
<1>2. SchedulerTyped' /\ SchedulerTyped
  BY <1>1 DEF SchedulerInv, RowsInv, SchedulerTyped
<1>3. RowsInv' /\ RowsInv
  BY <1>1, <1>2, RowsUntouched DEF SchedulerInv
<1>4. AloneInv'
  BY <1>1, WorksKeptShape, AloneKept DEF SchedulerInv
<1>5. /\ \A r \in Requests, t \in Jobs : Synced(r, t)' <=> Synced(r, t)
      /\ \A r \in Requests, t \in Jobs : Written(r, t)' = Written(r, t)
      /\ \A t \in Jobs : Dropped(t)' <=> Dropped(t)
  BY <1>1, SyncedUntouched
<1>6. \A t \in Jobs : Awaited(t) /\ Exists(t) /\ Needs(jobs[t]) /\ jobs[t].code \notin strayed
        => Awaited(t)'
  <2>1. \/ jobs[item.task] = item.row
        \/ Exists(item.task) => jobs[item.task].code \in strayed
    BY DEF SchedulerInv, AloneInv, LoadingCurrent
  <2>2. \A t \in Jobs : Awaited(t) => Awaited(t)' \/ t = item.task
    BY <1>1 DEF Awaited, Loading
  <2> QED  BY <2>1, <2>2 DEF Needs
<1>7. DeadIsEmpty'
  BY <1>1 DEF SchedulerInv, PlansInv, DeadIsEmpty
<1>8. \A r \in Requests : Open(r)' <=> Open(r)  BY <1>1 DEF Open
<1>9. PlansInv'
  BY <1>1, <1>2, <1>3, <1>5, <1>6, <1>7, <1>8, PlansKept DEF SchedulerInv
<1> QED  BY <1>3, <1>4, <1>9 DEF SchedulerInv

(* start adds a row that nobody has touched since it was read, or one whose *)
(* code has strayed.                                                        *)
LEMMA LoadKeeps ==
  ASSUME SchedulerInv, NEW item \in loading, LoadJob(item), item.row.sound
  PROVE  SchedulerInv'
<1> DEFINE c == item.row.code
           k == item.task
<1>1. /\ SchedulerTyped /\ RowsInv /\ alive
      /\ k \in Jobs /\ item.row \in JobRows /\ item.row.status = "enabled" /\ c \in Codes
  BY DEF SchedulerInv, RowsInv, PlansInv, DeadIsEmpty, SchedulerTyped, JobRows
<1>2. /\ loading' = loading \ {item}
      /\ planned' = [planned EXCEPT ![c] = Entry(item.row)]
      /\ UNCHANGED <<jobs, alive, works, cleaning, fresh, strayed>>
  BY <1>1 DEF LoadJob
<1>3. /\ Entry(item.row) \in Plans /\ Entry(item.row) # NoPlan /\ Fits(Entry(item.row), item.row)
  BY <1>1, EntryFacts
<1>4. /\ \/ jobs[k] = item.row
         \/ c \in strayed /\ (Exists(k) => jobs[k].code \in strayed)
      /\ WorksOn(k) # {} \/ Deletes(k) => c \in strayed
  BY DEF SchedulerInv, AloneInv, LoadingCurrent
<1>5. jobs[k] = item.row => Exists(k)
  BY <1>1, SchedulerParameters DEF Exists
<1>6. /\ planned' \in [Codes -> Plans \cup {NoPlan}] /\ planned'[c] = Entry(item.row)
      /\ \A d \in Codes : d # c => planned'[d] = planned[d]
  <2> HIDE DEF c
  <2> QED  BY <1>1, <1>2, <1>3 DEF SchedulerTyped
<1>7. SchedulerTyped'
  <2> HIDE DEF c, k
  <2> QED  BY <1>1, <1>2, <1>6 DEF SchedulerTyped
<1>8. RowsInv'
  BY <1>1, <1>2, <1>7, RowsUntouched
<1>9. /\ \A r \in Requests, t \in Jobs : Synced(r, t)' <=> Synced(r, t)
      /\ \A r \in Requests, t \in Jobs : Written(r, t)' = Written(r, t)
      /\ \A t \in Jobs : (Dropped(t)' <=> Dropped(t)) /\ (Exists(t)' <=> Exists(t))
  BY <1>2, SyncedUntouched
<1>10. \A r \in Requests : Open(r)' <=> Open(r)  BY <1>2 DEF Open
<1>11. \A t \in Jobs : Awaited(t) => Awaited(t)' \/ t = k
  BY <1>2 DEF Awaited, Loading
<1>12. \A t \in Jobs : Exists(t) => jobs[t].code \in Codes
  BY <1>1, RowTyped DEF JobRows
<1>13. \A t \in Jobs : Exists(t) /\ jobs[t].code = c /\ c \notin strayed => t = k
  BY <1>1, <1>4, <1>5 DEF RowsInv, CodesDistinct
<1>14. \A r \in Requests : c \notin strayed => ~(Open(r) /\ k \in works[r].tasks)
  BY <1>4 DEF WorksOn, Open
<1>15. \A r \in Requests, t \in Jobs : Synced(r, t) /\ Written(r, t).code = c => c \in strayed
  <2> SUFFICES ASSUME NEW r \in Requests, NEW t \in Jobs, Synced(r, t), Written(r, t).code = c,
                      c \notin strayed
               PROVE  FALSE
    OBVIOUS
  <2>1. Open(r) /\ works[r].kind # "delete" /\ t \in works[r].tasks /\ t \in works[r].written
    BY <1>1, SyncedFacts
  <2>2. k = t
    BY <1>1, <1>4, <1>5, <2>1, OwnRow
  <2> QED  BY <1>14, <2>1, <2>2
<1> HIDE DEF c, k
<1>16. CommittedFit'
  <2> SUFFICES ASSUME NEW t \in Jobs, Exists(t), jobs[t].code \notin strayed,
                      \A r \in Requests : Synced(r, t) => Written(r, t).code # jobs[t].code
               PROVE  CommittedFits(t)'
    BY <1>2, <1>9 DEF CommittedFit
  <2>1. CommittedFits(t)
    BY DEF SchedulerInv, PlansInv, CommittedFit
  <2>2. CASE jobs[t].code = c
    <3>1. t = k /\ jobs[t] = item.row
      BY <1>4, <1>13, <2>2
    <3> QED  BY <1>2, <1>3, <1>6, <2>2, <3>1 DEF CommittedFits
  <2>3. CASE jobs[t].code # c
    <3>1. planned'[jobs[t].code] = planned[jobs[t].code]
      BY <1>6, <1>12, <2>3
    <3>2. Awaited(t) => Awaited(t)'
      BY <1>4, <1>11, <2>3 DEF c
    <3> QED  BY <1>2, <1>9, <2>1, <3>1, <3>2 DEF CommittedFits
  <2> QED  BY <2>2, <2>3
<1>17. SyncedFit'
  <2> SUFFICES ASSUME KeepsPlans, NEW r \in Requests, NEW t \in Jobs, Synced(r, t),
                      Written(r, t).code \notin strayed
               PROVE  LET plan == planned'[Written(r, t).code]
                      IN  /\ plan # NoPlan => Fits(plan, Written(r, t))
                          /\ Needs(Written(r, t)) => plan # NoPlan
    BY <1>2, <1>9 DEF SyncedFit, KeepsPlans, Fits, Needs
  <2>1. /\ Written(r, t).code \in Codes /\ Written(r, t).code # c
        /\ planned[Written(r, t).code] # NoPlan => Fits(planned[Written(r, t).code], Written(r, t))
        /\ Needs(Written(r, t)) => planned[Written(r, t).code] # NoPlan
    BY <1>1, <1>15, SyncedFacts DEF SchedulerInv, PlansInv, SyncedFit, JobRows
  <2> QED  BY <1>6, <2>1
<1>18. PlansOwned'
  <2> SUFFICES ASSUME NEW d \in Codes \ strayed, planned'[d] # NoPlan
               PROVE  \/ \E t \in Jobs : Exists(t) /\ jobs[t].code = d
                      \/ InProcess /\ \E r \in Requests, t \in Jobs : Synced(r, t) /\ Written(r, t).code = d
    BY <1>2, <1>9 DEF PlansOwned
  <2>1. CASE d = c
    BY <1>1, <1>4, <1>5, <2>1 DEF c
  <2>2. CASE d # c
    BY <1>6, <2>2 DEF SchedulerInv, PlansInv, PlansOwned
  <2> QED  BY <2>1, <2>2
<1>19. DroppedUnplanned'
  <2>1. ASSUME NEW r \in Requests, NEW t \in Jobs, Open(r), works[r].kind = "delete",
               t \in works[r].tasks \ works[r].todo, Exists(t), jobs[t].code \notin strayed
        PROVE  planned'[jobs[t].code] = NoPlan
    <3>1. jobs[t].code # c
      BY <1>13, <1>14, <2>1
    <3> QED  BY <1>6, <1>12, <2>1, <3>1 DEF SchedulerInv, PlansInv, DroppedUnplanned
  <2>2. ASSUME NEW i \in cleaning, i.removed, i.code \notin strayed
        PROVE  planned'[i.code] = NoPlan
    <3>1. i.code \in Codes  BY <1>1 DEF SchedulerTyped
    <3>2. i.code # c
      <4> SUFFICES ASSUME i.code = c  PROVE FALSE
        OBVIOUS
      <4>1. k = i.task
        BY <1>1, <1>4, <1>5, <2>2 DEF SchedulerInv, AloneInv, CleaningAlone, c
      <4> QED  BY <1>4, <2>2, <4>1 DEF Deletes
    <3> QED  BY <1>6, <2>2, <3>1, <3>2 DEF SchedulerInv, PlansInv, DroppedUnplanned
  <2> QED  BY <1>2, <1>9, <1>10, <2>1, <2>2 DEF DroppedUnplanned
<1>20. DeadIsEmpty'
  BY <1>1, <1>2 DEF DeadIsEmpty
<1>21. AloneInv'
  BY <1>2, WorksKeptShape, AloneKept DEF SchedulerInv
<1> QED  BY <1>8, <1>16, <1>17, <1>18, <1>19, <1>20, <1>21 DEF SchedulerInv, PlansInv

(* A clean-up takes the entry, which is its job's alone or has strayed,     *)
LEMMA CleanPlanKeeps ==
  ASSUME SchedulerInv, NEW item \in cleaning, CleanPlan(item)
  PROVE  SchedulerInv'
<1> DEFINE c == item.code
           k == item.task
           next == [item EXCEPT !.removed = TRUE]
<1>1. /\ SchedulerTyped /\ RowsInv /\ k \in Jobs /\ c \in Codes
      /\ item \in [task : Jobs, code : Codes, removed : BOOLEAN]
  BY DEF SchedulerInv, RowsInv, SchedulerTyped
<1>2. /\ next \in [task : Jobs, code : Codes, removed : BOOLEAN]
      /\ next.task = k /\ next.code = c
  BY <1>1
<1>3. /\ planned' = [planned EXCEPT ![c] = NoPlan]
      /\ cleaning' = (cleaning \ {item}) \cup {next}
      /\ UNCHANGED <<jobs, alive, works, loading, fresh, strayed>>
  BY DEF CleanPlan
<1>4. /\ WorksOn(k) # {} => CodesAt(k) \subseteq strayed
      /\ (\E r \in Requests : Open(r) /\ works[r].row # NoJob /\ works[r].row.code = c) => c \in strayed
      /\ Exists(k) /\ jobs[k].code \notin strayed => jobs[k].code = c
      /\ c \notin strayed => \A u \in Jobs : Exists(u) /\ jobs[u].code = c => u = k
  BY DEF SchedulerInv, AloneInv, CleaningAlone
<1>5. Cleaning(k)  BY DEF Cleaning
<1> HIDE DEF c, k, next
<1>6. /\ planned' \in [Codes -> Plans \cup {NoPlan}] /\ planned'[c] = NoPlan
      /\ \A d \in Codes : d # c => planned'[d] = planned[d]
  BY <1>1, <1>3 DEF SchedulerTyped
<1>7. SchedulerTyped'
  BY <1>1, <1>2, <1>3, <1>6 DEF SchedulerTyped
<1>8. RowsInv'
  BY <1>1, <1>3, <1>7, RowsUntouched
<1>9. /\ \A r \in Requests, t \in Jobs : Synced(r, t)' <=> Synced(r, t)
      /\ \A r \in Requests, t \in Jobs : Written(r, t)' = Written(r, t)
      /\ \A t \in Jobs : Awaited(t)' <=> Awaited(t)
  BY <1>3, SyncedUntouched
<1>10. \A t : (Exists(t)' <=> Exists(t)) /\ WorksOn(t)' = WorksOn(t)
  BY <1>3 DEF Exists, WorksOn
<1>11. \A r \in Requests : Open(r)' <=> Open(r)  BY <1>3 DEF Open
<1>12. \A i \in cleaning' : \E j \in cleaning : j.task = i.task /\ j.code = i.code
  BY <1>2, <1>3 DEF c, k
<1>13. \A j \in cleaning : \E i \in cleaning' : j.task = i.task /\ j.code = i.code
  BY <1>2, <1>3 DEF c, k
<1>14. \A t : Cleaning(t)' <=> Cleaning(t)
  BY <1>12, <1>13 DEF Cleaning
<1>15. \A t : Deletes(t)' <=> Deletes(t)
  BY <1>3, <1>10, <1>14 DEF Deletes, Cleaning
<1>16. \A t \in Jobs : Dropped(t)' <=> Dropped(t)
  BY <1>3, <1>10, <1>14 DEF Dropped
<1>17. \A t : CodesAt(t)' = CodesAt(t)
  <2>1. \A t, d : d \in CodesAt(t)' <=> d \in CodesAt(t)
    BY <1>3, <1>10, <1>11, <1>12, <1>13, AtStake, AtStakeNext
  <2> QED  BY <2>1
<1>18. \A t \in Jobs : Exists(t) => jobs[t].code \in Codes
  BY <1>1, RowTyped DEF JobRows
<1>19. \A r \in Requests, t \in Jobs : Synced(r, t) /\ Written(r, t).code = c => c \in strayed
  <2> SUFFICES ASSUME NEW r \in Requests, NEW t \in Jobs, Synced(r, t), Written(r, t).code = c
               PROVE  c \in strayed
    OBVIOUS
  <2>1. /\ Open(r) /\ works[r].kind # "delete" /\ t \in works[r].tasks /\ r \in WorksOn(t)
        /\ Written(r, t).code \in CodesAt(t)
    BY <1>1, SyncedFacts, WrittenAtStake
  <2>2. CASE Saves(r)
    BY <1>1, <1>4, <2>1, <2>2, WrittenBySave, SavesFacts DEF RowsInv
  <2>3. CASE Switches(r)
    <3>1. Exists(t) /\ jobs[t].code = c
      BY <1>1, <2>1, <2>3, WrittenBySwitch DEF RowsInv
    <3> QED  BY <1>4, <2>1, <3>1
  <2> QED  BY <1>1, <2>1, <2>2, <2>3, SavesOrSwitches DEF RowsInv
<1>20. CommittedFit'
  <2> SUFFICES ASSUME NEW t \in Jobs, Exists(t), jobs[t].code \notin strayed,
                      \A r \in Requests : Synced(r, t) => Written(r, t).code # jobs[t].code
               PROVE  CommittedFits(t)'
    BY <1>3, <1>9, <1>10 DEF CommittedFit
  <2>1. CommittedFits(t)
    BY DEF SchedulerInv, PlansInv, CommittedFit
  <2>2. CASE jobs[t].code = c
    <3>1. Dropped(t)'
      BY <1>4, <1>5, <1>16, <2>2 DEF Dropped
    <3> QED  BY <1>3, <1>6, <2>2, <3>1 DEF CommittedFits
  <2>3. CASE jobs[t].code # c
    BY <1>3, <1>6, <1>9, <1>16, <1>18, <2>1, <2>3 DEF CommittedFits
  <2> QED  BY <2>2, <2>3
<1>21. SyncedFit'
  <2> SUFFICES ASSUME KeepsPlans, NEW r \in Requests, NEW t \in Jobs, Synced(r, t),
                      Written(r, t).code \notin strayed
               PROVE  LET plan == planned'[Written(r, t).code]
                      IN  /\ plan # NoPlan => Fits(plan, Written(r, t))
                          /\ Needs(Written(r, t)) => plan # NoPlan
    BY <1>3, <1>9 DEF SyncedFit, KeepsPlans, Fits, Needs
  <2>1. /\ Written(r, t).code \in Codes /\ Written(r, t).code # c
        /\ planned[Written(r, t).code] # NoPlan => Fits(planned[Written(r, t).code], Written(r, t))
        /\ Needs(Written(r, t)) => planned[Written(r, t).code] # NoPlan
    BY <1>1, <1>19, SyncedFacts DEF SchedulerInv, PlansInv, SyncedFit, JobRows
  <2> QED  BY <1>6, <2>1
<1>22. PlansOwned'
  <2> SUFFICES ASSUME NEW d \in Codes \ strayed, planned'[d] # NoPlan
               PROVE  \/ \E t \in Jobs : Exists(t) /\ jobs[t].code = d
                      \/ InProcess /\ \E r \in Requests, t \in Jobs :
                                         Synced(r, t) /\ Written(r, t).code = d
    BY <1>3, <1>9, <1>10 DEF PlansOwned
  <2> QED  BY <1>6 DEF SchedulerInv, PlansInv, PlansOwned
<1>23. DroppedUnplanned'
  <2>1. ASSUME NEW r \in Requests, NEW t \in Jobs, Open(r), works[r].kind = "delete",
               t \in works[r].tasks \ works[r].todo, Exists(t), jobs[t].code \notin strayed
        PROVE  planned'[jobs[t].code] = NoPlan
    BY <1>6, <1>18, <2>1 DEF SchedulerInv, PlansInv, DroppedUnplanned
  <2>2. ASSUME NEW i \in cleaning', i.removed, i.code \notin strayed
        PROVE  planned'[i.code] = NoPlan
    <3>1. i.code \in Codes  BY <1>7 DEF SchedulerTyped
    <3>2. CASE i = next
      BY <1>2, <1>6, <3>2
    <3>3. CASE i \in cleaning
      BY <1>6, <2>2, <3>1, <3>3 DEF SchedulerInv, PlansInv, DroppedUnplanned
    <3> QED  BY <1>3, <3>2, <3>3
  <2> QED  BY <1>3, <1>10, <1>11, <2>1, <2>2 DEF DroppedUnplanned
<1>24. DeadIsEmpty'
  BY <1>3, <1>6 DEF SchedulerInv, PlansInv, DeadIsEmpty
<1>25. LoadingCurrent'
  BY <1>3, <1>10, <1>15, <1>17 DEF SchedulerInv, AloneInv, LoadingCurrent
<1>26. DeletesAlone'
  BY <1>3, <1>10, <1>11, <1>14, <1>17 DEF SchedulerInv, AloneInv, DeletesAlone
<1>27. CleaningAlone'
  <2> SUFFICES ASSUME NEW i \in cleaning'
               PROVE  /\ WorksOn(i.task) # {} => CodesAt(i.task) \subseteq strayed
                      /\ (\E r \in Requests : Open(r) /\ works[r].row # NoJob
                                              /\ works[r].row.code = i.code)
                           => i.code \in strayed
                      /\ Exists(i.task) /\ jobs[i.task].code \notin strayed
                           => jobs[i.task].code = i.code
                      /\ i.code \notin strayed =>
                           \A u \in Jobs : Exists(u) /\ jobs[u].code = i.code => u = i.task
    BY <1>3, <1>10, <1>11, <1>17 DEF CleaningAlone
  <2>1. PICK j \in cleaning : j.task = i.task /\ j.code = i.code
    BY <1>12
  <2> QED  BY <2>1 DEF SchedulerInv, AloneInv, CleaningAlone
<1>28. ApartStrays' /\ ApartFinds'
  BY <1>3, <1>11, <1>17 DEF SchedulerInv, AloneInv, ApartStrays, ApartFinds
<1> QED
  BY <1>8, <1>20, <1>21, <1>22, <1>23, <1>24, <1>25, <1>26, <1>27, <1>28 DEF SchedulerInv, PlansInv, AloneInv

(* ... and then the row, under whose code nothing is scheduled any more.    *)
LEMMA CleanRowKeeps ==
  ASSUME SchedulerInv, NEW item \in cleaning, CleanRow(item)
  PROVE  SchedulerInv'
<1> DEFINE k == item.task
<1>1. SchedulerTyped /\ WorksFormed /\ RowsInv /\ k \in Jobs
  BY DEF SchedulerInv, RowsInv, SchedulerTyped
<1>2. /\ item.removed /\ RowFree(k)
      /\ jobs' = [jobs EXCEPT ![k] = NoJob] /\ cleaning' = cleaning \ {item}
      /\ UNCHANGED <<planned, alive, works, loading, fresh, strayed>>
  BY DEF CleanRow
<1>3. /\ jobs' \in [Jobs -> JobRows \cup {NoJob}] /\ jobs'[k] = NoJob
      /\ \A u \in Jobs : (Exists(u)' <=> Exists(u) /\ u # k) /\ (u # k => jobs'[u] = jobs[u])
  BY <1>1, <1>2 DEF SchedulerTyped, Exists
<1>4. Cleaning(k)  BY DEF Cleaning
<1>5. /\ Exists(k) /\ jobs[k].code \notin strayed => jobs[k].code = item.code
      /\ item.code \notin strayed => planned[item.code] = NoPlan
  BY <1>2 DEF SchedulerInv, AloneInv, CleaningAlone, PlansInv, DroppedUnplanned
<1>6. \A t : Cleaning(t)' => Cleaning(t)  BY <1>2 DEF Cleaning
<1>7. \A t : t # k => (Cleaning(t)' <=> Cleaning(t))  BY <1>2 DEF Cleaning
<1>8. SchedulerTyped'
  <2> HIDE DEF k
  <2> QED  BY <1>1, <1>2, <1>3 DEF SchedulerTyped
<1> HIDE DEF k
<1>9. RowsInv'
  BY <1>1, <1>2, <1>8, RowsCleaned
<1>10. /\ \A r \in Requests : (Open(r)' <=> Open(r)) /\ (Saves(r)' <=> Saves(r))
       /\ \A t : WorksOn(t)' = WorksOn(t)
       /\ \A t : Awaited(t)' <=> Awaited(t)
       /\ \A r \in Requests, t \in Jobs : Synced(r, t)' <=> Synced(r, t)
  BY <1>2 DEF Open, Saves, WorksOn, Awaited, Loading, Synced
<1>11. \A r \in Requests, t \in Jobs : Synced(r, t) => t # k /\ Written(r, t)' = Written(r, t)
  <2> SUFFICES ASSUME NEW r \in Requests, NEW t \in Jobs, Synced(r, t)
               PROVE  t # k /\ Written(r, t)' = Written(r, t)
    OBVIOUS
  <2>1. t # k
    BY <1>1, <1>2 DEF SchedulerTyped, Synced, RowFree, LockedBy, Open
  <2> QED  BY <1>2, <1>3, <1>10, <2>1 DEF Written, NewStatus
<1>12. \A t : (Deletes(t)' => Deletes(t)) /\ (t # k => (Deletes(t)' <=> Deletes(t)))
  BY <1>2, <1>6, <1>7, <1>10 DEF Deletes, Cleaning
<1>13. \A t : t # k => (Dropped(t)' <=> Dropped(t))
  BY <1>2, <1>7, <1>10 DEF Dropped
<1>14. \A t \in Jobs : CodesAt(t)' \subseteq CodesAt(t)
  <2>1. \A t \in Jobs : \A d : d \in CodesAt(t)' => d \in CodesAt(t)
    BY <1>2, <1>3, <1>10, AtStake, AtStakeNext
  <2> QED  BY <2>1
<1>15. CommittedFit'
  <2> SUFFICES ASSUME NEW t \in Jobs, Exists(t)', t # k, jobs[t].code \notin strayed,
                      \A r \in Requests : Synced(r, t) => Written(r, t).code # jobs[t].code
               PROVE  CommittedFits(t)'
    BY <1>2, <1>3, <1>10, <1>11 DEF CommittedFit
  <2>1. CommittedFits(t)
    BY <1>3 DEF SchedulerInv, PlansInv, CommittedFit
  <2> QED  BY <1>2, <1>3, <1>10, <1>13, <2>1 DEF CommittedFits
<1>16. SyncedFit'
  BY <1>2, <1>10, <1>11 DEF SchedulerInv, PlansInv, SyncedFit, KeepsPlans, Fits, Needs
<1>17. PlansOwned'
  <2> SUFFICES ASSUME NEW d \in Codes \ strayed, planned[d] # NoPlan
               PROVE  \/ \E t \in Jobs : Exists(t)' /\ jobs'[t].code = d
                      \/ InProcess /\ \E r \in Requests, t \in Jobs :
                                         Synced(r, t)' /\ Written(r, t)'.code = d
    BY <1>2 DEF PlansOwned
  <2>1. CASE InProcess /\ \E r \in Requests, t \in Jobs : Synced(r, t) /\ Written(r, t).code = d
    BY <1>10, <1>11, <2>1
  <2>2. ASSUME NEW t \in Jobs, Exists(t), jobs[t].code = d
        PROVE  \E u \in Jobs : Exists(u)' /\ jobs'[u].code = d
    BY <1>3, <1>5, <2>2
  <2> QED  BY <2>1, <2>2 DEF SchedulerInv, PlansInv, PlansOwned
<1>18. DroppedUnplanned'
  <2>1. ASSUME NEW r \in Requests, NEW t \in Jobs, Open(r), works[r].kind = "delete",
               t \in works[r].tasks \ works[r].todo, Exists(t)', jobs'[t].code \notin strayed
        PROVE  planned[jobs'[t].code] = NoPlan
    BY <1>3, <2>1 DEF SchedulerInv, PlansInv, DroppedUnplanned
  <2>2. \A i \in cleaning' : i.removed /\ i.code \notin strayed => planned[i.code] = NoPlan
    BY <1>2 DEF SchedulerInv, PlansInv, DroppedUnplanned
  <2> QED  BY <1>2, <1>10, <2>1, <2>2 DEF DroppedUnplanned
<1>19. DeadIsEmpty'
  BY <1>2 DEF SchedulerInv, PlansInv, DeadIsEmpty
<1>20. LoadingCurrent'
  <2> SUFFICES ASSUME NEW i \in loading
               PROVE  /\ \/ jobs'[i.task] = i.row
                         \/ /\ i.row.code \in strayed
                            /\ Exists(i.task)' => jobs'[i.task].code \in strayed
                      /\ WorksOn(i.task) # {} \/ Deletes(i.task)'
                           => i.row.code \in strayed /\ CodesAt(i.task)' \subseteq strayed
    BY <1>2, <1>10 DEF LoadingCurrent
  <2>1. /\ \/ jobs[i.task] = i.row
           \/ /\ i.row.code \in strayed
              /\ Exists(i.task) => jobs[i.task].code \in strayed
        /\ WorksOn(i.task) # {} \/ Deletes(i.task)
             => i.row.code \in strayed /\ CodesAt(i.task) \subseteq strayed
        /\ i.task \in Jobs
    BY <1>1 DEF SchedulerInv, AloneInv, LoadingCurrent, SchedulerTyped
  <2>2. CASE i.task = k
    BY <1>3, <1>4, <1>14, <2>1, <2>2 DEF Deletes, Cleaning
  <2>3. CASE i.task # k
    BY <1>3, <1>12, <1>14, <2>1, <2>3
  <2> QED  BY <2>2, <2>3
<1>21. DeletesAlone'
  <2>1. \A r \in Requests : Open(r) => works[r].tasks \subseteq Jobs
    BY <1>1, WorkTyped DEF Works
  <2> QED  BY <1>2, <1>6, <1>10, <1>14, <2>1 DEF SchedulerInv, AloneInv, DeletesAlone
<1>22. CleaningAlone'
  <2> SUFFICES ASSUME NEW i \in cleaning
               PROVE  /\ WorksOn(i.task) # {} => CodesAt(i.task)' \subseteq strayed
                      /\ (\E r \in Requests : Open(r) /\ works[r].row # NoJob
                                              /\ works[r].row.code = i.code)
                           => i.code \in strayed
                      /\ Exists(i.task)' /\ jobs'[i.task].code \notin strayed
                           => jobs'[i.task].code = i.code
                      /\ i.code \notin strayed =>
                           \A u \in Jobs : Exists(u)' /\ jobs'[u].code = i.code => u = i.task
    BY <1>2, <1>10 DEF CleaningAlone
  <2>1. i.task \in Jobs  BY <1>1 DEF SchedulerTyped
  <2> QED  BY <1>3, <1>14, <2>1 DEF SchedulerInv, AloneInv, CleaningAlone
<1>23. ApartStrays' /\ ApartFinds'
  <2>1. \A r \in Requests : Open(r) => works[r].tasks \subseteq Jobs /\ works[r].written \subseteq Jobs
    BY <1>1, WorkTyped DEF Works
  <2> QED  BY <1>2, <1>10, <1>14, <2>1 DEF SchedulerInv, AloneInv, ApartStrays, ApartFinds
<1> QED
  BY <1>9, <1>15, <1>16, <1>17, <1>18, <1>19, <1>20, <1>21, <1>22, <1>23 DEF SchedulerInv, PlansInv, AloneInv

(* A clean-up that fails gives up the codes of its row.                     *)
LEMMA CleanFailsKeeps ==
  ASSUME SchedulerInv, NEW item \in cleaning, CleanFails(item)
  PROVE  SchedulerInv'
<1>1. /\ cleaning' = cleaning \ {item} /\ strayed \subseteq strayed'
      /\ UNCHANGED <<jobs, planned, alive, loading, works, fresh>>
      /\ Exists(item.task) => jobs[item.task].code \in strayed'
  BY DEF CleanFails, CodesAt
<1>2. SchedulerTyped'
  BY <1>1 DEF SchedulerInv, RowsInv, SchedulerTyped
<1>3. RowsInv'
  BY <1>1, <1>2, RowsUntouched DEF SchedulerInv
<1>4. AloneInv'
  BY <1>1, WorksKeptShape, AloneKept DEF SchedulerInv
<1>5. /\ \A r \in Requests, t \in Jobs : Synced(r, t)' <=> Synced(r, t)
      /\ \A r \in Requests, t \in Jobs : Written(r, t)' = Written(r, t)
      /\ \A t \in Jobs : Awaited(t)' <=> Awaited(t)
      /\ \A t \in Jobs : WorksOn(t)' = WorksOn(t)
  BY <1>1, SyncedUntouched
<1>6. \A t \in Jobs : Dropped(t) /\ Exists(t) /\ jobs[t].code \notin strayed' => Dropped(t)'
  BY <1>1, <1>5 DEF Dropped, Cleaning
<1>7. DeadIsEmpty'
  BY <1>1 DEF SchedulerInv, PlansInv, DeadIsEmpty
<1>8. \A r \in Requests : Open(r)' <=> Open(r)  BY <1>1 DEF Open
<1>9. PlansInv'
  BY <1>1, <1>2, <1>5, <1>6, <1>7, <1>8, PlansKept DEF SchedulerInv
<1> QED  BY <1>3, <1>4, <1>9 DEF SchedulerInv

(* A delete takes the entry of a row that is its own, or has strayed.       *)
LEMMA DropPlanKeeps ==
  ASSUME SchedulerInv, NEW r \in Requests, NEW t \in Jobs, DropPlan(r, t)
  PROVE  SchedulerInv'
<1> DEFINE c == jobs[t].code
<1>1. /\ Open(r) /\ works[r].kind = "delete" /\ t \in works[r].todo
      /\ works' = [works EXCEPT ![r].todo = @ \ {t}]
      /\ planned' = IF KeepsPlans /\ Exists(t) THEN [planned EXCEPT ![c] = NoPlan] ELSE planned
      /\ UNCHANGED <<jobs, alive, loading, cleaning, fresh, strayed>>
  BY DEF DropPlan, WorkKept, Open
<1> HIDE DEF c
<1>2. SchedulerTyped /\ RowsInv  BY DEF SchedulerInv, RowsInv
<1>3. /\ Others(r) /\ SameWork(r) /\ works' \in [Requests -> Works \cup {NoRequest}]
      /\ works'[r].written = works[r].written /\ works'[r].todo = works[r].todo \ {t}
  BY <1>1, <1>2, TodoShrinks
<1>4. \A u \in Jobs : Exists(u) => jobs[u].code \in Codes
  BY <1>2, RowTyped DEF JobRows
<1>5. /\ planned' \in [Codes -> Plans \cup {NoPlan}]
      /\ KeepsPlans /\ Exists(t) => planned'[c] = NoPlan
      /\ \A d \in Codes : planned'[d] = planned[d] \/ (planned'[d] = NoPlan /\ d = c /\ Exists(t))
  BY <1>1, <1>2, <1>4 DEF SchedulerTyped, c
<1>6. SchedulerTyped'
  BY <1>1, <1>2, <1>3, <1>5 DEF SchedulerTyped
<1>7. RowsInv'
  BY <1>1, <1>2, <1>3, <1>6, RowsTodo
<1>8. \A u : /\ WorksOn(u)' = WorksOn(u) /\ (Exists(u)' <=> Exists(u))
             /\ (Awaited(u)' <=> Awaited(u))
  BY <1>1, <1>3, SameWorksOn DEF Exists, Awaited, Loading
<1>9. \A s \in Requests : /\ (Open(s)' <=> Open(s)) /\ (Saves(s)' <=> Saves(s))
                          /\ (Open(s) => works'[s].kind = works[s].kind)
                          /\ (s # r => works'[s] = works[s])
                          /\ works'[s].tasks = works[s].tasks /\ works'[s].row = works[s].row
                          /\ works'[s].kind = works[s].kind
  BY <1>3, OtherWork, SameWorkKinds DEF SameWork
<1>10. \A u : Dropped(u) => Dropped(u)'
  <2>1. \A u : \A s \in WorksOn(u) : s \in Requests  BY DEF WorksOn
  <2> QED  BY <1>1, <1>3, <1>8, <1>9, <2>1 DEF Dropped, Cleaning
<1>11. /\ \A s \in Requests, u \in Jobs : Synced(s, u)' <=> Synced(s, u)
       /\ \A s \in Requests, u \in Jobs : Written(s, u)' = Written(s, u)
  BY <1>1, <1>9 DEF Synced, Written, NewStatus
<1>12. r \in WorksOn(t) /\ t \in works[r].tasks
  <2>1. WorkFormed(r)  BY <1>1, <1>2 DEF RowsInv, WorksFormed
  <2> QED  BY <1>1, <2>1 DEF WorkFormed, WorksOn, Open
<1>13. CommittedFit'
  <2> SUFFICES ASSUME NEW u \in Jobs, Exists(u), jobs[u].code \notin strayed,
                      \A s \in Requests : Synced(s, u) => Written(s, u).code # jobs[u].code
               PROVE  CommittedFits(u)'
    BY <1>1, <1>8, <1>11 DEF CommittedFit
  <2>1. CommittedFits(u)
    BY DEF SchedulerInv, PlansInv, CommittedFit
  <2>2. CASE planned'[jobs[u].code] = planned[jobs[u].code]
    BY <1>1, <1>8, <1>10, <2>1, <2>2 DEF CommittedFits
  <2>3. CASE planned'[jobs[u].code] = NoPlan /\ jobs[u].code = c /\ Exists(t)
    <3>1. u = t
      BY <1>2, <2>3 DEF RowsInv, CodesDistinct, c
    <3>2. Dropped(u)'
      BY <1>1, <1>3, <1>8, <1>9, <1>12, <3>1 DEF Dropped
    <3> QED  BY <1>1, <2>3, <3>2 DEF CommittedFits
  <2> QED  BY <1>4, <1>5, <2>2, <2>3
<1>14. SyncedFit'
  <2> SUFFICES ASSUME KeepsPlans, NEW s \in Requests, NEW u \in Jobs, Synced(s, u),
                      Written(s, u).code \notin strayed
               PROVE  LET plan == planned'[Written(s, u).code]
                      IN  /\ plan # NoPlan => Fits(plan, Written(s, u))
                          /\ Needs(Written(s, u)) => plan # NoPlan
    BY <1>1, <1>11 DEF SyncedFit, KeepsPlans, Fits, Needs
  <2>1. /\ Written(s, u).code \in Codes
        /\ planned[Written(s, u).code] # NoPlan => Fits(planned[Written(s, u).code], Written(s, u))
        /\ Needs(Written(s, u)) => planned[Written(s, u).code] # NoPlan
    BY <1>2, SyncedFacts DEF SchedulerInv, PlansInv, SyncedFit, JobRows
  <2>2. ASSUME Exists(t), Written(s, u).code = c  PROVE FALSE
    <3>1. /\ Open(s) /\ works[s].kind # "delete" /\ u \in works[s].written /\ s \in WorksOn(u)
      BY <1>2, SyncedFacts
    <3>2. t = u
      BY <1>2, <2>2, <3>1, OwnRow DEF c
    <3>3. WorksOn(t) # {r}
      BY <1>1, <3>1, <3>2
    <3>4. c \in CodesAt(t)
      BY <2>2, AtStake DEF c
    <3> QED  BY <1>1, <1>12, <2>2, <3>3, <3>4 DEF SchedulerInv, AloneInv, DeletesAlone
  <2> QED  BY <1>5, <2>1, <2>2
<1>15. PlansOwned'
  <2> SUFFICES ASSUME NEW d \in Codes \ strayed, planned'[d] # NoPlan
               PROVE  \/ \E u \in Jobs : Exists(u) /\ jobs[u].code = d
                      \/ InProcess /\ \E s \in Requests, u \in Jobs :
                                         Synced(s, u) /\ Written(s, u).code = d
    BY <1>1, <1>8, <1>11 DEF PlansOwned
  <2> QED  BY <1>5 DEF SchedulerInv, PlansInv, PlansOwned
<1>16. DeadIsEmpty'
  BY <1>1, <1>5 DEF SchedulerInv, PlansInv, DeadIsEmpty
<1>17. DroppedUnplanned'
  <2>1. ASSUME NEW s \in Requests, NEW u \in Jobs, Open(s), works[s].kind = "delete",
               u \in works'[s].tasks \ works'[s].todo, Exists(u), jobs[u].code \notin strayed
        PROVE  planned'[jobs[u].code] = NoPlan
    <3>1. CASE s = r /\ u = t
      <4>1. c \in CodesAt(t)  BY <2>1, <3>1, AtStake DEF c
      <4>2. InProcess
        BY <1>1, <1>12, <2>1, <3>1, <4>1 DEF SchedulerInv, AloneInv, ApartStrays, c
      <4> QED  BY <1>1, <1>4, <1>5, <1>16, <2>1, <3>1, <4>2 DEF DeadIsEmpty, KeepsPlans, c
    <3>2. CASE ~(s = r /\ u = t)
      <4>1. u \in works[s].tasks \ works[s].todo
        BY <1>3, <1>9, <2>1, <3>2
      <4>2. planned[jobs[u].code] = NoPlan
        BY <2>1, <4>1 DEF SchedulerInv, PlansInv, DroppedUnplanned
      <4> QED  BY <1>4, <1>5, <2>1, <4>2
    <3> QED  BY <3>1, <3>2
  <2>2. ASSUME NEW i \in cleaning, i.removed, i.code \notin strayed
        PROVE  planned'[i.code] = NoPlan
    <3>1. i.code \in Codes  BY <1>2 DEF SchedulerTyped
    <3> QED  BY <1>5, <2>2, <3>1 DEF SchedulerInv, PlansInv, DroppedUnplanned
  <2> QED  BY <1>1, <1>8, <1>9, <2>1, <2>2 DEF DroppedUnplanned
<1>18. AloneInv'
  BY <1>1, <1>3, SameWorkKept, AloneKept DEF SchedulerInv
<1> QED  BY <1>7, <1>13, <1>14, <1>15, <1>16, <1>17, <1>18 DEF SchedulerInv, PlansInv

(* What a request leaves under the code of a row it holds the lock of fits  *)
(* the row that it will commit.                                             *)
LEMMA PausedFacts ==
  ASSUME NEW plan \in Plans
  PROVE  /\ [plan EXCEPT !.paused = TRUE] \in Plans /\ [plan EXCEPT !.paused = TRUE] # NoPlan
         /\ [plan EXCEPT !.paused = TRUE].once = plan.once
         /\ [plan EXCEPT !.paused = TRUE].paused = TRUE
<1>1. [plan EXCEPT !.paused = TRUE] \in Plans  BY DEF Plans
<1>2. [plan EXCEPT !.paused = TRUE].once = plan.once  BY DEF Plans
<1>3. [plan EXCEPT !.paused = TRUE].paused = TRUE  BY DEF Plans
<1> QED  BY <1>1, <1>2, <1>3, SchedulerParameters

LEMMA PlanAfterFits ==
  ASSUME SchedulerInv, NEW r \in Requests, NEW t \in Jobs, Open(r), works[r].kind # "delete",
         t \in works[r].todo, t \in works[r].written
  PROVE  LET row == Written(r, t)
             plan == PlanAfter(r, row)
         IN  /\ plan \in Plans \cup {NoPlan}
             /\ row.code \notin strayed => /\ plan # NoPlan => Fits(plan, row)
                                           /\ Needs(row) => plan # NoPlan
<1> DEFINE row == Written(r, t)
           plan == PlanAfter(r, row)
<1>1. SchedulerTyped /\ WorksFormed /\ RowsInv  BY DEF SchedulerInv, RowsInv
<1>2. t \in works[r].tasks /\ WorkFormed(r)
  BY <1>1 DEF WorksFormed, WorkFormed
<1>3. row \in JobRows /\ row.code \in Codes
  BY <1>1, <1>2, WrittenTyped DEF JobRows
<1>4. planned[row.code] \in Plans \cup {NoPlan}
  BY <1>1, <1>3 DEF SchedulerTyped
<1>5. \A s \in Requests : ~Synced(s, t)
  BY <1>1 DEF Synced, RowsInv, WritesOwnRow, LockedBy, Open
<1> SUFFICES /\ plan \in Plans \cup {NoPlan}
             /\ row.code \notin strayed => /\ plan # NoPlan => Fits(plan, row)
                                           /\ Needs(row) => plan # NoPlan
  OBVIOUS
<1> HIDE DEF row
<1>6. CASE row.status = "enabled" /\ row.sound
  <2>1. plan = Entry(row)  BY <1>6 DEF PlanAfter
  <2> QED  BY <1>3, <1>6, <2>1, EntryFacts
<1>7. CASE ~(row.status = "enabled" /\ row.sound) /\ works[r].kind = "create"
  <2>1. plan = planned[row.code]  BY <1>7 DEF PlanAfter
  <2>2. ASSUME row.code \notin strayed  PROVE planned[row.code] = NoPlan
    <3>1. ASSUME NEW u \in Jobs, Exists(u), jobs[u].code = row.code  PROVE FALSE
      BY <1>1, <1>2, <1>7, <3>1, OwnRow DEF WorkFormed, row
    <3>2. ASSUME NEW s \in Requests, NEW u \in Jobs, Synced(s, u), Written(s, u).code = row.code
          PROVE  FALSE
      <4>1. Open(s) /\ works[s].kind # "delete" /\ u \in works[s].written
        BY <1>1, <3>2, SyncedFacts
      <4>2. u = t  BY <1>1, <3>2, <4>1, OwnCode DEF row
      <4> QED  BY <1>5, <3>2, <4>2
    <3> QED  BY <1>3, <2>2, <3>1, <3>2 DEF SchedulerInv, PlansInv, PlansOwned
  <2> QED  BY <1>4, <1>7, <2>1, <2>2 DEF Needs
<1>8. Switches(r) =>
        /\ Exists(t) /\ row.code = jobs[t].code /\ row.once = jobs[t].once
        /\ row.sound = jobs[t].sound
        /\ (row.code \notin strayed /\ planned[row.code] # NoPlan)
             => (row.sound /\ planned[row.code].once = row.once)
  <2> SUFFICES ASSUME Switches(r)
               PROVE  /\ Exists(t) /\ row.code = jobs[t].code /\ row.once = jobs[t].once
                      /\ row.sound = jobs[t].sound
                      /\ row.code \notin strayed /\ planned[row.code] # NoPlan
                           => row.sound /\ planned[row.code].once = row.once
    OBVIOUS
  <2>1. /\ Exists(t) /\ row.code = jobs[t].code /\ row.once = jobs[t].once
        /\ row.sound = jobs[t].sound
    BY <1>1, <1>2, WrittenBySwitch DEF row
  <2> QED  BY <1>5, <2>1 DEF SchedulerInv, PlansInv, CommittedFit, CommittedFits, Fits
<1>9. CASE /\ row.status = "paused" /\ works[r].kind # "create"
           /\ Switches(r) /\ planned[row.code] # NoPlan
  <2>1. plan = [planned[row.code] EXCEPT !.paused = TRUE]
    BY <1>9 DEF PlanAfter
  <2>2. planned[row.code] \in Plans  BY <1>4, <1>9
  <2>4. row.code \notin strayed => row.sound /\ planned[row.code].once = row.once
    BY <1>8, <1>9
  <2>5. /\ plan \in Plans /\ plan # NoPlan /\ plan.once = planned[row.code].once
        /\ plan.paused = TRUE
    BY <2>1, <2>2, PausedFacts
  <2> HIDE DEF plan
  <2> QED  BY <1>9, <2>4, <2>5 DEF Fits
<1>10. CASE /\ row.status = "enabled" /\ ~row.sound
            /\ works[r].kind # "create" /\ Switches(r)
  <2>1. plan = planned[row.code]  BY <1>10 DEF PlanAfter
  <2> QED  BY <1>4, <1>8, <1>10, <2>1 DEF Needs
<1>11. CASE /\ ~(row.status = "enabled" /\ row.sound) /\ works[r].kind # "create"
            /\ ~(row.status = "enabled" /\ Switches(r))
            /\ ~(row.status = "paused" /\ Switches(r) /\ planned[row.code] # NoPlan)
  <2>1. plan = NoPlan  BY <1>11 DEF PlanAfter
  <2> QED  BY <1>11, <2>1 DEF Needs
<1> QED  BY <1>6, <1>7, <1>9, <1>10, <1>11

(* A request puts the schedule right for the row it is about to commit.     *)
LEMMA SyncPlanKeeps ==
  ASSUME SchedulerInv, NEW r \in Requests, NEW t \in Jobs, SyncPlan(r, t)
  PROVE  SchedulerInv'
<1> DEFINE row == Written(r, t)
           c == row.code
           after == PlanAfter(r, row)
<1>1. SchedulerTyped /\ WorksFormed /\ RowsInv  BY DEF SchedulerInv, RowsInv
<1>2. /\ Open(r) /\ works[r].kind # "delete" /\ t \in works[r].todo /\ t \in works[r].written
      /\ works' = [works EXCEPT ![r].todo = @ \ {t}]
      /\ planned' = IF KeepsPlans THEN [planned EXCEPT ![c] = after] ELSE planned
      /\ UNCHANGED <<jobs, alive, loading, cleaning, fresh, strayed>>
  <2>1. WorkFormed(r) => t \in works[r].tasks
    BY DEF SyncPlan, WorkFormed
  <2>2. Open(r) /\ works[r].kind # "delete"
    BY <1>1, SavesFacts, SwitchesFacts DEF SyncPlan, Statuses
  <2>3. row \in JobRows
    BY <1>1, <2>1, <2>2, WrittenTyped DEF WorksFormed
  <2> QED  BY <2>2, <2>3, SchedulerParameters DEF SyncPlan, WorkKept
<1>3. /\ WorkFormed(r) /\ t \in works[r].tasks /\ works[r].written = works[r].tasks
  <2>1. WorkFormed(r)  BY <1>1, <1>2 DEF WorksFormed
  <2>2. Saves(r) \/ Switches(r)  BY <1>1, <1>2, SavesOrSwitches
  <2> QED  BY <1>2, <2>1, <2>2 DEF WorkFormed
<1>4. row \in JobRows /\ c \in Codes /\ c \in CodesAt(t)
  BY <1>1, <1>2, <1>3, WrittenTyped, WrittenAtStake DEF JobRows
<1>5. /\ after \in Plans \cup {NoPlan}
      /\ c \notin strayed => (after # NoPlan => Fits(after, row)) /\ (Needs(row) => after # NoPlan)
  BY <1>2, PlanAfterFits
<1>6. /\ Others(r) /\ SameWork(r) /\ works' \in [Requests -> Works \cup {NoRequest}]
      /\ works'[r].written = works[r].written /\ works'[r].todo = works[r].todo \ {t}
  BY <1>1, <1>2, TodoShrinks
<1>7. \A u \in Jobs : Exists(u) /\ jobs[u].code = c => u = t
  BY <1>1, <1>2, OwnRow
<1>8. \A s \in Requests, u \in Jobs : Synced(s, u) /\ Written(s, u).code = c => FALSE
  <2> SUFFICES ASSUME NEW s \in Requests, NEW u \in Jobs, Synced(s, u), Written(s, u).code = c
               PROVE  FALSE
    OBVIOUS
  <2>1. Open(s) /\ works[s].kind # "delete" /\ u \in works[s].written
    BY <1>1, SyncedFacts
  <2>2. s = r /\ u = t  BY <1>1, <1>2, <2>1, OwnCode
  <2> QED  BY <1>2, <2>2 DEF Synced
<1>9. Switches(r) => Exists(t) /\ jobs[t].code = c
  BY <1>1, <1>3, WrittenBySwitch
<1>10. Saves(r) => works[r].row # NoJob /\ works[r].row.code = c
  BY <1>1, WrittenBySave, SavesFacts
<1>11. Saves(r) \/ Switches(r)  BY <1>1, <1>2, SavesOrSwitches
<1> HIDE DEF c, after
<1>12. /\ planned' \in [Codes -> Plans \cup {NoPlan}]
       /\ KeepsPlans => planned'[c] = after
       /\ ~KeepsPlans => planned' = planned
       /\ \A d \in Codes : d # c => planned'[d] = planned[d]
  BY <1>1, <1>2, <1>4, <1>5 DEF SchedulerTyped
<1>13. SchedulerTyped'
  BY <1>1, <1>2, <1>6, <1>12 DEF SchedulerTyped
<1>14. RowsInv'
  BY <1>1, <1>2, <1>3, <1>6, <1>13, RowsTodo
<1>15. \A u : /\ WorksOn(u)' = WorksOn(u) /\ (Exists(u)' <=> Exists(u))
              /\ (Awaited(u)' <=> Awaited(u))
  BY <1>2, <1>6, SameWorksOn DEF Exists, Awaited, Loading
<1>16. \A s \in Requests : /\ (Open(s)' <=> Open(s)) /\ (Saves(s)' <=> Saves(s))
                           /\ (s # r => works'[s] = works[s])
                           /\ works'[s].tasks = works[s].tasks /\ works'[s].row = works[s].row
                           /\ works'[s].kind = works[s].kind
  BY <1>6, OtherWork, SameWorkKinds DEF SameWork
<1>17. \A u : Dropped(u) => Dropped(u)'
  <2>1. \A u : \A s \in WorksOn(u) : s \in Requests  BY DEF WorksOn
  <2> QED  BY <1>2, <1>15, <1>16, <1>6, <2>1 DEF Dropped, Cleaning
<1>18. \A s \in Requests, u \in Jobs : Written(s, u)' = Written(s, u)
  BY <1>2, <1>16 DEF Written, NewStatus
<1>19. \A s \in Requests, u \in Jobs : Synced(s, u)' <=> Synced(s, u) \/ (s = r /\ u = t)
  <2>1. \A s \in Requests, u \in Jobs : s # r => (Synced(s, u)' <=> Synced(s, u))
    BY <1>16 DEF Synced
  <2>2. \A u \in Jobs : Synced(r, u)' <=> Synced(r, u) \/ u = t
    BY <1>2, <1>6, <1>16 DEF Synced
  <2> QED  BY <2>1, <2>2
<1>20. \A u \in Jobs : Exists(u) => jobs[u].code \in Codes
  BY <1>1, RowTyped DEF JobRows
<1>21. CommittedFit'
  <2> SUFFICES ASSUME NEW u \in Jobs, Exists(u), jobs[u].code \notin strayed,
                      \A s \in Requests : Synced(s, u)' => Written(s, u).code # jobs[u].code
               PROVE  CommittedFits(u)'
    BY <1>2, <1>15, <1>18 DEF CommittedFit
  <2>1. CommittedFits(u)
    BY <1>19 DEF SchedulerInv, PlansInv, CommittedFit
  <2>2. jobs[u].code # c
    BY <1>7, <1>19 DEF c
  <2>3. planned'[jobs[u].code] = planned[jobs[u].code]
    BY <1>12, <1>20, <2>2
  <2> QED  BY <1>2, <1>15, <1>17, <2>1, <2>3 DEF CommittedFits
<1>22. SyncedFit'
  <2> SUFFICES ASSUME KeepsPlans, NEW s \in Requests, NEW u \in Jobs, Synced(s, u)',
                      Written(s, u).code \notin strayed
               PROVE  LET plan == planned'[Written(s, u).code]
                      IN  /\ plan # NoPlan => Fits(plan, Written(s, u))
                          /\ Needs(Written(s, u)) => plan # NoPlan
    BY <1>2, <1>18 DEF SyncedFit, KeepsPlans, Fits, Needs
  <2>1. CASE s = r /\ u = t
    BY <1>5, <1>12, <2>1 DEF c
  <2>2. CASE Synced(s, u)
    <3>1. /\ Written(s, u).code \in Codes /\ Written(s, u).code # c
          /\ planned[Written(s, u).code] # NoPlan => Fits(planned[Written(s, u).code], Written(s, u))
          /\ Needs(Written(s, u)) => planned[Written(s, u).code] # NoPlan
      BY <1>1, <1>8, <2>2, SyncedFacts DEF SchedulerInv, PlansInv, SyncedFit, JobRows
    <3> QED  BY <1>12, <3>1
  <2> QED  BY <1>19, <2>1, <2>2
<1>23. PlansOwned'
  <2> SUFFICES ASSUME NEW d \in Codes \ strayed, planned'[d] # NoPlan
               PROVE  \/ \E u \in Jobs : Exists(u) /\ jobs[u].code = d
                      \/ InProcess /\ \E s \in Requests, u \in Jobs :
                                         Synced(s, u)' /\ Written(s, u).code = d
    BY <1>2, <1>15, <1>18 DEF PlansOwned
  <2>1. CASE d = c
    BY <1>12, <1>19, <2>1 DEF SchedulerInv, PlansInv, PlansOwned, KeepsPlans, DeadIsEmpty, c
  <2>2. CASE d # c
    BY <1>12, <1>19, <2>2 DEF SchedulerInv, PlansInv, PlansOwned
  <2> QED  BY <2>1, <2>2
<1>24. DeadIsEmpty'
  BY <1>2, <1>12 DEF SchedulerInv, PlansInv, DeadIsEmpty, KeepsPlans
<1>25. r \in WorksOn(t)
  BY <1>2, <1>3 DEF WorksOn, Open
<1>26. DroppedUnplanned'
  <2>1. ASSUME NEW s \in Requests, NEW u \in Jobs, Open(s), works[s].kind = "delete",
               u \in works'[s].tasks \ works'[s].todo, Exists(u), jobs[u].code \notin strayed
        PROVE  planned'[jobs[u].code] = NoPlan
    <3>1. s # r /\ u \in works[s].tasks \ works[s].todo
      BY <1>2, <1>16, <2>1
    <3>2. planned[jobs[u].code] = NoPlan
      BY <2>1, <3>1 DEF SchedulerInv, PlansInv, DroppedUnplanned
    <3>3. jobs[u].code # c
      <4> SUFFICES ASSUME jobs[u].code = c  PROVE FALSE
        OBVIOUS
      <4>1. u = t  BY <1>7, <2>1
      <4>2. WorksOn(u) # {s}  BY <1>25, <3>1, <4>1
      <4> QED  BY <1>4, <2>1, <3>1, <4>1, <4>2 DEF SchedulerInv, AloneInv, DeletesAlone
    <3> QED  BY <1>12, <1>20, <2>1, <3>2, <3>3
  <2>2. ASSUME NEW i \in cleaning, i.removed, i.code \notin strayed
        PROVE  planned'[i.code] = NoPlan
    <3>1. i.code \in Codes  BY <1>1 DEF SchedulerTyped
    <3>2. planned[i.code] = NoPlan
      BY <2>2 DEF SchedulerInv, PlansInv, DroppedUnplanned
    <3>3. i.code # c
      <4> SUFFICES ASSUME i.code = c  PROVE FALSE
        OBVIOUS
      <4>1. ~Saves(r)
        BY <1>2, <1>10, <2>2 DEF SchedulerInv, AloneInv, CleaningAlone
      <4>2. t = i.task
        BY <1>9, <1>11, <2>2, <4>1 DEF SchedulerInv, AloneInv, CleaningAlone
      <4> QED  BY <1>4, <1>25, <2>2, <4>2 DEF SchedulerInv, AloneInv, CleaningAlone
    <3> QED  BY <1>12, <3>1, <3>2, <3>3
  <2> QED  BY <1>2, <1>15, <1>16, <2>1, <2>2 DEF DroppedUnplanned
<1>27. AloneInv'
  BY <1>2, <1>6, SameWorkKept, AloneKept DEF SchedulerInv
<1> QED  BY <1>14, <1>21, <1>22, <1>23, <1>24, <1>26, <1>27 DEF SchedulerInv, PlansInv

(* A request that fails gives up the codes it has touched.                  *)
LEMMA AbortKeeps ==
  ASSUME SchedulerInv, NEW r \in Requests, Abort(r)
  PROVE  SchedulerInv'
<1> DEFINE Given == UNION {CodesAt(t) : t \in Touched(r)}
<1>1. SchedulerTyped /\ WorksFormed /\ RowsInv  BY DEF SchedulerInv, RowsInv
<1>2. /\ Open(r) /\ works' = [works EXCEPT ![r] = NoRequest]
      /\ UNCHANGED <<jobs, planned, alive, loading, cleaning, fresh>>
      /\ strayed' = strayed \cup Given
  BY DEF Abort, WorkKept, Open
<1>3. \A t : t \in works[r].tasks \ works[r].todo => CodesAt(t) \subseteq Given
  BY DEF Touched
<1> HIDE DEF Given
<1>4. strayed \subseteq strayed'  BY <1>2
<1>5. Others(r) /\ ~Open(r)' /\ works' \in [Requests -> Works \cup {NoRequest}]
  BY <1>1, <1>2, WorkEnds
<1>6. SchedulerTyped'
  BY <1>1, <1>2, <1>5 DEF SchedulerTyped
<1>7. RowsInv'
  BY <1>1, <1>2, <1>5, <1>6, RowsAborted
<1>8. AloneInv'
  BY <1>2, <1>4, <1>5, SameWorkKept, AloneKept DEF SchedulerInv
<1>9. \A s \in Requests \ {r} :
        /\ works'[s] = works[s] /\ (Open(s)' <=> Open(s)) /\ (Saves(s)' <=> Saves(s))
        /\ \A u : Synced(s, u)' <=> Synced(s, u)
        /\ \A u : Written(s, u)' = Written(s, u)
  BY <1>2, <1>5, OtherWork DEF Synced, Written, NewStatus
<1>10. \A u \in Jobs : Synced(r, u) => CodesAt(u) \subseteq strayed' /\ Written(r, u).code \in strayed'
  <2> SUFFICES ASSUME NEW u \in Jobs, Synced(r, u)
               PROVE  CodesAt(u) \subseteq strayed' /\ Written(r, u).code \in strayed'
    OBVIOUS
  <2>1. /\ Open(r) /\ works[r].kind # "delete" /\ u \in works[r].tasks
        /\ u \notin works[r].todo
    BY <1>1, SyncedFacts DEF Synced
  <2>2. Written(r, u).code \in CodesAt(u)
    BY <1>1, <2>1, WrittenAtStake
  <2> QED  BY <1>2, <1>3, <2>1, <2>2
<1>11. \A u \in Jobs : Exists(u) => jobs[u].code \in CodesAt(u)
  BY AtStake
<1>12. \A u \in Jobs : Exists(u) /\ jobs[u].code \notin strayed' => (Dropped(u) => Dropped(u)')
  <2> SUFFICES ASSUME NEW u \in Jobs, Exists(u), jobs[u].code \notin strayed', Dropped(u)
               PROVE  Dropped(u)'
    OBVIOUS
  <2>1. CASE Cleaning(u)
    BY <1>2, <2>1 DEF Dropped, Cleaning
  <2>2. ASSUME NEW s \in WorksOn(u), works[s].kind = "delete", u \notin works[s].todo
        PROVE  Dropped(u)'
    <3>1. s \in Requests /\ u \in works[s].tasks  BY DEF WorksOn
    <3>2. s # r  BY <1>2, <1>3, <1>11, <2>2, <3>1
    <3>3. s \in WorksOn(u)' /\ works'[s] = works[s]
      BY <1>9, <3>1, <3>2 DEF WorksOn, Open
    <3> QED  BY <2>2, <3>3 DEF Dropped
  <2> QED  BY <2>1, <2>2 DEF Dropped
<1>13. CommittedFit'
  <2> SUFFICES ASSUME NEW u \in Jobs, Exists(u), jobs[u].code \notin strayed',
                      \A s \in Requests : Synced(s, u)' => Written(s, u)'.code # jobs[u].code
               PROVE  CommittedFits(u)'
    BY <1>2 DEF CommittedFit, Exists
  <2>1. \A s \in Requests : Synced(s, u) => Written(s, u).code # jobs[u].code
    BY <1>9, <1>10, <1>11
  <2>2. CommittedFits(u)
    BY <1>4, <2>1 DEF SchedulerInv, PlansInv, CommittedFit
  <2> QED  BY <1>2, <1>12, <2>2 DEF CommittedFits, Awaited, Loading
<1>14. SyncedFit'
  <2> SUFFICES ASSUME KeepsPlans', NEW s \in Requests, NEW u \in Jobs, Synced(s, u)',
                      Written(s, u)'.code \notin strayed'
               PROVE  LET plan == planned'[Written(s, u)'.code]
                      IN  /\ plan # NoPlan => Fits(plan, Written(s, u)')
                          /\ Needs(Written(s, u)') => plan # NoPlan
    BY DEF SyncedFit, Fits, Needs
  <2>1. s # r  BY <1>5 DEF Synced
  <2>2. Synced(s, u) /\ Written(s, u)' = Written(s, u)
    BY <1>9, <2>1
  <2> QED  BY <1>2, <1>4, <2>2 DEF SchedulerInv, PlansInv, SyncedFit, KeepsPlans
<1>15. PlansOwned'
  <2> SUFFICES ASSUME NEW d \in Codes \ strayed', planned[d] # NoPlan
               PROVE  \/ \E u \in Jobs : Exists(u) /\ jobs[u].code = d
                      \/ InProcess /\ \E s \in Requests, u \in Jobs :
                                         Synced(s, u)' /\ Written(s, u)'.code = d
    BY <1>2 DEF PlansOwned, Exists
  <2> QED  BY <1>4, <1>9, <1>10 DEF SchedulerInv, PlansInv, PlansOwned
<1>16. DroppedUnplanned'
  <2>1. ASSUME NEW s \in Requests, NEW u \in Jobs, Open(s)', works'[s].kind = "delete",
               u \in works'[s].tasks \ works'[s].todo, Exists(u)', jobs'[u].code \notin strayed'
        PROVE  planned'[jobs'[u].code] = NoPlan
    <3>1. s # r /\ Open(s) /\ works[s].kind = "delete" /\ u \in works[s].tasks \ works[s].todo
      BY <1>5, <1>9, <2>1
    <3>2. Exists(u)  BY <1>2, <2>1 DEF Exists
    <3> QED  BY <1>2, <1>4, <2>1, <3>1, <3>2 DEF SchedulerInv, PlansInv, DroppedUnplanned
  <2>2. \A i \in cleaning : i.removed /\ i.code \notin strayed' => planned[i.code] = NoPlan
    BY <1>4 DEF SchedulerInv, PlansInv, DroppedUnplanned
  <2> QED  BY <1>2, <2>1, <2>2 DEF DroppedUnplanned
<1>17. DeadIsEmpty'
  BY <1>2 DEF SchedulerInv, PlansInv, DeadIsEmpty
<1> QED  BY <1>7, <1>8, <1>13, <1>14, <1>15, <1>16, <1>17 DEF SchedulerInv, PlansInv

(* A commit makes the row what its request has scheduled.                   *)
LEMMA CommitKeeps ==
  ASSUME SchedulerInv, NEW r \in Requests, Commit(r)
  PROVE  SchedulerInv'
<1> DEFINE mine == works[r].tasks
           Renamed == UNION {OldCode(r, t) : t \in works[r].tasks}
<1>1. SchedulerTyped /\ WorksFormed /\ RowsInv  BY DEF SchedulerInv, RowsInv
<1>2. /\ Open(r) /\ Others(r) /\ ~Open(r)' /\ works' \in [Requests -> Works \cup {NoRequest}]
      /\ works[r].todo = {} /\ works[r].written = mine /\ mine \subseteq Jobs
      /\ jobs' \in [Jobs -> JobRows \cup {NoJob}]
      /\ \A t \in Jobs \ mine : jobs'[t] = jobs[t] /\ (Exists(t)' <=> Exists(t))
      /\ works[r].kind = "delete" => \A t \in mine : ~Exists(t)'
      /\ works[r].kind # "delete" => \A t \in mine :
           jobs'[t] = Written(r, t) /\ Exists(t)' /\ Synced(r, t)
  BY <1>1, Commits
<1>3. UNCHANGED <<planned, alive, loading, cleaning, fresh>> /\ strayed' = strayed \cup Renamed
  BY <1>1 DEF Commit, WorkKept, SchedulerTyped
<1>4. \A t \in mine : Exists(t) /\ Saves(r) /\ jobs[t].code # works[r].row.code
        => jobs[t].code \in Renamed
  <2>1. \A t \in mine : Exists(t) /\ Saves(r) /\ jobs[t].code # works[r].row.code
          => jobs[t].code \in OldCode(r, t)
    BY DEF OldCode
  <2> QED  BY <2>1
<1> HIDE DEF Renamed
<1>5. strayed \subseteq strayed'  BY <1>3
<1>6. SchedulerTyped'
  BY <1>1, <1>2, <1>3 DEF SchedulerTyped
<1>7. RowsInv'
  BY <1>1, <1>6, RowsCommit
<1>8. \A t \in mine : works[r].kind # "delete" /\ Exists(t) /\ jobs[t].code \notin strayed'
        => Written(r, t).code = jobs[t].code
  <2> SUFFICES ASSUME NEW t \in mine, works[r].kind # "delete", Exists(t), jobs[t].code \notin strayed'
               PROVE  Written(r, t).code = jobs[t].code
    OBVIOUS
  <2>1. CASE Saves(r)
    BY <1>1, <1>3, <1>4, <2>1, WrittenBySave
  <2>2. CASE Switches(r)
    BY <1>1, <2>2, WrittenBySwitch
  <2> QED  BY <1>1, <1>2, <2>1, <2>2, SavesOrSwitches
<1>9. \A s \in Requests \ {r} :
        /\ works'[s] = works[s] /\ (Open(s)' <=> Open(s)) /\ (Saves(s)' <=> Saves(s))
        /\ \A u : Synced(s, u)' <=> Synced(s, u)
  BY <1>2, OtherWork DEF Synced
<1>10. \A s \in Requests \ {r}, u \in Jobs : Synced(s, u) => Written(s, u)' = Written(s, u) /\ u \notin mine
  <2> SUFFICES ASSUME NEW s \in Requests \ {r}, NEW u \in Jobs, Synced(s, u)
               PROVE  Written(s, u)' = Written(s, u) /\ u \notin mine
    OBVIOUS
  <2>1. Open(s) /\ u \in works[s].written  BY <1>1, SyncedFacts
  <2>2. u \notin mine  BY <1>1, <1>2, <2>1, OthersElsewhere
  <2> QED  BY <1>1, <1>2, <1>9, <2>2 DEF Written, NewStatus, SchedulerTyped
<1>11. \A u : WorksOn(u)' = WorksOn(u) \ {r}
  BY <1>2, SameWorksOnWithout
<1>12. \A u \in mine : r \in WorksOn(u)
  BY <1>2 DEF WorksOn, Open
<1>13. \A u : (Cleaning(u)' <=> Cleaning(u)) /\ (Loading(u)' <=> Loading(u))
  BY <1>3 DEF Cleaning, Loading
<1>14. \A u : (Deletes(u)' => Deletes(u)) /\ (u \notin mine => (Deletes(u)' <=> Deletes(u)))
  <2>1. \A u : \A s \in WorksOn(u) : s \in Requests /\ u \in works[s].tasks  BY DEF WorksOn
  <2>2. \A u : (\E s \in WorksOn(u)' : works'[s].kind = "delete")
                 => \E s \in WorksOn(u) : works[s].kind = "delete"
    BY <1>9, <1>11, <2>1
  <2>3. \A u : u \notin mine /\ (\E s \in WorksOn(u) : works[s].kind = "delete")
                 => \E s \in WorksOn(u)' : works'[s].kind = "delete"
    BY <1>9, <1>11, <2>1
  <2> QED  BY <1>3, <2>2, <2>3 DEF Deletes
<1>15. \A u \in Jobs \ mine : (Dropped(u) => Dropped(u)') /\ (Awaited(u)' <=> Awaited(u))
  <2>1. \A u : \A s \in WorksOn(u) : s \in Requests /\ u \in works[s].tasks  BY DEF WorksOn
  <2> QED  BY <1>3, <1>9, <1>11, <1>13, <2>1 DEF Dropped, Awaited
<1>16. \A u \in Jobs : CodesAt(u)' \subseteq CodesAt(u)
  <2> SUFFICES ASSUME NEW u \in Jobs, NEW d \in CodesAt(u)'  PROVE d \in CodesAt(u)
    OBVIOUS
  <2>1. CASE Exists(u)' /\ d = jobs'[u].code
    <3>1. CASE u \in mine
      BY <1>1, <1>2, <2>1, <3>1, WrittenAtStake
    <3>2. CASE u \notin mine
      BY <1>2, <2>1, <3>2, AtStake
    <3> QED  BY <3>1, <3>2
  <2>2. CASE \E s \in Requests :
               Open(s)' /\ u \in works'[s].tasks /\ works'[s].row # NoJob /\ d = works'[s].row.code
    BY <1>2, <1>9, <2>2, AtStake
  <2>3. CASE \E item \in cleaning' : item.task = u /\ d = item.code
    BY <1>3, <2>3, AtStake
  <2> QED  BY <2>1, <2>2, <2>3, AtStakeNext
<1> HIDE DEF mine
<1>17. \A u \in mine : u \in Jobs  BY <1>2
<1>18. CommittedFit'
  <2> SUFFICES ASSUME NEW u \in Jobs, Exists(u)', jobs'[u].code \notin strayed',
                      \A s \in Requests : Synced(s, u)' => Written(s, u)'.code # jobs'[u].code
               PROVE  CommittedFits(u)'
    BY DEF CommittedFit
  <2>1. CASE u \notin mine
    <3>1. Exists(u) /\ jobs'[u] = jobs[u]  BY <1>2, <2>1
    <3>2. ~Synced(r, u)
      BY <1>1, <2>1, SyncedFacts DEF mine
    <3>3. \A s \in Requests : Synced(s, u) => Written(s, u).code # jobs[u].code
      BY <1>9, <1>10, <3>1, <3>2
    <3>4. CommittedFits(u)
      BY <1>5, <3>1, <3>3 DEF SchedulerInv, PlansInv, CommittedFit
    <3> QED  BY <1>3, <1>15, <2>1, <3>1, <3>4 DEF CommittedFits
  <2>2. CASE u \in mine
    <3>1. works[r].kind # "delete" /\ jobs'[u] = Written(r, u) /\ Synced(r, u)
      BY <1>2, <2>2
    <3>2. CASE KeepsPlans
      BY <1>3, <1>5, <3>1, <3>2 DEF SchedulerInv, PlansInv, SyncedFit, CommittedFits
    <3>3. CASE ~alive
      <4>1. Written(r, u).code \in Codes  BY <1>1, <3>1, SyncedFacts DEF JobRows
      <4> QED  BY <1>3, <3>1, <3>3, <4>1 DEF SchedulerInv, PlansInv, DeadIsEmpty, CommittedFits
    <3>4. CASE ~InProcess
      <4>1. Written(r, u).code \in CodesAt(u) /\ Written(r, u).code \in Codes
        BY <1>1, <3>1, SyncedFacts, WrittenAtStake DEF JobRows
      <4>2. works[r].kind = "create"
        BY <1>2, <1>5, <2>2, <3>1, <3>4, <4>1 DEF SchedulerInv, AloneInv, ApartStrays, mine
      <4>3. u \in fresh
        BY <1>2, <1>5, <2>2, <3>1, <3>4, <4>1, <4>2 DEF SchedulerInv, AloneInv, ApartFinds
      <4>4. planned[Written(r, u).code] = NoPlan
        <5>1. ~Exists(u)
          BY <1>1, <1>2, <2>2, <4>2 DEF WorksFormed, WorkFormed, mine
        <5>2. \A v \in Jobs : ~(Exists(v) /\ jobs[v].code = Written(r, u).code)
          BY <1>1, <1>2, <2>2, <3>1, <5>1, OwnRow
        <5> QED  BY <1>5, <3>1, <3>4, <4>1, <5>2 DEF SchedulerInv, PlansInv, PlansOwned
      <4> QED  BY <1>3, <3>1, <4>3, <4>4 DEF CommittedFits, Awaited
    <3> QED  BY <3>2, <3>3, <3>4 DEF KeepsPlans
  <2> QED  BY <2>1, <2>2
<1>19. SyncedFit'
  <2> SUFFICES ASSUME KeepsPlans', NEW s \in Requests, NEW u \in Jobs, Synced(s, u)',
                      Written(s, u)'.code \notin strayed'
               PROVE  LET plan == planned'[Written(s, u)'.code]
                      IN  /\ plan # NoPlan => Fits(plan, Written(s, u)')
                          /\ Needs(Written(s, u)') => plan # NoPlan
    BY DEF SyncedFit, Fits, Needs
  <2>1. s # r  BY <1>2 DEF Synced
  <2>2. Synced(s, u) /\ Written(s, u)' = Written(s, u)
    BY <1>9, <1>10, <2>1
  <2> QED  BY <1>3, <1>5, <2>2 DEF SchedulerInv, PlansInv, SyncedFit, KeepsPlans
<1>20. PlansOwned'
  <2> SUFFICES ASSUME NEW d \in Codes \ strayed', planned[d] # NoPlan
               PROVE  \/ \E u \in Jobs : Exists(u)' /\ jobs'[u].code = d
                      \/ InProcess /\ \E s \in Requests, u \in Jobs :
                                         Synced(s, u)' /\ Written(s, u)'.code = d
    BY <1>3 DEF PlansOwned
  <2>1. ASSUME NEW u \in Jobs, Exists(u), jobs[u].code = d
        PROVE  Exists(u)' /\ jobs'[u].code = d
    <3>1. CASE u \notin mine
      BY <1>2, <2>1, <3>1
    <3>2. CASE u \in mine /\ works[r].kind # "delete"
      BY <1>2, <1>8, <2>1, <3>2
    <3>3. CASE u \in mine /\ works[r].kind = "delete"
      BY <1>2, <1>5, <2>1, <3>3 DEF SchedulerInv, PlansInv, DroppedUnplanned, mine
    <3> QED  BY <3>1, <3>2, <3>3
  <2>2. ASSUME InProcess, NEW s \in Requests, NEW u \in Jobs, Synced(s, u), Written(s, u).code = d
        PROVE  \/ \E v \in Jobs : Exists(v)' /\ jobs'[v].code = d
               \/ InProcess /\ \E q \in Requests, v \in Jobs : Synced(q, v)' /\ Written(q, v)'.code = d
    <3>1. CASE s = r
      <4>1. works[r].kind # "delete" /\ u \in mine
        BY <1>1, <2>2, <3>1, SyncedFacts DEF mine
      <4> QED  BY <1>2, <2>2, <3>1, <4>1
    <3>2. CASE s # r
      BY <1>9, <1>10, <2>2, <3>2
    <3> QED  BY <3>1, <3>2
  <2> QED  BY <1>5, <2>1, <2>2 DEF SchedulerInv, PlansInv, PlansOwned
<1>21. DroppedUnplanned'
  <2>1. ASSUME NEW s \in Requests, NEW u \in Jobs, Open(s)', works'[s].kind = "delete",
               u \in works'[s].tasks \ works'[s].todo, Exists(u)', jobs'[u].code \notin strayed'
        PROVE  planned[jobs'[u].code] = NoPlan
    <3>1. s # r /\ Open(s) /\ works[s].kind = "delete" /\ u \in works[s].tasks \ works[s].todo
      BY <1>2, <1>9, <2>1
    <3>2. CASE u \notin mine
      BY <1>2, <1>5, <2>1, <3>1, <3>2 DEF SchedulerInv, PlansInv, DroppedUnplanned
    <3>3. CASE u \in mine
      <4>1. CodesAt(u) \subseteq strayed
        BY <1>12, <3>1, <3>3 DEF SchedulerInv, AloneInv, DeletesAlone
      <4>2. jobs'[u].code \in CodesAt(u)'  BY <2>1, AtStakeNext
      <4> QED  BY <1>5, <1>16, <2>1, <4>1, <4>2
    <3> QED  BY <3>2, <3>3
  <2>2. \A i \in cleaning : i.removed /\ i.code \notin strayed' => planned[i.code] = NoPlan
    BY <1>5 DEF SchedulerInv, PlansInv, DroppedUnplanned
  <2> QED  BY <1>3, <2>1, <2>2 DEF DroppedUnplanned
<1>22. DeadIsEmpty'
  BY <1>3 DEF SchedulerInv, PlansInv, DeadIsEmpty
<1>23. \A u \in Jobs : Exists(u)' => jobs'[u].code \in CodesAt(u)'
  BY AtStakeNext
<1>24. LoadingCurrent'
  <2> SUFFICES ASSUME NEW i \in loading
               PROVE  /\ \/ jobs'[i.task] = i.row
                         \/ /\ i.row.code \in strayed'
                            /\ Exists(i.task)' => jobs'[i.task].code \in strayed'
                      /\ WorksOn(i.task)' # {} \/ Deletes(i.task)'
                           => i.row.code \in strayed' /\ CodesAt(i.task)' \subseteq strayed'
    BY <1>3 DEF LoadingCurrent
  <2>1. /\ \/ jobs[i.task] = i.row
           \/ /\ i.row.code \in strayed
              /\ Exists(i.task) => jobs[i.task].code \in strayed
        /\ WorksOn(i.task) # {} \/ Deletes(i.task)
             => i.row.code \in strayed /\ CodesAt(i.task) \subseteq strayed
        /\ i.task \in Jobs
    BY <1>1 DEF SchedulerInv, AloneInv, LoadingCurrent, SchedulerTyped
  <2>2. CASE i.task \in mine
    <3>1. i.row.code \in strayed /\ CodesAt(i.task)' \subseteq strayed
      BY <1>12, <1>16, <2>1, <2>2
    <3> QED  BY <1>5, <1>23, <2>1, <3>1
  <2>3. CASE i.task \notin mine
    <3>1. jobs'[i.task] = jobs[i.task] /\ (Exists(i.task)' <=> Exists(i.task))
      BY <1>2, <2>1, <2>3
    <3>2. WorksOn(i.task)' # {} \/ Deletes(i.task)' => WorksOn(i.task) # {} \/ Deletes(i.task)
      BY <1>11, <1>14
    <3> QED  BY <1>5, <1>16, <2>1, <3>1, <3>2
  <2> QED  BY <2>2, <2>3
<1>25. DeletesAlone'
  <2> SUFFICES ASSUME NEW s \in Requests, Open(s)', works'[s].kind = "delete",
                      NEW u \in works'[s].tasks, WorksOn(u)' # {s} \/ Cleaning(u)'
               PROVE  CodesAt(u)' \subseteq strayed'
    BY DEF DeletesAlone
  <2>1. s # r /\ Open(s) /\ works[s].kind = "delete" /\ u \in works[s].tasks
    BY <1>2, <1>9
  <2>2. u \in Jobs  BY <1>1, <2>1, WorkTyped DEF Works
  <2>3. s \in WorksOn(u)'  BY <1>9, <2>1 DEF WorksOn, Open
  <2>4. WorksOn(u) # {s} \/ Cleaning(u)
    BY <1>11, <1>13, <2>1, <2>3
  <2> QED  BY <1>5, <1>16, <2>1, <2>2, <2>4 DEF SchedulerInv, AloneInv, DeletesAlone
<1>26. CleaningAlone'
  <2> SUFFICES ASSUME NEW i \in cleaning
               PROVE  /\ WorksOn(i.task)' # {} => CodesAt(i.task)' \subseteq strayed'
                      /\ (\E s \in Requests : Open(s)' /\ works'[s].row # NoJob
                                              /\ works'[s].row.code = i.code)
                           => i.code \in strayed'
                      /\ Exists(i.task)' /\ jobs'[i.task].code \notin strayed'
                           => jobs'[i.task].code = i.code
                      /\ i.code \notin strayed' =>
                           \A u \in Jobs : Exists(u)' /\ jobs'[u].code = i.code => u = i.task
    BY <1>3 DEF CleaningAlone
  <2>1. /\ WorksOn(i.task) # {} => CodesAt(i.task) \subseteq strayed
        /\ (\E s \in Requests : Open(s) /\ works[s].row # NoJob /\ works[s].row.code = i.code)
             => i.code \in strayed
        /\ Exists(i.task) /\ jobs[i.task].code \notin strayed => jobs[i.task].code = i.code
        /\ i.code \notin strayed =>
             \A u \in Jobs : Exists(u) /\ jobs[u].code = i.code => u = i.task
        /\ i.task \in Jobs
    BY <1>1 DEF SchedulerInv, AloneInv, CleaningAlone, SchedulerTyped
  <2>2. WorksOn(i.task)' # {} => CodesAt(i.task)' \subseteq strayed'
    BY <1>5, <1>11, <1>16, <2>1
  <2>3. ASSUME NEW s \in Requests, Open(s)', works'[s].row # NoJob, works'[s].row.code = i.code
        PROVE  i.code \in strayed'
    BY <1>2, <1>5, <1>9, <2>1, <2>3
  <2>4. ASSUME Exists(i.task)', jobs'[i.task].code \notin strayed'
        PROVE  jobs'[i.task].code = i.code
    <3>1. CASE i.task \in mine
      BY <1>5, <1>12, <1>16, <1>23, <2>1, <2>4, <3>1
    <3>2. CASE i.task \notin mine
      BY <1>2, <1>5, <2>1, <2>4, <3>2
    <3> QED  BY <3>1, <3>2
  <2>5. ASSUME i.code \notin strayed', NEW u \in Jobs, Exists(u)', jobs'[u].code = i.code
        PROVE  u = i.task
    <3>1. CASE u \notin mine
      BY <1>2, <1>5, <2>1, <2>5, <3>1
    <3>2. CASE u \in mine
      <4>1. works[r].kind # "delete" /\ Written(r, u).code = i.code
        BY <1>2, <2>5, <3>2
      <4>2. ~Saves(r)
        BY <1>1, <1>5, <2>1, <2>5, <4>1, WrittenBySave, SavesFacts
      <4>3. Switches(r) /\ u \in works[r].tasks
        BY <1>1, <1>2, <3>2, <4>1, <4>2, SavesOrSwitches DEF mine
      <4>4. Exists(u) /\ jobs[u].code = i.code
        BY <1>1, <4>1, <4>3, WrittenBySwitch
      <4> QED  BY <1>5, <2>1, <2>5, <4>4
    <3> QED  BY <3>1, <3>2
  <2> QED  BY <2>2, <2>3, <2>4, <2>5
<1>27. ApartStrays' /\ ApartFinds'
  <2>1. \A s \in Requests : Open(s)' =>
          /\ s # r /\ Open(s) /\ works'[s] = works[s]
          /\ works[s].tasks \subseteq Jobs /\ works[s].written \subseteq Jobs
    BY <1>1, <1>2, <1>9, WorkTyped DEF Works
  <2> QED  BY <1>3, <1>5, <1>16, <2>1 DEF SchedulerInv, AloneInv, ApartStrays, ApartFinds
<1> QED
  BY <1>7, <1>18, <1>19, <1>20, <1>21, <1>22, <1>24, <1>25, <1>26, <1>27 DEF SchedulerInv, PlansInv, AloneInv

-----------------------------------------------------------------------------
LEMMA SchedulerStarts ==
  ASSUME AtomicRequests, SchedulerInit
  PROVE  SchedulerInv
<1>1. /\ \A t \in Jobs : ~Exists(t)
      /\ \A c \in Codes : planned[c] = NoPlan
      /\ \A r \in Requests : ~Open(r) /\ ~Saves(r)
      /\ loading = {} /\ cleaning = {}
  BY DEF SchedulerInit, Exists, Open, Saves
<1>2. SchedulerTyped  BY DEF SchedulerInit, SchedulerTyped
<1>3. WorksFormed /\ CodesDistinct
  BY <1>1 DEF WorksFormed, CodesDistinct
<1>4. WritesOwnRow
  BY <1>1 DEF WritesOwnRow, LockedBy, Open
<1>5. CommittedFit /\ SyncedFit /\ PlansOwned /\ DeadIsEmpty
  BY <1>1 DEF CommittedFit, SyncedFit, PlansOwned, DeadIsEmpty, Synced
<1>6. DroppedUnplanned
  BY <1>1 DEF DroppedUnplanned
<1>7. LoadingCurrent /\ DeletesAlone /\ CleaningAlone /\ ApartStrays /\ ApartFinds
  BY <1>1 DEF LoadingCurrent, DeletesAlone, CleaningAlone, ApartStrays, ApartFinds
<1> QED  BY <1>2, <1>3, <1>4, <1>5, <1>6, <1>7 DEF SchedulerInv, RowsInv, PlansInv, AloneInv

LEMMA SchedulerPreserved == SchedulerInv /\ [SchedulerNext]_schedulerVars => SchedulerInv'
<1> SUFFICES ASSUME SchedulerInv, [SchedulerNext]_schedulerVars  PROVE SchedulerInv'
  OBVIOUS
<1>1. ASSUME NEW r \in Requests, NEW t \in Jobs, NEW row \in Wanted,
             CreateJob(r, t, row) \/ UpdateJob(r, t, row)
      PROVE  SchedulerInv'
  <2>1. row \in JobRows  BY SchedulerParameters
  <2>2. CASE CreateJob(r, t, row)
    <3>1. Begin(r, "create", {t}, row, {}) /\ jobs' = jobs /\ ~Exists(t) /\ WorksOn(t) = {}
      BY <2>2 DEF CreateJob
    <3> QED  BY <2>1, <3>1, BeginKeeps DEF Admitted
  <2>3. CASE UpdateJob(r, t, row)
    <3>1. Begin(r, "update", {t}, row, {}) /\ jobs' = jobs /\ Exists(t)
      BY <2>3 DEF UpdateJob
    <3> QED  BY <2>1, <3>1, BeginKeeps DEF Admitted
  <2> QED  BY <1>1, <2>2, <2>3
<1>2. ASSUME NEW r \in Requests, NEW tasks \in SUBSET Jobs, DeleteJobs(r, tasks)
      PROVE  SchedulerInv'
  <2>1. Begin(r, "delete", tasks, NoJob, {}) /\ jobs' = jobs /\ \A t \in tasks : Exists(t)
    BY <1>2 DEF DeleteJobs
  <2> QED  BY <2>1, BeginKeeps DEF Admitted
<1>3. ASSUME NEW r \in Requests, NEW tasks \in SUBSET Jobs, NEW s \in Statuses,
             BatchStatus(r, tasks, s)
      PROVE  SchedulerInv'
  <2> DEFINE found == {t \in tasks : Exists(t)}
  <2>1. /\ found \in SUBSET Jobs /\ \A t \in found : Exists(t) /\ RowFree(t)
        /\ Begin(r, s, found, NoJob, found) /\ jobs' = jobs
    BY <1>3 DEF BatchStatus, AtOnce, SchedulerInv, RowsInv, SchedulerTyped
  <2> HIDE DEF found
  <2> QED  BY <2>1, BeginKeeps DEF Admitted
<1>4. ASSUME NEW r \in Requests, NEW t \in Jobs,
             SaveRow(r, t) \/ SyncPlan(r, t) \/ DropPlan(r, t) \/ DeleteRow(r, t)
      PROVE  SchedulerInv'
  BY <1>4, SaveRowKeeps, SyncPlanKeeps, DropPlanKeeps, DeleteRowKeeps
<1>5. ASSUME NEW r \in Requests, Commit(r) \/ Abort(r)  PROVE SchedulerInv'
  BY <1>5, CommitKeeps, AbortKeeps
<1>6. ASSUME NEW t \in Jobs, ExecuteNow(t) \/ ExpireJob(t)  PROVE SchedulerInv'
  <2>1. CASE ExecuteNow(t)  BY <2>1, ExecuteNowKeeps
  <2>2. CASE ExpireJob(t)
    BY <2>2, CleanupKeeps DEF ExpireJob
  <2> QED  BY <1>6, <2>1, <2>2
<1>7. ASSUME NEW c \in Codes, Fire(c) \/ EndRun(c)  PROVE SchedulerInv'
  BY <1>7, FireKeeps, EndRunKeeps
<1>8. CASE \/ StartScheduler \/ EnableSync \/ SyncNewJobs
           \/ ShutdownScheduler \/ CrashScheduler
  BY <1>8, StartKeeps, EnableSyncKeeps, SyncNewJobsKeeps, ShutdownKeeps, CrashKeeps
<1>9. ASSUME NEW item \in loading, LoadJob(item)  PROVE SchedulerInv'
  BY <1>9, LoadKeeps, RefusalKeeps
<1>10. ASSUME NEW item \in cleaning, CleanPlan(item) \/ CleanRow(item) \/ CleanFails(item)
       PROVE  SchedulerInv'
  BY <1>10, CleanPlanKeeps, CleanRowKeeps, CleanFailsKeeps
<1>11. CASE UNCHANGED schedulerVars
  BY <1>11, UnchangedKeeps DEF schedulerVars
<1> QED
  BY <1>1, <1>2, <1>3, <1>4, <1>5, <1>6, <1>7, <1>8, <1>9, <1>10, <1>11 DEF SchedulerNext

(* At rest no request has put anything right and nothing is being loaded,   *)
(* awaited or cleaned up, so what fits the committed rows is what is        *)
(* scheduled.                                                               *)
LEMMA MatchesAtRest == SchedulerInv => ScheduleMatchesTable
<1> SUFFICES ASSUME SchedulerInv, AtRest, NEW c \in Codes \ strayed
             PROVE  /\ planned[c] # NoPlan =>
                         \E t \in Jobs : Exists(t) /\ jobs[t].code = c /\ Fits(planned[c], jobs[t])
                    /\ \A t \in Jobs \ HostedJobs :
                         Exists(t) /\ jobs[t].code = c /\ Needs(jobs[t]) => planned[c] # NoPlan
  BY DEF ScheduleMatchesTable
<1>1. /\ \A r \in Requests : ~Open(r) /\ \A t : ~Synced(r, t)
      /\ \A t : ~Awaited(t) /\ ~Dropped(t) /\ alive
  BY DEF AtRest, Open, Synced, Awaited, Loading, Dropped, Cleaning, WorksOn
<1>2. \A t \in Jobs : Exists(t) /\ jobs[t].code = c => CommittedFits(t)
  BY <1>1 DEF SchedulerInv, PlansInv, CommittedFit
<1>3. ASSUME planned[c] # NoPlan
      PROVE  \E t \in Jobs : Exists(t) /\ jobs[t].code = c /\ Fits(planned[c], jobs[t])
  <2>1. PICK t \in Jobs : Exists(t) /\ jobs[t].code = c
    BY <1>1, <1>3 DEF SchedulerInv, PlansInv, PlansOwned
  <2> QED  BY <1>2, <1>3, <2>1 DEF CommittedFits
<1>4. ASSUME NEW t \in Jobs \ HostedJobs, Exists(t), jobs[t].code = c, Needs(jobs[t])
      PROVE  planned[c] # NoPlan
  BY <1>1, <1>2, <1>4 DEF CommittedFits
<1> QED  BY <1>3, <1>4

(* For any jobs, codes and rows, with the scheduler in the web process or   *)
(* apart, wherever requests are atomic: at rest, what APScheduler holds is  *)
(* what the table says, but for the codes that have strayed, however        *)
(* requests, clean-ups, loads, synchronisations and runs overlap, whichever *)
(* of them fail and whenever the scheduler stops.                           *)
THEOREM ScheduleTheorem ==
  ASSUME AtomicRequests
  PROVE  SchedulerSpec => []ScheduleMatchesTable
<1>1. SchedulerInit => SchedulerInv  BY SchedulerStarts
<1>2. SchedulerInv /\ [SchedulerNext]_schedulerVars => SchedulerInv'  BY SchedulerPreserved
<1>3. SchedulerInv => ScheduleMatchesTable  BY MatchesAtRest
<1> QED  BY <1>1, <1>2, <1>3, PTL DEF SchedulerSpec

=============================================================================
