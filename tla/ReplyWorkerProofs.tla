-------------------------- MODULE ReplyWorkerProofs --------------------------
(* The reply workers, for any workers, accounts, commands, deployments and  *)
(* inboxes: a command's result is only ever that of its latest claim, the   *)
(* saved cursor of an account passes no message unseen, an answer on record *)
(* is not repeated, and the push side and the HTTP scan hand a message to   *)
(* the reply loop once between them.                                        *)
EXTENDS WorkerFleet, AccountReplies, PushInbound, TLAPS

-----------------------------------------------------------------------------
(* The claims of worker commands.                                           *)
Stages == {"run", "stop", "write", "done"}

Jobs == [cmd : Commands, claim : Nat, stage : Stages]

RowStates == {"none", "new", "sent", "claimed", "done"}

Rows == [state : RowStates, owner : Workers \cup {NoWorker}, age : Nat, claims : Nat,
         result : Nat]

ClaimsTyped ==
  /\ queue \in [Commands -> Rows]
  /\ job \in [Workers -> [Accts -> Jobs \cup {NoJob}]]

(* What a worker executes under a claim that is still its own is the latest *)
(* claim; a claim that went stale has another owner, or was its own and is  *)
(* over, since a worker claims only when it executes nothing.               *)
OwnClaimIsLatest ==
  \A w \in Workers, a \in Accts :
    job[w][a] # NoJob =>
      LET c == job[w][a].cmd
      IN  job[w][a].claim > 0 /\ queue[c].state = "claimed" /\ queue[c].owner = w
            => job[w][a].claim = queue[c].claims

ClaimsInv == ClaimsTyped /\ OwnClaimIsLatest /\ ResultOfLatestClaim

-----------------------------------------------------------------------------
LEMMA ClaimsAtStart == FleetInit => ClaimsInv
<1>1. SUFFICES ASSUME FleetInit PROVE ClaimsInv
  OBVIOUS
<1>2. ClaimsTyped
  BY <1>1 DEF FleetInit, ClaimsTyped, Rows, RowStates
<1>3. OwnClaimIsLatest /\ ResultOfLatestClaim
  BY <1>1 DEF FleetInit, OwnClaimIsLatest, ResultOfLatestClaim
<1> QED  BY <1>2, <1>3 DEF ClaimsInv

(* Steps that touch neither the rows nor the jobs.                          *)
LEMMA ClaimsUntouched == ClaimsInv /\ UNCHANGED <<queue, job>> => ClaimsInv'
BY DEF ClaimsInv, ClaimsTyped, OwnClaimIsLatest, ResultOfLatestClaim

(* Steps that only move a job on or end it.                                 *)
LEMMA ClaimsStaged ==
  ASSUME NEW w \in Workers, NEW a \in Accts, NEW stage \in Stages,
         ClaimsInv, UNCHANGED queue, job[w][a] # NoJob, Stage(w, a, stage)
  PROVE  ClaimsInv'
<1> DEFINE j == job[w][a]
<1>1. j \in Jobs  BY DEF ClaimsInv, ClaimsTyped
<1>2. [j EXCEPT !.stage = stage] \in Jobs /\ [j EXCEPT !.stage = stage].cmd = j.cmd
      /\ [j EXCEPT !.stage = stage].claim = j.claim
  BY <1>1 DEF Jobs
<1>3. job' = [job EXCEPT ![w][a] = [j EXCEPT !.stage = stage]]
  BY DEF Stage, ClaimsInv, ClaimsTyped
<1>4. ClaimsTyped'
  BY <1>2, <1>3 DEF ClaimsInv, ClaimsTyped
<1>5. OwnClaimIsLatest'
  BY <1>2, <1>3 DEF ClaimsInv, ClaimsTyped, OwnClaimIsLatest
<1> QED  BY <1>4, <1>5 DEF ClaimsInv, ResultOfLatestClaim

LEMMA ClaimsEnded ==
  ASSUME ClaimsInv, UNCHANGED queue, job' \in [Workers -> [Accts -> Jobs \cup {NoJob}]],
         \A w \in Workers, a \in Accts : job'[w][a] \in {job[w][a], NoJob}
  PROVE  ClaimsInv'
<1>1. ClaimsTyped'  BY DEF ClaimsInv, ClaimsTyped
<1>2. OwnClaimIsLatest'
  BY DEF ClaimsInv, OwnClaimIsLatest
<1> QED  BY <1>1, <1>2 DEF ClaimsInv, ResultOfLatestClaim

-----------------------------------------------------------------------------
(* The steps that write rows.                                               *)
LEMMA ClaimsPublish ==
  ASSUME NEW c \in Commands, ClaimsInv, PublishCommand(c)
  PROVE  ClaimsInv'
<1> DEFINE s == IF deploy.backend = "db" THEN "new" ELSE "sent"
<1>1. queue' = [queue EXCEPT ![c].state = s] /\ job' = job /\ s \in {"new", "sent"}
  BY DEF PublishCommand
<1>2. ClaimsTyped'  BY <1>1 DEF ClaimsInv, ClaimsTyped, Rows, RowStates
<1>3. OwnClaimIsLatest'
  BY <1>1 DEF ClaimsInv, ClaimsTyped, OwnClaimIsLatest, Rows, Jobs
<1>4. ResultOfLatestClaim'
  BY <1>1 DEF ClaimsInv, ClaimsTyped, ResultOfLatestClaim, Rows
<1> QED  BY <1>2, <1>3, <1>4 DEF ClaimsInv

LEMMA ClaimsClaim ==
  ASSUME FleetParameters, NEW w \in Workers, NEW c \in Commands, ClaimsInv, ClaimCommand(w, c)
  PROVE  ClaimsInv'
<1> DEFINE n == queue[c].claims + 1
           row == [queue[c] EXCEPT !.state = "claimed", !.owner = w, !.age = 0,
                                !.claims = queue[c].claims + 1]
<1>1. c.acct \in Accts /\ queue[c] \in Rows /\ n \in Nat /\ n > 0
  BY DEF FleetParameters, ClaimsInv, ClaimsTyped, Rows
<1>2. row \in Rows /\ row.state = "claimed" /\ row.owner = w /\ row.claims = n
  BY <1>1 DEF Rows, RowStates
<1>3. queue' = [queue EXCEPT ![c] = row]
  BY DEF ClaimCommand
<1> DEFINE j == [NewJob(c, n) EXCEPT !.stage = IF Accepts(w, c) THEN "run" ELSE "done"]
<1>4. j \in Jobs /\ j.cmd = c /\ j.claim = n
  BY <1>1 DEF NewJob, Jobs, Stages
<1>5. job' = [job EXCEPT ![w][c.acct] = j] /\ \A a \in Accts : job[w][a] = NoJob
  BY DEF ClaimCommand
<1> HIDE DEF j
<1>6. ClaimsTyped'
  BY <1>1, <1>2, <1>3, <1>4, <1>5 DEF ClaimsInv, ClaimsTyped
<1>7. OwnClaimIsLatest'
  <2> SUFFICES ASSUME NEW v \in Workers, NEW a \in Accts, job'[v][a] # NoJob,
                      job'[v][a].claim > 0, queue'[job'[v][a].cmd].state = "claimed",
                      queue'[job'[v][a].cmd].owner = v
               PROVE  job'[v][a].claim = queue'[job'[v][a].cmd].claims
    BY DEF OwnClaimIsLatest
  <2>1. CASE v = w
    <3>1. a = c.acct /\ job'[v][a] = j
      BY <1>1, <1>5, <2>1 DEF ClaimsInv, ClaimsTyped
    <3> QED  BY <3>1, <1>2, <1>3, <1>4 DEF ClaimsInv, ClaimsTyped
  <2>2. CASE v # w
    <3>1. job'[v][a] = job[v][a] /\ job[v][a] \in Jobs
      BY <1>5, <2>2 DEF ClaimsInv, ClaimsTyped
    <3>2. job[v][a].cmd \in Commands /\ job[v][a].cmd # c
      BY <3>1, <1>2, <1>3, <2>2 DEF ClaimsInv, ClaimsTyped, Jobs
    <3>3. queue'[job[v][a].cmd] = queue[job[v][a].cmd]
      BY <3>2, <1>3 DEF ClaimsInv, ClaimsTyped
    <3> QED  BY <3>1, <3>3 DEF ClaimsInv, OwnClaimIsLatest
  <2> QED  BY <2>1, <2>2
<1>8. ResultOfLatestClaim'
  BY <1>2, <1>3 DEF ClaimsInv, ClaimsTyped, ResultOfLatestClaim
<1> QED  BY <1>6, <1>7, <1>8 DEF ClaimsInv

LEMMA ClaimsDispatch ==
  ASSUME FleetParameters, NEW w \in Workers, NEW c \in Commands, ClaimsInv, DispatchCommand(w, c)
  PROVE  ClaimsInv'
<1>1. NewJob(c, 0) \in Jobs /\ NewJob(c, 0).claim = 0  BY DEF NewJob, Jobs, Stages
<1>2. /\ c.acct \in Accts /\ queue' = queue
      /\ job' = [job EXCEPT ![w][c.acct] = NewJob(c, 0)]
  BY DEF FleetParameters, DispatchCommand
<1>3. ClaimsTyped'  BY <1>1, <1>2 DEF ClaimsInv, ClaimsTyped
<1>4. OwnClaimIsLatest'
  BY <1>1, <1>2 DEF ClaimsInv, ClaimsTyped, OwnClaimIsLatest
<1> QED  BY <1>2, <1>3, <1>4 DEF ClaimsInv, ResultOfLatestClaim

LEMMA ClaimsFinish ==
  ASSUME NEW w \in Workers, NEW a \in Accts, ClaimsInv, FinishCommand(w, a)
  PROVE  ClaimsInv'
<1> DEFINE c == job[w][a].cmd
           row == [queue[c] EXCEPT !.state = "done", !.result = job[w][a].claim]
<1>1. job[w][a] \in Jobs /\ c \in Commands /\ job[w][a].claim \in Nat
  BY DEF FinishCommand, ClaimsInv, ClaimsTyped, Jobs
<1>2. job' = [job EXCEPT ![w][a] = NoJob]  BY DEF FinishCommand
<1>3. /\ job' \in [Workers -> [Accts -> Jobs \cup {NoJob}]]
      /\ \A v \in Workers, b \in Accts : job'[v][b] \in {job[v][b], NoJob}
  BY <1>2 DEF ClaimsInv, ClaimsTyped
<1>4. CASE queue' = queue
  BY <1>3, <1>4, ClaimsEnded
<1>5. CASE /\ job[w][a].claim > 0 /\ MayConsume(w, c)
           /\ queue' = [queue EXCEPT ![c].state = "done", ![c].result = job[w][a].claim]
  <2>1. queue[c] \in Rows  BY <1>1 DEF ClaimsInv, ClaimsTyped
  <2>2. queue' = [queue EXCEPT ![c] = row]  BY <1>1, <1>5 DEF ClaimsInv, ClaimsTyped
  <2>3. row \in Rows /\ row.state = "done" /\ row.result = job[w][a].claim
        /\ row.claims = queue[c].claims
    BY <1>1, <2>1 DEF Rows, RowStates
  <2>4. job[w][a].claim = queue[c].claims
    BY <1>5 DEF ClaimsInv, OwnClaimIsLatest, MayConsume, FinishCommand
  <2>5. ClaimsTyped'  BY <1>1, <1>3, <2>2, <2>3 DEF ClaimsInv, ClaimsTyped
  <2>6. OwnClaimIsLatest'
    <3> SUFFICES ASSUME NEW v \in Workers, NEW b \in Accts, job'[v][b] # NoJob,
                        job'[v][b].claim > 0, queue'[job'[v][b].cmd].state = "claimed",
                        queue'[job'[v][b].cmd].owner = v
                 PROVE  job'[v][b].claim = queue'[job'[v][b].cmd].claims
      BY DEF OwnClaimIsLatest
    <3>1. job'[v][b] = job[v][b] /\ job[v][b] \in Jobs
      BY <1>3 DEF ClaimsInv, ClaimsTyped
    <3>2. job[v][b].cmd \in Commands /\ job[v][b].cmd # c
      BY <1>1, <2>2, <2>3, <3>1 DEF ClaimsInv, ClaimsTyped, Jobs
    <3>3. queue'[job[v][b].cmd] = queue[job[v][b].cmd]
      BY <2>2, <3>2 DEF ClaimsInv, ClaimsTyped
    <3> QED  BY <3>1, <3>3 DEF ClaimsInv, OwnClaimIsLatest
  <2>7. ResultOfLatestClaim'
    BY <2>2, <2>3, <2>4 DEF ClaimsInv, ClaimsTyped, ResultOfLatestClaim
  <2> QED  BY <2>5, <2>6, <2>7 DEF ClaimsInv
<1> QED  BY <1>4, <1>5 DEF FinishCommand

LEMMA ClaimsTick ==
  ASSUME FleetParameters, ClaimsInv, FleetTick
  PROVE  ClaimsInv'
<1> DEFINE row(c) == IF queue[c].state = "claimed" /\ queue[c].age < ClaimTTL
                     THEN [queue[c] EXCEPT !.age = @ + 1] ELSE queue[c]
<1>1. queue' = [c \in Commands |-> row(c)] /\ job' = job  BY DEF FleetTick
<1>2. \A c \in Commands : /\ row(c) \in Rows /\ row(c).state = queue[c].state
                          /\ row(c).owner = queue[c].owner
                          /\ row(c).claims = queue[c].claims
                          /\ row(c).result = queue[c].result
  BY DEF ClaimsInv, ClaimsTyped, Rows
<1> HIDE DEF row
<1>3. ClaimsTyped'  BY <1>1, <1>2 DEF ClaimsInv, ClaimsTyped
<1>4. OwnClaimIsLatest'
  BY <1>1, <1>2 DEF ClaimsInv, ClaimsTyped, OwnClaimIsLatest, Jobs
<1>5. ResultOfLatestClaim'  BY <1>1, <1>2 DEF ClaimsInv, ResultOfLatestClaim
<1> QED  BY <1>3, <1>4, <1>5 DEF ClaimsInv

-----------------------------------------------------------------------------
LEMMA ClaimsRefresh ==
  ASSUME NEW w \in Workers, RefreshStep(w)
  PROVE  UNCHANGED <<queue, job>>
BY DEF RefreshStep, LoadAccounts, CompareAccounts, RemoveUnwanted, EndRefresh, StopNext,
       AcquireLease, ExtendLease, RefreshKept

LEMMA ClaimsCommandStep ==
  ASSUME NEW w \in Workers, NEW a \in Accts, ClaimsInv, CommandStep(w, a)
  PROVE  ClaimsInv'
<1>1. CASE RunCommand(w, a)
  <2>1. UNCHANGED queue /\ job[w][a] # NoJob /\ \E s \in Stages : Stage(w, a, s)
    BY <1>1 DEF RunCommand, Stages
  <2> QED  BY <2>1, ClaimsStaged
<1>2. CASE WriteStatus(w, a)
  BY <1>2, ClaimsStaged DEF WriteStatus, Stages
<1>3. CASE CommandStopped(w, a)
  BY <1>3, ClaimsStaged DEF CommandStopped, Stages
<1>4. CASE FinishCommand(w, a)
  BY <1>4, ClaimsFinish
<1> QED  BY <1>1, <1>2, <1>3, <1>4 DEF CommandStep

LEMMA ClaimsForgotten ==
  ASSUME NEW w \in Workers, ClaimsInv, Forgotten(w), UNCHANGED queue
  PROVE  ClaimsInv'
BY ClaimsEnded DEF Forgotten, ClaimsInv, ClaimsTyped

LEMMA ClaimsWorker ==
  ASSUME FleetParameters, NEW w \in Workers, ClaimsInv, WorkerStep(w)
  PROVE  ClaimsInv'
<1>1. CASE RefreshStep(w)
  BY <1>1, ClaimsRefresh, ClaimsUntouched
<1>2. CASE TakeCommand(w)
  BY <1>2, ClaimsClaim, ClaimsDispatch, ClaimsUntouched DEF TakeCommand, RouteCommand
<1>3. CASE BeatWrite(w) \/ ShutdownStep(w)
  BY <1>3, ClaimsUntouched, ClaimsForgotten
     DEF BeatWrite, ShutdownStep, EndShutdown, ShutdownStops
<1>4. CASE \E who \in Coroutines : FinishStop(w, who)
  BY <1>4, ClaimsUntouched DEF FinishStop
<1>5. ASSUME NEW a \in Accts,
             RenewLease(w, a) \/ TaskSeesNoLicence(w, a) \/ BeatRead(w, a)
      PROVE  ClaimsInv'
  BY <1>5, ClaimsUntouched DEF RenewLease, TaskSeesNoLicence, TaskReturns, BeatRead, RefreshKept
<1>6. ASSUME NEW a \in Accts, CommandStep(w, a)
      PROVE  ClaimsInv'
  BY <1>6, ClaimsCommandStep
<1> QED  BY <1>1, <1>2, <1>3, <1>4, <1>5, <1>6 DEF WorkerStep

LEMMA ClaimsUpset ==
  ASSUME ClaimsInv, FleetUpset
  PROVE  ClaimsInv'
<1>1. CASE Operator
  BY <1>1, ClaimsUntouched DEF Operator
<1>2. ASSUME NEW w \in Workers, CrashWorker(w) \/ BeginShutdown(w) \/ StartUnconnected(w)
      PROVE  ClaimsInv'
  <2>1. CASE CrashWorker(w)
    BY <2>1, ClaimsForgotten DEF CrashWorker
  <2>2. CASE BeginShutdown(w)
    <3>1. UNCHANGED queue /\ job' \in {job, [job EXCEPT ![w] = [a \in Accts |-> NoJob]]}
      BY <2>2 DEF BeginShutdown
    <3> QED  BY <3>1, ClaimsEnded DEF ClaimsInv, ClaimsTyped
  <2>3. CASE StartUnconnected(w)
    BY <2>3, ClaimsUntouched DEF StartUnconnected, Starting
  <2> QED  BY <1>2, <2>1, <2>2, <2>3
<1>3. ASSUME NEW w \in Workers, NEW a \in Accts, AcquireFails(w, a) \/ TaskReturns(w, a)
      PROVE  ClaimsInv'
  BY <1>3, ClaimsUntouched DEF AcquireFails, TaskReturns, RefreshKept
<1>4. ASSUME NEW w \in Workers, NEW a \in Accts, ConsumeFails(w, a)
      PROVE  ClaimsInv'
  BY <1>4, ClaimsEnded DEF ConsumeFails, ClaimsInv, ClaimsTyped
<1>5. ASSUME NEW w \in Workers, NEW who \in Coroutines, ReleaseFails(w, who)
      PROVE  ClaimsInv'
  BY <1>5, ClaimsUntouched DEF ReleaseFails
<1> QED  BY <1>1, <1>2, <1>3, <1>4, <1>5 DEF FleetUpset

LEMMA ClaimsPreserved == ClaimsInv /\ [FleetNext]_fleetVars => ClaimsInv'
<1>1. SUFFICES ASSUME ClaimsInv, [FleetNext]_fleetVars PROVE ClaimsInv'
  OBVIOUS
<1>2. FleetParameters  BY FleetParameters
<1>3. CASE FleetTick
  BY <1>1, <1>2, <1>3, ClaimsTick
<1>4. CASE \E w \in Workers : WorkerStep(w)
  BY <1>1, <1>2, <1>4, ClaimsWorker
<1>5. CASE \E c \in Commands : PublishCommand(c)
  BY <1>1, <1>5, ClaimsPublish
<1>6. CASE \E w \in Workers : StartWorker(w)
  BY <1>1, <1>6, ClaimsUntouched DEF StartWorker, Starting
<1>7. CASE FleetUpset
  BY <1>1, <1>7, ClaimsUpset
<1>8. CASE UNCHANGED fleetVars
  BY <1>1, <1>8, ClaimsUntouched DEF fleetVars
<1> QED  BY <1>1, <1>3, <1>4, <1>5, <1>6, <1>7, <1>8 DEF FleetNext

(* Whatever workers crash, stall past their claim or lose the database, the *)
(* result recorded on a command is that of its latest claim:                *)
(* _mark_worker_command_consumed filters on status and worker id.           *)
THEOREM LatestClaimTheorem == FleetSpec => []ResultOfLatestClaim
<1>1. ClaimsInv => ResultOfLatestClaim  BY DEF ClaimsInv
<1> QED  BY <1>1, ClaimsAtStart, ClaimsPreserved, PTL DEF FleetSpec

-----------------------------------------------------------------------------
(* The reply loop of one account.                                           *)
ReplyTyped ==
  /\ inbox = [size |-> inbox.size, upsets |-> inbox.upsets, online |-> inbox.online,
              peerLimit |-> inbox.peerLimit, posted |-> inbox.posted]
  /\ inbox.posted \in Nat
  /\ cursors = [memory |-> cursors.memory, file |-> cursors.file, conv |-> cursors.conv]
  /\ cursors.memory \in Nat /\ cursors.file \in Nat
  /\ round = [pc |-> round.pc, mode |-> round.mode, backfill |-> round.backfill,
              from |-> round.from, next |-> round.next, page |-> round.page,
              can |-> round.can, batch |-> round.batch, hint |-> round.hint]
  /\ round.next \in Nat /\ round.mode \in {"user", "conversation"}
  /\ rows = [m \in Inbound |-> rows[m]]
  /\ delivered \in [Messages -> Nat] /\ unrecorded \in [Messages -> Nat]

Seen(m) == rows[m] # "none" \/ m \in passedOver

(* Every inbound message up to n has been seen by a scan.                   *)
SeenUpTo(n) == \A m \in Inbound : m <= n => Seen(m)

(* Both cursors stand behind what was seen, and what a scan of the account  *)
(* has taken from its page, or found behind its cursor, was seen.           *)
ScansMissNothing ==
  /\ SeenUpTo(cursors.file) /\ SeenUpTo(cursors.memory)
  /\ round.pc = "store" /\ round.mode = "user"
       => \A m \in Inbound : m <= round.next /\ m \notin round.page => Seen(m)

ScanInv == ReplyTyped /\ ScansMissNothing

(* What an answer in hand still has to be recorded as.                      *)
InHand(m) == Answering("log") /\ m = Current

LEMMA OneMore ==
  ASSUME NEW f \in [Messages -> Nat], NEW c
  PROVE  LET g == [f EXCEPT ![c] = @ + 1]
         IN  /\ g \in [Messages -> Nat]
             /\ \A m \in Messages : g[m] = IF m = c THEN f[m] + 1 ELSE f[m]
<1> DEFINE g == [f EXCEPT ![c] = @ + 1]
<1>1. g = [m \in Messages |-> IF m = c THEN f[m] + 1 ELSE f[m]]
  OBVIOUS
<1> HIDE DEF g
<1>2. g \in [Messages -> Nat] /\ \A m \in Messages : g[m] = IF m = c THEN f[m] + 1 ELSE f[m]
  BY <1>1
<1> QED  BY <1>2 DEF g

(* Every delivery is recorded, counted as unrecorded, or about to be one of *)
(* the two; and nothing recorded is being sent.                             *)
DeliveriesAccounted ==
  /\ \A m \in Messages :
       delivered[m] <= unrecorded[m] + (IF m \in answered \/ InHand(m) THEN 1 ELSE 0)
  /\ Answering("send") \/ Answering("log") => Current \notin answered

AnswerInv == ReplyTyped /\ DeliveriesAccounted

-----------------------------------------------------------------------------
LEMMA ReplyAtStart == ReplyInit => ScanInv /\ AnswerInv
<1>1. SUFFICES ASSUME ReplyInit PROVE ScanInv /\ AnswerInv
  OBVIOUS
<1>2. PICK b \in Inboxes : inbox = [size |-> b.size, upsets |-> b.upsets, online |-> b.online,
                                    peerLimit |-> b.peerLimit, posted |-> 0]
  BY <1>1 DEF ReplyInit
<1>3. ReplyTyped
  BY <1>1, <1>2 DEF ReplyInit, ReplyTyped, Resting
<1>4. ScansMissNothing
  BY <1>1 DEF ReplyInit, ScansMissNothing, SeenUpTo, Resting, Inbound, Messages
<1>5. DeliveriesAccounted
  BY <1>1 DEF ReplyInit, DeliveriesAccounted, Answering, InHand, Resting
<1> QED  BY <1>3, <1>4, <1>5 DEF ScanInv, AnswerInv

(* A step that unsees nothing, and moves the cursors only to each other's   *)
(* place or back to the start, keeps what the scans have seen.              *)
LEMMA ScanKept ==
  ASSUME ScanInv, ReplyTyped',
         \A m \in Inbound : Seen(m) => Seen(m)',
         {cursors'.memory, cursors'.file} \subseteq {cursors.memory, cursors.file, 0},
         \/ round'.pc # "store"
         \/ /\ round.pc = "store" /\ round'.mode = round.mode /\ round'.next = round.next
            /\ \A m \in round.page \ round'.page : m \in Inbound => Seen(m)'
  PROVE  ScanInv'
<1>1. \A m \in Inbound : m \in Nat /\ m # 0
  BY DEF Inbound, Messages
<1>2. SeenUpTo(cursors.file)' /\ SeenUpTo(cursors.memory)'
  BY <1>1 DEF ScanInv, ReplyTyped, ScansMissNothing, SeenUpTo
<1>3. ASSUME round'.pc = "store", round'.mode = "user", NEW m \in Inbound,
             m <= round'.next, m \notin round'.page
      PROVE  Seen(m)'
  BY <1>1, <1>3 DEF ScanInv, ScansMissNothing
<1> QED  BY <1>2, <1>3 DEF ScanInv, ScansMissNothing

(* A step that sends and records nothing keeps the account of deliveries,   *)
(* unless an answer in hand is dropped.                                     *)
LEMMA AnswerKept ==
  ASSUME AnswerInv, ReplyTyped', UNCHANGED <<answered, delivered>>,
         \/ UNCHANGED <<round, unrecorded>>
         \/ /\ ~Answering("log") /\ UNCHANGED unrecorded
            /\ round'.pc \notin {"send", "log"}
         \/ unrecorded' = Interrupted /\ round'.pc = "idle"
  PROVE  AnswerInv'
<1>1. CASE UNCHANGED <<round, unrecorded>>
  BY <1>1 DEF AnswerInv, DeliveriesAccounted, InHand, Answering, Current
<1>2. CASE /\ ~Answering("log") /\ UNCHANGED unrecorded
           /\ round'.pc \notin {"send", "log"}
  BY <1>2 DEF AnswerInv, DeliveriesAccounted, InHand, Answering
<1>3. CASE unrecorded' = Interrupted /\ round'.pc = "idle"
  <2>1. ~Answering("send")' /\ ~Answering("log")' /\ \A m : ~InHand(m)'
    BY <1>3 DEF Answering, InHand
  <2>2. ASSUME NEW m \in Messages
        PROVE  delivered[m] <= unrecorded'[m] + (IF m \in answered THEN 1 ELSE 0)
    BY <1>3, <2>2 DEF AnswerInv, ReplyTyped, DeliveriesAccounted, InHand, Interrupted
  <2> QED  BY <2>1, <2>2 DEF AnswerInv, DeliveriesAccounted
<1> QED  BY <1>1, <1>2, <1>3

ReplyInv == ScanInv /\ AnswerInv

LEMMA ReplyPass ==
  ASSUME ReplyTyped, NEW pc, Pass(pc)
  PROVE  round' = [pc |-> pc, mode |-> round.mode, backfill |-> round.backfill,
                   from |-> round.from, next |-> round.next, page |-> round.page,
                   can |-> round.can, batch |-> round.batch, hint |-> round.hint]
BY DEF ReplyTyped, Pass

(* A step that leaves the loop's own state alone.                           *)
LEMMA ReplyOutside ==
  ASSUME ReplyInv, ReplyTyped',
         UNCHANGED <<cursors, rows, round, passedOver, answered, delivered, unrecorded>>
  PROVE  ReplyInv'
<1>1. ScanInv'  BY ScanKept DEF ReplyInv, ScanInv, Seen
<1>2. AnswerInv'  BY AnswerKept DEF ReplyInv
<1> QED  BY <1>1, <1>2 DEF ReplyInv

LEMMA ReplySurroundings ==
  ASSUME ReplyInv,
         PostMessage \/ ResetDailyQuota \/ ImportLogin \/ ToggleAutoReply \/ PanelSaves
           \/ ProbeInvalidates
  PROVE  ReplyInv'
<1>1. UNCHANGED <<cursors, rows, round, passedOver, answered, delivered, unrecorded>>
  BY DEF PostMessage, ResetDailyQuota, ImportLogin, ToggleAutoReply, PanelLoads, PanelSaves,
         ProbeInvalidates, Recorded
<1>2. /\ inbox' = [size |-> inbox'.size, upsets |-> inbox'.upsets, online |-> inbox'.online,
                   peerLimit |-> inbox'.peerLimit, posted |-> inbox'.posted]
      /\ inbox'.posted \in Nat
  BY DEF ReplyInv, ScanInv, ReplyTyped, PostMessage, ResetDailyQuota, ImportLogin,
         ToggleAutoReply, PanelLoads, PanelSaves, ProbeInvalidates
<1>3. ReplyTyped'  BY <1>1, <1>2 DEF ReplyInv, ScanInv, ReplyTyped
<1> QED  BY <1>1, <1>3, ReplyOutside

(* The steps of a scan.                                                     *)
LEMMA RoundCursors ==
  ASSUME ReplyTyped
  PROVE  LET c == CursorsOfRound
         IN  /\ c = [memory |-> c.memory, file |-> c.file, conv |-> c.conv]
             /\ c.memory \in Nat /\ c.file \in Nat
             /\ c.memory \in {cursors.memory, cursors.file, 0}
             /\ c.file \in {cursors.file, 0}
<1> DEFINE f == IF account.synced /\ ~HasConversation THEN 0 ELSE cursors.file
           n == IF cursors.memory > 0 THEN cursors.memory ELSE f
<1>1. CursorsOfRound = [cursors EXCEPT !.file = f, !.memory = n]
  BY DEF CursorsOfRound
<1>2. f \in {cursors.file, 0} /\ n \in {cursors.memory, f}
  OBVIOUS
<1> HIDE DEF f, n
<1>3. CursorsOfRound = [memory |-> n, file |-> f, conv |-> cursors.conv]
  BY <1>1 DEF ReplyTyped
<1> QED  BY <1>2, <1>3 DEF ReplyTyped

LEMMA ReplyFetches ==
  ASSUME ReplyTyped, NEW mode, NEW from, Fetch(mode, from)
  PROVE  /\ round' = [pc |-> "store", mode |-> mode, backfill |-> round'.backfill,
                      from |-> from, next |-> inbox.posted, page |-> {m \in Posted : m > from},
                      can |-> round'.can, batch |-> <<>>, hint |-> round'.hint]
BY DEF ReplyTyped, Fetch, Resting

LEMMA ReplyScans ==
  ASSUME ReplyInv, ScanInbox
  PROVE  ReplyInv'
<1> DEFINE from == CursorsOfRound.memory
<1>1. ReplyTyped  BY DEF ReplyInv, ScanInv
<1>2. /\ round' = [pc |-> "store", mode |-> "user", backfill |-> round'.backfill,
                   from |-> from, next |-> inbox.posted, page |-> {m \in Posted : m > from},
                   can |-> round'.can, batch |-> <<>>, hint |-> round'.hint]
      /\ cursors' = CursorsOfRound
  BY <1>1, ReplyFetches DEF ScanInbox
<1>3. /\ cursors' = [memory |-> cursors'.memory, file |-> cursors'.file, conv |-> cursors'.conv]
      /\ cursors'.memory \in Nat /\ cursors'.file \in Nat /\ from = cursors'.memory
      /\ {cursors'.memory, cursors'.file} \subseteq {cursors.memory, cursors.file, 0}
  BY <1>1, <1>2, RoundCursors
<1> HIDE DEF from
<1>4. ReplyTyped'
  BY <1>1, <1>2, <1>3 DEF ReplyTyped, ScanInbox, Recorded
<1>5. UNCHANGED <<rows, passedOver, answered, delivered, unrecorded>>
  BY DEF ScanInbox, Recorded
<1>6. \A m \in Inbound : m \in Nat /\ m # 0
  BY DEF Inbound, Messages
<1>7. SeenUpTo(cursors.file)' /\ SeenUpTo(cursors.memory)'
  BY <1>3, <1>5, <1>6 DEF ReplyInv, ScanInv, ScansMissNothing, SeenUpTo, Seen
<1>8. ASSUME NEW m \in Inbound, m <= round'.next, m \notin round'.page
      PROVE  Seen(m)'
  <2>1. round'.next = inbox.posted /\ round'.page = {n \in Posted : n > from}
    BY <1>2
  <2>2. m \in Nat /\ m # 0 /\ inbox.posted \in Nat /\ from \in Nat
    BY <1>1, <1>3, <1>6 DEF ReplyTyped
  <2>3. m <= cursors'.memory
    BY <1>3, <1>8, <2>1, <2>2 DEF Posted
  <2> QED  BY <1>7, <2>3 DEF SeenUpTo
<1>9. ScanInv'
  BY <1>4, <1>7, <1>8 DEF ScanInv, ScansMissNothing
<1>10. AnswerInv'
  BY <1>2, <1>4, <1>5, AnswerKept DEF ReplyInv, ScanInbox, Ready, Answering
<1> QED  BY <1>9, <1>10 DEF ReplyInv

LEMMA ReplyScansConversation ==
  ASSUME ReplyInv, ScanConversation
  PROVE  ReplyInv'
<1> DEFINE known == IF cursors.conv > 0 THEN cursors.conv ELSE Largest(Stored)
<1>1. ReplyTyped  BY DEF ReplyInv, ScanInv
<1>2. /\ round' = [pc |-> "store", mode |-> "conversation", backfill |-> round'.backfill,
                   from |-> known, next |-> inbox.posted, page |-> {m \in Posted : m > known},
                   can |-> round'.can, batch |-> <<>>, hint |-> round'.hint]
      /\ cursors' = [cursors EXCEPT !.conv = known]
  BY <1>1, ReplyFetches DEF ScanConversation
<1> HIDE DEF known
<1>7. cursors' = [memory |-> cursors.memory, file |-> cursors.file, conv |-> known]
  BY <1>1, <1>2 DEF ReplyTyped
<1>8. round'.next = inbox.posted /\ round'.mode = "conversation"
  BY <1>2
<1>9. UNCHANGED <<inbox, rows, delivered, unrecorded>>
  BY DEF ScanConversation, Recorded
<1>3. ReplyTyped'
  BY <1>1, <1>2, <1>7, <1>8, <1>9 DEF ReplyTyped
<1>4. UNCHANGED <<rows, passedOver, answered, delivered, unrecorded>>
      /\ cursors'.file = cursors.file /\ cursors'.memory = cursors.memory
      /\ round'.mode = "conversation"
  BY <1>1, <1>2 DEF ScanConversation, Recorded, ReplyTyped
<1>5. ScanInv'
  BY <1>3, <1>4 DEF ReplyInv, ScanInv, ScansMissNothing, SeenUpTo, Seen
<1>6. AnswerInv'
  BY <1>2, <1>3, <1>4, AnswerKept DEF ReplyInv, ScanConversation, Ready, Answering
<1> QED  BY <1>5, <1>6 DEF ReplyInv

LEMMA ReplyTakes ==
  ASSUME ReplyTyped, NEW m, NEW batch, Taken(m, batch)
  PROVE  round' = [pc |-> round.pc, mode |-> round.mode, backfill |-> round.backfill,
                   from |-> round.from, next |-> round.next, page |-> round.page \ {m},
                   can |-> round.can, batch |-> batch, hint |-> round.hint]
BY DEF ReplyTyped, Taken

(* A message leaves the page when it has been stored or passed over.        *)
LEMMA ReplyStores ==
  ASSUME ReplyInv, NEW m \in Messages, StoreMessage(m) \/ StoreFails(m)
                                             \/ TrimHistory(m) \/ TakeNotice(m)
  PROVE  ReplyInv'
<1>1. ReplyTyped  BY DEF ReplyInv, ScanInv
<1>2. round.pc = "store" /\ \E batch : Taken(m, batch)
  BY DEF StoreMessage, StoreFails, TrimHistory, TakeNotice
<1>3. PICK batch : round' = [pc |-> round.pc, mode |-> round.mode, backfill |-> round.backfill,
                   from |-> round.from, next |-> round.next, page |-> round.page \ {m},
                   can |-> round.can, batch |-> batch, hint |-> round.hint]
  BY <1>1, <1>2, ReplyTakes
<1>4. rows' = [n \in Inbound |-> rows'[n]]
  BY <1>1 DEF ReplyTyped, StoreMessage, StoreFails, TrimHistory, TakeNotice
<1>5. UNCHANGED <<inbox, cursors, answered, delivered, unrecorded>>
  BY DEF StoreMessage, StoreFails, TrimHistory, TakeNotice, Recorded
<1>6. ReplyTyped'
  BY <1>1, <1>3, <1>4, <1>5 DEF ReplyTyped
<1>7. \A n \in Inbound : Seen(n) => Seen(n)'
  BY <1>1 DEF ReplyTyped, Seen, StoreMessage, StoreFails, TrimHistory, TakeNotice
<1>8. m \in Inbound => Seen(m)'
  BY <1>1 DEF ReplyTyped, Seen, StoreMessage, StoreFails, TrimHistory, TakeNotice, Inbound
<1>9. ScanInv'
  BY <1>2, <1>3, <1>5, <1>6, <1>7, <1>8, ScanKept DEF ReplyInv, ScanInv, ReplyTyped
<1>10. AnswerInv'
  BY <1>2, <1>3, <1>5, <1>6, AnswerKept DEF ReplyInv, Answering
<1> QED  BY <1>9, <1>10 DEF ReplyInv

LEMMA ReplySaves ==
  ASSUME ReplyInv, NEW fileWritten \in BOOLEAN, SaveCursor(fileWritten)
  PROVE  ReplyInv'
<1>1. ReplyTyped  BY DEF ReplyInv, ScanInv
<1>2. /\ round' = [pc |-> round'.pc, mode |-> round.mode, backfill |-> round.backfill,
                   from |-> round.from, next |-> round.next, page |-> {},
                   can |-> round.can, batch |-> round.batch, hint |-> FALSE]
      /\ round'.pc \in {"history", "recover"} /\ round.pc = "store" /\ round.page = {}
      /\ UNCHANGED <<inbox, rows, passedOver, answered, delivered, unrecorded>>
  BY <1>1 DEF ReplyTyped, SaveCursor, PageTaken, Recorded
<1>3. /\ cursors' = [memory |-> cursors'.memory, file |-> cursors'.file, conv |-> cursors'.conv]
      /\ \/ cursors'.memory = cursors.memory /\ cursors'.file = cursors.file
         \/ /\ round.mode # "conversation" /\ cursors'.memory = round.next
            /\ cursors'.file \in {cursors.file, round.next}
  BY <1>1 DEF ReplyTyped, SaveCursor, Advanced
<1>4. ReplyTyped'
  BY <1>1, <1>2, <1>3 DEF ReplyTyped
<1>5. \A m \in Inbound : Seen(m) => Seen(m)'
  BY <1>2 DEF Seen
<1>6. ASSUME cursors'.memory = cursors.memory, cursors'.file = cursors.file
      PROVE  ScanInv'
  BY <1>2, <1>4, <1>5, <1>6, ScanKept DEF ReplyInv
<1>7. ASSUME round.mode # "conversation", cursors'.memory = round.next,
             cursors'.file \in {cursors.file, round.next}
      PROVE  ScanInv'
  <2>1. SeenUpTo(round.next) /\ SeenUpTo(cursors.file)
    BY <1>1, <1>2, <1>7 DEF ReplyInv, ScanInv, ScansMissNothing, SeenUpTo, ReplyTyped
  <2>2. SeenUpTo(cursors.file)' /\ SeenUpTo(cursors.memory)'
    BY <1>2, <1>7, <2>1 DEF SeenUpTo, Seen
  <2> QED  BY <1>2, <1>4, <2>2 DEF ScanInv, ScansMissNothing
<1>8. ScanInv'  BY <1>3, <1>6, <1>7
<1>9. AnswerInv'
  BY <1>2, <1>4, AnswerKept DEF ReplyInv, Answering
<1> QED  BY <1>8, <1>9 DEF ReplyInv

(* The steps of a round that change rows, the account or the batch, but     *)
(* send and record nothing.                                                 *)
LEMMA ReplyTurns ==
  ASSUME ReplyInv, ReplyTyped', UNCHANGED <<cursors, passedOver, answered, delivered, unrecorded>>,
         \A m \in Inbound : rows[m] # "none" => rows'[m] # "none",
         round'.pc \notin {"store", "send", "log"}, ~Answering("log")
  PROVE  ReplyInv'
<1>1. ScanInv'  BY ScanKept DEF ReplyInv, Seen
<1>2. AnswerInv'  BY AnswerKept DEF ReplyInv
<1> QED  BY <1>1, <1>2 DEF ReplyInv

LEMMA ReplyRows ==
  ASSUME ReplyTyped, NEW m
  PROVE  /\ Processed(m) = [n \in Inbound |-> Processed(m)[n]]
         /\ \A n \in Inbound : rows[n] # "none" => Processed(m)[n] # "none"
BY DEF ReplyTyped, Processed

LEMMA ReplyEndsScan ==
  ASSUME ReplyInv, EndHistory \/ (\E again \in BOOLEAN : RecoverPending(again))
  PROVE  ReplyInv'
<1>1. ReplyTyped  BY DEF ReplyInv, ScanInv
<1>2. PICK batch : round' = [pc |-> "answer", mode |-> round.mode, backfill |-> round.backfill,
                   from |-> round.from, next |-> round.next, page |-> round.page,
                   can |-> round.can, batch |-> batch, hint |-> round.hint]
  BY <1>1 DEF ReplyTyped, EndHistory, RecoverPending, Pass
<1>3. /\ rows' = [n \in Inbound |-> rows'[n]]
      /\ \A n \in Inbound : rows[n] # "none" => rows'[n] # "none"
  BY <1>1 DEF ReplyTyped, EndHistory, RecoverPending
<1>4. /\ UNCHANGED <<inbox, cursors, passedOver, answered, delivered, unrecorded>>
      /\ round.pc \in {"history", "recover"}
  BY DEF EndHistory, RecoverPending, Recorded
<1>5. ReplyTyped'  BY <1>1, <1>2, <1>3, <1>4 DEF ReplyTyped
<1> QED  BY <1>2, <1>3, <1>4, <1>5, ReplyTurns DEF Answering

(* The steps that take a message on or end it without sending it.           *)
LEMMA ReplyMovesOn ==
  ASSUME ReplyInv, EndRound \/ CountReply \/ MarkSendable \/ Settle
  PROVE  ReplyInv'
<1>1. ReplyTyped  BY DEF ReplyInv, ScanInv
<1>2. /\ round' = [pc |-> round'.pc, mode |-> round'.mode, backfill |-> round'.backfill,
                   from |-> round'.from, next |-> round'.next, page |-> round'.page,
                   can |-> round'.can, batch |-> round'.batch, hint |-> round'.hint]
      /\ round'.next \in Nat /\ round'.mode \in {"user", "conversation"}
      /\ round'.pc \in {"idle", "settle", "sendable", "answer"}
  <2>1. CASE EndRound
    <3>1. PICK signal : round' = [Resting EXCEPT !.hint = signal]
      BY <2>1 DEF EndRound
    <3> QED  BY <3>1 DEF Resting
  <2>2. CASE CountReply \/ MarkSendable
    BY <1>1, <2>2 DEF CountReply, MarkSendable, Pass, ReplyTyped
  <2>3. CASE Settle
    BY <1>1, <2>3 DEF Settle, ReplyTyped
  <2> QED  BY <2>1, <2>2, <2>3
<1>3. /\ rows' = [n \in Inbound |-> rows'[n]]
      /\ \A n \in Inbound : rows[n] # "none" => rows'[n] # "none"
  <2>1. rows' = rows \/ rows' = Processed(Current)
    BY DEF EndRound, CountReply, MarkSendable, Settle
  <2> QED  BY <1>1, <2>1, ReplyRows DEF ReplyTyped
<1>4. /\ UNCHANGED <<inbox, cursors, passedOver, answered, delivered, unrecorded>>
      /\ ~Answering("log")
  BY DEF EndRound, CountReply, MarkSendable, Settle, Recorded, Answering
<1>5. ReplyTyped'  BY <1>1, <1>2, <1>3, <1>4 DEF ReplyTyped
<1> QED  BY <1>2, <1>3, <1>4, <1>5, ReplyTurns

(* A send that fails delivered nothing on record: what it may have          *)
(* delivered is counted as unrecorded.                                      *)
LEMMA SendingKept ==
  ASSUME ReplyTyped, DeliveriesAccounted, ~Answering("log"), PerhapsDelivered
  PROVE  /\ delivered' \in [Messages -> Nat] /\ unrecorded' \in [Messages -> Nat]
         /\ \A m \in Messages :
              delivered'[m] <= unrecorded'[m] + (IF m \in answered THEN 1 ELSE 0)
<1>1. delivered' \in [Messages -> Nat] /\ unrecorded' \in [Messages -> Nat]
  BY OneMore DEF ReplyTyped, PerhapsDelivered
<1>2. ASSUME NEW m \in Messages
      PROVE  delivered'[m] <= unrecorded'[m] + (IF m \in answered THEN 1 ELSE 0)
  <2>1. delivered[m] <= unrecorded[m] + (IF m \in answered THEN 1 ELSE 0)
        /\ delivered[m] \in Nat /\ unrecorded[m] \in Nat
    BY DEF DeliveriesAccounted, InHand, ReplyTyped
  <2>2. CASE UNCHANGED <<delivered, unrecorded>>
    BY <2>1, <2>2
  <2>3. CASE /\ delivered' = [delivered EXCEPT ![Current] = @ + 1]
             /\ unrecorded' = [unrecorded EXCEPT ![Current] = @ + 1]
    <3>1. /\ delivered'[m] = IF m = Current THEN delivered[m] + 1 ELSE delivered[m]
          /\ unrecorded'[m] = IF m = Current THEN unrecorded[m] + 1 ELSE unrecorded[m]
      BY <2>3, OneMore DEF ReplyTyped
    <3> QED  BY <2>1, <3>1
  <2> QED  BY <2>2, <2>3 DEF PerhapsDelivered
<1> QED  BY <1>1, <1>2

(* A send that is refused or fails, and an account whose login is found to  *)
(* have expired while a page is read or an answer sent.                     *)
LEMMA ReplyBreaksOff ==
  ASSUME ReplyInv, RefusedForRisk \/ SendFails \/ LoginExpires
  PROVE  ReplyInv'
<1>1. ReplyTyped /\ DeliveriesAccounted  BY DEF ReplyInv, ScanInv, AnswerInv
<1>2. /\ round' = [pc |-> round'.pc, mode |-> round'.mode, backfill |-> round'.backfill,
                   from |-> round'.from, next |-> round'.next, page |-> round'.page,
                   can |-> round'.can, batch |-> round'.batch, hint |-> round'.hint]
      /\ round'.next \in Nat /\ round'.mode \in {"user", "conversation"}
      /\ round'.pc \in {"idle", "settle"}
  <2>1. CASE LoginExpires
    BY <2>1 DEF LoginExpires, Resting
  <2>2. CASE RefusedForRisk \/ SendFails
    BY <1>1, <2>2 DEF RefusedForRisk, SendFails, Pass, ReplyTyped
  <2> QED  BY <2>1, <2>2
<1>3. /\ UNCHANGED <<inbox, cursors, rows, passedOver, answered>>
      /\ ~Answering("log")
      /\ UNCHANGED <<delivered, unrecorded>> \/ PerhapsDelivered
  BY DEF RefusedForRisk, SendFails, LoginExpires, Answering
<1>4. /\ delivered' \in [Messages -> Nat] /\ unrecorded' \in [Messages -> Nat]
      /\ \A m \in Messages :
           delivered'[m] <= unrecorded'[m] + (IF m \in answered THEN 1 ELSE 0)
  BY <1>1, <1>3, SendingKept DEF PerhapsDelivered
<1>5. ReplyTyped'  BY <1>1, <1>2, <1>3, <1>4 DEF ReplyTyped
<1>6. ScanInv'
  BY <1>2, <1>3, <1>5, ScanKept DEF ReplyInv, Seen
<1>7. ~Answering("send")' /\ ~Answering("log")' /\ \A m : ~InHand(m)'
  BY <1>2 DEF Answering, InHand
<1>8. DeliveriesAccounted'
  BY <1>3, <1>4, <1>7 DEF DeliveriesAccounted
<1> QED  BY <1>5, <1>6, <1>8 DEF ReplyInv, AnswerInv

(* The steps that judge, send and record an answer.                         *)
LEMMA ReplyAnswers ==
  ASSUME ReplyInv, JudgeMessage \/ Deliver \/ WriteLog \/ LogFails
  PROVE  ReplyInv'
<1>1. ReplyTyped  BY DEF ReplyInv, ScanInv
<1>2. PICK pc \in {"settle", "send", "log", "count"} : Pass(pc)
  BY DEF JudgeMessage, Deliver, WriteLog, LogFails
<1>3. round' = [pc |-> pc, mode |-> round.mode, backfill |-> round.backfill,
                from |-> round.from, next |-> round.next, page |-> round.page,
                can |-> round.can, batch |-> round.batch, hint |-> round.hint]
  BY <1>1, <1>2, ReplyPass
<1>4. UNCHANGED <<inbox, cursors, rows, passedOver>> /\ round.batch # <<>>
  BY DEF JudgeMessage, Deliver, WriteLog, LogFails, Recorded, Answering
<1>5. delivered' \in [Messages -> Nat] /\ unrecorded' \in [Messages -> Nat]
  BY <1>1 DEF JudgeMessage, Deliver, WriteLog, LogFails, Recorded, ReplyTyped
<1>6. ReplyTyped'  BY <1>1, <1>3, <1>4, <1>5 DEF ReplyTyped
<1>7. ScanInv'
  BY <1>3, <1>4, <1>6, ScanKept DEF ReplyInv, Seen
<1>8. Current' = Current /\ round'.batch # <<>> /\ round'.pc = pc
  BY <1>3, <1>4 DEF Current
<1>9. DeliveriesAccounted'
  <2>0. ReplyTyped /\ DeliveriesAccounted  BY DEF ReplyInv, AnswerInv
  <2>1. CASE JudgeMessage
    <3>1. UNCHANGED <<answered, delivered, unrecorded>> /\ round.pc = "answer"
          /\ round'.pc \in {"settle", "send"}
          /\ (round'.pc = "send" => Current \notin answered)
      BY <1>1, <2>1 DEF JudgeMessage, Recorded, Answering, TriggerReplied, Pass, ReplyTyped
    <3> QED  BY <2>0, <3>1, <1>8 DEF DeliveriesAccounted, Answering, InHand
  <2>2. CASE Deliver
    <3>1. round.pc = "send" /\ round'.pc = "log" /\ Current \notin answered
          /\ UNCHANGED <<answered, unrecorded>>
          /\ delivered' = [delivered EXCEPT ![Current] = @ + 1]
      BY <1>1, <2>0, <2>2 DEF Deliver, Answering, Pass, ReplyTyped, DeliveriesAccounted
    <3>2. ASSUME NEW m \in Messages
          PROVE  delivered'[m] <= unrecorded'[m] + (IF m \in answered' \/ InHand(m)' THEN 1 ELSE 0)
      BY <2>0, <3>1, <1>8 DEF DeliveriesAccounted, Answering, InHand, ReplyTyped
    <3> QED  BY <3>1, <3>2, <1>8 DEF DeliveriesAccounted, Answering
  <2>4. CASE WriteLog
    <3>1. round.pc = "log" /\ round'.pc = "count" /\ UNCHANGED <<delivered, unrecorded>>
          /\ answered' = answered \cup {Current}
      BY <1>1, <2>4 DEF WriteLog, Answering, Pass, ReplyTyped
    <3>2. ASSUME NEW m \in Messages
          PROVE  delivered'[m] <= unrecorded'[m] + (IF m \in answered' THEN 1 ELSE 0)
      BY <2>0, <3>1, <1>4 DEF DeliveriesAccounted, Answering, InHand, ReplyTyped
    <3> QED  BY <3>1, <3>2 DEF DeliveriesAccounted, Answering, InHand
  <2>5. CASE LogFails
    <3>1. round.pc = "log" /\ round'.pc = "settle" /\ UNCHANGED <<delivered, answered>>
          /\ unrecorded' = [unrecorded EXCEPT ![Current] = @ + 1]
      BY <1>1, <2>5 DEF LogFails, Answering, Pass, ReplyTyped
    <3>2. ASSUME NEW m \in Messages
          PROVE  delivered'[m] <= unrecorded'[m] + (IF m \in answered THEN 1 ELSE 0)
      BY <2>0, <3>1, <1>4 DEF DeliveriesAccounted, Answering, InHand, ReplyTyped
    <3> QED  BY <3>1, <3>2 DEF DeliveriesAccounted, Answering, InHand
  <2> QED  BY <2>1, <2>2, <2>4, <2>5
<1> QED  BY <1>6, <1>7, <1>9 DEF ReplyInv, AnswerInv

(* A crash and a logout forget the round; the answer in hand is counted as  *)
(* unrecorded.                                                              *)
LEMMA ReplyForgets ==
  ASSUME ReplyInv, CrashLoop \/ ForgetRuntimeState
  PROVE  ReplyInv'
<1>1. ReplyTyped  BY DEF ReplyInv, ScanInv
<1>2. /\ cursors' = [memory |-> cursors'.memory, file |-> cursors'.file, conv |-> cursors'.conv]
      /\ {cursors'.memory, cursors'.file} \subseteq {cursors.file, 0}
  BY <1>1 DEF ReplyTyped, CrashLoop, ForgetRuntimeState
<1>3. /\ round' = Resting /\ unrecorded' = Interrupted
      /\ UNCHANGED <<inbox, rows, passedOver, answered, delivered>>
  BY DEF CrashLoop, ForgetRuntimeState
<1>4. Interrupted \in [Messages -> Nat]
  BY <1>1, OneMore DEF ReplyTyped, Interrupted
<1>5. ReplyTyped'  BY <1>1, <1>2, <1>3, <1>4 DEF ReplyTyped, Resting
<1>6. ScanInv'
  BY <1>2, <1>3, <1>5, ScanKept DEF ReplyInv, Seen, Resting
<1>7. AnswerInv'
  BY <1>3, <1>5, AnswerKept DEF ReplyInv, Resting
<1> QED  BY <1>6, <1>7 DEF ReplyInv

LEMMA ReplyPreserved == ReplyInv /\ [ReplyNext]_replyVars => ReplyInv'
<1>1. SUFFICES ASSUME ReplyInv, [ReplyNext]_replyVars PROVE ReplyInv'
  OBVIOUS
<1>2. CASE ScanStep
  BY <1>1, <1>2, ReplyScans, ReplySaves, ReplyEndsScan, ReplyStores DEF ScanStep
<1>3. CASE AnswerStep
  BY <1>1, <1>3, ReplyMovesOn, ReplyBreaksOff, ReplyAnswers DEF AnswerStep
<1>4. CASE ReplyUpset
  BY <1>1, <1>4, ReplySaves, ReplyMovesOn, ReplyBreaksOff, ReplyAnswers, ReplyForgets, ReplySurroundings,
     ReplyStores DEF ReplyUpset
<1>5. CASE ScanConversation \/ RecoverPending(TRUE)
  BY <1>1, <1>5, ReplyScansConversation, ReplyEndsScan
<1>6. CASE PostMessage \/ ResetDailyQuota \/ ImportLogin \/ PanelSaves \/ ToggleAutoReply
  BY <1>1, <1>6, ReplySurroundings
<1>7. CASE UNCHANGED replyVars
  <2>1. ReplyTyped'  BY <1>1, <1>7 DEF ReplyInv, ScanInv, ReplyTyped, replyVars
  <2> QED  BY <1>1, <1>7, <2>1, ReplyOutside DEF replyVars
<1> QED  BY <1>1, <1>2, <1>3, <1>4, <1>5, <1>6, <1>7 DEF ReplyNext

(* The cursor file is written only when its page has been gone through, so  *)
(* a scan cut off by a crash or a lost login starts again where it began.   *)
THEOREM CursorTheorem == ReplySpec => []CursorPassesOnlySeen
<1>1. ReplyInv => CursorPassesOnlySeen
  BY DEF ReplyInv, ScanInv, ScansMissNothing, SeenUpTo, Seen, CursorPassesOnlySeen, Stored
<1>2. ReplyInit => ReplyInv  BY ReplyAtStart DEF ReplyInv
<1> QED  BY <1>1, <1>2, ReplyPreserved, PTL DEF ReplySpec

(* _has_successful_reply is asked before every answer: a message is only    *)
(* ever answered again when the record of the answer before was lost.       *)
THEOREM RepeatTheorem == ReplySpec => []RepeatsOnlyUnrecorded
<1>1. ReplyInv => RepeatsOnlyUnrecorded
  BY DEF ReplyInv, AnswerInv, ReplyTyped, DeliveriesAccounted, RepeatsOnlyUnrecorded
<1>2. ReplyInit => ReplyInv  BY ReplyAtStart DEF ReplyInv
<1> QED  BY <1>1, <1>2, ReplyPreserved, PTL DEF ReplySpec

-----------------------------------------------------------------------------
(* The push side of an inbox.                                               *)
PushMessages == 1..MaxStream

PushTyped ==
  /\ stream = [size |-> stream.size, upsets |-> stream.upsets, posted |-> stream.posted]
  /\ stream.size \in 0..MaxStream /\ stream.posted \in 0..stream.size
  /\ frames \subseteq PushMessages /\ raw \in Seq(PushMessages)
  /\ inHand \in PushMessages \cup {NoMessage}
  /\ scanned \in Seq(PushMessages)
  /\ loop = [pc |-> loop.pc, fill |-> loop.fill, page |-> loop.page, next |-> loop.next,
             batch |-> loop.batch]
  /\ loop.page \subseteq PushMessages /\ loop.batch \in Seq(PushMessages)
  /\ handed \in [PushMessages -> Nat]

(* A message that waits for the loop, or that its scan holds, is stored and *)
(* was not handed over before; it is in one of the two places, not in both. *)
HandsNothingTwice ==
  \A m \in PushMessages \ Follows :
    /\ m \in ToSet(scanned) \cup ToSet(loop.batch) => m \in stored /\ handed[m] = 0
    /\ m \in ToSet(scanned) => m \notin ToSet(loop.batch)
    /\ handed[m] # 0 => m \in stored
    /\ handed[m] <= 1

PushInv == PushTyped /\ HandsNothingTwice

LEMMA AppendedSet ==
  ASSUME NEW S, NEW s \in Seq(S), NEW x \in S
  PROVE  Append(s, x) \in Seq(S) /\ ToSet(Append(s, x)) = ToSet(s) \cup {x}
<1>1. Append(s, x) \in Seq(S)
  OBVIOUS
<1>2. /\ Len(Append(s, x)) = Len(s) + 1 /\ Append(s, x)[Len(s) + 1] = x
      /\ \A i \in 1..Len(s) : Append(s, x)[i] = s[i]
      /\ DOMAIN s = 1..Len(s) /\ DOMAIN Append(s, x) = 1..(Len(s) + 1) /\ Len(s) \in Nat
  OBVIOUS
<1> QED  BY <1>1, <1>2 DEF ToSet

LEMMA EmptySet == \A S : <<>> \in Seq(S) /\ ToSet(<<>>) = {}
BY DEF ToSet

LEMMA PushAtStart == PushInit => PushInv
<1>1. SUFFICES ASSUME PushInit PROVE PushInv
  OBVIOUS
<1>2. PushTyped
  BY <1>1, PushParameters, EmptySet DEF PushInit, PushTyped, Waiting, PushMessages
<1>3. loop.batch = <<>> /\ scanned = <<>> /\ \A m \in PushMessages : handed[m] = 0
  BY <1>1 DEF PushInit, Waiting, PushMessages
<1>4. HandsNothingTwice
  BY <1>3, EmptySet DEF HandsNothingTwice
<1> QED  BY <1>2, <1>4 DEF PushInv

(* Steps that leave both places, the store and the history alone.           *)
LEMMA PushUntouched ==
  ASSUME PushInv, PushTyped', UNCHANGED <<scanned, handed>>, loop'.batch = loop.batch,
         stored \subseteq stored'
  PROVE  PushInv'
<1>1. HandsNothingTwice'
  BY DEF PushInv, PushTyped, HandsNothingTwice
<1> QED  BY <1>1 DEF PushInv

LEMMA PushEmptied ==
  ASSUME PushInv, PushTyped', UNCHANGED <<handed, stored>>, loop'.batch = <<>>,
         scanned' \in {scanned, <<>>}
  PROVE  PushInv'
<1>1. HandsNothingTwice'
  BY EmptySet DEF PushInv, PushTyped, HandsNothingTwice
<1> QED  BY <1>1 DEF PushInv

LEMMA PushPost ==
  ASSUME PushInv, Post PROVE PushInv'
<1>0. /\ stream' = [size |-> stream.size, upsets |-> stream.upsets, posted |-> stream.posted + 1]
      /\ stream.posted + 1 \in 0..stream.size /\ stream.posted + 1 \in PushMessages
  <2>1. MaxStream \in Nat  BY PushParameters
  <2>2. stream.posted + 1 \in 0..stream.size /\ stream.posted + 1 \in PushMessages
    BY <2>1 DEF PushInv, PushTyped, Post, PushMessages
  <2>3. stream' = [stream EXCEPT !.posted = stream.posted + 1]
    BY DEF Post
  <2>4. stream' = [size |-> stream.size, upsets |-> stream.upsets, posted |-> stream.posted + 1]
    BY <2>3 DEF PushInv, PushTyped
  <2> QED  BY <2>2, <2>4
<1>2. frames' \subseteq PushMessages
  BY <1>0 DEF PushInv, PushTyped, Post
<1>1. PushTyped'
  BY <1>0, <1>2 DEF PushInv, PushTyped, Post, QueuesKept, LoopKept
<1> QED  BY <1>1, PushUntouched DEF Post, QueuesKept, LoopKept

LEMMA PushReceive ==
  ASSUME NEW m \in PushMessages, PushInv, ReceiveFrame(m) PROVE PushInv'
<1>2. raw' \in Seq(PushMessages) /\ frames' \subseteq PushMessages
  <2>1. m \in PushMessages /\ raw \in Seq(PushMessages) /\ frames \subseteq PushMessages
    BY DEF PushInv, PushTyped
  <2>2. raw' \in {raw, Append(raw, m)} /\ frames' = frames \ {m}
    BY DEF ReceiveFrame
  <2> QED  BY <2>1, <2>2, AppendedSet
<1>1. PushTyped'
  BY <1>2 DEF PushInv, PushTyped, ReceiveFrame, LoopKept
<1> QED  BY <1>1, PushUntouched DEF ReceiveFrame, LoopKept

LEMMA PushTake ==
  ASSUME PushInv, TakeFrame PROVE PushInv'
<1>1. PushTyped'
  BY DEF PushInv, PushTyped, TakeFrame, WireKept, LoopKept
<1> QED  BY <1>1, PushUntouched DEF TakeFrame, LoopKept

LEMMA PushStore ==
  ASSUME PushInv, StorePushed PROVE PushInv'
<1>1. inHand \in PushMessages \ Follows  BY DEF PushInv, PushTyped, StorePushed
<1>2. CASE inHand \notin stored /\ Len(scanned) < ScanSize
  <2>1. scanned' = Append(scanned, inHand) /\ stored' = stored \cup {inHand}
        /\ UNCHANGED <<loop, handed>>
    BY <1>2 DEF StorePushed, IsNew, Inserted, Enqueue, LoopKept
  <2>2. scanned' \in Seq(PushMessages) /\ ToSet(scanned') = ToSet(scanned) \cup {inHand}
    BY <1>1, <2>1, AppendedSet DEF PushInv, PushTyped
  <2>3. PushTyped'
    BY <2>1, <2>2 DEF PushInv, PushTyped, StorePushed, WireKept
  <2>4. handed[inHand] = 0 /\ inHand \notin ToSet(loop.batch)
    BY <1>1, <1>2 DEF PushInv, PushTyped, HandsNothingTwice
  <2>5. HandsNothingTwice'
    BY <1>1, <2>1, <2>2, <2>4 DEF PushInv, HandsNothingTwice
  <2> QED  BY <2>3, <2>5 DEF PushInv
<1>3. CASE ~(inHand \notin stored /\ Len(scanned) < ScanSize)
  <2>1. UNCHANGED <<scanned, loop, handed>> /\ stored' = stored \cup {inHand}
    BY <1>3 DEF StorePushed, IsNew, Inserted, Enqueue, LoopKept
  <2>2. PushTyped'
    BY <2>1 DEF PushInv, PushTyped, StorePushed, WireKept
  <2> QED  BY <2>1, <2>2, PushUntouched
<1> QED  BY <1>2, <1>3

LEMMA PushNotice ==
  ASSUME PushInv, PassNotice PROVE PushInv'
<1>1. inHand \in PushMessages \cap Follows  BY DEF PushInv, PushTyped, PassNotice
<1>2. UNCHANGED <<loop, handed, stored>>  BY DEF PassNotice, LoopKept
<1>3. scanned' \in Seq(PushMessages)
      /\ ToSet(scanned') \ Follows = ToSet(scanned) \ Follows
  <2>1. scanned \in Seq(PushMessages)  BY DEF PushInv, PushTyped
  <2>2. CASE scanned' = Append(scanned, inHand)
    <3>1. ToSet(Append(scanned, inHand)) = ToSet(scanned) \cup {inHand}
          /\ Append(scanned, inHand) \in Seq(PushMessages)
      BY <1>1, <2>1, AppendedSet
    <3> QED  BY <1>1, <2>2, <3>1
  <2>3. CASE scanned' = scanned  BY <2>1, <2>3
  <2> QED  BY <2>2, <2>3 DEF PassNotice
<1>4. PushTyped'
  BY <1>2, <1>3 DEF PushInv, PushTyped, PassNotice, WireKept
<1>5. HandsNothingTwice'
  BY <1>2, <1>3 DEF PushInv, HandsNothingTwice
<1> QED  BY <1>4, <1>5 DEF PushInv

LEMMA PushQuiet ==
  ASSUME PushInv, DropPushed \/ Disconnected \/ Reconnect \/ IntervalPasses
  PROVE  PushInv'
<1>1. UNCHANGED <<scanned, handed, loop, stored>>
  BY DEF DropPushed, Disconnected, Reconnect, IntervalPasses, QueuesKept, LoopKept
<1>2. PushTyped'
  BY DEF PushInv, PushTyped, DropPushed, Disconnected, Reconnect, IntervalPasses, WireKept,
         QueuesKept, LoopKept
<1> QED  BY <1>1, <1>2, PushUntouched

LEMMA PushEnds ==
  ASSUME PushInv, Wake \/ ScanNothing \/ FetchFails \/ RestartTransport
  PROVE  PushInv'
<1>1. loop'.batch = <<>> /\ scanned' \in {scanned, <<>>} /\ UNCHANGED <<handed, stored>>
  BY DEF Wake, ScanNothing, FetchFails, RestartTransport, Waiting, QueuesKept
<1>2. PushTyped'
  <2>1. CASE Wake
    BY <2>1, EmptySet DEF PushInv, PushTyped, Wake, Waiting, WireKept
  <2>2. CASE ScanNothing \/ FetchFails
    <3>1. <<>> \in Seq(PushMessages)  BY EmptySet
    <3>2. /\ loop' = [pc |-> "wait", fill |-> FALSE, page |-> {}, next |-> 0, batch |-> <<>>]
          /\ UNCHANGED <<stream, frames, raw, inHand, scanned, handed>>
      BY <2>2 DEF ScanNothing, FetchFails, Waiting, QueuesKept, WireKept
    <3> QED  BY <3>1, <3>2 DEF PushInv, PushTyped
  <2>3. CASE RestartTransport
    <3>1. <<>> \in Seq(PushMessages)  BY EmptySet
    <3>2. /\ frames' = {} /\ raw' = <<>> /\ inHand' = NoMessage /\ scanned' = <<>>
          /\ loop' = [pc |-> "wait", fill |-> FALSE, page |-> {}, next |-> 0, batch |-> <<>>]
          /\ stream' = stream /\ handed' = handed
      BY <2>3 DEF RestartTransport, Waiting
    <3> QED  BY <3>1, <3>2 DEF PushInv, PushTyped
  <2> QED  BY <2>1, <2>2, <2>3
<1> QED  BY <1>1, <1>2, PushEmptied

LEMMA PushDrain ==
  ASSUME PushInv, DrainQueue PROVE PushInv'
<1>1. scanned' = <<>> /\ loop'.batch = scanned /\ UNCHANGED <<handed, stored>>
  BY DEF DrainQueue, Waiting
<1>2. PushTyped'
  BY EmptySet DEF PushInv, PushTyped, DrainQueue, Waiting, WireKept
<1>3. HandsNothingTwice'
  BY <1>1, EmptySet DEF PushInv, HandsNothingTwice
<1> QED  BY <1>2, <1>3 DEF PushInv

LEMMA PushScan ==
  ASSUME PushInv, ScanOverHttp PROVE PushInv'
<1>1. PICK fill \in BOOLEAN : Request(fill)  BY DEF ScanOverHttp
<1>3. Sent \subseteq PushMessages
  BY PushParameters DEF Sent, PushInv, PushTyped, PushMessages
<1>2. loop'.batch = <<>> /\ loop'.page \subseteq PushMessages
      /\ loop' = [pc |-> loop'.pc, fill |-> loop'.fill, page |-> loop'.page, next |-> loop'.next,
                  batch |-> loop'.batch]
  BY <1>1, <1>3 DEF Request, Waiting
<1>4. PushTyped'
  BY <1>2, EmptySet DEF PushInv, PushTyped, ScanOverHttp, WireKept, QueuesKept
<1> QED  BY <1>2, <1>4, PushEmptied DEF ScanOverHttp, QueuesKept

LEMMA PushFetch ==
  ASSUME NEW m \in PushMessages, PushInv, StoreFetched(m) PROVE PushInv'
<1> DEFINE kept  == MayStore(m)
           hands == ~FirstScan /\ (IF m \in Follows THEN stored # {} ELSE IsNew(m))
<1>1. /\ stored' = IF kept THEN stored \cup {m} ELSE stored
      /\ loop' = [loop EXCEPT !.page = @ \ {m},
                              !.batch = IF hands THEN Append(@, m) ELSE @]
      /\ UNCHANGED <<scanned, handed>>
  BY DEF StoreFetched, Fetched, FetchedKept, QueuesKept
<1>2. hands /\ m \notin Follows => kept /\ m \notin stored
  BY DEF IsNew, Inserted, MayStore
<1>3. /\ loop' = [pc |-> loop'.pc, fill |-> loop'.fill, page |-> loop'.page, next |-> loop'.next,
                  batch |-> loop'.batch]
      /\ loop'.page \subseteq loop.page
      /\ loop'.batch = IF hands THEN Append(loop.batch, m) ELSE loop.batch
  BY <1>1 DEF PushInv, PushTyped
<1> HIDE DEF kept, hands
<1>4. loop'.batch \in Seq(PushMessages)
      /\ ToSet(loop'.batch) = IF hands THEN ToSet(loop.batch) \cup {m} ELSE ToSet(loop.batch)
  <2>1. loop.batch \in Seq(PushMessages)  BY DEF PushInv, PushTyped
  <2>2. CASE hands
    BY <1>3, <2>1, <2>2, AppendedSet
  <2>3. CASE ~hands
    BY <1>3, <2>1, <2>3
  <2> QED  BY <2>2, <2>3
<1>5. PushTyped'
  BY <1>3, <1>4 DEF PushInv, PushTyped, StoreFetched, FetchedKept, WireKept, QueuesKept
<1>6. HandsNothingTwice'
  BY <1>1, <1>2, <1>4 DEF PushInv, PushTyped, HandsNothingTwice
<1> QED  BY <1>5, <1>6 DEF PushInv

(* A message the scan trims, or whose row the store refuses.                *)
LEMMA PushPasses ==
  ASSUME NEW m \in PushMessages, PushInv, TrimFetched(m) \/ StoreFetchedFails(m)
  PROVE  PushInv'
<1>1. /\ loop' = [loop EXCEPT !.page = loop.page \ {m}, !.batch = loop.batch]
      /\ UNCHANGED <<stored, scanned, handed>>
  BY DEF TrimFetched, StoreFetchedFails, Fetched, FetchedKept, QueuesKept
<1>2. /\ loop' = [pc |-> loop.pc, fill |-> loop.fill, page |-> loop'.page, next |-> loop.next,
                  batch |-> loop.batch]
      /\ loop'.page \subseteq loop.page
  BY <1>1 DEF PushInv, PushTyped
<1>3. UNCHANGED <<stream, frames, raw, inHand>>
  BY DEF TrimFetched, StoreFetchedFails, FetchedKept, WireKept, QueuesKept
<1>4. PushTyped' /\ loop'.batch = loop.batch
  BY <1>1, <1>2, <1>3 DEF PushInv, PushTyped
<1> QED  BY <1>1, <1>4, PushUntouched

LEMMA PushEndFetch ==
  ASSUME PushInv, EndFetch PROVE PushInv'
<1>1. PushTyped' /\ loop'.batch = loop.batch
  BY DEF PushInv, PushTyped, EndFetch, WireKept, QueuesKept
<1> QED  BY <1>1, PushUntouched DEF EndFetch, QueuesKept

LEMMA PushHandOver ==
  ASSUME PushInv, HandOver PROVE PushInv'
<1>1. /\ handed' = [m \in PushMessages |->
                      handed[m] + (IF m \in ToSet(loop.batch) THEN 1 ELSE 0)]
      /\ loop' = Waiting /\ UNCHANGED <<stored, scanned>>
  BY DEF HandOver, QueuesKept, PushMessages
<1>2. handed' \in [PushMessages -> Nat]  BY <1>1 DEF PushInv, PushTyped
<1>3. PushTyped'
  BY <1>1, <1>2, EmptySet DEF PushInv, PushTyped, HandOver, Waiting, WireKept, QueuesKept
<1>4. loop'.batch = <<>>  BY <1>1 DEF Waiting
<1>5. HandsNothingTwice'
  BY <1>1, <1>4, EmptySet DEF PushInv, PushTyped, HandsNothingTwice
<1> QED  BY <1>3, <1>5 DEF PushInv

LEMMA PushPreserved == PushInv /\ [PushNext]_pushVars => PushInv'
<1>1. SUFFICES ASSUME PushInv, [PushNext]_pushVars PROVE PushInv'
  OBVIOUS
<1>2. CASE Post  BY <1>1, <1>2, PushPost
<1>3. CASE PushStep
  BY <1>1, <1>3, PushTake, PushStore, PushNotice, PushReceive DEF PushStep, PushMessages
<1>4. CASE LoopStep
  BY <1>1, <1>4, PushEnds, PushDrain, PushScan, PushEndFetch, PushHandOver, PushFetch,
     PushPasses
     DEF LoopStep, PushMessages
<1>5. CASE Reconnect \/ IntervalPasses \/ Disconnected \/ DropPushed
  BY <1>1, <1>5, PushQuiet
<1>6. CASE FetchFails \/ RestartTransport
  BY <1>1, <1>6, PushEnds
<1>7. CASE \E m \in 1..MaxStream : StoreFetchedFails(m)
  BY <1>1, <1>7, PushPasses DEF PushMessages
<1>8. CASE UNCHANGED pushVars
  BY <1>1, <1>8 DEF pushVars, PushInv, PushTyped, HandsNothingTwice
<1> QED  BY <1>1, <1>2, <1>3, <1>4, <1>5, <1>6, <1>7, <1>8 DEF PushNext

(* Between the push connection and the HTTP scan of the inbox, which both   *)
(* meet a message, _upsert_conversation_and_message lets only the one that  *)
(* inserts its row hand it to the reply loop.                               *)
THEOREM HandedOnceTheorem == PushSpec => []HandedOnce
<1>1. PushInv => HandedOnce
  BY DEF PushInv, PushTyped, HandsNothingTwice, HandedOnce, PushMessages
<1> QED  BY <1>1, PushAtStart, PushPreserved, PTL DEF PushSpec
=============================================================================
