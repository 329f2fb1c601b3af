----------------------------- MODULE PushInbound -----------------------------
(* How one account's messages reach its reply loop (FrontierWsDecorator):    *)
(* frames of the push connection go through two bounded queues and are       *)
(* stored by a consumer task, while the loop itself reads the inbox over      *)
(* HTTP when the push side may have missed something.                        *)
EXTENDS Integers, SequencesExt

CONSTANTS
  Follows,     \* messages, by place in the inbox, that are the platform's notice
               \* of a mutual follow, sent in our name: answered, never stored
  RawSize,     \* DOUYIN_WS_INBOUND_QUEUE_SIZE
  ScanSize,    \* the size of _scanned_messages_queue
  Streams,     \* [size, upsets]: bounds on the messages posted, and on lost
               \* connections, crashes and errors
  MaxStream,   \* the largest such size
  NoMessage

ASSUME PushParameters ==
  /\ MaxStream \in Nat /\ Follows \subseteq 1..MaxStream
  /\ {RawSize, ScanSize} \subseteq Nat \ {0}
  /\ \A s \in Streams : s.size \in 0..MaxStream /\ s.upsets \in Nat

VARIABLES
  stream,      \* the bounds of this behaviour, and how much is posted
  connected,   \* FrontierImWsClient.connected
  frames,      \* pushed by the platform, not yet received
  raw,         \* _raw_inbound_queue
  inHand,      \* the message _consume_inbound works on
  scanned,     \* _scanned_messages_queue
  signalled,   \* _signal
  due,         \* the interval since _last_http_fallback_at has passed
  stored,      \* inbound messages with a row
  synced,      \* last_history_sync_at is set
  reach,       \* the account's scan cursor
  loop,        \* where the reply loop is, and what its scan holds
  handed,      \* how often a scan handed a message to the loop
  skipped,     \* inbound messages an HTTP scan saw and did not mean to store
  failed,      \* history: inbound messages an HTTP scan could not store
  pushUpsets   \* how many upsets there have been (only for the bound)

pushVars == <<stream, connected, frames, raw, inHand, scanned, signalled, due, stored,
              synced, reach, loop, handed, skipped, failed, pushUpsets>>

Waiting == [pc |-> "wait", fill |-> FALSE, page |-> {}, next |-> 0, batch |-> <<>>]

Sent == 1..stream.posted

(* _upsert_conversation_and_message tells whether it inserted the row.       *)
Inserted(m) == m \notin stored

(* Faulty variant: a message that is already stored is reported as new.      *)
InsertedOrFound(m) == m \in 1..MaxStream

IsNew(m) == Inserted(m)

WireKept == UNCHANGED <<stream, connected, frames>>
QueuesKept == UNCHANGED <<raw, inHand, scanned, signalled>>
LoopKept == UNCHANGED <<synced, reach, loop, handed, skipped, failed>>

-----------------------------------------------------------------------------
(* The push side.                                                            *)
Post ==
  /\ stream.posted < stream.size
  /\ stream' = [stream EXCEPT !.posted = @ + 1]
  /\ frames' = IF connected THEN frames \cup {stream'.posted} ELSE frames
  /\ UNCHANGED <<connected, due, stored>> /\ QueuesKept /\ LoopKept

(* _on_inbound: a full queue drops the frame, makes the next HTTP scan due   *)
(* at once and wakes the loop.                                               *)
ReceiveFrame(m) ==
  /\ connected /\ m \in frames
  /\ frames' = frames \ {m}
  /\ IF Len(raw) < RawSize
     THEN raw' = Append(raw, m) /\ UNCHANGED <<due, signalled>>
     ELSE due' = TRUE /\ signalled' = TRUE /\ UNCHANGED raw
  /\ UNCHANGED <<stream, connected, inHand, scanned, stored>> /\ LoopKept

(* _consume_inbound: one message at a time.                                  *)
TakeFrame ==
  /\ inHand = NoMessage /\ raw # <<>>
  /\ inHand' = Head(raw) /\ raw' = Tail(raw)
  /\ UNCHANGED <<scanned, signalled, due, stored>> /\ WireKept /\ LoopKept

(* A message that does not fit is left to the recovery of stored messages,   *)
(* without a signal.                                                         *)
Enqueue(m) ==
  IF Len(scanned) < ScanSize
  THEN scanned' = Append(scanned, m) /\ signalled' = TRUE
  ELSE UNCHANGED <<scanned, signalled>>

(* _process_message                                                          *)
StorePushed ==
  /\ inHand # NoMessage /\ inHand \notin Follows
  /\ stored' = stored \cup {inHand}
  /\ IF IsNew(inHand) THEN Enqueue(inHand) ELSE UNCHANGED <<scanned, signalled>>
  /\ inHand' = NoMessage
  /\ UNCHANGED <<raw, due>> /\ WireKept /\ LoopKept

(* The notice of a mutual follow is queued, if there is room, when its       *)
(* conversation is known.                                                    *)
PassNotice ==
  /\ inHand # NoMessage /\ inHand \in Follows
  /\ IF stored # {}
     THEN /\ scanned' = IF Len(scanned) < ScanSize THEN Append(scanned, inHand) ELSE scanned
          /\ signalled' = TRUE
     ELSE UNCHANGED <<scanned, signalled>>
  /\ inHand' = NoMessage
  /\ UNCHANGED <<raw, due, stored>> /\ WireKept /\ LoopKept

(* Storing fails: the exception is logged and the message forgotten.         *)
DropPushed ==
  /\ inHand # NoMessage
  /\ inHand' = NoMessage
  /\ UNCHANGED <<raw, scanned, signalled, due, stored>> /\ WireKept /\ LoopKept

(* run: the connection breaks, and is made again after a while; what was     *)
(* sent meanwhile is not pushed again.                                       *)
Disconnected ==
  /\ connected /\ connected' = FALSE
  /\ frames' = {}
  /\ UNCHANGED <<stream, due, stored>> /\ QueuesKept /\ LoopKept

Reconnect ==
  /\ ~connected /\ connected' = TRUE
  /\ UNCHANGED <<stream, frames, due, stored>> /\ QueuesKept /\ LoopKept

(* _http_fallback_interval has passed since the last scan over HTTP.         *)
IntervalPasses ==
  /\ ~due /\ due' = TRUE
  /\ UNCHANGED stored /\ WireKept /\ QueuesKept /\ LoopKept

-----------------------------------------------------------------------------
(* The loop.  wait_for_inbound_signal ends with the signal or in time.       *)
Wake ==
  /\ loop.pc = "wait"
  /\ signalled' = FALSE
  /\ loop' = [Waiting EXCEPT !.pc = "scan"]
  /\ UNCHANGED <<raw, inHand, scanned, due, stored, synced, reach, handed, skipped, failed>>
  /\ WireKept

Filling == ~synced \/ stored = {}

(* scan_inbox takes what was pushed, all of it.                              *)
DrainQueue ==
  /\ loop.pc = "scan" /\ ~Filling /\ scanned # <<>>
  /\ loop' = [Waiting EXCEPT !.pc = "hand", !.batch = scanned]
  /\ scanned' = <<>>
  /\ UNCHANGED <<raw, inHand, signalled, due, stored, synced, reach, handed, skipped, failed>>
  /\ WireKept

(* Faulty variant: no reconciliation while the connection is up.             *)
DueOffline == due /\ ~connected

ReconcileDue == due

(* While history is filled in, or when reconciliation is due, the inbox is   *)
(* read behind the cursor.  Only the latter is marked before it is awaited.  *)
Request(fill) ==
  loop' = [Waiting EXCEPT !.pc = "fetch", !.fill = fill,
                          !.next = stream.posted, !.page = {m \in Sent : m > reach}]

ScanOverHttp ==
  /\ loop.pc = "scan"
  /\ \/ Filling /\ Request(TRUE) /\ UNCHANGED due
     \/ ~Filling /\ scanned = <<>> /\ ReconcileDue /\ Request(FALSE) /\ due' = FALSE
  /\ UNCHANGED <<stored, synced, reach, handed, skipped, failed>> /\ WireKept /\ QueuesKept

ScanNothing ==
  /\ loop.pc = "scan" /\ ~Filling /\ scanned = <<>> /\ ~ReconcileDue
  /\ loop' = Waiting
  /\ UNCHANGED <<due, stored, synced, reach, handed, skipped, failed>> /\ WireKept /\ QueuesKept

First(m) == loop.pc = "fetch" /\ m \in loop.page /\ \A n \in loop.page : m <= n

(* The first scan of an account sets its cursor; it stores what it sees for  *)
(* the panel only while history is filled in, and hands none of it on.       *)
FirstScan == reach = 0

Fetched(m, hands) ==
  loop' = [loop EXCEPT !.page = @ \ {m}, !.batch = IF hands THEN Append(@, m) ELSE @]

FetchedKept == UNCHANGED <<due, synced, reach, handed>> /\ WireKept /\ QueuesKept

MayStore(m) == m \notin Follows /\ (loop.fill \/ ~FirstScan)

StoreFetched(m) ==
  /\ First(m)
  /\ Fetched(m, ~FirstScan /\ (IF m \in Follows THEN stored # {} ELSE IsNew(m)))
  /\ stored' = IF MayStore(m) THEN stored \cup {m} ELSE stored
  /\ skipped' = IF MayStore(m) \/ m \in Follows THEN skipped ELSE skipped \cup {m}
  /\ UNCHANGED failed
  /\ FetchedKept

(* _trim_backfill_pending: the first scan stores only the latest messages.   *)
TrimFetched(m) ==
  /\ First(m) /\ m \notin Follows
  /\ FirstScan /\ loop.fill /\ loop.page # {m}
  /\ Fetched(m, FALSE)
  /\ skipped' = skipped \cup {m}
  /\ UNCHANGED <<stored, failed>>
  /\ FetchedKept

(* The store refuses the row: the scan goes on with the next message, and    *)
(* its cursor will pass this one.                                            *)
StoreFetchedFails(m) ==
  /\ First(m) /\ MayStore(m)
  /\ Fetched(m, FALSE)
  /\ failed' = failed \cup {m}
  /\ UNCHANGED <<stored, skipped>>
  /\ FetchedKept

(* The cursor is saved; a scan for history restarts the interval only now.   *)
EndFetch ==
  /\ loop.pc = "fetch" /\ loop.page = {}
  /\ reach' = IF loop.next > reach THEN loop.next ELSE reach
  /\ due' = (due /\ ~loop.fill)
  /\ synced' = (synced \/ (loop.fill /\ stored # {}))
  /\ loop' = [loop EXCEPT !.pc = "hand"]
  /\ UNCHANGED <<stored, handed, skipped, failed>> /\ WireKept /\ QueuesKept

HandOver ==
  /\ loop.pc = "hand"
  /\ handed' = [m \in 1..MaxStream |->
                  handed[m] + (IF m \in ToSet(loop.batch) THEN 1 ELSE 0)]
  /\ loop' = Waiting
  /\ UNCHANGED <<due, stored, synced, reach, skipped, failed>> /\ WireKept /\ QueuesKept

(* An error of the HTTP scan ends the round; the cursor stays.               *)
FetchFails ==
  /\ loop.pc = "fetch"
  /\ loop' = Waiting
  /\ UNCHANGED <<due, stored, synced, reach, handed, skipped, failed>> /\ WireKept /\ QueuesKept

(* stop and a new start of the transport, or a crash: the queues are gone.   *)
RestartTransport ==
  /\ frames' = {} /\ raw' = <<>> /\ inHand' = NoMessage /\ scanned' = <<>>
  /\ connected' = FALSE /\ signalled' = FALSE /\ due' = TRUE
  /\ loop' = Waiting
  /\ UNCHANGED <<stream, stored, synced, reach, handed, skipped, failed>>

-----------------------------------------------------------------------------
PushInit ==
  /\ \E s \in Streams : stream = [size |-> s.size, upsets |-> s.upsets, posted |-> 0]
  /\ connected = TRUE /\ frames = {} /\ raw = <<>> /\ inHand = NoMessage
  /\ scanned = <<>> /\ signalled = FALSE /\ due = TRUE
  /\ stored = {} /\ synced = FALSE /\ reach = 0 /\ loop = Waiting
  /\ handed = [m \in 1..MaxStream |-> 0] /\ skipped = {} /\ failed = {} /\ pushUpsets = 0

PushStep == TakeFrame \/ StorePushed \/ PassNotice \/ \E m \in 1..MaxStream : ReceiveFrame(m)

LoopStep ==
  /\ stream.size > 0
  /\ \/ Wake \/ DrainQueue \/ ScanOverHttp \/ ScanNothing \/ EndFetch \/ HandOver
     \/ \E m \in 1..MaxStream : StoreFetched(m) \/ TrimFetched(m)

PushNext ==
  \/ /\ UNCHANGED pushUpsets
     /\ Post \/ PushStep \/ LoopStep \/ Reconnect \/ IntervalPasses
  \/ /\ pushUpsets < stream.upsets /\ pushUpsets' = pushUpsets + 1
     /\ \/ Disconnected \/ DropPushed \/ FetchFails \/ RestartTransport
        \/ \E m \in 1..MaxStream : StoreFetchedFails(m)

(* The two tasks keep running, and time passes.                              *)
PushFairness ==
  /\ WF_pushVars(PushStep /\ UNCHANGED pushUpsets)
  /\ WF_pushVars(LoopStep /\ UNCHANGED pushUpsets)
  /\ WF_pushVars(IntervalPasses /\ UNCHANGED pushUpsets)

PushSpec == PushInit /\ [][PushNext]_pushVars /\ PushFairness

-----------------------------------------------------------------------------
(* Properties.                                                               *)

(* Temporal property: the store catches up with the platform again and       *)
(* again, though frames are dropped by a full queue, a broken connection or  *)
(* a restart and a live connection is believed to deliver everything: every  *)
(* message is stored at last, unless the scan that sets the cursor was not   *)
(* to store it, or a scan met it while the store refused its row.  The       *)
(* latter is lost for good when no frame brings it: the cursor has passed.   *)
EveryMessageIsSeen == []<>(Sent \ Follows \subseteq stored \cup skipped \cup failed)

(* Invariant: the push side and the HTTP scan, which both meet a message,    *)
(* hand it to the loop once between them.                                    *)
HandedOnce == \A m \in (1..MaxStream) \ Follows : handed[m] <= 1
=============================================================================
