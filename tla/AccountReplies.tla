---------------------------- MODULE AccountReplies ----------------------------
(* The reply loop of one account: it scans the inbox behind a cursor,       *)
(* stores what is new, picks up what an earlier round left, answers message *)
(* by message and records the outcome.  The account's row is shared with    *)
(* the probe, the panel and the scheduler: the loop reads it once a round,  *)
(* and the panel saves every column of a copy it has loaded before.         *)
EXTENDS Integers, SequencesExt

CONSTANTS
  Notices,        \* the messages, by place in the inbox, that are the
                  \* platform's notice of a mutual follow, sent in our name
  Quota,          \* daily_reply_quota
  Confirm,        \* DOUYIN_LOGIN_EXPIRE_CONFIRM_TIMES
  Inboxes,        \* [size, upsets, online, peerLimit]: bounds on the messages
                  \* posted and on crashes and errors; is the account ever in use,
                  \* is DOUYIN_ENFORCE_DAILY_PEER_REPLY_LIMIT set
  MaxSize,        \* the largest such size
  NoAccount

ASSUME ReplyParameters ==
  /\ MaxSize \in Nat /\ Notices \subseteq 1..MaxSize
  /\ Quota \in Nat \ {0} /\ Confirm \in Nat \ {0}
  /\ \A b \in Inboxes : b.size \in 0..MaxSize /\ b.upsets \in Nat /\ {b.online, b.peerLimit} \subseteq BOOLEAN

VARIABLES
  inbox,      \* the bounds of this behaviour, and how much is posted
  cursors,    \* _scan_cursor_us, <account>.cursor.json, the conversation's cursor
  rows,       \* DouyinMessage of an inbound message: absent, unprocessed, processed
  account,    \* DouyinAccount: status, credential_state, auto_reply, reply_today,
              \* synced; and the loop's login_expired_streak
  panel,      \* the copy of it that a panel request is about to save
  round,      \* where the loop is, and what this round holds
  answered,   \* messages with a successful DouyinReplyLog
  delivered,  \* how often the platform delivered an answer to a message
  unrecorded, \* how often such an answer was not recorded
  passedOver, \* inbound messages a scan saw and did not store
  replyUpsets \* how many crashes and errors there have been

replyVars == <<inbox, cursors, rows, account, panel, round, answered, delivered,
               unrecorded, passedOver, replyUpsets>>

Messages == 1..MaxSize

Inbound == Messages \ Notices

Resting == [pc |-> "idle", mode |-> "user", backfill |-> FALSE, from |-> 0, next |-> 0,
            page |-> {}, can |-> FALSE, batch |-> <<>>,
            hint |-> FALSE]

(* _can_process_reply, of an account in status 1.                           *)
CanReply == account.auto /\ account.cred \notin {"invalid", "receive_only"}

HasConversation == \E m \in Inbound : rows[m] # "none"

Stored == {m \in Inbound : rows[m] # "none"}

Recorded == UNCHANGED <<answered, delivered, unrecorded>>

Largest(S) == IF S = {} THEN 0 ELSE CHOOSE m \in S : \A n \in S : n <= m

Posted == 1..inbox.posted

Pass(pc) == round' = [round EXCEPT !.pc = pc]

-----------------------------------------------------------------------------
(* Scanning.                                                                *)
(* Without any conversation the cursor file is removed, but the cursor in   *)
(* memory wins over the file.                                               *)
CursorsOfRound ==
  LET reset == account.synced /\ ~HasConversation
      file  == IF reset THEN 0 ELSE cursors.file
  IN  [cursors EXCEPT !.file = file, !.memory = IF @ > 0 THEN @ ELSE file]

Ready == round.pc = "idle" /\ account.today < Quota /\ account.status = 1

Fetch(mode, from) ==
  round' = [Resting EXCEPT !.pc = "store", !.mode = mode, !.from = from, !.next = inbox.posted,
                           !.page = {m \in Posted : m > from}, !.can = CanReply,
                           !.backfill = ~account.synced \/ ~HasConversation, !.hint = round.hint]

(* get_by_user behind the account's cursor; also when the platform does not *)
(* know the conversation of a hint.                                         *)
ScanInbox ==
  /\ Ready
  /\ cursors' = CursorsOfRound
  /\ Fetch("user", CursorsOfRound.memory)
  /\ UNCHANGED <<inbox, rows, account, passedOver>> /\ Recorded

(* get_by_conversation, when a signal named the conversation.               *)
ScanConversation ==
  LET known == IF cursors.conv > 0 THEN cursors.conv ELSE Largest(Stored)
  IN  /\ Ready /\ round.hint
      /\ cursors' = [cursors EXCEPT !.conv = known]
      /\ Fetch("conversation", known)
      /\ UNCHANGED <<inbox, rows, account, passedOver>> /\ Recorded

(* The first scan without a cursor is not answered: it is stored for the    *)
(* panel while history is filled in, else it only sets the cursor.          *)
Baseline == round.mode = "user" /\ round.from = 0

ForPanel == Baseline /\ round.backfill

Next1(m) == round.page # {} /\ m \in round.page /\ \A n \in round.page : m <= n

Taken(m, batch) == round' = [round EXCEPT !.page = @ \ {m}, !.batch = batch]

(* _upsert_conversation_and_message                                         *)
StoreMessage(m) ==
  /\ round.pc = "store" /\ Next1(m) /\ m \in Inbound
  /\ IF Baseline /\ ~round.backfill
     THEN /\ passedOver' = passedOver \cup {m}
          /\ Taken(m, round.batch) /\ UNCHANGED rows
     ELSE /\ rows' = IF rows[m] # "none" THEN rows
                     ELSE [rows EXCEPT ![m] = IF ForPanel THEN "done" ELSE "new"]
          /\ Taken(m, IF rows[m] # "none" \/ ForPanel THEN round.batch ELSE Append(round.batch, m))
          /\ UNCHANGED passedOver
  /\ UNCHANGED <<inbox, cursors, account>> /\ Recorded

StoreFails(m) ==
  /\ round.pc = "store" /\ Next1(m) /\ m \in Inbound
  /\ passedOver' = IF rows[m] = "none" THEN passedOver \cup {m} ELSE passedOver
  /\ Taken(m, round.batch)
  /\ UNCHANGED <<inbox, cursors, rows, account>> /\ Recorded

(* _trim_backfill_pending: of the history only the latest messages of the   *)
(* latest conversations are stored.                                         *)
TrimHistory(m) ==
  /\ round.pc = "store" /\ Next1(m) /\ m \in Inbound
  /\ ForPanel /\ round.page # {m}
  /\ passedOver' = passedOver \cup {m}
  /\ Taken(m, round.batch)
  /\ UNCHANGED <<inbox, cursors, rows, account>> /\ Recorded

(* build_mutual_follow_trigger: not stored; answered when the conversation  *)
(* is known.                                                                *)
TakeNotice(m) ==
  /\ round.pc = "store" /\ Next1(m) /\ m \in Notices
  /\ Taken(m, IF round.mode = "user" /\ ~Baseline /\ HasConversation
              THEN Append(round.batch, m) ELSE round.batch)
  /\ UNCHANGED <<inbox, cursors, rows, account, passedOver>> /\ Recorded

(* Faulty variant: the cursor is saved with messages still to store.        *)
AnyPage == TRUE

PageTaken == round.page = {}

Advanced(fileWritten) ==
  IF round.mode = "conversation"
  THEN IF fileWritten THEN [cursors EXCEPT !.conv = round.next] ELSE cursors
  ELSE IF round.next <= round.from THEN cursors
  ELSE [cursors EXCEPT !.memory = round.next, !.file = IF fileWritten THEN round.next ELSE @]

SaveCursor(fileWritten) ==
  /\ round.pc = "store" /\ PageTaken
  /\ cursors' = Advanced(fileWritten)
  /\ round' = [round EXCEPT !.pc = IF round.backfill THEN "history" ELSE "recover",
                            !.page = {}, !.hint = FALSE]
  /\ UNCHANGED <<inbox, rows, account, passedOver>> /\ Recorded

(* _mark_history_sync_completed: nothing that is stored will be answered,   *)
(* except what this round took.                                             *)
EndHistory ==
  /\ round.pc = "history"
  /\ account' = [account EXCEPT !.synced = @ \/ HasConversation, !.streak = 0]
  /\ rows' = IF HasConversation
             THEN [m \in Inbound |-> IF rows[m] = "new" THEN "done" ELSE rows[m]] ELSE rows
  /\ Pass("answer")
  /\ UNCHANGED <<inbox, cursors, passedOver>> /\ Recorded

(* Faulty variant: an interrupted message is not taken up again.            *)
PendingUntried == {m \in Inbound : rows[m] = "new" /\ m > cursors.file}

(* fetch_pending_inbound_messages                                           *)
Pending == {m \in Inbound : rows[m] = "new" /\ m \notin answered}

RecoverPending(due) ==
  /\ round.pc = "recover"
  /\ account' = [account EXCEPT !.streak = 0]
  /\ round' = [round EXCEPT !.pc = "answer",
       !.batch = IF due /\ round.can THEN @ \o SetToSortSeq(Pending \ ToSet(@), <) ELSE @]
  /\ UNCHANGED <<inbox, cursors, rows, passedOver>> /\ Recorded

-----------------------------------------------------------------------------
(* Answering: _handle_one_message, for every message of the batch.          *)
Current == Head(round.batch)

Answering(pc) == round.pc = pc /\ round.batch # <<>>

(* wait_for_inbound_signal: a push names the conversation, or time is up.   *)
EndRound ==
  /\ round.pc = "answer" /\ (round.batch = <<>> \/ ~round.can)
  /\ \E signal \in BOOLEAN : round' = [Resting EXCEPT !.hint = signal /\ inbox.posted > 0]
  /\ UNCHANGED <<inbox, cursors, rows, account, passedOver>> /\ Recorded

TriggerReplied(m) == m \in answered

PeerReplied(m) == inbox.peerLimit /\ m \in Inbound /\ answered # {}

(* The guards of the snapshot; the echo, blacklist, rule and cooldown       *)
(* verdicts depend on texts and lists and may go either way.                *)
JudgeMessage ==
  /\ Answering("answer") /\ round.can
  /\ \/ Pass("settle")
     \/ ~TriggerReplied(Current) /\ ~PeerReplied(Current) /\ Pass("send")
  /\ UNCHANGED <<inbox, cursors, rows, account, passedOver>> /\ Recorded

Deliver ==
  /\ Answering("send")
  /\ delivered' = [delivered EXCEPT ![Current] = @ + 1]
  /\ Pass("log")
  /\ UNCHANGED <<inbox, cursors, rows, account, answered, unrecorded, passedOver>>

(* A send that fails may have delivered earlier segments of the answer, or  *)
(* this one without our knowing.                                            *)
PerhapsDelivered ==
  \/ UNCHANGED <<delivered, unrecorded>>
  \/ /\ delivered' = [delivered EXCEPT ![Current] = @ + 1]
     /\ unrecorded' = [unrecorded EXCEPT ![Current] = @ + 1]

(* SendRiskControlError: the rest of the batch is still answered.           *)
RefusedForRisk ==
  /\ Answering("send") /\ PerhapsDelivered
  /\ account' = [account EXCEPT !.cred = "receive_only"]
  /\ Pass("settle")
  /\ UNCHANGED <<inbox, cursors, rows, answered, passedOver>>

(* Any other error.                                                         *)
SendFails ==
  /\ Answering("send") /\ PerhapsDelivered
  /\ Pass("settle")
  /\ UNCHANGED <<inbox, cursors, rows, account, answered, passedOver>>

(* LoginExpiredError of a scan or a send: the round is dropped, and the     *)
(* account after Confirm of them in a row.                                  *)
LoginExpires ==
  /\ \/ /\ round.pc = "store" /\ round.page = {m \in 1..round.next : m > round.from}
        /\ UNCHANGED <<delivered, unrecorded>>
     \/ Answering("send") /\ PerhapsDelivered
  /\ round' = [Resting EXCEPT !.hint = round.hint]
  /\ account' = IF account.streak + 1 >= Confirm
                THEN [account EXCEPT !.status = 2, !.cred = "invalid", !.streak = 0]
                ELSE [account EXCEPT !.streak = @ + 1]
  /\ UNCHANGED <<inbox, cursors, rows, answered, passedOver>>

(* Faulty variant: the log is left to the transaction of the counters, and  *)
(* that one is not told.                                                    *)
WriteLogWithCounters ==
  /\ Answering("log")
  /\ Pass("count")
  /\ UNCHANGED <<inbox, cursors, rows, account, answered, delivered, unrecorded, passedOver>>

(* _write_reply_log: the log, then the counters and the message's row.      *)
WriteLog ==
  /\ Answering("log")
  /\ answered' = answered \cup {Current}
  /\ Pass("count")
  /\ UNCHANGED <<inbox, cursors, rows, account, delivered, unrecorded, passedOver>>

LogFails ==
  /\ Answering("log")
  /\ unrecorded' = [unrecorded EXCEPT ![Current] = @ + 1]
  /\ Pass("settle")
  /\ UNCHANGED <<inbox, cursors, rows, account, answered, delivered, passedOver>>

Processed(m) == IF m \in Inbound THEN [rows EXCEPT ![m] = "done"] ELSE rows

CountReply ==
  /\ Answering("count")
  /\ account' = [account EXCEPT !.today = @ + 1]
  /\ rows' = Processed(Current)
  /\ Pass("sendable")
  /\ UNCHANGED <<inbox, cursors, passedOver>> /\ Recorded

(* mark_account_sendable, whatever was found about the account meanwhile.   *)
MarkSendable ==
  /\ Answering("sendable")
  /\ account' = [account EXCEPT !.status = 1, !.cred = "sendable"]
  /\ Pass("settle")
  /\ UNCHANGED <<inbox, cursors, rows, passedOver>> /\ Recorded

(* _mark_message_processed                                                  *)
Settle ==
  /\ Answering("settle")
  /\ rows' = Processed(Current)
  /\ round' = [round EXCEPT !.pc = "answer", !.batch = Tail(@)]
  /\ UNCHANGED <<inbox, cursors, account, passedOver>> /\ Recorded

-----------------------------------------------------------------------------
(* The surroundings.                                                        *)
PostMessage ==
  /\ inbox.posted < inbox.size
  /\ inbox' = [inbox EXCEPT !.posted = @ + 1]
  /\ UNCHANGED <<cursors, rows, account, round, passedOver>> /\ Recorded

Interrupted ==
  IF Answering("log") THEN [unrecorded EXCEPT ![Current] = @ + 1] ELSE unrecorded

(* The process dies: an answer not yet logged is forgotten.                 *)
CrashLoop ==
  /\ round.pc # "idle"
  /\ round' = Resting
  /\ cursors' = [cursors EXCEPT !.memory = 0]
  /\ account' = [account EXCEPT !.streak = 0]
  /\ unrecorded' = Interrupted
  /\ UNCHANGED <<inbox, rows, answered, delivered, passedOver>>

(* The probe finds the login gone.                                          *)
ProbeInvalidates ==
  /\ account.status = 1
  /\ account' = [account EXCEPT !.status = 2, !.cred = "invalid"]
  /\ UNCHANGED <<inbox, cursors, rows, round, passedOver>> /\ Recorded

(* The panel imports a login, or turns automatic replies on or off: it      *)
(* loads the row, and saves all of it when it is done.                      *)
PanelLoads(row) ==
  /\ panel = NoAccount /\ panel' = row
  /\ UNCHANGED <<inbox, cursors, rows, account, round, passedOver>> /\ Recorded

ImportLogin ==
  /\ inbox.online
  /\ account.status # 1 \/ account.cred # "sendable"
  /\ PanelLoads([account EXCEPT !.status = 1, !.cred = "sendable"])

ToggleAutoReply == PanelLoads([account EXCEPT !.auto = ~@])

PanelSaves ==
  /\ panel # NoAccount /\ panel' = NoAccount
  /\ account' = [panel EXCEPT !.streak = account.streak]
  /\ UNCHANGED <<inbox, cursors, rows, round, passedOver>> /\ Recorded

(* The logout command and an identity mismatch stop the loop and delete its *)
(* files.                                                                   *)
ForgetRuntimeState ==
  /\ round' = Resting
  /\ cursors' = [memory |-> 0, file |-> 0, conv |-> 0]
  /\ account' = [account EXCEPT !.status = 2, !.cred = "invalid", !.streak = 0]
  /\ unrecorded' = Interrupted
  /\ UNCHANGED <<inbox, rows, answered, delivered, passedOver>>

(* scheduler.tasks.douyin_reset_daily_quota                                 *)
ResetDailyQuota ==
  /\ account.today > 0
  /\ account' = [account EXCEPT !.today = 0]
  /\ UNCHANGED <<inbox, cursors, rows, round, passedOver>> /\ Recorded

-----------------------------------------------------------------------------
ReplyInit ==
  /\ \E b \in Inboxes :
       /\ inbox = [size |-> b.size, upsets |-> b.upsets, online |-> b.online,
                   peerLimit |-> b.peerLimit, posted |-> 0]
       /\ account = [status |-> IF b.online THEN 1 ELSE 2, cred |-> "sendable", auto |-> TRUE,
                     today |-> 0, synced |-> FALSE, streak |-> 0]
  /\ cursors = [memory |-> 0, file |-> 0, conv |-> 0]
  /\ rows = [m \in Inbound |-> "none"]
  /\ round = Resting /\ panel = NoAccount
  /\ answered = {} /\ passedOver = {} /\ replyUpsets = 0
  /\ delivered = [m \in Messages |-> 0] /\ unrecorded = [m \in Messages |-> 0]

ScanStep ==
  \/ ScanInbox \/ SaveCursor(TRUE) \/ EndHistory \/ RecoverPending(FALSE)
  \/ \E m \in Messages : StoreMessage(m) \/ TrimHistory(m) \/ TakeNotice(m)

AnswerStep ==
  EndRound \/ JudgeMessage \/ Deliver \/ WriteLog \/ CountReply \/ MarkSendable \/ Settle

ReplyUpset ==
  \/ SaveCursor(FALSE) \/ RefusedForRisk \/ SendFails \/ LoginExpires \/ LogFails \/ CrashLoop
  \/ ProbeInvalidates \/ ForgetRuntimeState
  \/ \E m \in Messages : StoreFails(m)

ReplyNext ==
  \/ /\ UNCHANGED <<panel, replyUpsets>>
     /\ \/ ScanStep \/ AnswerStep \/ ScanConversation \/ RecoverPending(TRUE)
        \/ PostMessage \/ ResetDailyQuota
  \/ (ImportLogin \/ PanelSaves) /\ UNCHANGED replyUpsets
  \/ /\ replyUpsets < inbox.upsets /\ replyUpsets' = replyUpsets + 1
     /\ (ReplyUpset /\ UNCHANGED panel) \/ ToggleAutoReply

(* The loop keeps running, and the interval between two recoveries passes.  *)
ReplyFairness ==
  /\ WF_replyVars(ScanStep /\ UNCHANGED <<panel, replyUpsets>>)
  /\ WF_replyVars(AnswerStep /\ UNCHANGED <<panel, replyUpsets>>)
  /\ SF_replyVars(RecoverPending(TRUE) /\ UNCHANGED <<panel, replyUpsets>>)

ReplySpec == ReplyInit /\ [][ReplyNext]_replyVars /\ ReplyFairness

-----------------------------------------------------------------------------
(* Properties.                                                              *)

(* Invariant: a message is answered once, and once more only for an answer  *)
(* whose record was lost: a replayed notice, a recovered message or a       *)
(* second scan never repeats a recorded answer.                             *)
RepeatsOnlyUnrecorded == \A m \in Messages : delivered[m] <= 1 + unrecorded[m]

(* Invariant: the saved cursor never passes an inbound message that no scan *)
(* has seen, whenever the loop is cut off: what lies behind the cursor is   *)
(* stored, or was seen and passed over.                                     *)
CursorPassesOnlySeen ==
  \A m \in Inbound : m <= cursors.file => m \in Stored \cup passedOver

(* Temporal property: of an account that stays able to reply every stored   *)
(* message is processed or its answer recorded, though a lost login or a    *)
(* crash dropped the batch it was in.                                       *)
StoredMessagesAreSettled ==
  <>[](account.status = 1 /\ CanReply /\ account.today < Quota)
    => \A m \in Inbound : []<>(rows[m] # "new" \/ m \in answered)
=============================================================================
