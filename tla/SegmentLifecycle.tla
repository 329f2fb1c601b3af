-------------------------- MODULE SegmentLifecycle --------------------------
(***************************************************************************)
(* The states of one durable outbound segment and of the batch it belongs  *)
(* to, as store.rs defines them: which transition may be applied in which  *)
(* status, what it writes, and how a batch's status follows from its       *)
(* segments. Constant-level: CoreStore keeps the records these operators   *)
(* work on.                                                                *)
(***************************************************************************)
EXTENDS Integers

CONSTANTS
  PlatformIds,   \* server message ids an acknowledgement or a receipt carries
  NoPlatformId   \* the NULL of outbound_segments.platform_message_id

ASSUME NoPlatformIdAssumption == NoPlatformId \notin PlatformIds

SegmentStatus ==
  {"prepared", "sending", "confirmed", "retryable", "rejected", "uncertain"}

BatchStatus == SegmentStatus \cup {"partial"}

(* SegmentTransition; StartAutomaticAttempt is "start_automatic".          *)
StartTransitions == {"start", "start_automatic"}
SegmentTransition ==
  StartTransitions \cup
  {"cancel_prepared", "confirm", "mark_retryable", "reject", "mark_uncertain"}

TargetStatus ==
  [start |-> "sending", start_automatic |-> "sending",
   confirm |-> "confirmed", mark_retryable |-> "retryable",
   reject |-> "rejected", cancel_prepared |-> "rejected",
   mark_uncertain |-> "uncertain"]

(* The statuses a transition may leave.                                    *)
SourceStatuses ==
  [start |-> {"prepared", "retryable"},
   start_automatic |-> {"prepared", "retryable"},
   cancel_prepared |-> {"prepared", "retryable"},
   confirm |-> {"sending", "uncertain"},
   reject |-> {"sending", "uncertain"},
   mark_retryable |-> {"sending"},
   mark_uncertain |-> {"sending"}]

ValidTransition(from, transition) == from \in SourceStatuses[transition]

(* One row of outbound_segments. `fence' is last_fence_epoch, `updated'    *)
(* updated_at_ms. last_error is left out: only its wording depends on it.  *)
Segment ==
  [status : SegmentStatus, attempts : Nat, fence : Nat,
   platformId : PlatformIds \cup {NoPlatformId}, updated : Nat]

NewSegment(epoch, at) ==
  [status |-> "prepared", attempts |-> 0, fence |-> epoch,
   platformId |-> NoPlatformId, updated |-> at]

ApplyTransition(seg, transition, platformId, epoch, at) ==
  [status |-> TargetStatus[transition],
   attempts |-> IF transition \in StartTransitions THEN seg.attempts + 1
                                                   ELSE seg.attempts,
   fence |-> epoch,
   platformId |-> IF transition \in StartTransitions THEN NoPlatformId
                  ELSE IF transition = "confirm" THEN platformId
                  ELSE seg.platformId,
   updated |-> at]

(* Faulty variant: an interrupted attempt may be repeated.                 *)
RecoverRetryable(seg, epoch, at) ==
  IF seg.status = "sending" /\ seg.fence < epoch
  THEN [seg EXCEPT !.status = "retryable", !.fence = epoch, !.updated = at]
  ELSE seg

(* A Sending segment of an older epoch has an unknown outcome.             *)
RecoverInterrupted(seg, epoch, at) ==
  IF seg.status = "sending" /\ seg.fence < epoch
  THEN [seg EXCEPT !.status = "uncertain", !.fence = epoch, !.updated = at]
  ELSE seg

StatusesOf(segs) == {segs[i].status : i \in DOMAIN segs}

(* The least settled segment decides; a batch whose segments are all       *)
(* terminal but not alike was delivered in part.                           *)
DeriveBatchStatus(segs) ==
  LET S == StatusesOf(segs)
  IN  CASE "uncertain" \in S -> "uncertain"
        [] S \cap {"uncertain", "sending"} = {"sending"} -> "sending"
        [] S \cap {"uncertain", "sending", "retryable"} = {"retryable"} -> "retryable"
        [] S \cap {"uncertain", "sending", "retryable", "prepared"} = {"prepared"}
             -> "prepared"
        [] S = {"confirmed"} -> "confirmed"
        [] S = {"rejected"} -> "rejected"
        [] S = {"confirmed", "rejected"} -> "partial"

TerminalSegment == {"confirmed", "rejected"}
TerminalBatch == {"confirmed", "rejected", "partial"}

AllTerminal(segs) == StatusesOf(segs) \subseteq TerminalSegment
=============================================================================
