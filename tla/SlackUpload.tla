---------------------------- MODULE SlackUpload ----------------------------
(***************************************************************************)
(* One reply with files, sent to Slack: _deliver_attachments and what it   *)
(* calls in libraries/slack/src/our_ark_slack/core.py, the record it keeps *)
(* of the delivery, Slack, and the journal that calls it again             *)
(* (NotificationService of app/notifications.py; Notifications.tla models  *)
(* the journal for every provider).                                        *)
(*                                                                         *)
(* Each request to Slack and each write of the record is a step.  A        *)
(* request fails before it has an effect or, if its answer is lost, after. *)
(* The process may end between two steps.  Slack drops a text with a       *)
(* client message id that it has seen.                                     *)
(***************************************************************************)
EXTENDS Naturals, FiniteSets

CONSTANTS Files,        \* the attachments of the reply
          MaxAttempts,  \* attempts before the fallback; also MAX_DELIVERY_ATTEMPTS
          MaxFaults     \* bound: failed requests and crashes

VARIABLES disk,     \* delivery-<digest>.json
          mem,      \* the record as the running call has it
          at,       \* the step of the running call; "idle": none runs
          by,       \* who called: "deliver", "reconcile" in it, "recover" in the journal
          journal,  \* the journal's record: status and attempts
          slack,    \* ghost: files shared, and texts shown, by number of times
          faults

vars == <<disk, mem, at, by, journal, slack, faults>>

Texts == {"comment", "rest", "partial", "fallback"}

\* _load_outbound_state of a delivery without a record.
NoRecord == [status |-> "pending", attempts |-> 0, stage |-> [f \in Files |-> "none"],
             shared |-> FALSE, rest |-> FALSE, outcome |-> "none"]

Init ==
    /\ disk = NoRecord /\ mem = NoRecord /\ at = "idle" /\ by = "deliver"
    /\ journal = [status |-> "pending", attempts |-> 0]
    /\ slack = [shares |-> [f \in Files |-> 0], texts |-> [t \in Texts |-> 0]]
    /\ faults = MaxFaults

-----------------------------------------------------------------------------
(* Slack.                                                                  *)

Shown(t) == slack.texts[t] > 0

\* chat.postMessage with a client message id.
PostOnce(t) == slack' = [slack EXCEPT !.texts[t] = 1]

\* files.completeUploadExternal: the files, with the first chunk as comment.
Share(files) ==
    slack' = [shares |-> [f \in Files |-> slack.shares[f] + IF f \in files THEN 1 ELSE 0],
              texts |-> [slack.texts EXCEPT !["comment"] = @ + IF files = {} THEN 0 ELSE 1]]

\* _slack_file_shared, of each file of the record.
SharedFiles == {f \in Files : slack.shares[f] > 0 /\ mem.stage[f] = "uploaded"}

-----------------------------------------------------------------------------
(* The journal.                                                            *)

Settle(status) == journal' = [journal EXCEPT !.status = status]

\* The call returns a receipt.
Return == at' = "idle" /\ Settle("delivered")

\* It raises: the journal tries again while attempts are left.
Raise ==
    /\ at' = "idle"
    /\ Settle(IF journal.attempts < MaxAttempts THEN "retryable_failure" ELSE "terminal_failure")

\* _deliver: a claim, then deliver_notification.
Deliver ==
    /\ at = "idle" /\ journal.status \in {"pending", "retryable_failure"}
    /\ journal' = [status |-> "in_flight", attempts |-> journal.attempts + 1]
    /\ at' = "load" /\ by' = "deliver"
    /\ UNCHANGED <<disk, mem, slack, faults>>

\* _recover_in_flight, after a restart: Slack is asked first.
Recover ==
    /\ at = "idle" /\ journal.status = "in_flight"
    /\ mem' = disk /\ at' = "reconcile" /\ by' = "recover"
    /\ UNCHANGED <<disk, journal, slack, faults>>

\* The answer is not "delivered": another attempt if one is left.
TryAgain ==
    /\ by' = "deliver"
    /\ IF journal.attempts >= MaxAttempts THEN at' = "idle" /\ Settle("terminal_failure")
       ELSE at' = "load" /\ journal' = [journal EXCEPT !.attempts = @ + 1]

-----------------------------------------------------------------------------
(* The delivery.                                                           *)

Write(record) == disk' = record /\ mem' = record

Go(step) == at' = step /\ UNCHANGED journal

\* A delivered or interrupted record is not started again.
Load ==
    /\ at = "load"
    /\ mem' = disk
    /\ CASE disk.status = "delivered" -> Return /\ UNCHANGED by
         [] disk.status = "completing" -> Go("reconcile") /\ by' = "reconcile"
         [] OTHER -> Go("attempt") /\ UNCHANGED by
    /\ UNCHANGED <<disk, slack, faults>>

\* None of the files that were uploaded is in the conversation.
NotShared == SharedFiles = {}

\* reconcile_notification.  If nothing was shared the upload is tried again; a
\* partial share is not repeated.
Reconcile ==
    /\ at = "reconcile"
    /\ \/ /\ mem.status = "delivered"
          /\ Return /\ UNCHANGED <<disk, mem, by>>
       \/ /\ mem.status # "delivered" /\ SharedFiles = Files
          /\ Write([mem EXCEPT !.status = "completing", !.shared = TRUE, !.outcome = "files"])
          /\ Go("rest") /\ UNCHANGED by
       \/ /\ mem.status # "delivered" /\ SharedFiles # Files
          /\ CASE by = "recover" -> TryAgain
               [] by # "recover" /\ NotShared -> Go("attempt") /\ by' = "deliver"
               [] OTHER -> Go("partial") /\ UNCHANGED by
          /\ UNCHANGED <<disk, mem>>
    /\ UNCHANGED <<slack, faults>>

\* The attempt is counted.  Files that changed since their import, or that are not
\* allowed (_verified_artifact), are not sent: the text is.
Attempt ==
    /\ at = "attempt"
    /\ Write([mem EXCEPT !.attempts = @ + 1])
    /\ (Go("upload") \/ Go("fallback"))
    /\ UNCHANGED <<by, slack, faults>>

\* The URL of one file is allocated; then its bytes are sent.
Upload(f) ==
    /\ at = "upload" /\ mem.stage[f] # "uploaded"
    /\ Write([mem EXCEPT !.stage[f] = IF @ = "none" THEN "url_allocated" ELSE "uploaded"])
    /\ UNCHANGED <<at, by, journal, slack, faults>>

\* Fault: the record does not say that the files are about to be shared.
Completing_Unwritten ==
    /\ at = "upload" /\ \A f \in Files : mem.stage[f] = "uploaded"
    /\ mem' = [mem EXCEPT !.status = "completing"]
    /\ at' = "complete"
    /\ UNCHANGED <<disk, by, journal, slack, faults>>

Completing ==
    /\ at = "upload" /\ \A f \in Files : mem.stage[f] = "uploaded"
    /\ Write([mem EXCEPT !.status = "completing"])
    /\ at' = "complete"
    /\ UNCHANGED <<by, journal, slack, faults>>

\* The request takes effect and is answered.
Complete ==
    /\ at = "complete"
    /\ Share(Files)
    /\ at' = "completed"
    /\ UNCHANGED <<disk, mem, by, journal, faults>>

RecordReferences ==
    /\ at = "completed"
    /\ Write([mem EXCEPT !.shared = TRUE, !.outcome = "files"])
    /\ at' = "rest"
    /\ UNCHANGED <<by, journal, slack, faults>>

\* _finish_attachment_delivery: the trailing text, then its record, then the end.
PostRest ==
    /\ at = "rest" /\ ~mem.rest
    /\ PostOnce("rest")
    /\ mem' = [mem EXCEPT !.rest = TRUE]
    /\ at' = "rest_posted"
    /\ UNCHANGED <<disk, by, journal, faults>>

RecordRest ==
    /\ at = "rest_posted"
    /\ disk' = mem /\ at' = "rest"
    /\ UNCHANGED <<mem, by, journal, slack, faults>>

Finish ==
    /\ at = "rest" /\ mem.rest
    /\ Write([mem EXCEPT !.status = "delivered"])
    /\ Return
    /\ UNCHANGED <<by, slack, faults>>

Posted == [partial |-> "partial_posted", fallback |-> "fallback_posted"]
Notes == DOMAIN Posted

\* _partial_attachment_fallback and _attachment_fallback: a text, then the record.
PostNote(n) ==
    /\ at = n
    /\ PostOnce(n)
    /\ at' = Posted[n]
    /\ UNCHANGED <<disk, mem, by, journal, faults>>

\* The second of them reads the record again.
RecordNote(n) ==
    /\ at = Posted[n]
    /\ Write([(IF n = "fallback" THEN disk ELSE mem) EXCEPT !.status = "delivered", !.outcome = n])
    /\ Return
    /\ UNCHANGED <<by, slack, faults>>

-----------------------------------------------------------------------------
(* Failures.                                                               *)

\* Where an error goes: to the handlers of _deliver_attachments, or past them if it
\* comes from the reconciliation.
Handler ==
    CASE by = "recover" -> at' = "idle" /\ Settle("retryable_failure")
      [] by = "reconcile" -> Raise
      [] by = "deliver" /\ mem.shared ->
            IF mem.attempts >= MaxAttempts THEN Go("partial") ELSE Raise
      [] OTHER ->
            \/ Go("fallback")     \* permanent, no permission, or the last attempt
            \/ mem.attempts < MaxAttempts /\ Raise

\* A request fails, possibly after (some of) its effect.
RequestFails ==
    /\ faults > 0 /\ faults' = faults - 1
    /\ \/ at = "upload" /\ UNCHANGED <<by, slack>> /\ Handler
       \/ at = "complete" /\ (\E files \in SUBSET Files : Share(files)) /\ UNCHANGED by /\ Handler
       \/ at = "rest" /\ ~mem.rest /\ (UNCHANGED slack \/ PostOnce("rest")) /\ UNCHANGED by /\ Handler
       \/ at \in Notes /\ (UNCHANGED slack \/ PostOnce(at)) /\ UNCHANGED by /\ Raise
       \/ /\ at = "reconcile" /\ mem.status # "delivered" /\ \E f \in Files : mem.stage[f] # "none"
          /\ UNCHANGED slack
          /\ (IF by = "recover" THEN TryAgain ELSE Raise /\ UNCHANGED by)
    /\ UNCHANGED <<disk, mem>>

Crash ==
    /\ at # "idle" /\ faults > 0
    /\ faults' = faults - 1 /\ at' = "idle"
    /\ UNCHANGED <<disk, mem, by, journal, slack>>

Next ==
    \/ Deliver \/ Recover \/ Load \/ Reconcile \/ Attempt
    \/ \E f \in Files : Upload(f)
    \/ Completing \/ Complete \/ RecordReferences \/ PostRest \/ RecordRest \/ Finish
    \/ \E n \in Notes : PostNote(n) \/ RecordNote(n)
    \/ RequestFails \/ Crash

Spec == Init /\ [][Next]_vars

-----------------------------------------------------------------------------
(* Properties.                                                             *)

\* The record and the journal stay within their types.
TypeOK ==
    /\ {disk, mem} \subseteq
         [status : {"pending", "completing", "delivered"}, attempts : 0..MaxAttempts + MaxFaults + 1,
          stage : [Files -> {"none", "url_allocated", "uploaded"}],
          shared : BOOLEAN, rest : BOOLEAN, outcome : {"none", "files", "partial", "fallback"}]
    /\ by \in {"deliver", "reconcile", "recover"}
    /\ journal.status \in {"pending", "in_flight", "retryable_failure", "delivered", "terminal_failure"}

\* However a delivery is interrupted and whatever answers are lost, no file appears
\* in the conversation twice (libraries/slack/README.md: instead of completing or
\* posting it again).
FilesSharedOnce == \A f \in Files : slack.shares[f] <= 1

\* A reply reported as delivered was: all files, their comment and the rest of the
\* text; or the text with the reason; or, after a partial share, the notice.
DeliveredIsShown ==
    journal.status = "delivered" =>
        CASE disk.outcome = "files" ->
               /\ \A f \in Files : slack.shares[f] > 0
               /\ Shown("comment") /\ Shown("rest")
          [] disk.outcome = "partial" -> Shown("partial") /\ Shown("comment")
          [] disk.outcome = "fallback" -> Shown("fallback")
          [] OTHER -> FALSE
=============================================================================
