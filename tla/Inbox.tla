------------------------------- MODULE Inbox -------------------------------
(***************************************************************************)
(* The durable chat inbox: src/src/enoch/app/inbox.py, handle_event and    *)
(* _finish_chat_event of src/src/enoch/app/core.py, and the cursor with    *)
(* which the provider is polled.  One thread handles the events of a poll  *)
(* one after the other; every durable write is a step of its own, because  *)
(* an exception or the end of the process may come between any two.        *)
(*                                                                         *)
(* Events are numbered by their cursor.  The provider returns every event  *)
(* beyond the cursor it is given, oldest first, and forgets the others.    *)
(* Replies go through the notification service under a stable key; see     *)
(* Notifications for what happens inside a delivery.                       *)
(***************************************************************************)
EXTENDS Integers, Sequences

CONSTANTS Last,           \* events are 1..Last
          Foreign,        \* those from chats that are not allowed
          MaxAttempts,    \* MAX_EVENT_ATTEMPTS
          MaxDeliveries,  \* MAX_DELIVERY_ATTEMPTS of the reply
          MaxMishaps      \* bound: exceptions out of a poll, and crashes

Events == 1..Last

ASSUME LastAssumption == Last \in Nat
ASSUME ForeignAssumption == Foreign \subseteq Events
ASSUME AttemptsAssumption ==
    MaxAttempts \in Nat \ {0} /\ MaxDeliveries \in Nat \ {0} /\ MaxMishaps \in Nat

VARIABLES arrived,   \* the newest event that the provider has
          offset,    \* the daemon's cursor
          saved,     \* the cursor on disk
          receipt,   \* inbox.json: status, attempts and reply_sent of each event
          reply,     \* the notification of each reply: "none", "delivered", "failed"
          tries,     \* its delivery attempts
          batch,     \* events of the current poll that are still to be handled
          step,      \* what is to be done with the first of them
          ran,       \* ghost: how often the command of each event was dispatched
          mishaps

vars == <<arrived, offset, saved, receipt, reply, tries, batch, step, ran, mishaps>>

Statuses == {"none", "processing", "failed", "completed", "acknowledged"}
Steps == {"begin", "dispatch", "complete", "exhausted", "reply", "mark", "cursor", "acknowledge"}

Init ==
    /\ arrived = 0 /\ offset = 0 /\ saved = 0
    /\ receipt = [e \in Events |-> [status |-> "none", attempts |-> 0, replySent |-> FALSE]]
    /\ reply = [e \in Events |-> "none"]
    /\ tries = [e \in Events |-> 0]
    /\ batch = <<>> /\ step = "begin"
    /\ ran = [e \in Events |-> 0]
    /\ mishaps = 0

Completed(e) == receipt[e].status \in {"completed", "acknowledged"}

At(e, s) == batch # <<>> /\ Head(batch) = e /\ step = s

GoOn(s) == step' = s /\ UNCHANGED batch
NextEvent == batch' = Tail(batch) /\ step' = "begin"
EndPoll == batch' = <<>> /\ step' = "begin"

SetStatus(e, status) == receipt' = [receipt EXCEPT ![e].status = status]

-----------------------------------------------------------------------------
(* Polling.                                                                *)

Arrive ==
    /\ arrived < Last
    /\ arrived' = arrived + 1
    /\ UNCHANGED <<offset, saved, receipt, reply, tries, batch, step, ran, mishaps>>

Receive ==
    /\ batch = <<>>
    /\ offset < arrived
    /\ batch' = [i \in 1..(arrived - offset) |-> offset + i]
    /\ step' = "begin"
    /\ UNCHANGED <<arrived, offset, saved, receipt, reply, tries, ran, mishaps>>

\* _remember_update_offset
Remember(e) == offset' = e /\ saved' = e

\* The event of a chat that is not allowed leaves nothing but the cursor.
SkipForeign(e) ==
    /\ At(e, "begin")
    /\ e \in Foreign
    /\ Remember(e)
    /\ NextEvent
    /\ UNCHANGED <<arrived, receipt, reply, tries, ran, mishaps>>

\* Fault: a completed receipt does not end the event.
BeginEvent_Always(e) ==
    /\ At(e, "begin")
    /\ e \notin Foreign
    /\ receipt' = [receipt EXCEPT ![e] = [status |-> "processing",
                                          attempts |-> @.attempts + 1,
                                          replySent |-> FALSE]]
    /\ GoOn("dispatch")
    /\ UNCHANGED <<arrived, offset, saved, reply, tries, ran, mishaps>>

\* begin_event
BeginEvent(e) ==
    /\ At(e, "begin")
    /\ e \notin Foreign
    /\ IF Completed(e)
       THEN GoOn(IF receipt[e].replySent THEN "cursor" ELSE "reply") /\ UNCHANGED receipt
       ELSE /\ receipt' = [receipt EXCEPT ![e] = [status |-> "processing",
                                                  attempts |-> @.attempts + 1,
                                                  replySent |-> FALSE]]
            /\ GoOn("dispatch")
    /\ UNCHANGED <<arrived, offset, saved, reply, tries, ran, mishaps>>

-----------------------------------------------------------------------------
(* Handling.                                                               *)

Dispatch(e) ==
    /\ At(e, "dispatch")
    /\ ran' = [ran EXCEPT ![e] = @ + 1]
    /\ GoOn("complete")
    /\ UNCHANGED <<arrived, offset, saved, receipt, reply, tries, mishaps>>

Exhausted(e) == receipt[e].attempts >= MaxAttempts

\* The handler raises, before or after its effects: fail_event.  An event that
\* failed too often is completed with a diagnostic reply instead; an other one
\* is left, and the poll goes on with the next event.
HandlerFails(e) ==
    /\ At(e, "dispatch") \/ At(e, "complete")
    /\ SetStatus(e, "failed")
    /\ IF Exhausted(e) THEN GoOn("exhausted") ELSE NextEvent
    /\ UNCHANGED <<arrived, offset, saved, reply, tries, ran, mishaps>>

\* complete_event
Complete(e) ==
    /\ At(e, "complete") \/ At(e, "exhausted")
    /\ SetStatus(e, "completed")
    /\ GoOn("reply")
    /\ UNCHANGED <<arrived, offset, saved, reply, tries, ran, mishaps>>

-----------------------------------------------------------------------------
(* _finish_chat_event.                                                     *)

\* There is nothing to say, or the reply's notification is settled.
ReplySettled(e) ==
    /\ At(e, "reply")
    /\ \/ reply[e] # "none" /\ UNCHANGED <<reply, tries>>
       \/ /\ reply[e] = "none"
          /\ tries' = [tries EXCEPT ![e] = @ + 1]
          /\ \E r \in {"delivered", "failed"} : reply' = [reply EXCEPT ![e] = r]
    /\ GoOn("mark")
    /\ UNCHANGED <<arrived, offset, saved, receipt, ran, mishaps>>

\* Fault: a reply that may still be retried counts as sent.
ReplyRetryable_Ignored(e) ==
    /\ At(e, "reply")
    /\ reply[e] = "none" /\ tries[e] < MaxDeliveries - 1
    /\ tries' = [tries EXCEPT ![e] = @ + 1]
    /\ GoOn("mark")
    /\ UNCHANGED <<arrived, offset, saved, receipt, reply, ran, mishaps>>

\* A retryable failure leaves the event; the last attempt is terminal.
ReplyRetryable(e) ==
    /\ At(e, "reply")
    /\ reply[e] = "none" /\ tries[e] < MaxDeliveries - 1
    /\ tries' = [tries EXCEPT ![e] = @ + 1]
    /\ NextEvent
    /\ UNCHANGED <<arrived, offset, saved, receipt, reply, ran, mishaps>>

\* The turn is recorded and the receipt marked.
MarkReplySent(e) ==
    /\ At(e, "mark")
    /\ receipt' = [receipt EXCEPT ![e].replySent = TRUE]
    /\ GoOn("cursor")
    /\ UNCHANGED <<arrived, offset, saved, reply, tries, ran, mishaps>>

RememberCursor(e) ==
    /\ At(e, "cursor")
    /\ Remember(e)
    /\ GoOn("acknowledge")
    /\ UNCHANGED <<arrived, receipt, reply, tries, ran, mishaps>>

\* acknowledge_event
Acknowledge(e) ==
    /\ At(e, "acknowledge")
    /\ SetStatus(e, "acknowledged")
    /\ NextEvent
    /\ UNCHANGED <<arrived, offset, saved, reply, tries, ran, mishaps>>

-----------------------------------------------------------------------------
(* What goes wrong.                                                        *)

Mishap ==
    /\ mishaps < MaxMishaps
    /\ mishaps' = mishaps + 1
    /\ EndPoll
    /\ UNCHANGED <<arrived, receipt, reply, tries, ran>>

\* An exception leaves run_once; run_forever polls again.
PollBreaks == batch # <<>> /\ Mishap /\ UNCHANGED <<offset, saved>>

\* The cursor file cannot be written, but the daemon's own cursor has moved.
SaveFails(e) == At(e, "cursor") /\ Mishap /\ offset' = e /\ UNCHANGED saved

\* The daemon ends; the next one loads the cursor.
Crash == Mishap /\ offset' = saved /\ UNCHANGED saved

HandleStep(e) ==
    \/ SkipForeign(e) \/ BeginEvent(e) \/ Dispatch(e) \/ HandlerFails(e) \/ Complete(e)
    \/ ReplySettled(e) \/ ReplyRetryable(e) \/ MarkReplySent(e)
    \/ RememberCursor(e) \/ Acknowledge(e)

DaemonStep == Receive \/ \E e \in Events : HandleStep(e)

Next == Arrive \/ DaemonStep \/ PollBreaks \/ Crash \/ \E e \in Events : SaveFails(e)

Spec == Init /\ [][Next]_vars

\* run_forever polls for ever; events may stop to arrive.
FairSpec == Spec /\ WF_vars(DaemonStep)

-----------------------------------------------------------------------------
(* Properties.                                                             *)

\* Receipts, cursors and the poll are well formed, the poll is in the order of
\* the cursor, and an event that is being finished has a completed receipt.
TypeOK ==
    /\ arrived \in 0..Last /\ offset \in 0..arrived /\ saved \in 0..offset
    /\ receipt \in [Events -> [status : Statuses, attempts : Nat, replySent : BOOLEAN]]
    /\ reply \in [Events -> {"none", "delivered", "failed"}]
    /\ tries \in [Events -> 0..MaxDeliveries]
    /\ batch \in Seq(Events) /\ step \in Steps
    /\ \A i \in 1..Len(batch) : batch[i] = batch[1] + i - 1
    /\ step \in {"reply", "mark", "cursor"} => Completed(Head(batch))
    /\ ran \in [Events -> Nat] /\ mishaps \in Nat

\* A command whose receipt was completed is never dispatched again, whatever is
\* redelivered after a restart.
CommandNotRepeated ==
    [][\A e \in Events : Completed(e) => Completed(e)' /\ ran'[e] = ran[e]]_vars

\* An event is acknowledged only when its reply is settled and marked and the
\* cursor on disk is past it.
AcknowledgedLast ==
    \A e \in Events : receipt[e].status = "acknowledged" =>
        receipt[e].replySent /\ reply[e] # "none" /\ saved >= e

\* An event that failed and may be retried is still ahead of the cursor.
FailuresAreRedelivered ==
    \A e \in Events :
       receipt[e].status = "failed" /\ receipt[e].attempts < MaxAttempts => offset < e

\* No event, poisonous or not, holds up the channel for ever: events come to an end,
\* and then the cursor is past
\* the last: this does not last.
Behind == offset < arrived
=============================================================================
