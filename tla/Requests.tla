------------------------------ MODULE Requests ------------------------------
(***************************************************************************)
(* What one chat message sets off: /do, /task, or a conversation in which  *)
(* the model issues actions that a journal keeps, across crashes and the   *)
(* redelivery of the message.  See app/conversation.py and _do, _task,     *)
(* _queue_paused_request, _queue_direct_work_next, _natural_with_session   *)
(* and _execute_conversation_action of app/core.py.                        *)
(*                                                                         *)
(* A request is a message with an index: 0 for a command, i for action i   *)
(* of a conversation, as _CURRENT_EVENT_KEY has it.  The receipt of a      *)
(* message (module Inbox) is reduced to answered.  Of the task queue       *)
(* (module TaskQueue) it keeps the status and the idempotency key of the   *)
(* tasks, and that one task runs at a time.                                *)
(***************************************************************************)
EXTENDS Naturals, Sequences, FiniteSets

CONSTANTS Messages,    \* how many messages the chat has
          MaxActions,  \* MAX_ACTIONS; 6 in the code
          MaxTasks,    \* bound: tasks of the queue
          MaxFaults    \* bound: crashes, and times that the runtime becomes unavailable

VARIABLES kind,       \* what each message is
          answered,   \* messages with a completed receipt
          journal,    \* the conversation journal of each message
          job,        \* the tasks: request, purpose and status
          available,  \* the agent runtime has access
          main,       \* what the thread that handles the message is at
          performed,  \* ghost: the operations performed, by message, in order
          answer,     \* ghost: what the answer to each message says was done
          faults

vars == <<kind, answered, journal, job, available, main, performed, answer, faults>>
chat == <<kind, answered, answer>>
queue == <<job, available>>

Tasks == 1..MaxTasks
Purposes == {"direct", "direct-next", "task", "paused:/do", "paused:/task"}
Statuses == {"pending", "running", "paused", "completed"}
Operations == {"do", "task", "other"}

NoTask == [request |-> <<0, 0>>, purpose |-> "none", status |-> "none"]
At(step) == [step |-> step, index |-> 0, operation |-> "none", seen |-> "none", stop |-> FALSE]
NoAnswer == [receipts |-> {}, uncertain |-> FALSE]

Init ==
    /\ kind \in [1..Messages -> {"do", "task", "talk"}]
    /\ answered = {} /\ journal = [m \in 1..Messages |-> <<>>]
    /\ job = [t \in Tasks |-> NoTask] /\ available = TRUE
    /\ main = At("idle")
    /\ performed = [m \in 1..Messages |-> <<>>]
    /\ answer = [m \in 1..Messages |-> NoAnswer]
    /\ faults = MaxFaults

\* Messages are handled in the order of the channel.
Message == 1 + Cardinality(answered)
Talking == kind[Message] = "talk"
Request == <<Message, main.index>>

With(status) == {t \in Tasks : job[t].status = status}
Go(step) == main' = [main EXCEPT !.step = step]

-----------------------------------------------------------------------------
(* The message.                                                            *)

\* handle_event: no completed receipt, so the message is dispatched.
Begin ==
    /\ main.step = "idle" /\ Message <= Messages
    /\ main' = IF Talking THEN [At("turn") EXCEPT !.index = 1]
               ELSE [At("look") EXCEPT !.operation = kind[Message]]
    /\ UNCHANGED <<chat, journal, queue, performed, faults>>

\* complete_event; a redelivery from here on repeats nothing.
Answer(receipts, uncertain) ==
    /\ answered' = answered \cup {Message}
    /\ answer' = [answer EXCEPT ![Message] = [receipts |-> receipts, uncertain |-> uncertain]]
    /\ main' = At("idle") /\ UNCHANGED kind

-----------------------------------------------------------------------------
(* run_conversation: turn by turn, from the journal where it has the turn. *)

Turn == journal[Message][main.index]
Planned == main.index <= Len(journal[Message])

\* _receipts: the results of the actions before this turn.
Receipts == {i \in 1..(main.index - 1) : journal[Message][i].state = "done"}

\* The model replies with one action, an invalid one, or the final text, which
\* is also what an error of the runtime becomes; journal.plan.  That no action
\* be emitted after the last is only asked of the model.
Respond ==
    /\ main.step = "turn" /\ ~Planned
    /\ \E reply \in IF available THEN Operations \cup {"invalid", "final"} ELSE {"final"} :
          journal' = [journal EXCEPT ![Message] =
                         Append(@, [operation |-> reply, state |-> "planned", stop |-> FALSE])]
    /\ UNCHANGED <<chat, queue, main, performed, faults>>

\* An action that was running when the process ended may have completed.
Interrupted ==
    /\ main.step = "turn" /\ Planned /\ Turn.state = "running"
    /\ Answer(Receipts, TRUE)
    /\ UNCHANGED <<journal, queue, performed, faults>>

Invalid ==
    /\ main.step = "turn" /\ Planned /\ Turn.operation = "invalid"
    /\ \/ /\ main.index <= MaxActions
          /\ main' = [main EXCEPT !.index = @ + 1] /\ UNCHANGED chat
       \/ /\ main.index > MaxActions /\ Answer(Receipts, FALSE)
    /\ UNCHANGED <<journal, queue, performed, faults>>

Final ==
    /\ main.step = "turn" /\ Planned /\ Turn.operation = "final"
    /\ Answer(Receipts, FALSE)
    /\ UNCHANGED <<journal, queue, performed, faults>>

ActionLimit ==
    /\ main.step = "turn" /\ Planned /\ Turn.operation \in Operations
    /\ Turn.state # "running" /\ main.index > MaxActions
    /\ Answer(Receipts, FALSE)
    /\ UNCHANGED <<journal, queue, performed, faults>>

\* Fault: the operation is performed before the journal says that it runs.
MarkRunning_Not == [journal EXCEPT ![Message][main.index].state = "planned"]

\* journal.update: from here on the action is not repeated.
MarkRunning == [journal EXCEPT ![Message][main.index].state = "running"]

\* _execute_conversation_action hands the action to the handler of its command.
Execute ==
    /\ main.step = "turn" /\ Planned /\ Turn.operation \in Operations
    /\ Turn.state = "planned" /\ main.index <= MaxActions
    /\ journal' = MarkRunning
    /\ main' = [main EXCEPT !.operation = Turn.operation,
                            !.step = IF Turn.operation = "other" THEN "other" ELSE "look"]
    /\ UNCHANGED <<chat, queue, performed, faults>>

\* Any other command; it fails, or asks for a restart, and ends the turns, or not.
Other ==
    /\ main.step = "other"
    /\ performed' = [performed EXCEPT ![Message] = Append(@, main.index)]
    /\ \E stop \in BOOLEAN : main' = [main EXCEPT !.step = "record", !.stop = stop]
    /\ UNCHANGED <<chat, journal, queue, faults>>

\* The result of the action in the journal.
Record ==
    /\ main.step = "record"
    /\ journal' = [journal EXCEPT ![Message][main.index] =
                      [@ EXCEPT !.state = "done", !.stop = main.stop]]
    /\ main' = [At("turn") EXCEPT !.index = main.index]
    /\ UNCHANGED <<chat, queue, performed, faults>>

Stops(turn) == turn.stop

\* An action that is done is an observation, read again or not.
Done ==
    /\ main.step = "turn" /\ Planned /\ Turn.state = "done" /\ main.index <= MaxActions
    /\ \/ /\ Stops(Turn) /\ Answer(Receipts \cup {main.index}, FALSE)
       \/ /\ ~Stops(Turn) /\ main' = [main EXCEPT !.index = @ + 1] /\ UNCHANGED chat
    /\ UNCHANGED <<journal, queue, performed, faults>>

-----------------------------------------------------------------------------
(* /do and /task, as a command or as an action; the action then stops.     *)

Return ==
    IF Talking THEN /\ main' = [main EXCEPT !.step = "record", !.stop = TRUE] /\ UNCHANGED chat
    ELSE Answer({}, FALSE)

\* _do looks at the queue, and refuses while tasks are paused.
LookPaused ==
    /\ main.step = "look" /\ main.operation = "do" /\ With("paused") # {}
    /\ Return
    /\ UNCHANGED <<journal, queue, performed, faults>>

\* The lane is decided here, before the model writes the context of the task.
Look ==
    /\ main.step = "look"
    /\ \/ main.operation = "task" /\ main' = [main EXCEPT !.step = "snapshot", !.seen = "task"]
       \/ /\ main.operation = "do" /\ With("paused") = {}
          /\ main' = [main EXCEPT !.step = "snapshot",
                                  !.seen = IF With("running") = {} THEN "direct" ELSE "direct-next"]
    /\ UNCHANGED <<chat, journal, queue, performed, faults>>

\* _resolve_task_context_snapshot: a brief, a question or an error, or no runtime.
Snapshot ==
    /\ main.step = "snapshot"
    /\ \/ available /\ Go("enqueue") /\ UNCHANGED chat
       \/ /\ ~available
          /\ main' = [main EXCEPT !.step = "enqueue", !.seen = IF @ = "task" THEN "paused:/task"
                                                               ELSE "paused:/do"]
          /\ UNCHANGED chat
       \/ available /\ Return
    /\ UNCHANGED <<journal, queue, performed, faults>>

\* _find_task_by_idempotency_key, whose key is the request and the purpose.
Same == {t \in Tasks : job[t].status # "none" /\ job[t].request = Request /\ job[t].purpose = main.seen}

New(status) ==
    /\ With("none") # {}
    /\ LET t == CHOOSE t \in With("none") : \A u \in With("none") : t <= u IN
       job' = [job EXCEPT ![t] = [request |-> Request, purpose |-> main.seen, status |-> status]]
    /\ performed' = IF Talking THEN [performed EXCEPT ![Message] = Append(@, main.index)] ELSE performed

\* enqueue_task returns the task that has the key; begin_direct_task refuses it.
Repeated ==
    /\ main.step = "enqueue" /\ Same # {}
    /\ IF main.seen \in {"paused:/do", "paused:/task"} THEN Go("pause") /\ UNCHANGED chat ELSE Return
    /\ UNCHANGED <<journal, queue, performed, faults>>

\* A direct task starts at once, and is refused when another one runs by now.
Direct ==
    /\ main.step = "enqueue" /\ Same = {} /\ main.seen = "direct"
    /\ IF With("running") # {} THEN UNCHANGED <<job, performed>> ELSE New("running")
    /\ Return
    /\ UNCHANGED <<journal, available, faults>>

Enqueue ==
    /\ main.step = "enqueue" /\ Same = {} /\ main.seen # "direct"
    /\ New("pending")
    /\ IF main.seen \in {"paused:/do", "paused:/task"} THEN Go("pause") /\ UNCHANGED chat ELSE Return
    /\ UNCHANGED <<journal, available, faults>>

\* _queue_paused_request pauses the task in a transaction of its own: by then
\* it may run, and then its worker goes on without it, or be finished.
Pause ==
    /\ main.step = "pause"
    /\ job' = [t \in Tasks |-> IF t \in Same /\ job[t].status \in {"pending", "running"}
                               THEN [job[t] EXCEPT !.status = "paused"] ELSE job[t]]
    /\ Return
    /\ UNCHANGED <<journal, available, performed, faults>>

-----------------------------------------------------------------------------
(* Everything else.                                                        *)

\* start_next of a worker thread, from any thread of the daemon.
Claim ==
    /\ With("running") = {} /\ With("paused") = {}
    /\ \E t \in With("pending") : job' = [job EXCEPT ![t].status = "running"]
    /\ UNCHANGED <<chat, journal, available, main, performed, faults>>

Finish ==
    /\ \E t \in With("running") :
          \/ job' = [job EXCEPT ![t].status = "completed"]
          \/ ~available /\ job' = [job EXCEPT ![t].status = "paused"]
    /\ UNCHANGED <<chat, journal, available, main, performed, faults>>

\* Access to the runtime goes, and comes back.
AccessLost ==
    /\ available /\ available' = FALSE /\ faults > 0 /\ faults' = faults - 1
    /\ UNCHANGED <<chat, journal, job, main, performed, answer>>

AccessRestored ==
    /\ ~available /\ available' = TRUE
    /\ UNCHANGED <<chat, journal, job, main, performed, faults>>

\* /task resume all, between two of these messages.
Resume ==
    /\ main.step = "idle" /\ With("paused") # {}
    /\ job' = [t \in Tasks |-> IF job[t].status = "paused" THEN [job[t] EXCEPT !.status = "pending"]
                               ELSE job[t]]
    /\ UNCHANGED <<chat, journal, available, main, performed, faults>>

\* The process ends and starts again; reconciliation requeues the running task
\* and the message that has no completed receipt is delivered again.
Crash ==
    /\ faults > 0 /\ faults' = faults - 1 /\ main' = At("idle")
    /\ job' = [t \in Tasks |-> IF job[t].status = "running" THEN [job[t] EXCEPT !.status = "pending"]
                               ELSE job[t]]
    /\ UNCHANGED <<chat, journal, available, performed>>

Handler ==
    \/ Begin \/ Respond \/ Interrupted \/ Invalid \/ Final \/ ActionLimit \/ Execute \/ Other
    \/ Record \/ Done \/ LookPaused \/ Look \/ Snapshot \/ Repeated \/ Direct \/ Enqueue \/ Pause

Next == Handler \/ Claim \/ Finish \/ AccessLost \/ AccessRestored \/ Resume \/ Crash

Spec == Init /\ [][Next]_vars

\* The main loop goes on; a worker thread takes and finishes its task; access
\* comes back.
FairSpec == Spec /\ WF_vars(Handler) /\ WF_vars(Claim) /\ WF_vars(Finish) /\ WF_vars(AccessRestored)

-----------------------------------------------------------------------------
(* Properties.                                                             *)

TypeOK ==
    /\ answered \subseteq 1..Messages /\ available \in BOOLEAN /\ faults \in 0..MaxFaults
    /\ \A m \in 1..Messages : Len(journal[m]) <= MaxActions + 1
    /\ \A t \in Tasks : job[t].purpose \in Purposes \cup {"none"} /\ job[t].status \in Statuses \cup {"none"}
    /\ \A m \in 1..Messages : performed[m] \in Seq(1..MaxActions)

\* A conversation performs no action twice, and performs them in the order the
\* model issued them, whatever crashes and redeliveries come between: journal
\* of run_conversation (conversation.py:78, docs/testing.md:45).
ActionsHappenOnce ==
    \A m \in 1..Messages : \A i, j \in DOMAIN performed[m] :
        i < j => performed[m][i] < performed[m][j]

\* The answer to a conversation hides no operation: each one performed has its
\* receipt in the answer, or the answer says that an action may have completed.
NothingIsHidden ==
    \A m \in answered : \A i \in DOMAIN performed[m] :
        performed[m][i] \in answer[m].receipts \/ answer[m].uncertain

\* An action that starts work ends the conversation: no operation follows it,
\* not in a process that only has the journal either.
WorkEndsTheTurn ==
    \A m \in 1..Messages : \A t \in Tasks :
        /\ kind[m] = "talk" /\ job[t].request[1] = m
        => performed[m][Len(performed[m])] = job[t].request[2]

\* Every message is answered, for conversations are bounded: in the end there are none of
\* these.
Unanswered == 1..Messages \ answered
=============================================================================
