--------------------------- MODULE ExtensionTasks ---------------------------
(***************************************************************************)
(* The tasks of an agent extension, and the task events that are routed    *)
(* back to it: ExtensionWorkflow of extensions/contracts.py, the event log *)
(* of tasks/events.py, the receipts of extensions/events.py and            *)
(* _drain_extension_task_events of app/core.py, across processes that end  *)
(* and processes that are replaced while one of their hooks runs.          *)
(*                                                                         *)
(* An event is its place in the log, which stands for its random id.  The  *)
(* extension is one that reruns a task of its own that failed, from its    *)
(* hook, with the id of the event as the key, as docs/extensions.md asks.  *)
(* The queue itself is module TaskQueue; here it is the status of tasks.   *)
(***************************************************************************)
EXTENDS Naturals, Sequences

CONSTANTS MaxTasks,      \* bound: tasks of the extension
          MaxProcesses,  \* bound: processes, one after the other
          MaxFaults      \* bound: failed hooks, failed writes, commands sent twice

VARIABLES job,       \* the tasks of the extension: status, idempotency key and parent
          owed,      \* events that the transaction in progress has still to append
          log,       \* task_events.jsonl: task, event, and whether the line can be read
          torn,      \* the log ends in a part of a line
          receipts,  \* task_event_receipts.jsonl: ids of events
          current,   \* the process with the current epoch
          drain,     \* of each process: events it has still to deliver, and where it is
          applied,   \* ghost: the events that the extension was given, in order
          faults

vars == <<job, owed, log, torn, receipts, current, drain, applied, faults>>
tasks == <<job, owed>>
records == <<log, torn>>

Tasks == 1..MaxTasks
Processes == 1..MaxProcesses
Delivered == {"queued", "started", "completed", "failed", "cancelled"}
Terminal == {"completed", "failed", "cancelled"}
Idle == [at |-> "idle", todo |-> {}]
NoTask == [status |-> "none", key |-> 0, parent |-> 0]

Init ==
    /\ job = [t \in Tasks |-> NoTask] /\ owed = <<>>
    /\ log = <<>> /\ torn = FALSE /\ receipts = {}
    /\ current = 1 /\ drain = [p \in Processes |-> Idle]
    /\ applied = <<>> /\ faults = MaxFaults

Fault == faults > 0 /\ faults' = faults - 1

-----------------------------------------------------------------------------
(* The queue.  A transaction writes queue.json, then appends its events,   *)
(* and holds the lock of the queue and the epoch until both are done.      *)

Transaction == owed = <<>>

Record(t, event) == owed' = <<[task |-> t, event |-> event]>>

Become(t, from, to) ==
    /\ Transaction /\ job[t].status \in from
    /\ job' = [job EXCEPT ![t].status = to]

\* ExtensionWorkflow.enqueue: the task that has the key is returned as it is.
Enqueue(key, parent) ==
    IF \E t \in Tasks : job[t].status # "none" /\ job[t].key = key
    THEN UNCHANGED tasks
    ELSE \E t \in Tasks :
            /\ job[t].status = "none" /\ \A u \in 1..(t - 1) : job[u].status # "none"
            /\ job' = [job EXCEPT ![t] = [status |-> "pending", key |-> key, parent |-> parent]]
            /\ Record(t, "queued")

\* enqueue_task of a command, whose default key (0 here) is that of its message,
\* which may be handled again.
Command ==
    /\ Transaction
    /\ job[1].status # "none" => Fault
    /\ job[1].status = "none" => UNCHANGED faults
    /\ Enqueue(0, 0)
    /\ UNCHANGED <<records, receipts, current, drain, applied>>

Start ==
    /\ \A t \in Tasks : job[t].status # "running"
    /\ \E t \in Tasks : Become(t, {"pending"}, "running") /\ Record(t, "started")
    /\ UNCHANGED <<records, receipts, current, drain, applied, faults>>

Finish ==
    /\ \E t \in Tasks, status \in {"completed", "failed"} :
          Become(t, {"running"}, status) /\ Record(t, status)
    /\ UNCHANGED <<records, receipts, current, drain, applied, faults>>

\* ExtensionWorkflow.cancel, of a task that is not over.
Cancel ==
    /\ \E t \in Tasks : Become(t, {"pending", "running"}, "cancelled") /\ Record(t, "cancelled")
    /\ UNCHANGED <<records, receipts, current, drain, applied, faults>>

\* A line that is added to a part of a line cannot be read, and _event_from_line
\* then skips it.
AppendEvent ==
    /\ owed # <<>>
    /\ log' = Append(log, [task |-> Head(owed).task, event |-> Head(owed).event,
                           readable |-> ~torn])
    /\ owed' = Tail(owed) /\ torn' = FALSE
    /\ UNCHANGED <<job, receipts, current, drain, applied, faults>>

\* _record_task_event_safely leaves out what cannot be written.
AppendFails ==
    /\ owed # <<>> /\ owed' = Tail(owed) /\ Fault
    /\ UNCHANGED <<job, records, receipts, current, drain, applied>>

-----------------------------------------------------------------------------
(* _drain_extension_task_events, one at a time in a process.               *)

Readable == {e \in DOMAIN log : log[e].readable /\ log[e].event \in Delivered}

At(p, step) == drain[p].at = step

\* The event in hand: the oldest of those that are left.
Event(p) == CHOOSE e \in drain[p].todo : \A f \in drain[p].todo : e <= f
Rest(p) == drain[p].todo \ {Event(p)}
Onward(p) == IF Rest(p) = {} THEN Idle ELSE [at |-> "check", todo |-> Rest(p)]

\* undelivered_extension_task_events, in the order of the log.
DrainStarts(p) ==
    /\ At(p, "idle") /\ p = current /\ Readable \ receipts # {}
    /\ drain' = [drain EXCEPT ![p] = [at |-> "check", todo |-> Readable \ receipts]]
    /\ UNCHANGED <<tasks, records, receipts, current, applied, faults>>

\* Fault: another try of the extension at the next event.
AfterFailure_Next(p) == Onward(p)

\* What a failed hook leaves: the rest waits for the next drain.
AfterFailure(p) == Idle

\* require_current_daemon_epoch raises in a replaced process.
Stale(p) ==
    /\ drain[p].at \in {"check", "acknowledge"} /\ p # current
    /\ drain' = [drain EXCEPT ![p] = Idle]
    /\ UNCHANGED <<tasks, records, receipts, current, applied, faults>>

CallHook(p) ==
    /\ At(p, "check") /\ p = current
    /\ drain' = [drain EXCEPT ![p].at = "hook"]
    /\ UNCHANGED <<tasks, records, receipts, current, applied, faults>>

\* rerun with a stable idempotency key.
RerunKey(e) == e

\* The hook has its effect; what it asks of the workflow is fenced by the epoch.
HookActs(p) ==
    /\ At(p, "hook")
    /\ IF log[Event(p)].event = "failed" /\ job[log[Event(p)].task].parent = 0
       THEN p = current /\ Transaction /\ Enqueue(RerunKey(Event(p)), log[Event(p)].task)
       ELSE UNCHANGED tasks
    /\ applied' = Append(applied, Event(p))
    /\ drain' = [drain EXCEPT ![p].at = "acknowledge"]
    /\ UNCHANGED <<records, receipts, current, faults>>

\* It raises, on its own or because its process was replaced.
HookFails(p) ==
    /\ At(p, "hook")
    /\ IF p = current THEN Fault ELSE UNCHANGED faults
    /\ drain' = [drain EXCEPT ![p] = AfterFailure(p)]
    /\ UNCHANGED <<tasks, records, receipts, current, applied>>

Acknowledge(p) ==
    /\ At(p, "acknowledge") /\ p = current
    /\ receipts' = receipts \cup {Event(p)}
    /\ drain' = [drain EXCEPT ![p] = Onward(p)]
    /\ UNCHANGED <<tasks, records, current, applied, faults>>

-----------------------------------------------------------------------------
(* Processes.                                                              *)

\* Another process acquires the epoch, which it cannot in a transaction.
Replaced ==
    /\ current < MaxProcesses /\ Transaction
    /\ current' = current + 1
    /\ UNCHANGED <<tasks, records, receipts, drain, applied, faults>>

\* The process ends, in a transaction too, and another one starts; the running
\* task is recovered.
Crash ==
    /\ current < MaxProcesses /\ current' = current + 1
    /\ owed' = <<>>
    /\ torn' \in {torn, owed # <<>> \/ torn}
    /\ job' = [t \in Tasks |-> IF job[t].status = "running" THEN [job[t] EXCEPT !.status = "pending"]
                               ELSE job[t]]
    /\ drain' = [drain EXCEPT ![current] = Idle]
    /\ UNCHANGED <<log, receipts, applied, faults>>

Draining(p) ==
    \/ DrainStarts(p) \/ Stale(p) \/ CallHook(p) \/ HookActs(p) \/ HookFails(p) \/ Acknowledge(p)

Next ==
    \/ Command \/ Start \/ Finish \/ Cancel \/ AppendEvent \/ AppendFails
    \/ (\E p \in Processes : Draining(p))
    \/ Replaced \/ Crash

Spec == Init /\ [][Next]_vars

\* Transactions end; the main loop drains at every pass; a hook returns.
FairSpec ==
    /\ Spec /\ WF_vars(AppendEvent \/ AppendFails)
    /\ \A p \in Processes : WF_vars(Draining(p))

-----------------------------------------------------------------------------
(* Properties.                                                             *)

TypeOK ==
    /\ \A t \in Tasks : job[t].status \in {"none", "pending", "running"} \cup Terminal
    /\ Len(owed) <= 1 /\ torn \in BOOLEAN /\ receipts \subseteq DOMAIN log
    /\ \A p \in Processes : drain[p].at \in {"idle", "check", "hook", "acknowledge"}
    /\ \A i \in DOMAIN applied : applied[i] \in DOMAIN log

\* Delivery is ordered (docs/extensions.md:357): the extension is given no event
\* before it was given every earlier one that can be read.
GivenInOrder ==
    \A i \in DOMAIN applied : \A e \in Readable :
        e < applied[i] => \E j \in 1..(i - 1) : applied[j] = e

\* A failure is answered once: replaying its event to the hook, in this process
\* or in the next, adds no second rerun (docs/extensions.md:203).
RerunOnce ==
    \A t, u \in Tasks :
        /\ job[t].parent # 0 /\ job[t].parent = job[u].parent => t = u

\* Delivery is durable: this does not last, an event in the log is given to the extension
\* in the end, and acknowledged.
Undelivered == \E e \in Readable : e \notin receipts \/ \A i \in DOMAIN applied : applied[i] # e
=============================================================================
