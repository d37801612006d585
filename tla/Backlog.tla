-------------------------------- MODULE Backlog --------------------------------
(***************************************************************************)
(* Work saved for later: src/src/enoch/backlog.py, and how                 *)
(* src/src/enoch/app/core.py moves an item to the task queue: it reads the *)
(* queue, reads the next item, enqueues it under the key backlog:<id>, and *)
(* marks it promoted, each in a transaction of its own.  The task worker   *)
(* does so when it finds nothing to start, and whoever starts a task       *)
(* worker does so first; they exclude each other (_task_worker_lock) and   *)
(* are one actor, "worker".  The main loop handles one /backlog command at *)
(* a time, and /backlog promote moves an item by its id.                   *)
(*                                                                         *)
(* Items have their ids in the order they were added, and their tasks are  *)
(* "none", "live" or "ended".  A task that is not of the backlog may be    *)
(* live too.                                                               *)
(***************************************************************************)
EXTENDS Integers, Sequences

CONSTANTS MaxItems,   \* bound: items ever added
          MaxOthers,  \* bound: tasks that are not of the backlog
          MaxFaults   \* bound: exceptions and ends of the process

Items == 1..MaxItems
Priorities == 0..2  \* p0, p1, p2

Actors == {"worker", "owner"}

VARIABLES item,    \* backlog.json
          task,    \* the task of each item
          actor,   \* where each promotion stands
          other,   \* whether another task is live, and how many there were
          faults

vars == <<item, task, actor, other, faults>>

AtRest == [step |-> "rest", item |-> 0]

Init ==
    /\ item = <<>>
    /\ task = [i \in Items |-> "none"]
    /\ actor = [a \in Actors |-> AtRest]
    /\ other = [live |-> FALSE, count |-> 0]
    /\ faults = 0

Pending == {i \in DOMAIN item : item[i].status = "pending"}

-----------------------------------------------------------------------------
(* /backlog                                                                *)

\* add_backlog_item, of a message not seen before.
Add(priority) ==
    /\ Len(item) < MaxItems
    /\ item' = Append(item, [status |-> "pending", priority |-> priority])
    /\ UNCHANGED <<task, actor, other, faults>>

Remove(i) ==
    /\ i \in Pending
    /\ item' = [item EXCEPT ![i].status = "removed"]
    /\ UNCHANGED <<task, actor, other, faults>>

Reprioritize(i, priority) ==
    /\ i \in Pending
    /\ item' = [item EXCEPT ![i].priority = priority]
    /\ UNCHANGED <<task, actor, other, faults>>

-----------------------------------------------------------------------------
(* Promotion.                                                              *)

At(a, step) == actor[a].step = step

Go(a, step, i) == actor' = [actor EXCEPT ![a] = [step |-> step, item |-> i]]

QueueIsIdle == ~other.live /\ \A i \in Items : task[i] # "live"

\* _promote_next_backlog_if_idle
FindIdle ==
    /\ At("worker", "rest")
    /\ QueueIsIdle
    /\ Go("worker", "next", 0)
    /\ UNCHANGED <<item, task, other, faults>>

\* The first item of the first priority.
NextItem(i) ==
    /\ i \in Pending
    /\ \A j \in Pending \ {i} : \/ item[i].priority < item[j].priority
                                \/ item[i].priority = item[j].priority /\ i < j

ChooseNext ==
    /\ At("worker", "next")
    /\ \/ \E i \in Pending : NextItem(i) /\ Go("worker", "enqueue", i)
       \/ Pending = {} /\ Go("worker", "rest", 0)
    /\ UNCHANGED <<item, task, other, faults>>

\* /backlog promote
ChooseById(i) ==
    /\ At("owner", "rest")
    /\ i \in Pending
    /\ Go("owner", "enqueue", i)
    /\ UNCHANGED <<item, task, other, faults>>

\* Fault: the item is enqueued without a key.
Enqueued_NoKey(status) == "live"

\* The key makes a second enqueue of an item return the first one's task.
Enqueued(status) == IF status = "none" THEN "live" ELSE status

Enqueue(a) ==
    /\ At(a, "enqueue")
    /\ task' = [task EXCEPT ![actor[a].item] = Enqueued(@)]
    /\ Go(a, "promote", actor[a].item)
    /\ UNCHANGED <<item, other, faults>>

\* promote_backlog_item: an item that is no longer pending stays as it is.
Promote(a) ==
    /\ At(a, "promote")
    /\ item' = IF actor[a].item \in Pending
               THEN [item EXCEPT ![actor[a].item].status = "promoted"]
               ELSE item
    /\ Go(a, "rest", 0)
    /\ UNCHANGED <<task, other, faults>>

-----------------------------------------------------------------------------

\* The queue or the backlog cannot be written: the exception ends the command,
\* or the task worker, which is started again.
Break(a) ==
    /\ actor[a].step \in {"enqueue", "promote"}
    /\ faults < MaxFaults
    /\ faults' = faults + 1
    /\ Go(a, "rest", 0)
    /\ UNCHANGED <<item, task, other>>

\* The process ends and is started again.
Crash ==
    /\ faults < MaxFaults
    /\ faults' = faults + 1
    /\ actor' = [a \in Actors |-> AtRest]
    /\ UNCHANGED <<item, task, other>>

-----------------------------------------------------------------------------
(* The queue.                                                              *)

TaskEnds(i) ==
    /\ task[i] = "live"
    /\ task' = [task EXCEPT ![i] = "ended"]
    /\ UNCHANGED <<item, actor, other, faults>>

OtherArrives ==
    /\ ~other.live /\ other.count < MaxOthers
    /\ other' = [live |-> TRUE, count |-> other.count + 1]
    /\ UNCHANGED <<item, task, actor, faults>>

OtherEnds ==
    /\ other.live
    /\ other' = [other EXCEPT !.live = FALSE]
    /\ UNCHANGED <<item, task, actor, faults>>

-----------------------------------------------------------------------------

Command ==
    /\ At("owner", "rest")
    /\ \/ \E p \in Priorities : Add(p) \/ \E i \in DOMAIN item : Reprioritize(i, p)
       \/ \E i \in DOMAIN item : Remove(i)

WorkerStep == FindIdle \/ ChooseNext \/ Enqueue("worker") \/ Promote("worker")

QueueStep == OtherEnds \/ \E i \in Items : TaskEnds(i)

Next ==
    \/ Command
    \/ \E i \in DOMAIN item : ChooseById(i)
    \/ Enqueue("owner") \/ Promote("owner")
    \/ WorkerStep
    \/ QueueStep \/ OtherArrives
    \/ Crash \/ \E a \in Actors : Break(a)

Spec == Init /\ [][Next]_vars

\* Tasks end, and the scheduler thread starts a task worker again and again.
FairSpec == Spec /\ WF_vars(WorkerStep) /\ WF_vars(QueueStep)

-----------------------------------------------------------------------------
(* Properties.                                                             *)

\* The shape of backlog.json and of the promotions: one works on an item, and
\* reaches the end of it with the item's task in the queue.
TypeOK ==
    /\ item \in Seq([status : {"pending", "promoted", "removed"}, priority : Priorities])
    /\ task \in [Items -> {"none", "live", "ended"}]
    /\ actor \in [Actors -> [step : {"rest", "next", "enqueue", "promote"}, item : Items \cup {0}]]
    /\ \A a \in Actors :
          /\ actor[a].step \in {"enqueue", "promote"} <=> actor[a].item # 0
          /\ actor[a].step = "promote" => task[actor[a].item] # "none"
    /\ other \in [live : BOOLEAN, count : 0..MaxOthers]
    /\ faults \in 0..MaxFaults

\* An item is worked on once: the worker and the owner may promote it together,
\* and a crash or an exception may leave it in the backlog after its task has
\* been created and has ended.  It counts as promoted only with a task, and an
\* item that the owner removed never counts as promoted.
PromotedOnce ==
    [][\A i \in DOMAIN item :
          /\ task[i] = "ended" => task'[i] = "ended"
          /\ item'[i].status = "promoted" => task'[i] # "none"
          /\ item[i].status # "pending" => item'[i] = item[i]]_vars

\* Every item leaves the backlog, whatever is added, given another priority or
\* run in the meantime, once other tasks leave the queue idle.
BacklogDrains ==
    \A i \in Items : (i \in Pending) ~> (i \notin Pending)
=============================================================================
