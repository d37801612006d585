----------------------------- MODULE TaskRunner -----------------------------
(***************************************************************************)
(* The threads of one daemon that work on the task queue, composed with    *)
(* TaskQueue: the main loop (run_once, handle_event), which reconciles the *)
(* queue and handles the commands of the chat; the task worker, which      *)
(* takes the next task as long as there is one; a thread for each direct   *)
(* task; and the cron scheduler, which sees to it that a task worker runs. *)
(* See run_once, _run_task_worker, _run_action_job, _stop_running_job and  *)
(* _maybe_start_task_worker of src/src/enoch/app/core.py.                  *)
(*                                                                         *)
(* Every queue transaction is a step, an action of TaskQueue, and so is    *)
(* every access to the threads' shared dictionaries.  A worker id stands   *)
(* for a thread: alive is the set of ids whose thread is running, which is *)
(* what the queue's _tracked_worker_is_active tells of them.  Publication  *)
(* and heartbeats are left out: they change nothing that a thread or the   *)
(* main loop decides by, but that a worker without its claim may fail      *)
(* earlier.                                                                *)
(***************************************************************************)
EXTENDS Integers, Sequences

CONSTANTS MaxTasks, MaxAttempts, MaxBegins, MaxLeases, Workers, NoWorker,
          MaxFaults   \* bound: pauses, exceptions that end a thread, crashes

VARIABLES job, pending, running, paused, history, reconciliation, leases, alive

Q == INSTANCE TaskQueue WITH Lanes <- {}, NoLane <- "no lane", Keys <- {}, NoKey <- "no key",
                             Publications <- {}

VARIABLES thread,      \* what the thread with each worker id is doing
          registered,  \* _task_cancellations: whose event it is, by task
          signalled,   \* threads whose cancellation event is set
          main,        \* the main loop: its next step, and what it saw
          faults

runnerVars == <<thread, registered, signalled, main, faults>>
queue == <<job, pending, running, paused, history, reconciliation, leases>>
vars == <<queue, alive, runnerVars>>

Tasks == 1..MaxTasks
ThreadSteps == {"next", "claim", "register", "work", "record", "finalize", "over"}
Outcomes == {"completed", "failed", "cancelled", "transient", "paused"}

NoThread == [kind |-> "none", task |-> 0, step |-> "over", outcome |-> "none"]
MainAt(step) == [step |-> step, task |-> 0, worker |-> NoWorker, lease |-> 0, signal |-> FALSE]

Init ==
    /\ Q!EmptyQueue
    /\ alive = {}
    /\ thread = [w \in Workers |-> NoThread]
    /\ registered = [i \in Tasks |-> NoWorker]
    /\ signalled = {}
    /\ main = MainAt("look")
    /\ faults = 0

At(w, step) == thread[w].kind # "none" /\ thread[w].step = step

Go(w, step) == thread' = [thread EXCEPT ![w].step = step]

\* The job function returns; a thread knows nothing of a job that is over.
Return(w) == thread' = [thread EXCEPT ![w].step = "over", ![w].task = 0, ![w].outcome = "none"]

\* The queue lets the worker act on the task of its thread.
Owner(w) == Q!Owns(thread[w].task, w)

SameMain == UNCHANGED <<main, faults>>

-----------------------------------------------------------------------------
(* Starting threads.                                                       *)

Start(w, kind, task, step) ==
    /\ thread[w].kind = "none"
    /\ Q!WorkerStarts(w)
    /\ thread' = [thread EXCEPT ![w] = [kind |-> kind, task |-> task, step |-> step,
                                        outcome |-> "none"]]
    /\ UNCHANGED <<registered, signalled, faults>>

\* _maybe_start_task_worker: the scheduler thread calls it all the time, the
\* main loop and direct tasks now and then.
StartTaskWorker(w) ==
    /\ \A v \in Workers : thread[v].kind # "queue"
    /\ running = 0 /\ paused = <<>> /\ pending # <<>>
    /\ Start(w, "queue", 0, "next")
    /\ UNCHANGED main

\* _start_direct_work_worker, after the status message of the task.
StartDirect(w) ==
    /\ main.step = "spawn"
    /\ Start(w, "direct", main.task, "claim")
    /\ main' = MainAt("look")

-----------------------------------------------------------------------------
(* A worker: _run_task_worker around _run_action_job.                      *)

Ends(w) ==
    /\ thread' = [thread EXCEPT ![w] = NoThread]
    /\ Q!WorkerDies(w)

\* start_next; without a task the thread ends.
TakeNext(w) ==
    /\ At(w, "next")
    /\ Q!BeginNext
    /\ thread' = [thread EXCEPT ![w].task = running', ![w].step = "claim"]
    /\ UNCHANGED <<registered, signalled>> /\ SameMain

NothingToTake(w) ==
    /\ At(w, "next")
    /\ running # 0 \/ \A k \in DOMAIN pending : ~Q!Startable(k)
    /\ Ends(w)
    /\ UNCHANGED <<registered, signalled>> /\ SameMain

Claimable(w) ==
    /\ running = thread[w].task
    /\ job[running].worker \in {NoWorker, w} \/ ~Q!WorkerActive(job[running])

ClaimTask(w) ==
    /\ At(w, "claim")
    /\ Q!Claim(thread[w].task, w)
    /\ Go(w, "register")
    /\ UNCHANGED <<registered, signalled>> /\ SameMain

ClaimRefused(w) ==
    /\ At(w, "claim")
    /\ ~Claimable(w)
    /\ Return(w)
    /\ UNCHANGED <<queue, alive, registered, signalled>> /\ SameMain

\* The cancellation event of the task, after its status message was sent.
Register(w) ==
    /\ At(w, "register")
    /\ registered' = [registered EXCEPT ![thread[w].task] = w]
    /\ Go(w, "work")
    /\ UNCHANGED <<queue, alive, signalled>> /\ SameMain

Unregistered(w) == [registered EXCEPT ![thread[w].task] = NoWorker]

\* Fault: exhausted attempts get a status of their own.
Settled_Unknown(w, outcome) ==
    IF outcome = "transient" /\ job[thread[w].task].attempt >= MaxAttempts
    THEN "exhausted"
    ELSE outcome

\* A transient failure with no attempt left is a failure.
Settled(w, outcome) ==
    IF outcome = "transient" /\ job[thread[w].task].attempt >= MaxAttempts
    THEN "failed"
    ELSE outcome

\* The work returns or raises.  It is cancelled only when it was signalled,
\* but may end otherwise even then; nothing reads the event afterwards.
WorkEnds(w, outcome) ==
    /\ At(w, "work")
    /\ outcome = "cancelled" => w \in signalled
    /\ outcome = "paused" => faults < MaxFaults
    /\ faults' = IF outcome = "paused" THEN faults + 1 ELSE faults
    /\ registered' = Unregistered(w)
    /\ thread' = [thread EXCEPT ![w].step = "record", ![w].outcome = Settled(w, outcome)]
    /\ signalled' = signalled \ {w}
    /\ UNCHANGED <<queue, alive, main>>

\* retry_running, pause, or record_terminal_evidence before finalize.
Record(w) ==
    /\ At(w, "record")
    /\ Owner(w)
    /\ LET i == thread[w].task
           outcome == thread[w].outcome
       IN \/ /\ outcome = "transient"
             /\ Q!RetryRunning(i, w, FALSE)
             /\ Return(w)
          \/ /\ outcome = "paused"
             /\ Q!PauseRunning(i, w)
             /\ Return(w)
          \/ /\ outcome \in Q!FinalStatus
             /\ Q!RecordTerminalEvidence(i, w, outcome)
             /\ Go(w, "finalize")
    /\ UNCHANGED <<registered, signalled>> /\ SameMain

\* Evidence of an earlier owner, which died before it finalized: the same is
\* accepted again, anything else raises, and the thread dies of it.
RecordAgain(w) ==
    /\ At(w, "record")
    /\ Owner(w)
    /\ thread[w].outcome \in Q!FinalStatus
    /\ job[thread[w].task].terminal # "none"
    /\ \/ /\ job[thread[w].task].terminal = thread[w].outcome
          /\ Go(w, "finalize")
          /\ UNCHANGED <<queue, alive>>
       \/ Ends(w)
    /\ UNCHANGED <<registered, signalled>> /\ SameMain

Finalize(w) ==
    /\ At(w, "finalize")
    /\ Owner(w)
    /\ IF thread[w].outcome = "cancelled"
       THEN Q!CancelRunning(thread[w].task, w)
       ELSE Q!Finish(thread[w].task, w, thread[w].outcome)
    /\ Return(w)
    /\ UNCHANGED <<registered, signalled>> /\ SameMain

\* The task is not this worker's any more: whoever took it decides.
Outvoted(w) ==
    /\ At(w, "record") \/ At(w, "finalize")
    /\ ~Owner(w)
    /\ Return(w)
    /\ UNCHANGED <<queue, alive, registered, signalled>> /\ SameMain

\* A direct thread ends, the task worker goes on unless a task is paused.
JobOver(w) ==
    /\ At(w, "over")
    /\ IF thread[w].kind = "queue" /\ paused = <<>>
       THEN Go(w, "next") /\ UNCHANGED <<queue, alive>>
       ELSE Ends(w)
    /\ UNCHANGED <<registered, signalled>> /\ SameMain

\* A queue transaction raises and nothing catches it.
ThreadDies(w) ==
    /\ \E step \in {"claim", "record", "finalize"} : At(w, step)
    /\ faults < MaxFaults
    /\ faults' = faults + 1
    /\ Ends(w)
    /\ UNCHANGED <<registered, signalled, main>>

-----------------------------------------------------------------------------
(* The main loop: reconcile, then handle events.                           *)

\* Outside a running task there is nothing to name in the request.
Look ==
    /\ main.step = "look"
    /\ main' = IF running = 0
               THEN MainAt("reconcile")
               ELSE [MainAt("reconcile") EXCEPT !.task = running,
                                                !.worker = job[running].worker,
                                                !.lease = job[running].lease]
    /\ UNCHANGED <<queue, alive, thread, registered, signalled, faults>>

Request == IF main.task = 0
           THEN Q!NoRequest
           ELSE [task |-> main.task, worker |-> main.worker, lease |-> main.lease]

\* Nothing runs, or its worker is alive.
NothingToReconcile(req) ==
    running = 0 \/ (~Q!Mismatch(req) /\ Q!WorkerActive(job[running]))

\* recover() when the daemon starts, reconcile() in every poll.
Reconcile ==
    /\ main.step \in {"recover", "reconcile"}
    /\ IF NothingToReconcile(Request) THEN UNCHANGED <<queue, alive>> ELSE Q!Reconcile(Request)
    /\ main' = MainAt(IF main.step = "recover" THEN "look" ELSE "events")
    /\ UNCHANGED <<thread, registered, signalled, faults>>

NoEvent ==
    /\ main.step = "events"
    /\ main' = MainAt("look")
    /\ UNCHANGED <<queue, alive, thread, registered, signalled, faults>>

\* /task
EnqueueTask ==
    /\ main.step = "events"
    /\ Q!Enqueue("no lane", "no key", 0)
    /\ main' = MainAt("look")
    /\ UNCHANGED <<thread, registered, signalled, faults>>

\* /do while nothing runs.
Do ==
    /\ main.step = "events"
    /\ paused = <<>>
    /\ Q!BeginDirect("no key")
    /\ main' = [MainAt("spawn") EXCEPT !.task = running']
    /\ UNCHANGED <<thread, registered, signalled, faults>>

\* /task resume
Resume ==
    /\ main.step = "events"
    /\ \/ Q!ResumeAll
       \/ \E i \in Q!Ids : Q!ResumeOne(i)
    /\ main' = MainAt("look")
    /\ UNCHANGED <<thread, registered, signalled, faults>>

\* /stop for the running task, and an extension's cancel for any: the status
\* is read, the event of a running task is set, the queue is told.
Cancel(i) ==
    /\ main.step = "events"
    /\ i \in Q!Ids
    /\ job[i].status \in {"pending", "paused", "running"}
    /\ main' = [MainAt("signal") EXCEPT !.task = i, !.signal = job[i].status = "running"]
    /\ UNCHANGED <<queue, alive, thread, registered, signalled, faults>>

Signal ==
    /\ main.step = "signal"
    /\ signalled' = IF main.signal /\ registered[main.task] # NoWorker
                    THEN signalled \cup {registered[main.task]}
                    ELSE signalled
    /\ main' = [main EXCEPT !.step = "cancel"]
    /\ UNCHANGED <<queue, alive, thread, registered, faults>>

CancelInQueue ==
    /\ main.step = "cancel"
    /\ \/ Q!CancelRunning(main.task, NoWorker)
       \/ Q!CancelQueued(main.task)
       \/ /\ job[main.task].status \in Q!HistoryStatus
          /\ UNCHANGED <<queue, alive>>
    /\ main' = MainAt("look")
    /\ UNCHANGED <<thread, registered, signalled, faults>>

\* The process ends and is started again: no thread of it is left.
Crash ==
    /\ faults < MaxFaults
    /\ faults' = faults + 1
    /\ alive' = {}
    /\ thread' = [w \in Workers |-> NoThread]
    /\ registered' = [i \in Tasks |-> NoWorker]
    /\ signalled' = {}
    /\ main' = MainAt("recover")
    /\ UNCHANGED queue

DelayElapses ==
    /\ \E i \in Q!Ids : Q!BecomeDue(i)
    /\ UNCHANGED runnerVars

-----------------------------------------------------------------------------

ThreadStep(w) ==
    \/ TakeNext(w) \/ NothingToTake(w) \/ ClaimTask(w) \/ ClaimRefused(w) \/ Register(w)
    \/ \E outcome \in Outcomes : WorkEnds(w, outcome)
    \/ Record(w) \/ RecordAgain(w) \/ Finalize(w) \/ Outvoted(w) \/ JobOver(w)

MainStep ==
    \/ Look \/ Reconcile \/ NoEvent
    \/ \E w \in Workers : StartDirect(w)
    \/ Signal \/ CancelInQueue

Command == EnqueueTask \/ Do \/ Resume \/ \E i \in Tasks : Cancel(i)

SchedulerStep == \E w \in Workers : StartTaskWorker(w)

Next ==
    \/ \E w \in Workers : ThreadStep(w) \/ ThreadDies(w)
    \/ MainStep \/ Command \/ SchedulerStep
    \/ Crash \/ DelayElapses

Spec == Init /\ [][Next]_vars

\* Every thread of the process runs, work ends (it has a timeout), delays pass.
FairSpec ==
    /\ Spec
    /\ \A w \in Workers : WF_vars(ThreadStep(w))
    /\ WF_vars(MainStep) /\ WF_vars(SchedulerStep) /\ WF_vars(DelayElapses)

-----------------------------------------------------------------------------
(* Properties.                                                             *)

TypeOK ==
    /\ Q!TypeOK
    /\ thread \in [Workers -> [kind : {"none", "queue", "direct"}, task : {0} \cup Tasks,
                               step : ThreadSteps, outcome : Outcomes \cup {"none"}]]
    /\ registered \in [Tasks -> Workers \cup {NoWorker}]
    /\ signalled \subseteq Workers
    /\ main \in [step : {"recover", "look", "reconcile", "events", "spawn", "signal", "cancel"},
                 task : {0} \cup Tasks, worker : Workers \cup {NoWorker}, lease : Nat,
                 signal : BOOLEAN]
    /\ faults \in 0..MaxFaults

Working(w) == \E step \in {"register", "work", "record", "finalize"} : At(w, step)

\* Two threads never work on the same task, though the main loop may requeue a
\* task between its start and its claim, and another thread then start it again.
OneThreadPerTask ==
    \A v, w \in Workers :
        Working(v) /\ Working(w) /\ thread[v].task = thread[w].task => v = w

\* A registered event is that of the thread which works on the task now: no
\* stop signal goes to a thread that has moved on to other work.
SignalsReachTheirTask ==
    \A i \in Tasks : registered[i] # NoWorker =>
        At(registered[i], "work") /\ thread[registered[i]].task = i

\* Every accepted task is finished or waits on a paused one for the owner to
\* resume it: this does not last, for no task is stranded by threads that end, die or lose
\* their claim.
Unsettled == paused = <<>> /\ \E i \in Q!Ids : job[i].status \notin Q!HistoryStatus

\* docs/extensions.md: cancel "signals an active in-process worker".
StoppedWorkersKnow ==
    \A w \in Workers :
        At(w, "work") /\ job[thread[w].task].status = "cancelled" => w \in signalled
=============================================================================
