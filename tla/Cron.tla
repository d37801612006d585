-------------------------------- MODULE Cron --------------------------------
(***************************************************************************)
(* Recurring task schedules: src/src/enoch/cron.py and the sweep           *)
(* _enqueue_due_cron_jobs of src/src/enoch/app/core.py, which two threads  *)
(* run: the cron scheduler, in a loop, and the task worker, each time its  *)
(* task has ended.  A sweep claims what is due, makes one task of each     *)
(* claim under the cron lock, and acknowledges the claim once the task is  *)
(* durable.                                                                *)
(*                                                                         *)
(* A target time is abstracted to whether it has come (due): Calendar has  *)
(* the arithmetic, whose result is always in the future.  The n-th claim   *)
(* of a schedule has the number n, and its task that number too, since the *)
(* queue creates at most one task under the key cron:<id>:<claim>          *)
(* (IdempotentCreation of TaskQueue).  The order of the claims in a sweep  *)
(* is left open.                                                           *)
(***************************************************************************)
EXTENDS Integers, FiniteSets

CONSTANTS Crons,        \* the ids that /cron add gives
          Keys,         \* receipts of run-now commands
          Scheduler, Worker,
          MaxTargets,   \* bound: target times of each schedule
          MaxFailures   \* bound: failed writes and crashes

Threads == {Scheduler, Worker}

ASSUME ThreadAssumption == Scheduler # Worker
ASSUME KeysAssumption == IsFiniteSet(Keys)
ASSUME BoundAssumption == MaxTargets \in Nat /\ MaxFailures \in Nat

VARIABLES cron,      \* cron.json
          task,      \* task of each claim in the queue: "none", "live", "ended"
          sweep,     \* what each thread is doing, and the claims it still has
          targets,   \* ghost: target times of each schedule that have come
          claims,    \* ghost: claims of each schedule, by kind
          failures

vars == <<cron, task, sweep, targets, claims, failures>>

Kinds == {"scheduled", "run-now"}
Claims == 1..(MaxTargets + Cardinality(Keys))

Absent == [status |-> "absent", due |-> FALSE, runNow |-> FALSE, history |-> {},
           claim |-> 0, kind |-> "none", last |-> 0]

Init ==
    /\ cron = [c \in Crons |-> Absent]
    /\ task = [c \in Crons |-> [n \in Claims |-> "none"]]
    /\ sweep = [t \in Threads |-> [step |-> IF t = Scheduler THEN "claim" ELSE "rest",
                                   todo |-> {}, cron |-> 0, claim |-> 0]]
    /\ targets = [c \in Crons |-> 0]
    /\ claims = [c \in Crons |-> [k \in Kinds |-> 0]]
    /\ failures = 0

Active(c) == cron[c].status = "active"

\* _cron_task_is_outstanding
Outstanding(c) == cron[c].last # 0 /\ task[c][cron[c].last] = "live"

-----------------------------------------------------------------------------
(* Commands of the chat.                                                   *)

Add(c) ==
    /\ cron[c].status = "absent"
    /\ cron' = [cron EXCEPT ![c].status = "active"]
    /\ UNCHANGED <<task, sweep, targets, claims, failures>>

Pause(c) ==
    /\ Active(c)
    /\ cron' = [cron EXCEPT ![c].status = "paused",
                            ![c].runNow = @ /\ cron[c].claim # 0]
    /\ UNCHANGED <<task, sweep, targets, claims, failures>>

Resume(c) ==
    /\ cron[c].status = "paused"
    /\ cron' = [cron EXCEPT ![c].status = "active"]
    /\ UNCHANGED <<task, sweep, targets, claims, failures>>

Cancel(c) ==
    /\ cron[c].status \in {"active", "paused"}
    /\ cron' = [cron EXCEPT ![c].status = "cancelled"]
    /\ UNCHANGED <<task, sweep, targets, claims, failures>>

\* request_cron_job_run: a key seen before changes nothing.
RunNow(c, k) ==
    /\ Active(c)
    /\ k \notin cron[c].history
    /\ cron' = [cron EXCEPT ![c].history = @ \cup {k},
                            ![c].runNow = @ \/ cron[c].claim = 0]
    /\ UNCHANGED <<task, sweep, targets, claims, failures>>

\* A target time comes while the schedule waits, or is missed.
Target(c) ==
    /\ cron[c].status \in {"active", "paused"}
    /\ targets[c] < MaxTargets
    /\ targets' = [targets EXCEPT ![c] = @ + 1]
    /\ cron' = [cron EXCEPT ![c].due = TRUE]
    /\ UNCHANGED <<task, sweep, claims, failures>>

-----------------------------------------------------------------------------
(* Sweeps.                                                                 *)

Rest(t) == IF t = Scheduler THEN "claim" ELSE "rest"

Idle(t) == sweep' = [sweep EXCEPT ![t] = [step |-> Rest(t), todo |-> {}, cron |-> 0, claim |-> 0]]

\* The thread goes on with the claims it has left.
Continue(t, left) ==
    IF left = {}
    THEN Idle(t)
    ELSE sweep' = [sweep EXCEPT ![t] = [step |-> "admit", todo |-> left, cron |-> 0, claim |-> 0]]

Claimable(c) == Active(c) /\ cron[c].claim = 0 /\ (cron[c].due \/ cron[c].runNow)

ClaimKind(c) == IF cron[c].due THEN "scheduled" ELSE "run-now"

NextClaim(c) == claims[c]["scheduled"] + claims[c]["run-now"] + 1

\* claim_due_cron_jobs: new claims for all that is due, in one transaction,
\* and the claims of earlier sweeps that nobody has acknowledged yet.
Claim(t) ==
    LET new == {c \in Crons : Claimable(c)}
        old == {c \in Crons : Active(c) /\ cron[c].claim # 0}
    IN
    /\ sweep[t].step = "claim"
    /\ cron' = [c \in Crons |->
          IF c \in new
          THEN [cron[c] EXCEPT !.claim = NextClaim(c), !.kind = ClaimKind(c)]
          ELSE cron[c]]
    /\ claims' = [c \in Crons |->
          IF c \in new THEN [claims[c] EXCEPT ![ClaimKind(c)] = @ + 1] ELSE claims[c]]
    /\ Continue(t, {<<c, cron[c].claim>> : c \in old} \cup {<<c, NextClaim(c)>> : c \in new})
    /\ UNCHANGED <<task, targets, failures>>

\* Fault: the snapshot of the claim is trusted.
Admitted_Snapshot(o) == ~Outstanding(o[1])

\* cron_task_admission, which reads the schedule again under its lock.
Admitted(o) == Active(o[1]) /\ cron[o[1]].claim = o[2] /\ ~Outstanding(o[1])

Refuse(t, o) ==
    /\ ~Admitted(o)
    /\ Continue(t, sweep[t].todo \ {o})
    /\ UNCHANGED <<task, failures>>

\* The key makes the second enqueue of a claim return the first one's task.
Enqueue(t, o) ==
    /\ Admitted(o)
    /\ task' = [task EXCEPT ![o[1]][o[2]] = IF @ = "none" THEN "live" ELSE @]
    /\ sweep' = [sweep EXCEPT ![t].step = "ack", ![t].todo = @ \ {o},
                              ![t].cron = o[1], ![t].claim = o[2]]
    /\ UNCHANGED failures

EnqueueFails(t, o) ==
    /\ Admitted(o)
    /\ failures < MaxFailures
    /\ failures' = failures + 1
    /\ Continue(t, sweep[t].todo \ {o})
    /\ UNCHANGED task

Admit(t) ==
    /\ sweep[t].step = "admit"
    /\ \E o \in sweep[t].todo : Refuse(t, o) \/ Enqueue(t, o) \/ EnqueueFails(t, o)
    /\ UNCHANGED <<cron, targets, claims>>

\* record_cron_task of claim n: a run-now leaves the target as it is.
Acknowledged(c, n) ==
    [cron EXCEPT ![c].last = n, ![c].claim = 0, ![c].kind = "none", ![c].runNow = FALSE,
                 ![c].due = @ /\ cron[c].kind = "run-now"]

Recordable(c, n) == cron[c].status \in {"active", "paused"} /\ cron[c].claim = n

Ack(t) ==
    LET c == sweep[t].cron
        n == sweep[t].claim
    IN
    /\ sweep[t].step = "ack"
    /\ cron' = IF Recordable(c, n) THEN Acknowledged(c, n) ELSE cron
    /\ Continue(t, sweep[t].todo)
    /\ UNCHANGED <<task, targets, claims, failures>>

\* A write fails or the process ends: the thread's claims are forgotten and
\* found again by the next sweep.
Abort(t) ==
    /\ sweep[t].step \in {"admit", "ack"}
    /\ failures < MaxFailures
    /\ failures' = failures + 1
    /\ Idle(t)
    /\ UNCHANGED <<cron, task, targets, claims>>

-----------------------------------------------------------------------------
(* The queue, as far as the schedules see it.                              *)

\* The worker's task ends, and the worker sweeps.
Finish(c, n) ==
    /\ sweep[Worker].step = "rest"
    /\ task[c][n] = "live"
    /\ task' = [task EXCEPT ![c][n] = "ended"]
    /\ sweep' = [sweep EXCEPT ![Worker].step = "claim"]
    /\ UNCHANGED <<cron, targets, claims, failures>>

\* A human cancels or stops the task.
Drop(c, n) ==
    /\ task[c][n] = "live"
    /\ task' = [task EXCEPT ![c][n] = "ended"]
    /\ UNCHANGED <<cron, sweep, targets, claims, failures>>

-----------------------------------------------------------------------------

Step(t) == Claim(t) \/ Admit(t) \/ Ack(t)

WorkerFinishes == \E c \in Crons, n \in Claims : Finish(c, n)

Human(c) ==
    \/ Add(c) \/ Pause(c) \/ Resume(c) \/ Cancel(c)
    \/ \E k \in Keys : RunNow(c, k)
    \/ \E n \in Claims : Drop(c, n)

Next ==
    \/ \E c \in Crons : Human(c) \/ Target(c)
    \/ \E t \in Threads : Step(t) \/ Abort(t)
    \/ WorkerFinishes

Spec == Init /\ [][Next]_vars

\* Both threads run, and a task comes to an end.
FairSpec ==
    /\ Spec
    /\ \A t \in Threads : WF_vars(Step(t))
    /\ WF_vars(WorkerFinishes)

-----------------------------------------------------------------------------
(* Properties.                                                             *)

\* The shape of cron.json, of the queue and of the sweeps.  As _parse_job
\* demands, a claim has a kind and nothing else has one.
TypeOK ==
    /\ cron \in [Crons -> [status : {"absent", "active", "paused", "cancelled"},
                           due : BOOLEAN, runNow : BOOLEAN, history : SUBSET Keys,
                           claim : Claims \cup {0}, kind : Kinds \cup {"none"},
                           last : Claims \cup {0}]]
    /\ \A c \in Crons : cron[c].claim = 0 <=> cron[c].kind = "none"
    /\ task \in [Crons -> [Claims -> {"none", "live", "ended"}]]
    /\ sweep \in [Threads -> [step : {"rest", "claim", "admit", "ack"},
                              todo : SUBSET (Crons \X Claims),
                              cron : Crons \cup {0}, claim : Claims \cup {0}]]
    /\ targets \in [Crons -> 0..MaxTargets]
    /\ claims \in [Crons -> [Kinds -> Nat]]
    /\ failures \in 0..MaxFailures

\* Whatever the two sweeps do to each other, a schedule never has two of its
\* occurrences in the queue (docs/workflow-reliability.md: an outstanding task
\* prevents overlap).
OccurrencesDoNotOverlap ==
    \A c \in Crons : \A m, n \in Claims :
        task[c][m] = "live" /\ task[c][n] = "live" => m = n

\* Every occurrence is owed to a target time or to a run-now command of its
\* own: neither is admitted twice, however claims, pauses, redelivered
\* commands and failed acknowledgements fall together.
OccurrencesAreJustified ==
    \A c \in Crons : /\ claims[c]["scheduled"] <= targets[c]
                     /\ claims[c]["run-now"] <= Cardinality(cron[c].history)

\* No task is created for a schedule that is paused or cancelled by then, even
\* if the sweep claimed it before, nor for a claim that is no longer its claim.
PauseFences ==
    [][\A c \in Crons, n \in Claims :
          task[c][n] = "none" /\ task'[c][n] # "none" => Active(c) /\ cron[c].claim = n]_vars

\* A claim is given up, and a run-now request forgotten, only for a task that
\* the queue has; an unclaimed request is also forgotten by a pause.
NothingIsLost ==
    [][\A c \in Crons :
          /\ cron[c].claim # 0 /\ cron'[c].claim # cron[c].claim
                => task[c][cron[c].claim] # "none"
          /\ cron[c].runNow /\ ~cron'[c].runNow
                => \/ cron[c].claim # 0 /\ task[c][cron[c].claim] # "none"
                   \/ cron'[c].status = "paused"]_vars

\* What is due, requested or claimed is dealt with, unless a human stops the
\* schedule, whatever sweeps fail on the way.
DueIsServed ==
    \A c \in Crons :
        Active(c) /\ (cron[c].due \/ cron[c].runNow \/ cron[c].claim # 0)
            ~> ~Active(c) \/ ~(cron[c].due \/ cron[c].runNow \/ cron[c].claim # 0)
=============================================================================
