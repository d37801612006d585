-------------------------- MODULE ExtensionSchedules --------------------------
(***************************************************************************)
(* Schedules declared by extensions:                                       *)
(* src/src/enoch/extensions/schedules.py and the sweep                     *)
(* _enqueue_due_extension_schedules of src/src/enoch/app/core.py.  The     *)
(* claims are those of Cron, but a sweep trusts what it read when it       *)
(* claimed: nothing is looked up again before a task is created, a pause   *)
(* lets a claim stand, and an occurrence that cannot be enqueued is        *)
(* acknowledged as failed.                                                 *)
(*                                                                         *)
(* Targets, claims and tasks are abstracted as in Cron.  A request without *)
(* a key is a request with a key that is never used again.                 *)
(***************************************************************************)
EXTENDS Integers, FiniteSets

CONSTANTS Schedules,    \* schedules that some extension declares or declared
          Keys,         \* idempotency keys of run-now requests
          Scheduler, Worker,
          MaxTargets,   \* bound: target times of each schedule
          MaxFailures   \* bound: refusals, failed writes and restarts

Threads == {Scheduler, Worker}

VARIABLES schedule,  \* extension_schedules.json
          task,      \* task of each claim in the queue: "none", "live", "ended"
          sweep,     \* what each thread is doing, and the claims it still has
          targets,   \* ghost: target times of each schedule that have come
          claims,    \* ghost: claims of each schedule, by kind
          refused,   \* ghost: claims that were acknowledged as failed
          failures

vars == <<schedule, task, sweep, targets, claims, refused, failures>>

Kinds == {"scheduled", "run-now"}
Claims == 1..(MaxTargets + Cardinality(Keys))

Absent == [state |-> "absent", due |-> FALSE, runNow |-> FALSE, history |-> {},
           claim |-> 0, kind |-> "none", last |-> 0]

\* An occurrence as the sweep that claimed it read it.
Occurrences == [of : Schedules, claim : Claims, last : Claims \cup {0}]

Rest(t) == IF t = Scheduler THEN "claim" ELSE "rest"

AtRest(t) == [step |-> Rest(t), todo |-> {}, now |-> {}]

\* The first declarations are reconciled by StartDaemon.
Init ==
    /\ schedule = [s \in Schedules |-> Absent]
    /\ task = [s \in Schedules |-> [n \in Claims |-> "none"]]
    /\ sweep = [t \in Threads |-> AtRest(t)]
    /\ targets = [s \in Schedules |-> 0]
    /\ claims = [s \in Schedules |-> [k \in Kinds |-> 0]]
    /\ refused = {}
    /\ failures = 0

Active(s) == schedule[s].state = "active"

-----------------------------------------------------------------------------
(* Declarations: reconcile_extension_schedules when a daemon starts.       *)

\* What happened to a declaration since the last start.
Changes == {"gone", "same", "edited", "moved"}

\* A schedule that is new, or back, or has a new cadence gets a target in the
\* future, unless a claim still stands for the old one; any change drops a
\* request that is not claimed yet.
Reconciled(item, change) ==
    CASE change = "gone" ->
            IF item.state \in {"absent", "disabled"} THEN item
            ELSE [item EXCEPT !.state = "disabled", !.runNow = @ /\ item.claim # 0]
      [] change # "gone" /\ item.state = "absent" -> [item EXCEPT !.state = "active"]
      [] /\ item.state # "absent"
         /\ change = "moved" \/ (change # "gone" /\ item.state = "disabled") ->
            [item EXCEPT !.state = IF @ = "disabled" THEN "active" ELSE @,
                         !.due = @ /\ item.kind = "scheduled",
                         !.runNow = @ /\ item.claim # 0]
      [] change = "edited" /\ item.state \notin {"absent", "disabled"} ->
            [item EXCEPT !.runNow = @ /\ item.claim # 0]
      [] OTHER -> item

\* The daemon starts, or ends at any step and is started again, with the
\* extensions that are installed then.
StartDaemon(change) ==
    /\ failures < MaxFailures
    /\ failures' = failures + 1
    /\ schedule' = [s \in Schedules |-> Reconciled(schedule[s], change[s])]
    /\ sweep' = [t \in Threads |-> AtRest(t)]
    /\ UNCHANGED <<task, targets, claims, refused>>

-----------------------------------------------------------------------------
(* ExtensionSchedules: what an extension may do with its own schedules.    *)

Pause(s) ==
    /\ Active(s)
    /\ schedule' = [schedule EXCEPT ![s].state = "paused",
                                    ![s].runNow = @ /\ schedule[s].claim # 0]
    /\ UNCHANGED <<task, sweep, targets, claims, refused, failures>>

Resume(s) ==
    /\ schedule[s].state = "paused"
    /\ schedule' = [schedule EXCEPT ![s].state = "active"]
    /\ UNCHANGED <<task, sweep, targets, claims, refused, failures>>

\* request_extension_schedule_run: a claim or an earlier request serves this
\* one too; a key seen before changes nothing.
RunNow(s, k) ==
    /\ Active(s)
    /\ k \notin schedule[s].history
    /\ schedule' = [schedule EXCEPT ![s].history = @ \cup {k},
                                    ![s].runNow = @ \/ schedule[s].claim = 0]
    /\ UNCHANGED <<task, sweep, targets, claims, refused, failures>>

\* A target time comes, whatever the state of the schedule.
Target(s) ==
    /\ schedule[s].state # "absent"
    /\ targets[s] < MaxTargets
    /\ targets' = [targets EXCEPT ![s] = @ + 1]
    /\ schedule' = [schedule EXCEPT ![s].due = TRUE]
    /\ UNCHANGED <<task, sweep, claims, refused, failures>>

-----------------------------------------------------------------------------
(* Sweeps.                                                                 *)

\* The thread goes on with the occurrences it has left.
Continue(t, left) ==
    sweep' = [sweep EXCEPT ![t] = IF left = {}
                                  THEN AtRest(t)
                                  ELSE [step |-> "look", todo |-> left, now |-> {}]]

Claimable(s) == Active(s) /\ schedule[s].claim = 0 /\ (schedule[s].due \/ schedule[s].runNow)

ClaimKind(s) == IF schedule[s].due THEN "scheduled" ELSE "run-now"

NextClaim(s) == claims[s]["scheduled"] + claims[s]["run-now"] + 1

\* claim_due_extension_schedules: new claims, and those nobody acknowledged.
Claim(t) ==
    LET new == {s \in Schedules : Claimable(s)}
        old == {s \in Schedules : Active(s) /\ schedule[s].claim # 0}
    IN
    /\ sweep[t].step = "claim"
    /\ schedule' = [s \in Schedules |->
          IF s \in new
          THEN [schedule[s] EXCEPT !.claim = NextClaim(s), !.kind = ClaimKind(s)]
          ELSE schedule[s]]
    /\ claims' = [s \in Schedules |->
          IF s \in new THEN [claims[s] EXCEPT ![ClaimKind(s)] = @ + 1] ELSE claims[s]]
    /\ Continue(t, {[of |-> s, claim |-> schedule'[s].claim, last |-> schedule[s].last] :
                        s \in new \cup old})
    /\ UNCHANGED <<task, targets, refused, failures>>

\* Fault: a task that has ended still counts.
Outstanding_AnyTask(o) == o.last # 0

\* _extension_schedule_task_is_outstanding, of the task the claim knew.
Outstanding(o) == o.last # 0 /\ task[o.of][o.last] = "live"

Look(t) ==
    /\ sweep[t].step = "look"
    /\ \E o \in sweep[t].todo :
          IF Outstanding(o)
          THEN Continue(t, sweep[t].todo \ {o})
          ELSE sweep' = [sweep EXCEPT ![t].step = "enqueue", ![t].todo = @ \ {o}, ![t].now = {o}]
    /\ UNCHANGED <<schedule, task, targets, claims, refused, failures>>

\* The key schedule:<name>:<claim> makes the second enqueue of a claim return
\* the first one's task.
Enqueue(t) ==
    /\ sweep[t].step = "enqueue"
    /\ \E o \in sweep[t].now :
          task' = [task EXCEPT ![o.of][o.claim] = IF @ = "none" THEN "live" ELSE @]
    /\ sweep' = [sweep EXCEPT ![t].step = "record"]
    /\ UNCHANGED <<schedule, targets, claims, refused, failures>>

\* Fault: an acknowledgement that comes late is taken for the present claim.
Acknowledges_Late(o) == schedule[o.of].claim # 0

\* _acknowledge_schedule refuses a claim that is not the present one.
Acknowledges(o) == schedule[o.of].claim = o.claim

Acknowledge(o, last) ==
    schedule' = IF Acknowledges(o)
                THEN [schedule EXCEPT ![o.of].last = last, ![o.of].claim = 0,
                                      ![o.of].kind = "none", ![o.of].runNow = FALSE,
                                      ![o.of].due = @ /\ schedule[o.of].kind = "run-now"]
                ELSE schedule

\* The extension or the conversation is missing, the authorization is denied
\* or fails, or the queue refuses: record_extension_schedule_failure.
Refuse(t) ==
    /\ sweep[t].step = "enqueue"
    /\ failures < MaxFailures
    /\ failures' = failures + 1
    /\ \E o \in sweep[t].now :
          /\ Acknowledge(o, schedule[o.of].last)
          /\ refused' = IF Acknowledges(o) THEN refused \cup {<<o.of, o.claim>>} ELSE refused
    /\ Continue(t, sweep[t].todo)
    /\ UNCHANGED <<task, targets, claims>>

\* record_extension_schedule_task
Record(t) ==
    /\ sweep[t].step = "record"
    /\ \E o \in sweep[t].now : Acknowledge(o, o.claim)
    /\ Continue(t, sweep[t].todo)
    /\ UNCHANGED <<task, targets, claims, refused, failures>>

\* A write of the schedules fails: the sweep ends and the claims are found
\* again by the next one.
Abort(t) ==
    /\ sweep[t].step \in {"look", "enqueue", "record"}
    /\ failures < MaxFailures
    /\ failures' = failures + 1
    /\ sweep' = [sweep EXCEPT ![t] = AtRest(t)]
    /\ UNCHANGED <<schedule, task, targets, claims, refused>>

-----------------------------------------------------------------------------
(* The queue, as far as the schedules see it.                              *)

\* The worker's task ends, and the worker sweeps.
Finish(s, n) ==
    /\ sweep[Worker].step = "rest"
    /\ task[s][n] = "live"
    /\ task' = [task EXCEPT ![s][n] = "ended"]
    /\ sweep' = [sweep EXCEPT ![Worker].step = "claim"]
    /\ UNCHANGED <<schedule, targets, claims, refused, failures>>

-----------------------------------------------------------------------------

Step(t) == Claim(t) \/ Look(t) \/ Enqueue(t) \/ Record(t)

WorkerFinishes == \E s \in Schedules, n \in Claims : Finish(s, n)

Extension(s) == Pause(s) \/ Resume(s) \/ \E k \in Keys : RunNow(s, k)

Next ==
    \/ \E change \in [Schedules -> Changes] : StartDaemon(change)
    \/ \E s \in Schedules : Extension(s) \/ Target(s)
    \/ \E t \in Threads : Step(t) \/ Refuse(t) \/ Abort(t)
    \/ WorkerFinishes

Spec == Init /\ [][Next]_vars

\* Both threads run, and a task comes to an end.
FairSpec ==
    /\ Spec
    /\ \A t \in Threads : WF_vars(Step(t))
    /\ WF_vars(WorkerFinishes)

-----------------------------------------------------------------------------
(* Properties.                                                             *)

\* The shape of extension_schedules.json and of the sweeps; as _parse_status
\* demands, a claim has a kind and nothing else has one.
TypeOK ==
    /\ schedule \in [Schedules -> [state : {"absent", "active", "paused", "disabled"},
                                   due : BOOLEAN, runNow : BOOLEAN, history : SUBSET Keys,
                                   claim : Claims \cup {0}, kind : Kinds \cup {"none"},
                                   last : Claims \cup {0}]]
    /\ \A s \in Schedules : schedule[s].claim = 0 <=> schedule[s].kind = "none"
    /\ task \in [Schedules -> [Claims -> {"none", "live", "ended"}]]
    /\ sweep \in [Threads -> [step : {"rest", "claim", "look", "enqueue", "record"},
                              todo : SUBSET Occurrences, now : SUBSET Occurrences]]
    /\ \A t \in Threads : Cardinality(sweep[t].now) <= 1
    /\ targets \in [Schedules -> 0..MaxTargets]
    /\ claims \in [Schedules -> [Kinds -> Nat]]
    /\ refused \subseteq Schedules \X Claims
    /\ failures \in 0..MaxFailures

\* docs/workflow-reliability.md: an outstanding task prevents overlap.
OutstandingPreventsOverlap ==
    \A s \in Schedules : \A m, n \in Claims :
        task[s][m] = "live" /\ task[s][n] = "live" => m = n

\* The schedule loses sight of a live task only if that claim was also
\* acknowledged as failed: without it no two occurrences overlap, whatever the
\* sweeps, the extension and restarts do.
OverlapNeedsRefusal ==
    \A s \in Schedules : \A m, n \in Claims :
        task[s][m] = "live" /\ task[s][n] = "live" /\ m # n
            => <<s, m>> \in refused \/ <<s, n>> \in refused

\* Every occurrence is owed to a target time or to a keyed request of its own,
\* over pauses, removals and returns of the extension, and restarts.
OccurrencesAreJustified ==
    \A s \in Schedules : /\ claims[s]["scheduled"] <= targets[s]
                         /\ claims[s]["run-now"] <= Cardinality(schedule[s].history)

\* What is due, requested or claimed is enqueued or acknowledged as failed,
\* unless the schedule is paused or its extension removed.
DueIsServed ==
    \A s \in Schedules :
        Active(s) /\ (schedule[s].due \/ schedule[s].runNow \/ schedule[s].claim # 0)
            ~> ~Active(s) \/ ~(schedule[s].due \/ schedule[s].runNow \/ schedule[s].claim # 0)
=============================================================================
