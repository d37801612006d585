----------------------------- MODULE TaskQueue -----------------------------
(***************************************************************************)
(* The durable task queue of src/src/enoch/tasks/queue.py: pending and     *)
(* paused lists, the one running slot, the history, and the fields of a    *)
(* task on which the operations branch.  Each action is one queue          *)
(* transaction (a locked read-modify-write of task_queue.json); a call     *)
(* that the code answers with None or an error changes nothing and is not  *)
(* a step.  Parameters of the operations are those its callers pass.       *)
(*                                                                         *)
(* Abstracted: text, context, provenance, workspace paths, review text,    *)
(* usage, task events.  A time is only "due or not", a review reference    *)
(* (id or url) only "present or not".                                      *)
(***************************************************************************)
EXTENDS Integers, FiniteSets, SequencesExt

CONSTANTS MaxTasks,     \* bound: how many tasks are ever created
          MaxAttempts,  \* TaskJob.max_attempts
          MaxBegins,    \* bound: how often one task is begun
          MaxLeases,    \* bound: how many lease tokens are minted
          Workers,      \* worker identities (threads that may claim a task)
          NoWorker,
          Lanes,        \* extension execution lanes
          NoLane,
          Keys,         \* idempotency keys
          NoKey,
          Publications  \* publication states that workers record

ASSUME BoundsAssumption ==
    /\ MaxTasks \in Nat \ {0}
    /\ MaxAttempts \in Nat \ {0}
    /\ MaxBegins \in Nat \ {0}
    /\ MaxLeases \in Nat
ASSUME NullAssumption ==
    /\ NoWorker \notin Workers
    /\ NoLane \notin Lanes
    /\ NoKey \notin Keys

VARIABLES job,      \* the fields of task 1, 2, ... in order of creation
          pending,  \* ids in queue order
          running,  \* id of the running task, 0 when idle
          paused,   \* ids in order of pausing
          history,  \* ids of finished tasks, oldest first
          reconciliation,  \* last material reconciliation, of which task
          leases,   \* lease tokens minted so far (uuid4 made distinct)
          alive     \* workers whose thread or process is alive

queueVars == <<job, pending, running, paused, history, reconciliation, leases>>
vars == <<queueVars, alive>>

-----------------------------------------------------------------------------
(* Fields of a task.                                                       *)

Ids == DOMAIN job
nextId == Len(job) + 1      \* next_id: tasks never leave the file
QueuedStatus == {"pending", "paused"}
FinalStatus == {"completed", "failed", "cancelled"}
HistoryStatus == FinalStatus \cup {"regressed", "reverted", "forward-fixed"}
Status == QueuedStatus \cup {"running"} \cup HistoryStatus
Stages == {"none", "validated", "captured", "review_published"}

Job == [status   : Status,
        attempt  : Nat,
        lane     : Lanes \cup {NoLane},
        key      : Keys \cup {NoKey},
        parent   : Nat,                 \* parent_task_id, 0 when absent
        isRetry  : BOOLEAN,             \* created by retry_failed_task
        worker   : Workers \cup {NoWorker},
        lease    : Nat,
        due      : BOOLEAN,             \* next_attempt_at absent or past
        stage    : Stages,              \* publish_stage
        revision : BOOLEAN,             \* revision_id present
        ref      : BOOLEAN,             \* review_id or review_url present
        published: BOOLEAN,             \* review_published
        terminal : FinalStatus \cup {"none"}]  \* durable terminal evidence

NewJob(status, attempt, lane, key, parent) ==
    [status |-> status, attempt |-> attempt, lane |-> lane, key |-> key,
     parent |-> parent, isRetry |-> FALSE, worker |-> NoWorker, lease |-> 0,
     due |-> TRUE, stage |-> "none", revision |-> FALSE, ref |-> FALSE,
     published |-> FALSE, terminal |-> "none"]

\* What record_task_publication receives from TaskWorkflow: the checkpoint
\* before capture, the captured revision, a draft or local review, a published
\* review, and the downgrade of a review whose url is missing.
PublicationStates ==
    {[stage |-> "validated", revision |-> FALSE, ref |-> FALSE, published |-> "keep"],
     [stage |-> "captured", revision |-> TRUE, ref |-> FALSE, published |-> "keep"],
     [stage |-> "captured", revision |-> TRUE, ref |-> TRUE, published |-> "no"],
     [stage |-> "captured", revision |-> TRUE, ref |-> FALSE, published |-> "no"],
     [stage |-> "review_published", revision |-> TRUE, ref |-> TRUE, published |-> "yes"]}

ASSUME PublicationsAssumption == Publications \subseteq PublicationStates

ConfirmedReview(j) == j.published /\ j.ref

UnpublishedRevision(j) ==
    /\ j.revision
    /\ j.stage \in {"captured", "review_published"}
    /\ ~ConfirmedReview(j)

\* Statuses that durable evidence proves for an interrupted task.
ProvenStatuses(j) ==
    {s \in FinalStatus : \/ s = j.terminal
                         \/ s = "completed" /\ ConfirmedReview(j)}

\* Evidence that exists but proves no outcome: recovery fails closed on it.
UnsupportedEvidence(j) ==
    \/ (j.stage = "review_published" \/ j.published) /\ ~ConfirmedReview(j)
    \/ j.ref /\ ~j.published

WorkerActive(j) == j.worker \in alive

-----------------------------------------------------------------------------
(* Reading and rewriting the lists.                                        *)

\* Fault: only waiting tasks are searched for the key.
KeyTaken_Waiting(k) ==
    k # NoKey /\ \E i \in ToSet(pending) \cup ToSet(paused) : job[i].key = k

KeyTaken(k) == k # NoKey /\ \E i \in Ids : job[i].key = k

\* Fault: a paused task does not block its lane.
LaneClear_IgnoresPaused(k) ==
    LET lane == job[pending[k]].lane IN
    lane # NoLane => \A m \in 1..(k - 1) : job[pending[m]].lane # lane

\* The candidate is due and nothing of its lane is ahead of it or paused.
LaneClear(k) ==
    LET lane == job[pending[k]].lane IN
    \/ lane = NoLane
    \/ /\ \A p \in ToSet(paused) : job[p].lane # lane
       /\ \A m \in 1..(k - 1) : job[pending[m]].lane # lane

Startable(k) == job[pending[k]].due /\ LaneClear(k)

Update(id, newJob) == [job EXCEPT ![id] = newJob]

\* Fault: the claim survives the transition.
Released_KeepsWorker(j) == [j EXCEPT !.lease = 0]

Released(j) == [j EXCEPT !.worker = NoWorker, !.lease = 0]
WithoutEvidence(j) == [j EXCEPT !.terminal = "none"]

-----------------------------------------------------------------------------
EmptyQueue ==
    /\ job = <<>>
    /\ pending = <<>>
    /\ running = 0
    /\ paused = <<>>
    /\ history = <<>>
    /\ reconciliation = [outcome |-> "none", task |-> 0, lease |-> 0]
    /\ leases = 0

Init == EmptyQueue /\ alive = Workers

Create(newJob) ==
    /\ nextId <= MaxTasks
    /\ ~KeyTaken(newJob.key)
    /\ job' = Append(job, newJob)
    /\ UNCHANGED <<paused, history, reconciliation, leases, alive>>

\* enqueue_task; an extension rerun names a finished parent.
Enqueue(lane, key, parent) ==
    /\ parent # 0 => parent \in ToSet(history)
    /\ Create(NewJob("pending", 0, lane, key, parent))
    /\ pending' = Append(pending, nextId)
    /\ UNCHANGED running

\* enqueue_task_front: only core callers use it, none gives a lane.
EnqueueFront(key) ==
    /\ Create(NewJob("pending", 0, NoLane, key, 0))
    /\ pending' = Cons(nextId, pending)
    /\ UNCHANGED running

\* begin_direct_task: straight into the running slot, not yet claimed.
BeginDirect(key) ==
    /\ running = 0
    /\ Create(NewJob("running", 1, NoLane, key, 0))
    /\ running' = nextId
    /\ UNCHANGED pending

\* Fault: a retry that has finished does not count.
AlreadyRetried_Live(id) ==
    \E i \in Ids : job[i].parent = id /\ job[i].status \in QueuedStatus \cup {"running"}

AlreadyRetried(id) == \E i \in Ids : job[i].parent = id /\ job[i].status # "cancelled"

\* retry_failed_task: a linked copy; the original stays in history.  A retry that is only
\* to publish drops the id of the review and keeps its URL, unless the result, reconciled
\* with the forge, shows a review.
RetryFailed(id) ==
    \E reconciled, url \in BOOLEAN :
       LET original == job[id]
           publicationOnly == UnpublishedRevision(original) /\ ~reconciled
           copy == [NewJob("pending", 0, original.lane, NoKey, id) EXCEPT
                      !.isRetry = TRUE,
                      !.stage = IF publicationOnly THEN "captured" ELSE original.stage,
                      !.revision = original.revision,
                      !.ref = original.ref /\ (publicationOnly => url),
                      !.published = ~publicationOnly /\ original.published]
       IN /\ id \in ToSet(history)
          /\ \/ original.status = "failed"
             \/ original.status = "completed" /\ UnpublishedRevision(original)
          /\ ~AlreadyRetried(id)
          /\ Create(copy)
          /\ pending' = Append(pending, nextId)
          /\ UNCHANGED running

\* begin_next_task: the first due candidate whose lane is clear.
BeginNext ==
    /\ running = 0
    /\ \E k \in DOMAIN pending :
         /\ Startable(k)
         /\ \A m \in 1..(k - 1) : ~Startable(m)
         /\ job[pending[k]].attempt < MaxBegins
         /\ job' = Update(pending[k], [job[pending[k]] EXCEPT !.status = "running",
                                                             !.attempt = @ + 1,
                                                             !.due = TRUE])
         /\ running' = pending[k]
         /\ pending' = RemoveAt(pending, k)
    /\ UNCHANGED <<paused, history, reconciliation, leases, alive>>

\* The delay of a retried task elapses.
BecomeDue(id) ==
    /\ id \in ToSet(pending) \cup ToSet(paused)
    /\ ~job[id].due
    /\ job' = Update(id, [job[id] EXCEPT !.due = TRUE])
    /\ UNCHANGED <<pending, running, paused, history, reconciliation, leases, alive>>

-----------------------------------------------------------------------------
(* The running slot.  A worker id, when given, must own the task.          *)

Owns(id, w) == running = id /\ running # 0 /\ job[id].worker = w

Put(newJob) == job' = Update(running, newJob)

KeepLists == UNCHANGED <<pending, running, paused, history, reconciliation>>

\* Fault: the claim does not look at who holds the task.
Claim_Anyone(id, w) ==
    /\ running = id /\ running # 0
    /\ leases < MaxLeases
    /\ leases' = leases + 1
    /\ Put([job[id] EXCEPT !.worker = w, !.lease = leases + 1])
    /\ KeepLists /\ UNCHANGED alive

\* claim_running_task: refused while another worker that is active holds it.
Claim(id, w) ==
    /\ running = id /\ running # 0
    /\ \/ job[id].worker \in {NoWorker, w}
       \/ ~WorkerActive(job[id])
    /\ leases < MaxLeases
    /\ leases' = leases + 1
    /\ Put([job[id] EXCEPT !.worker = w, !.lease = leases + 1])
    /\ KeepLists /\ UNCHANGED alive

\* heartbeat_task: rotates the lease token of the owner.
Heartbeat(id, w) ==
    /\ Owns(id, w)
    /\ leases < MaxLeases
    /\ leases' = leases + 1
    /\ Put([job[id] EXCEPT !.lease = leases + 1])
    /\ KeepLists /\ UNCHANGED alive

\* record_task_publication: an empty reference keeps the recorded one.
RecordPublication(id, w, p) ==
    /\ Owns(id, w)
    /\ Put([job[id] EXCEPT !.stage = p.stage,
                           !.revision = @ \/ p.revision,
                           !.ref = @ \/ p.ref,
                           !.published = IF p.published = "keep" THEN @
                                         ELSE p.published = "yes"])
    /\ KeepLists /\ UNCHANGED <<leases, alive>>

\* record_task_terminal_evidence: conflicting evidence is refused.
RecordTerminalEvidence(id, w, status) ==
    /\ Owns(id, w)
    /\ job[id].terminal = "none"
    /\ Put([job[id] EXCEPT !.terminal = status])
    /\ KeepLists /\ UNCHANGED <<leases, alive>>

Archive(newJob) ==
    /\ Put(newJob)
    /\ running' = 0
    /\ history' = Append(history, running)
    /\ UNCHANGED <<pending, paused, leases, alive>>

\* Fault: the running slot is not cleared.
Requeue_KeepsRunning(newJob) ==
    /\ Put(newJob)
    /\ pending' = Cons(running, pending)
    /\ UNCHANGED <<running, paused, history, leases, alive>>

Requeue(newJob) ==
    /\ Put(newJob)
    /\ running' = 0
    /\ pending' = Cons(running, pending)
    /\ UNCHANGED <<paused, history, leases, alive>>

\* complete_task and fail_task.
Finish(id, w, status) ==
    /\ Owns(id, w)
    /\ status \in {"completed", "failed"}
    /\ Archive([Released(job[id]) EXCEPT !.status = status, !.due = TRUE])
    /\ UNCHANGED reconciliation

\* cancel_running_task: by its worker, or by the owner's /stop without one.
CancelRunning(id, w) ==
    /\ running = id /\ running # 0
    /\ w \in {NoWorker, job[id].worker}
    /\ Archive([Released(job[id]) EXCEPT !.status = "cancelled"])
    /\ UNCHANGED reconciliation

\* retry_running_task: a classified transient failure with attempts left.
RetryRunning(id, w, due) ==
    /\ Owns(id, w)
    /\ job[id].attempt < MaxAttempts
    /\ Requeue(WithoutEvidence([Released(job[id]) EXCEPT !.status = "pending",
                                                         !.due = due]))
    /\ UNCHANGED reconciliation

\* pause_task on the running task.
PauseRunning(id, w) ==
    /\ running = id /\ running # 0
    /\ w \in {NoWorker, job[id].worker}
    /\ Put(WithoutEvidence([Released(job[id]) EXCEPT !.status = "paused"]))
    /\ running' = 0
    /\ paused' = Append(paused, id)
    /\ UNCHANGED <<pending, history, reconciliation, leases, alive>>

\* pause_task on a pending task: the core pauses only work it queued itself,
\* which has no lane.
PausePending(id) ==
    /\ \E k \in DOMAIN pending :
         /\ pending[k] = id
         /\ pending' = RemoveAt(pending, k)
    /\ job[id].lane = NoLane
    /\ job' = Update(id, WithoutEvidence([Released(job[id]) EXCEPT !.status = "paused"]))
    /\ paused' = Append(paused, id)
    /\ UNCHANGED <<running, history, reconciliation, leases, alive>>

\* resume_paused_tasks with a task id.
ResumeOne(id) ==
    /\ \E k \in DOMAIN paused :
         /\ paused[k] = id
         /\ paused' = RemoveAt(paused, k)
    /\ pending' = Cons(id, pending)
    /\ job' = Update(id, [Released(job[id]) EXCEPT !.status = "pending"])
    /\ UNCHANGED <<running, history, reconciliation, leases, alive>>

\* resume_paused_tasks for all of them, in the order they were paused.
ResumeAll ==
    /\ paused # <<>>
    /\ pending' = paused \o pending
    /\ paused' = <<>>
    /\ job' = [i \in Ids |-> IF i \in ToSet(paused)
                             THEN [Released(job[i]) EXCEPT !.status = "pending"]
                             ELSE job[i]]
    /\ UNCHANGED <<running, history, reconciliation, leases, alive>>

\* cancel_task.
CancelQueued(id) ==
    /\ \/ /\ \E k \in DOMAIN pending :
               /\ pending[k] = id
               /\ pending' = RemoveAt(pending, k)
          /\ UNCHANGED paused
       \/ /\ \E k \in DOMAIN paused :
               /\ paused[k] = id
               /\ paused' = RemoveAt(paused, k)
          /\ UNCHANGED pending
    /\ job' = Update(id, [job[id] EXCEPT !.status = "cancelled"])
    /\ history' = Append(history, id)
    /\ UNCHANGED <<running, reconciliation, leases, alive>>

-----------------------------------------------------------------------------
(* History.                                                                *)

\* Fault: the new status is not one the parser knows.
Relabel_Unknown(id, status) ==
    /\ job' = Update(id, [job[id] EXCEPT !.status = "resolved"])
    /\ KeepLists /\ UNCHANGED <<leases, alive>>

Relabel(id, status) ==
    /\ job' = Update(id, [job[id] EXCEPT !.status = status])
    /\ KeepLists /\ UNCHANGED <<leases, alive>>

\* Fault: any finished task can be marked regressed.
Regress_Any(id) ==
    /\ id \in ToSet(history)
    /\ job[id].status \in FinalStatus
    /\ Relabel(id, "regressed")

\* regress_task
Regress(id) ==
    /\ id \in ToSet(history)
    /\ job[id].status = "completed"
    /\ Relabel(id, "regressed")

\* resolve_regressed_task; revert_task is Regress, when needed, then this.
ResolveRegressed(id, resolution, related) ==
    /\ id \in ToSet(history)
    /\ job[id].status = "regressed"
    /\ resolution = "forward-fixed" =>
           related \in Ids \ {id} /\ job[related].status = "completed"
    /\ Relabel(id, resolution)

-----------------------------------------------------------------------------
(* reconcile_running_task.  The request names the task, worker and lease   *)
(* the caller saw; recover() sends none.                                   *)

NoRequest == [task |-> 0, worker |-> NoWorker, lease |-> 0]

Mismatch(req) ==
    /\ req # NoRequest
    /\ req # [task |-> running, worker |-> job[running].worker,
              lease |-> job[running].lease]

Outcome(outcome) ==
    reconciliation' = [outcome |-> outcome, task |-> running,
                       lease |-> job[running].lease]

FailClosed(outcome) ==
    /\ Outcome(outcome)
    /\ UNCHANGED <<job, pending, running, paused, history, leases, alive>>

ReconcileMismatch(req) ==
    /\ running # 0
    /\ Mismatch(req)
    /\ FailClosed("conflict")

Interrupted(req) ==
    /\ running # 0
    /\ ~Mismatch(req)
    /\ ~WorkerActive(job[running])

\* Evidence with two outcomes, or history already holding the task.
ReconcileConflict(req) ==
    /\ Interrupted(req)
    /\ \/ Cardinality(ProvenStatuses(job[running])) > 1
       \/ /\ ProvenStatuses(job[running]) # {}
          /\ running \in ToSet(history)
    /\ FailClosed("conflict")

\* Durable evidence of one outcome finalizes the task.
ReconcileTerminal(req) ==
    /\ Interrupted(req)
    /\ running \notin ToSet(history)
    /\ \E status \in FinalStatus :
         /\ ProvenStatuses(job[running]) = {status}
         /\ Archive([Released(job[running]) EXCEPT !.status = status, !.due = TRUE])
    /\ Outcome("terminal_repair")

ReconcileUnsupported(req) ==
    /\ Interrupted(req)
    /\ ProvenStatuses(job[running]) = {}
    /\ UnsupportedEvidence(job[running])
    /\ FailClosed("unsupported_evidence")

\* Fault: durable evidence is not consulted.
Unproven_IgnoresEvidence(req) == Interrupted(req)

Unproven(req) ==
    /\ Interrupted(req)
    /\ ProvenStatuses(job[running]) = {}
    /\ ~UnsupportedEvidence(job[running])

ReconcileExhausted(req) ==
    /\ Unproven(req)
    /\ job[running].attempt >= MaxAttempts
    /\ Archive([Released(job[running]) EXCEPT !.status = "failed", !.due = TRUE])
    /\ Outcome("interrupted_worker_recovery")

ReconcileRequeue(req) ==
    /\ Unproven(req)
    /\ job[running].attempt < MaxAttempts
    /\ Requeue([Released(job[running]) EXCEPT !.status = "pending", !.due = TRUE])
    /\ Outcome("interrupted_worker_recovery")

Reconcile(req) ==
    \/ ReconcileMismatch(req)
    \/ ReconcileConflict(req)
    \/ ReconcileTerminal(req)
    \/ ReconcileUnsupported(req)
    \/ ReconcileExhausted(req)
    \/ ReconcileRequeue(req)

-----------------------------------------------------------------------------
(* Environment: a worker thread ends.  Worker ids are never reused, so a   *)
(* new thread takes a name only once no task carries it.                   *)

WorkerDies(w) == w \in alive /\ alive' = alive \ {w} /\ UNCHANGED queueVars

WorkerStarts(w) ==
    /\ w \notin alive
    /\ \A i \in Ids : job[i].worker # w
    /\ alive' = alive \cup {w}
    /\ UNCHANGED queueVars

-----------------------------------------------------------------------------
Requests == {NoRequest} \cup
            [task : Ids, worker : Workers \cup {NoWorker}, lease : 0..leases]

CreateStep ==
    \/ \E lane \in Lanes \cup {NoLane}, key \in Keys \cup {NoKey}, parent \in {0} \cup Ids :
          Enqueue(lane, key, parent)
    \/ \E key \in Keys \cup {NoKey} : EnqueueFront(key) \/ BeginDirect(key)
    \/ \E id \in Ids : RetryFailed(id)

WorkerStep ==
    \E id \in Ids, w \in alive :
       \/ Claim(id, w)
       \/ Heartbeat(id, w)
       \/ \E p \in Publications : RecordPublication(id, w, p)
       \/ \E s \in FinalStatus : RecordTerminalEvidence(id, w, s)
       \/ \E s \in {"completed", "failed"} : Finish(id, w, s)
       \/ \E due \in BOOLEAN : RetryRunning(id, w, due)

OwnerStep ==
    \E id \in Ids :
       \/ \E w \in Workers \cup {NoWorker} : CancelRunning(id, w) \/ PauseRunning(id, w)
       \/ PausePending(id)
       \/ ResumeOne(id)
       \/ CancelQueued(id)
       \/ Regress(id)
       \/ ResolveRegressed(id, "reverted", 0)
       \/ \E related \in Ids : ResolveRegressed(id, "forward-fixed", related)

EnvironmentStep ==
    \/ \E id \in Ids : BecomeDue(id)
    \/ \E w \in Workers : WorkerDies(w) \/ WorkerStarts(w)

Next ==
    \/ CreateStep
    \/ BeginNext
    \/ WorkerStep
    \/ OwnerStep
    \/ ResumeAll
    \/ \E req \in Requests : Reconcile(req)
    \/ EnvironmentStep

Spec == Init /\ [][Next]_vars

-----------------------------------------------------------------------------
(* Properties.                                                             *)

\* The queue file has the shape that _parse_job and _load_queue expect.
TypeOK ==
    /\ job \in Seq(Job)
    /\ pending \in Seq(Ids)
    /\ running \in {0} \cup Ids
    /\ paused \in Seq(Ids)
    /\ history \in Seq(Ids)
    /\ reconciliation \in [outcome : {"none", "conflict", "terminal_repair",
                                      "unsupported_evidence",
                                      "interrupted_worker_recovery"},
                           task : Nat, lease : Nat]
    /\ leases \in Nat
    /\ alive \subseteq Workers

\* Every task is in exactly one of pending, running, paused and history, once,
\* and its status says which: no operation loses, duplicates or strands a task
\* on its way between the lists.
Placement ==
    /\ IsInjective(pending) /\ IsInjective(paused) /\ IsInjective(history)
    /\ \A i \in Ids :
         /\ i \in ToSet(pending) <=> job[i].status = "pending"
         /\ i = running <=> job[i].status = "running"
         /\ i \in ToSet(paused) <=> job[i].status = "paused"
         /\ i \in ToSet(history) <=> job[i].status \in HistoryStatus

\* Only the running task has an owner: a claim, its lease and its terminal
\* evidence never survive into a queued task, where the next worker would
\* inherit them.
NoStaleOwnership ==
    \A i \in Ids :
       /\ job[i].worker # NoWorker => job[i].status = "running"
       /\ job[i].terminal # "none" => job[i].status \in {"running"} \cup HistoryStatus

\* A key is accepted once for good: a redelivered event never creates a second
\* task, wherever the first one has gone meanwhile.
IdempotentCreation ==
    \A i, j \in Ids : job[i].key # NoKey /\ job[i].key = job[j].key => i = j

\* A failed task has at most one retry that was not cancelled.
OneLiveRetry ==
    \A i, j \in Ids :
       /\ job[i].isRetry /\ job[j].isRetry
       /\ job[i].parent = job[j].parent
       /\ job[i].status # "cancelled" /\ job[j].status # "cancelled"
       => i = j

\* Within an execution lane the work is first in, first out: while an earlier
\* task of the lane waits, is delayed or is paused, no later one runs or stands
\* before it in the queue.
Before(s, i, j) == \E m, n \in DOMAIN s : m < n /\ s[m] = i /\ s[n] = j

Unfinished(i) == job[i].status \in {"pending", "paused", "running"}

LaneFIFO ==
    \A i, j \in Ids :
       /\ i < j
       /\ job[i].lane # NoLane /\ job[i].lane = job[j].lane
       /\ Unfinished(i) /\ Unfinished(j)
       => /\ job[j].status = "pending"
          /\ job[i].status = "pending" => Before(pending, i, j)

\* A finished task stays finished and keeps the outcome it was archived with,
\* but for the one path completed, regressed, then reverted or forward-fixed.
HistoryIsMonotonic ==
    [][\A i \in ToSet(history) :
         /\ i \in ToSet(history)'
         /\ job'[i] # job[i] =>
              \/ job[i].status = "completed" /\ job'[i].status = "regressed"
              \/ job[i].status = "regressed" /\ job'[i].status \in {"reverted", "forward-fixed"}
      ]_vars

\* A running task whose worker is gone leaves the slot only with the outcome
\* that its durable evidence proves, or because the owner stopped it: recovery
\* never turns a published review or a recorded result into new work or into
\* another result.  And recovery never takes a task from an active worker.
RecoveryKeepsOutcome ==
    [][running # 0 /\ running' # running =>
         /\ \/ WorkerActive(job[running])
            \/ job'[running].status \in {"cancelled", "paused"}
            \/ ProvenStatuses(job[running]) \subseteq {job'[running].status}
         /\ reconciliation' # reconciliation => ~WorkerActive(job[running])
      ]_vars
=============================================================================
