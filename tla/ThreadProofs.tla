----------------------------- MODULE ThreadProofs -----------------------------
(***************************************************************************)
(* The threads of a daemon own their tasks: proofs about MCWork, where     *)
(* TaskRunner runs over TaskQueue.  The invariant is the one of the queue, *)
(* proved in TaskQueueProofs, and that every thread which works still      *)
(* holds its task in the running slot, or that the task is over.  Each     *)
(* step of a thread or of the main loop is an operation of the queue,      *)
(* which keeps the first part, and leaves the running task to its thread   *)
(* unless it ends it, which keeps the second.                              *)
(***************************************************************************)
EXTENDS MCWork, TLAPS

\* What is proved of the queue, of the queue of the threads.  The journal of MCRecovery, of
\* which TaskQueueProofs speaks too, is empty here.
QP == INSTANCE TaskQueueProofs WITH
        MaxTasks <- MaxWork, MaxBegins <- MaxRuns, MaxLeases <- MaxClaims, Workers <- Threads,
        job <- work, pending <- waiting, running <- current, paused <- held, history <- past,
        reconciliation <- decided, leases <- claims, alive <- living,
        Lanes <- {}, NoLane <- "no lane", Keys <- {}, NoKey <- "no key", Publications <- {},
        Messages <- {}, Edits <- {}, Tracked <- {}, Terminal <- {}, Deferred <- {},
        NoMessage <- "no message", Providers <- {}, MaxDeliveries <- 1, MaxGenerations <- 0,
        AttemptBound <- 1, provider <- {}, record <- {}, generation <- 0, phase <- "down",
        todo <- {}, call <- {}, closed <- FALSE, applied <- {}, hidden <- {},
        shown <- "no message"

\* What a thread and the main loop may be, as in R!TypeOK.
ThreadType == [kind : {"none", "queue", "direct"}, task : {0} \cup R!Tasks,
               step : R!ThreadSteps, outcome : R!Outcomes \cup {"none"}]

MainType == [step : {"recover", "look", "reconcile", "events", "spawn", "signal", "cancel"},
             task : {0} \cup R!Tasks, worker : Threads \cup {NoWorker}, lease : Nat,
             signal : BOOLEAN]

\* The threads of the process are the active workers; the main loop has a task in hand
\* while it acts on one.
ThreadTypes ==
    /\ thread \in [Threads -> ThreadType]
    /\ registered \in [R!Tasks -> Threads \cup {NoWorker}]
    /\ signalled \subseteq Threads /\ main \in MainType /\ faults \in 0..MaxFaults
    /\ DOMAIN work \subseteq R!Tasks
    /\ main.step \in {"spawn", "signal", "cancel"} => main.task \in R!Tasks
    /\ \A w \in Threads : thread[w].kind # "none" <=> w \in living

\* The task is in the running slot under the worker's claim.
HeldBy(t, w) == t # 0 /\ current = t /\ work[t].worker = w

\* The task is in history.
Over(t) == t \in DOMAIN work /\ work[t].status \in QP!HistoryStatus

\* A thread that works has its task, or the task is over: it was cancelled.
OwnInv == \A w \in Threads :
            R!Working(w) => HeldBy(thread[w].task, w) \/ Over(thread[w].task)

\* The invariant.
ThreadsInv ==
    QP!IInv /\ ThreadTypes /\ OwnInv /\ R!OneThreadPerTask /\ R!SignalsReachTheirTask

-----------------------------------------------------------------------------
\* The assumptions that the proofs of the queue rest on.
LEMMA QueueAssumptions == QP!BoundsAssumption /\ QP!NullAssumption /\ QP!PublicationsAssumption
  BY ThreadsAssumption, BoundsAssumption
     DEF QP!BoundsAssumption, QP!NullAssumption, QP!PublicationsAssumption

\* What every step of the queue does: its invariant holds on, no task is beyond the bound, and
\* what is over stays over.
QueueMoves == QP!IInv' /\ DOMAIN work' \subseteq R!Tasks /\ \A t : Over(t) => Over(t)'

\* Statuses say whether a task runs or is over.
LEMMA RunningIsNotOver ==
    ASSUME QP!IInv
    PROVE  /\ current \in {0} \cup DOMAIN work /\ (current # 0 => ~Over(current))
           /\ \A t : Over(t) <=> t \in QP!ToSet(past)
           /\ work \in Seq(QP!Job)
<1>1. QP!TypeOK /\ QP!Placement
  BY DEF QP!IInv
<1>2. /\ work \in Seq(QP!Job) /\ current \in {0} \cup DOMAIN work
      /\ past \in Seq(DOMAIN work)
  BY <1>1 DEF QP!TypeOK, QP!Ids
<1>3. current # 0 => work[current].status = "running"
  BY <1>1, <1>2 DEF QP!Placement, QP!Ids
<1>4. "running" \notin QP!HistoryStatus
  BY DEF QP!HistoryStatus, QP!FinalStatus
<1>5. \A t : t \in QP!ToSet(past) => t \in DOMAIN work
  BY <1>2 DEF QP!ToSet
<1>6. \A t : Over(t) <=> t \in QP!ToSet(past)
  BY <1>1, <1>5 DEF QP!Placement, QP!Ids, Over
<1> QED
  BY <1>2, <1>3, <1>4, <1>6 DEF Over

\* What is over stays over.
LEMMA OverStays ==
    ASSUME QP!IInv, QP!IInv', QP!HistoryKept
    PROVE  \A t : Over(t) => Over(t)'
<1>1. \A t : Over(t) <=> t \in QP!ToSet(past)
  BY RunningIsNotOver
<1>2. (\A t : Over(t) <=> t \in QP!ToSet(past))'
  <2>1. QP!TypeOK' /\ QP!Placement'
    BY DEF QP!IInv
  <2>2. past' \in Seq(DOMAIN work')
    BY <2>1 DEF QP!TypeOK, QP!Ids
  <2>3. \A t : t \in QP!ToSet(past)' => t \in DOMAIN work'
    BY <2>2 DEF QP!ToSet
  <2> QED
    BY <2>1, <2>3 DEF QP!Placement, QP!Ids, Over
<1>3. \A t \in QP!ToSet(past) : t \in QP!ToSet(past)'
  BY DEF QP!HistoryKept
<1> QED
  BY <1>1, <1>2, <1>3

\* No more tasks are created than the bound allows.
LEMMA FewTasks ==
    ASSUME QP!IInv, QP!IInv', DOMAIN work \subseteq R!Tasks,
           DOMAIN work' = DOMAIN work \/ \E j : QP!Create(j)
    PROVE  DOMAIN work' \subseteq R!Tasks
<1>1. work \in Seq(QP!Job) /\ work' \in Seq(QP!Job)
  BY DEF QP!IInv, QP!TypeOK
<1>2. CASE \E j : QP!Create(j)
  <2>1. PICK j : QP!Create(j)
    BY <1>2
  <2>2. Len(work) + 1 <= MaxWork /\ work' = Append(work, j)
    BY <2>1 DEF QP!Create, QP!nextId
  <2>3. Len(work') = Len(work) + 1 /\ DOMAIN work' = 1..Len(work') /\ Len(work) \in Nat
    BY <1>1, <2>2
  <2> QED
    BY <2>2, <2>3, ThreadsAssumption DEF R!Tasks
<1> QED
  BY <1>2

\* A task that is updated stays in the table.
LEMMA UpdatesKeepTasks ==
    /\ \A i, j : work' = QP!Update(i, j) => DOMAIN work' = DOMAIN work
    /\ \A j : QP!Put(j) \/ QP!Archive(j) \/ QP!Requeue(j) => DOMAIN work' = DOMAIN work
<1>1. \A i, j : work' = QP!Update(i, j) => DOMAIN work' = DOMAIN work
  BY DEF QP!Update
<1>2. \A j : QP!Put(j) => DOMAIN work' = DOMAIN work
  BY <1>1 DEF QP!Put
<1> QED
  BY <1>1, <1>2, Zenon DEF QP!Archive, QP!Requeue

\* Every step of the queue.
LEMMA QueueStep ==
    ASSUME QP!IInv, DOMAIN work \subseteq R!Tasks,
           \/ QP!CreateStep \/ QP!BeginNext \/ QP!WorkerStep \/ QP!OwnerStep \/ QP!ResumeAll
           \/ \E req : QP!Reconcile(req)
           \/ QP!EnvironmentStep
    PROVE  QueueMoves
<1> USE QueueAssumptions
<1>1. CASE QP!CreateStep
  <2>1. QP!IInv' /\ QP!HistoryKept
    BY <1>1, QP!CreateStepKeeps
  <2>2. \E j : QP!Create(j)
    BY <1>1 DEF QP!CreateStep, QP!Enqueue, QP!EnqueueFront, QP!BeginDirect, QP!RetryFailed
  <2> QED
    BY <2>1, <2>2, FewTasks, OverStays DEF QueueMoves
<1>2. ASSUME QP!IInv', QP!HistoryKept, DOMAIN work' = DOMAIN work PROVE QueueMoves
  BY <1>2, OverStays DEF QueueMoves
<1>3. CASE QP!BeginNext
  <2>1. DOMAIN work' = DOMAIN work
    BY <1>3, UpdatesKeepTasks, Zenon DEF QP!BeginNext
  <2> QED
    BY <1>2, <1>3, <2>1, QP!BeginNextKeeps
<1>4. CASE QP!WorkerStep
  <2>1. DOMAIN work' = DOMAIN work
    BY <1>4, UpdatesKeepTasks, Zenon
       DEF QP!WorkerStep, QP!Claim, QP!Heartbeat, QP!RecordPublication,
           QP!RecordTerminalEvidence, QP!Finish, QP!RetryRunning
  <2> QED
    BY <1>2, <1>4, <2>1, QP!WorkerStepKeeps
<1>5. CASE QP!OwnerStep
  <2>1. DOMAIN work' = DOMAIN work
    BY <1>5, UpdatesKeepTasks, Zenon
       DEF QP!OwnerStep, QP!CancelRunning, QP!PauseRunning, QP!PausePending, QP!ResumeOne,
           QP!CancelQueued, QP!Regress, QP!ResolveRegressed, QP!Relabel
  <2> QED
    BY <1>2, <1>5, <2>1, QP!OwnerStepKeeps
<1>6. CASE QP!ResumeAll
  <2>1. DOMAIN work' = DOMAIN work
    BY <1>6 DEF QP!ResumeAll, QP!Ids
  <2> QED
    BY <1>2, <1>6, <2>1, QP!ResumeAllKeeps
<1>7. ASSUME NEW req, QP!Reconcile(req) PROVE QueueMoves
  <2>1. DOMAIN work' = DOMAIN work
    BY <1>7, UpdatesKeepTasks, Zenon
       DEF QP!Reconcile, QP!ReconcileMismatch, QP!ReconcileConflict, QP!ReconcileTerminal,
           QP!ReconcileUnsupported, QP!ReconcileExhausted, QP!ReconcileRequeue, QP!FailClosed
  <2> QED
    BY <1>2, <1>7, <2>1, QP!ReconcileKeeps
<1>8. CASE QP!EnvironmentStep
  <2>1. DOMAIN work' = DOMAIN work
    BY <1>8, UpdatesKeepTasks, Zenon
       DEF QP!EnvironmentStep, QP!BecomeDue, QP!WorkerDies, QP!WorkerStarts, QP!queueVars
  <2> QED
    BY <1>2, <1>8, <2>1, QP!EnvironmentStepKeeps
<1> QED
  BY <1>1, <1>3, <1>4, <1>5, <1>6, <1>7, <1>8

\* The threads take the steps that are proved of the queue.
LEMMA SameSteps ==
    /\ \A i, w : R!Q!Claim(i, w) => QP!Claim(i, w)
    /\ \A i, w, s : R!Q!RecordTerminalEvidence(i, w, s) => QP!RecordTerminalEvidence(i, w, s)
    /\ \A i, w, s : R!Q!Finish(i, w, s) => QP!Finish(i, w, s)
    /\ \A i, w, due : R!Q!RetryRunning(i, w, due) => QP!RetryRunning(i, w, due)
    /\ \A i, w : R!Q!PauseRunning(i, w) => QP!PauseRunning(i, w)
    /\ \A i, w : R!Q!CancelRunning(i, w) => QP!CancelRunning(i, w)
<1> USE DEF R!Q!Owns, QP!Owns, R!Q!WorkerActive, QP!WorkerActive, R!Q!Put, QP!Put,
            R!Q!Update, QP!Update, R!Q!KeepLists, QP!KeepLists, R!Q!Archive, QP!Archive,
            R!Q!Requeue, QP!Requeue, R!Q!Released, QP!Released,
            R!Q!WithoutEvidence, QP!WithoutEvidence
<1>1. \A i, w : R!Q!Claim(i, w) => QP!Claim(i, w)
  BY DEF R!Q!Claim, QP!Claim
<1>2. \A i, w, s : R!Q!RecordTerminalEvidence(i, w, s) => QP!RecordTerminalEvidence(i, w, s)
  BY DEF R!Q!RecordTerminalEvidence, QP!RecordTerminalEvidence
<1>3. \A i, w, s : R!Q!Finish(i, w, s) => QP!Finish(i, w, s)
  BY DEF R!Q!Finish, QP!Finish
<1>4. \A i, w, due : R!Q!RetryRunning(i, w, due) => QP!RetryRunning(i, w, due)
  BY DEF R!Q!RetryRunning, QP!RetryRunning, R!Q!Cons, QP!Cons
<1>5. \A i, w : R!Q!PauseRunning(i, w) => QP!PauseRunning(i, w)
  BY DEF R!Q!PauseRunning, QP!PauseRunning
<1>6. \A i, w : R!Q!CancelRunning(i, w) => QP!CancelRunning(i, w)
  BY DEF R!Q!CancelRunning, QP!CancelRunning
<1> QED
  BY <1>1, <1>2, <1>3, <1>4, <1>5, <1>6

\* So do the main loop and the environment.
LEMMA SameCommands ==
    /\ R!Q!BeginNext => QP!BeginNext
    /\ R!Q!Enqueue("no lane", "no key", 0) => QP!CreateStep
    /\ R!Q!BeginDirect("no key") => QP!CreateStep
    /\ R!Q!ResumeAll => QP!ResumeAll
    /\ \A i : R!Q!ResumeOne(i) => QP!ResumeOne(i)
    /\ \A i : R!Q!CancelQueued(i) => QP!CancelQueued(i)
    /\ \A i : R!Q!BecomeDue(i) => QP!BecomeDue(i)
    /\ \A w : (R!Q!WorkerDies(w) => QP!WorkerDies(w)) /\ (R!Q!WorkerStarts(w) => QP!WorkerStarts(w))
<1> USE DEF R!Q!Update, QP!Update, R!Q!Released, QP!Released, R!Q!ToSet, QP!ToSet,
            R!Q!RemoveAt, QP!RemoveAt, R!Q!Cons, QP!Cons, R!Q!Ids, QP!Ids
<1>1. R!Q!BeginNext => QP!BeginNext
  BY DEF R!Q!BeginNext, QP!BeginNext, R!Q!Startable, QP!Startable, R!Q!LaneClear, QP!LaneClear
<1>2. R!Q!Enqueue("no lane", "no key", 0) => QP!Enqueue("no lane", "no key", 0)
  BY DEF R!Q!Enqueue, QP!Enqueue, R!Q!Create, QP!Create, R!Q!nextId, QP!nextId, R!Q!KeyTaken,
         QP!KeyTaken, R!Q!NewJob, QP!NewJob
<1>3. R!Q!BeginDirect("no key") => QP!BeginDirect("no key")
  BY DEF R!Q!BeginDirect, QP!BeginDirect, R!Q!Create, QP!Create, R!Q!nextId, QP!nextId,
         R!Q!KeyTaken, QP!KeyTaken, R!Q!NewJob, QP!NewJob
<1>4. R!Q!ResumeAll => QP!ResumeAll
  BY DEF R!Q!ResumeAll, QP!ResumeAll
<1>5. \A i : R!Q!ResumeOne(i) => QP!ResumeOne(i)
  BY DEF R!Q!ResumeOne, QP!ResumeOne
<1>6. \A i : R!Q!CancelQueued(i) => QP!CancelQueued(i)
  BY DEF R!Q!CancelQueued, QP!CancelQueued
<1>7. \A i : R!Q!BecomeDue(i) => QP!BecomeDue(i)
  BY DEF R!Q!BecomeDue, QP!BecomeDue
<1>8. \A w : (R!Q!WorkerDies(w) => QP!WorkerDies(w)) /\ (R!Q!WorkerStarts(w) => QP!WorkerStarts(w))
  BY DEF R!Q!WorkerDies, QP!WorkerDies, R!Q!WorkerStarts, QP!WorkerStarts, R!Q!queueVars,
         QP!queueVars
<1>9. (QP!Enqueue("no lane", "no key", 0) \/ QP!BeginDirect("no key")) => QP!CreateStep
  BY DEF QP!CreateStep
<1> QED
  BY <1>1, <1>2, <1>3, <1>4, <1>5, <1>6, <1>7, <1>8, <1>9

\* And reconciliation.
LEMMA SameReconciliation == \A req : R!Q!Reconcile(req) => QP!Reconcile(req)
<1> USE DEF R!Q!Update, QP!Update, R!Q!Released, QP!Released, R!Q!ToSet, QP!ToSet,
            R!Q!Cons, QP!Cons, R!Q!Put, QP!Put, R!Q!Archive, QP!Archive, R!Q!Requeue, QP!Requeue,
            R!Q!Outcome, QP!Outcome, R!Q!FailClosed, QP!FailClosed, R!Q!Mismatch, QP!Mismatch,
            R!Q!NoRequest, QP!NoRequest, R!Q!Interrupted, QP!Interrupted, R!Q!WorkerActive,
            QP!WorkerActive, R!Q!Unproven, QP!Unproven, R!Q!ProvenStatuses, QP!ProvenStatuses,
            R!Q!FinalStatus, QP!FinalStatus, R!Q!ConfirmedReview, QP!ConfirmedReview,
            R!Q!UnsupportedEvidence, QP!UnsupportedEvidence
<1>1. \A req : R!Q!ReconcileMismatch(req) => QP!ReconcileMismatch(req)
  BY DEF R!Q!ReconcileMismatch, QP!ReconcileMismatch
<1>2. \A req : R!Q!ReconcileConflict(req) => QP!ReconcileConflict(req)
  BY DEF R!Q!ReconcileConflict, QP!ReconcileConflict, R!Q!Cardinality, QP!Cardinality
<1>3. \A req : R!Q!ReconcileTerminal(req) => QP!ReconcileTerminal(req)
  BY DEF R!Q!ReconcileTerminal, QP!ReconcileTerminal
<1>4. \A req : R!Q!ReconcileUnsupported(req) => QP!ReconcileUnsupported(req)
  BY DEF R!Q!ReconcileUnsupported, QP!ReconcileUnsupported
<1>5. \A req : R!Q!ReconcileExhausted(req) => QP!ReconcileExhausted(req)
  BY DEF R!Q!ReconcileExhausted, QP!ReconcileExhausted
<1>6. \A req : R!Q!ReconcileRequeue(req) => QP!ReconcileRequeue(req)
  BY DEF R!Q!ReconcileRequeue, QP!ReconcileRequeue
<1> QED
  BY <1>1, <1>2, <1>3, <1>4, <1>5, <1>6 DEF R!Q!Reconcile, QP!Reconcile

-----------------------------------------------------------------------------
(* Who holds a task.                                                       *)

\* The step leaves the thread the task it holds, unless the task ends.
KeptBy(w) == \A t : HeldBy(t, w) => HeldBy(t, w)' \/ Over(t)'

\* A task that waits does not run.
LEMMA WaitingIsNotRunning ==
    ASSUME QP!IInv, current # 0
    PROVE  /\ current \notin QP!ToSet(waiting) /\ current \notin QP!ToSet(held)
           /\ current \in DOMAIN work
<1>1. QP!Placement /\ current \in DOMAIN work /\ work[current].status = "running"
  BY RunningIsNotOver DEF QP!IInv, QP!Placement, QP!Ids
<1> QED
  BY <1>1 DEF QP!Placement, QP!Ids

\* Commands, delays and recovery leave a task to its thread, unless it is cancelled.
LEMMA OthersLeaveTasks ==
    ASSUME QP!IInv, NEW w \in Threads, w \in living,
           \/ QP!BeginNext
           \/ R!Q!Enqueue("no lane", "no key", 0) \/ R!Q!BeginDirect("no key")
           \/ QP!ResumeAll
           \/ \E i : QP!ResumeOne(i) \/ QP!CancelQueued(i) \/ QP!BecomeDue(i)
           \/ \E i : QP!CancelRunning(i, NoWorker)
           \/ \E req : QP!Reconcile(req)
           \/ UNCHANGED R!queue
    PROVE  KeptBy(w)
<1> SUFFICES ASSUME NEW t, HeldBy(t, w) PROVE HeldBy(t, w)' \/ Over(t)'
  BY DEF KeptBy
<1>1. /\ t = current /\ current # 0 /\ work[current].worker = w /\ current \in DOMAIN work
      /\ current \notin QP!ToSet(waiting) /\ current \notin QP!ToSet(held)
      /\ work \in Seq(QP!Job)
  BY WaitingIsNotRunning, RunningIsNotOver DEF HeldBy
<1>2. ~QP!BeginNext /\ ~R!Q!BeginDirect("no key")
  BY <1>1 DEF QP!BeginNext, R!Q!BeginDirect
<1>3. ASSUME current' = current, work'[current] = work[current] PROVE HeldBy(t, w)'
  BY <1>1, <1>3 DEF HeldBy
<1>4. CASE R!Q!Enqueue("no lane", "no key", 0)
  <2> DEFINE j == R!Q!NewJob("pending", 0, "no lane", "no key", 0)
  <2>1. work' = Append(work, j)
    BY <1>4 DEF R!Q!Enqueue, R!Q!Create
  <2>2. j \in QP!Job
    BY DEF R!Q!NewJob, QP!Job, QP!Status, QP!QueuedStatus, QP!Stages
  <2> HIDE DEF j
  <2>3. work'[current] = work[current]
    <3>1. work \in Seq(QP!Job) /\ current \in DOMAIN work
      BY <1>1
    <3> QED
      BY ONLY <2>1, <2>2, <3>1
  <2> QED
    BY <1>3, <1>4, <2>3 DEF R!Q!Enqueue
<1>5. CASE QP!ResumeAll
  BY <1>1, <1>3, <1>5 DEF QP!ResumeAll, QP!Ids
<1>6. ASSUME NEW i, QP!ResumeOne(i) \/ QP!CancelQueued(i) \/ QP!BecomeDue(i)
      PROVE  HeldBy(t, w)'
  <2>1. i \in QP!ToSet(waiting) \/ i \in QP!ToSet(held)
    BY <1>6 DEF QP!ResumeOne, QP!CancelQueued, QP!BecomeDue, QP!ToSet
  <2>2. i # current /\ current' = current
    BY <1>1, <1>6, <2>1 DEF QP!ResumeOne, QP!CancelQueued, QP!BecomeDue
  <2>3. PICK j : work' = [work EXCEPT ![i] = j]
    BY <1>6 DEF QP!ResumeOne, QP!CancelQueued, QP!BecomeDue, QP!Update
  <2> QED
    BY <1>1, <1>3, <2>2, <2>3
<1>7. ASSUME NEW i, QP!CancelRunning(i, NoWorker) PROVE Over(t)'
  <2> DEFINE n == [QP!Released(work[i]) EXCEPT !.status = "cancelled"]
  <2>1. i = current /\ work' = [work EXCEPT ![current] = n]
    BY <1>7 DEF QP!CancelRunning, QP!Archive, QP!Put, QP!Update
  <2>2. work[i] \in QP!Job
    <3>1. work \in Seq(QP!Job) /\ i \in DOMAIN work
      BY <1>1, <2>1
    <3> QED
      BY ONLY <3>1
  <2>3. n.status = "cancelled"
    BY <2>2 DEF QP!Released, QP!Job
  <2> HIDE DEF n
  <2>4. work'[current].status = "cancelled" /\ DOMAIN work' = DOMAIN work
    BY <1>1, <2>1, <2>3
  <2> QED
    BY <1>1, <2>4 DEF Over, QP!HistoryStatus, QP!FinalStatus
<1>8. ASSUME NEW req, QP!Reconcile(req) PROVE HeldBy(t, w)'
  <2>1. QP!WorkerActive(work[current])
    BY <1>1 DEF QP!WorkerActive
  <2>2. UNCHANGED <<work, current>>
    BY <1>8, <2>1 DEF QP!Reconcile, QP!ReconcileMismatch, QP!ReconcileConflict,
       QP!ReconcileTerminal, QP!ReconcileUnsupported, QP!ReconcileExhausted, QP!ReconcileRequeue,
       QP!FailClosed, QP!Interrupted, QP!Unproven
  <2> QED
    BY <1>3, <2>2
<1>9. CASE UNCHANGED R!queue
  BY <1>3, <1>9 DEF R!queue
<1> QED
  BY <1>2, <1>4, <1>5, <1>6, <1>7, <1>8, <1>9

-----------------------------------------------------------------------------
(* What one thread does.                                                   *)

\* One thread goes from what it was to next.
Becomes(w, next) == next \in ThreadType /\ thread' = [thread EXCEPT ![w] = next]

\* R!Working, of what a thread becomes.
Busy(next) == next.kind # "none" /\ next.step \in {"register", "work", "record", "finalize"}

\* It is the same.
LEMMA BusyIsWorking ==
    \A w : /\ R!Working(w) <=> Busy(thread[w])
           /\ R!At(w, "work") => R!Working(w)
  BY DEF R!Working, R!At, Busy

\* A thread goes to another step.
LEMMA GoBecomes ==
    ASSUME ThreadTypes, NEW w \in Threads, NEW step \in R!ThreadSteps, R!Go(w, step)
    PROVE  \E next : /\ Becomes(w, next) /\ next.step = step /\ next.kind = thread[w].kind
                     /\ next.task = thread[w].task
<1> DEFINE next == [thread[w] EXCEPT !.step = step]
<1>1. thread \in [Threads -> ThreadType] /\ thread[w] \in ThreadType
  BY DEF ThreadTypes
<1>2. /\ next \in ThreadType /\ next.step = step /\ next.kind = thread[w].kind
      /\ next.task = thread[w].task
  BY <1>1 DEF ThreadType
<1>3. thread' = [thread EXCEPT ![w] = next]
  BY <1>1 DEF R!Go
<1> QED
  BY <1>2, <1>3 DEF Becomes

\* The job function of a thread returns.
LEMMA ReturnBecomes ==
    ASSUME ThreadTypes, NEW w \in Threads, R!Return(w)
    PROVE  \E next : Becomes(w, next) /\ next.step = "over" /\ next.kind = thread[w].kind
<1> DEFINE next == [thread[w] EXCEPT !.step = "over", !.task = 0, !.outcome = "none"]
<1>1. thread \in [Threads -> ThreadType] /\ thread[w] \in ThreadType
  BY DEF ThreadTypes
<1>2. next \in ThreadType /\ next.step = "over" /\ next.kind = thread[w].kind
  BY <1>1 DEF ThreadType, R!ThreadSteps
<1>3. thread' = [thread EXCEPT ![w] = next]
  BY <1>1 DEF R!Return
<1> QED
  BY <1>2, <1>3 DEF Becomes

\* One thread moves: whatever it becomes, the others have the tasks they had, and it works only
\* on a task that it held, or that it claims now.
LEMMA ThreadMoves ==
    ASSUME ThreadsInv, QueueMoves, ThreadTypes', NEW w \in Threads, NEW next, Becomes(w, next),
           \A v \in Threads \ {w} : R!Working(v) => KeptBy(v),
           Busy(next) =>
             \/ R!Working(w) /\ next.task = thread[w].task /\ KeptBy(w)
             \/ /\ HeldBy(next.task, w)'
                /\ \A v \in Threads \ {w} : R!Working(v) => thread[v].task # next.task,
           \/ UNCHANGED registered /\ ~R!At(w, "work")
           \/ /\ registered' = [registered EXCEPT ![thread[w].task] = w]
              /\ next.task = thread[w].task /\ next.step = "work" /\ next.kind # "none"
              /\ ~R!At(w, "work")
           \/ registered' = R!Unregistered(w) /\ R!At(w, "work")
    PROVE  ThreadsInv'
<1>1. /\ QP!IInv /\ ThreadTypes /\ OwnInv /\ R!OneThreadPerTask /\ R!SignalsReachTheirTask
      /\ QP!IInv'
  BY DEF ThreadsInv, QueueMoves
<1>2. /\ thread \in [Threads -> ThreadType]
      /\ registered \in [R!Tasks -> Threads \cup {NoWorker}]
  BY <1>1 DEF ThreadTypes
<1>3. thread'[w] = next /\ \A v \in Threads \ {w} : thread'[v] = thread[v]
  BY <1>2 DEF Becomes
<1>4. /\ (R!Working(w)' <=> Busy(next))
      /\ \A v \in Threads \ {w} : R!Working(v)' <=> R!Working(v)
  BY <1>3 DEF R!Working, R!At, Busy
<1>5. OwnInv'
  <2>1. ASSUME NEW v \in Threads \ {w}, R!Working(v), NEW t, t = thread[v].task
        PROVE  HeldBy(t, v)' \/ Over(t)'
    BY <1>1, <2>1 DEF OwnInv, KeptBy, QueueMoves
  <2>2. ASSUME Busy(next), NEW t, t = next.task
        PROVE  HeldBy(t, w)' \/ Over(t)'
    <3>1. CASE R!Working(w) /\ t = thread[w].task /\ KeptBy(w)
      BY <1>1, <3>1 DEF OwnInv, KeptBy, QueueMoves
    <3>2. CASE HeldBy(next.task, w)'
      BY <2>2, <3>2 DEF HeldBy, Becomes
    <3> QED
      BY <2>2, <3>1, <3>2
  <2> QED
    BY <1>3, <1>4, <2>1, <2>2 DEF OwnInv
<1>6. R!OneThreadPerTask'
  <2>1. ASSUME NEW v \in Threads \ {w}, R!Working(v), Busy(next) PROVE thread[v].task # next.task
    BY <1>1, <2>1 DEF R!OneThreadPerTask
  <2> QED
    BY <1>1, <1>3, <1>4, <2>1 DEF R!OneThreadPerTask
<1>7. R!SignalsReachTheirTask'
  <2>1. \A i \in R!Tasks : registered[i] # NoWorker =>
          registered[i] \in Threads /\ R!At(registered[i], "work") /\ thread[registered[i]].task = i
    BY <1>1, <1>2 DEF R!SignalsReachTheirTask
  <2>2. \A v \in Threads \ {w} : R!At(v, "work")' <=> R!At(v, "work")
    BY <1>3 DEF R!At
  <2>3. CASE UNCHANGED registered /\ ~R!At(w, "work")
    BY <1>3, <2>1, <2>2, <2>3 DEF R!SignalsReachTheirTask
  <2>4. CASE /\ registered' = [registered EXCEPT ![thread[w].task] = w]
             /\ next.task = thread[w].task /\ next.step = "work" /\ next.kind # "none"
             /\ ~R!At(w, "work")
    <3>1. R!At(w, "work")'
      BY <1>3, <2>4 DEF R!At
    <3>2. \A i \in R!Tasks :
            (registered'[i] = w /\ i = thread[w].task) \/ registered'[i] = registered[i]
      BY ONLY <1>2, <2>4
    <3>3. \A i \in R!Tasks : registered[i] # w
      BY <2>1, <2>4, ThreadsAssumption
    <3> QED
      BY <1>3, <2>1, <2>2, <2>4, <3>1, <3>2, <3>3 DEF R!SignalsReachTheirTask
  <2>5. CASE registered' = R!Unregistered(w) /\ R!At(w, "work")
    <3>1. \A i \in R!Tasks :
            registered'[i] = NoWorker \/ (registered'[i] = registered[i] /\ i # thread[w].task)
      BY ONLY <1>2, <2>5 DEF R!Unregistered
    <3>2. \A i \in R!Tasks : registered'[i] # NoWorker => registered'[i] \in Threads \ {w}
                             /\ R!At(registered'[i], "work") /\ thread[registered'[i]].task = i
      BY <2>1, <3>1
    <3>3. \A i \in R!Tasks : registered'[i] # NoWorker =>
            thread'[registered'[i]] = thread[registered'[i]]
      BY <1>3, <3>2
    <3> QED
      BY <3>2, <3>3 DEF R!SignalsReachTheirTask, R!At
  <2> QED
    BY <2>3, <2>4, <2>5
<1> QED
  BY <1>1, <1>5, <1>6, <1>7 DEF ThreadsInv

\* No thread moves.
LEMMA MainMoves ==
    ASSUME ThreadsInv, QueueMoves, ThreadTypes', UNCHANGED <<thread, registered>>,
           \A v \in Threads : R!Working(v) => KeptBy(v)
    PROVE  ThreadsInv'
<1>1. /\ QP!IInv /\ ThreadTypes /\ OwnInv /\ R!OneThreadPerTask /\ R!SignalsReachTheirTask
      /\ QP!IInv'
  BY DEF ThreadsInv, QueueMoves
<1>2. OwnInv'
  <2>1. \A v \in Threads : R!Working(v)' <=> R!Working(v)
    BY DEF R!Working, R!At
  <2>2. ASSUME NEW v \in Threads, R!Working(v), NEW t, t = thread[v].task
        PROVE  HeldBy(t, v)' \/ Over(t)'
    BY <1>1, <2>2 DEF OwnInv, KeptBy, QueueMoves
  <2> QED
    BY <2>1, <2>2 DEF OwnInv
<1>3. R!OneThreadPerTask' /\ R!SignalsReachTheirTask'
  BY <1>1 DEF R!OneThreadPerTask, R!SignalsReachTheirTask, R!Working, R!At
<1> QED
  BY <1>1, <1>2, <1>3 DEF ThreadsInv

\* A working thread is alive.
LEMMA WorkersLive ==
    ASSUME ThreadTypes
    PROVE  /\ \A w \in Threads : R!Working(w) => w \in living
           /\ \A w \in Threads, step \in R!ThreadSteps : R!At(w, step) => w \in living
           /\ \A w \in Threads : thread[w] \in ThreadType
<1>1. \A w \in Threads : thread[w].kind # "none" => w \in living
  BY DEF ThreadTypes
<1>2. thread \in [Threads -> ThreadType]
  BY DEF ThreadTypes
<1> QED
  BY <1>1, <1>2 DEF R!Working, R!At

\* The threads stay well formed.
LEMMA TypesMove ==
    ASSUME ThreadTypes, QueueMoves, NEW w \in Threads, NEW next, Becomes(w, next),
           next.kind # "none" <=> w \in living',
           \A v \in Threads \ {w} : v \in living' <=> v \in living,
           registered' \in [R!Tasks -> Threads \cup {NoWorker}], signalled' \subseteq Threads,
           main' \in MainType, faults' \in 0..MaxFaults,
           main'.step \in {"spawn", "signal", "cancel"} => main'.task \in R!Tasks
    PROVE  ThreadTypes'
<1>1. /\ thread \in [Threads -> ThreadType]
      /\ \A v \in Threads : thread[v].kind # "none" <=> v \in living
  BY DEF ThreadTypes
<1>2. /\ thread' \in [Threads -> ThreadType] /\ thread'[w] = next
      /\ \A v \in Threads \ {w} : thread'[v] = thread[v]
  BY <1>1 DEF Becomes
<1>3. \A v \in Threads : thread'[v].kind # "none" <=> v \in living'
  BY <1>1, <1>2
<1> QED
  BY <1>2, <1>3 DEF ThreadTypes, QueueMoves

\* What the main loop may be.
LEMMA MainAtTyped ==
    \A step \in {"recover", "look", "reconcile", "events", "spawn", "signal", "cancel"} :
      /\ R!MainAt(step) \in MainType /\ R!MainAt(step).step = step
      /\ \A t \in {0} \cup R!Tasks :
           /\ [R!MainAt(step) EXCEPT !.task = t] \in MainType
           /\ [R!MainAt(step) EXCEPT !.task = t].step = step
           /\ [R!MainAt(step) EXCEPT !.task = t].task = t
  BY DEF R!MainAt, MainType

\* The step of a thread that leaves the queue alone: it goes on, or its job returns.
LEMMA QuietSteps ==
    ASSUME ThreadsInv, NEW w \in Threads, UNCHANGED <<R!queue, living, registered, signalled>>,
           UNCHANGED <<main, faults>>, ~R!At(w, "work"),
           \/ R!Return(w)
           \/ \E step \in R!ThreadSteps : R!Go(w, step) /\ step # "work"
                 /\ (step \in {"register", "record", "finalize"} => R!Working(w))
    PROVE  ThreadsInv'
<1>1. ThreadTypes /\ QP!IInv
  BY DEF ThreadsInv
<1>2. QueueMoves
  BY <1>1, QueueAssumptions, QP!NextKeeps, OverStays
     DEF QueueMoves, R!queue, QP!vars, QP!queueVars, ThreadTypes
<1>3. \A v \in Threads : R!Working(v) => KeptBy(v)
  BY <1>1, OthersLeaveTasks, WorkersLive
<1>4. PICK next : /\ Becomes(w, next) /\ next.kind = thread[w].kind
                  /\ Busy(next) => R!Working(w) /\ next.task = thread[w].task
  <2>1. CASE R!Return(w)
    BY <1>1, <2>1, ReturnBecomes DEF Busy
  <2>2. ASSUME NEW step \in R!ThreadSteps, R!Go(w, step), step # "work",
               step \in {"register", "record", "finalize"} => R!Working(w)
        PROVE  \E next : /\ Becomes(w, next) /\ next.kind = thread[w].kind
                         /\ Busy(next) => R!Working(w) /\ next.task = thread[w].task
    <3>1. PICK next : /\ Becomes(w, next) /\ next.step = step /\ next.kind = thread[w].kind
                      /\ next.task = thread[w].task
      BY <1>1, <2>2, GoBecomes
    <3> QED
      BY <2>2, <3>1 DEF Busy
  <2> QED
    BY <2>1, <2>2
<1>5. ThreadTypes'
  BY <1>1, <1>2, <1>4, TypesMove DEF ThreadTypes
<1> QED
  BY <1>2, <1>3, <1>4, <1>5, ThreadMoves

\* A thread starts.
LEMMA StartsKeep ==
    ASSUME ThreadsInv, NEW w \in Threads, NEW kind \in {"queue", "direct"},
           NEW t \in {0} \cup R!Tasks, NEW step \in {"next", "claim"},
           R!Start(w, kind, t, step), main' \in {main, R!MainAt("look")}
    PROVE  ThreadsInv'
<1>1. ThreadTypes /\ QP!IInv
  BY DEF ThreadsInv
<1> DEFINE next == [kind |-> kind, task |-> t, step |-> step, outcome |-> "none"]
<1>2. /\ next \in ThreadType /\ next.kind # "none" /\ next.step = step
      /\ ~Busy(next)
  BY DEF ThreadType, Busy, R!ThreadSteps
<1>3. /\ thread[w].kind = "none" /\ R!Q!WorkerStarts(w) /\ thread' = [thread EXCEPT ![w] = next]
      /\ UNCHANGED <<registered, signalled, faults>>
  BY DEF R!Start
<1> HIDE DEF next
<1>4. QP!WorkerStarts(w)
  BY <1>3, SameCommands
<1>5. QueueMoves
  <2>1. QP!EnvironmentStep
    BY <1>4 DEF QP!EnvironmentStep
  <2> QED
    BY <1>1, <2>1, QueueStep DEF ThreadTypes
<1>6. living' = living \cup {w} /\ UNCHANGED R!queue
  BY <1>4 DEF QP!WorkerStarts, QP!queueVars, R!queue
<1>7. \A v \in Threads : R!Working(v) => KeptBy(v)
  BY <1>1, <1>6, OthersLeaveTasks, WorkersLive
<1>8. Becomes(w, next)
  BY <1>2, <1>3 DEF Becomes
<1>9. /\ main' \in MainType
      /\ main'.step \in {"spawn", "signal", "cancel"} => main'.task \in R!Tasks
  <2>1. R!MainAt("look") \in MainType /\ R!MainAt("look").step = "look"
    BY MainAtTyped
  <2> QED
    BY <1>1, <2>1 DEF ThreadTypes
<1>10. ThreadTypes'
  BY <1>1, <1>2, <1>3, <1>5, <1>6, <1>8, <1>9, TypesMove DEF ThreadTypes
<1>11. ~R!At(w, "work")
  BY <1>3 DEF R!At
<1> QED
  BY <1>2, <1>3, <1>5, <1>7, <1>8, <1>10, <1>11, ThreadMoves

\* A thread ends.
LEMMA EndsKeep ==
    ASSUME ThreadsInv, NEW w \in Threads, R!Ends(w), ~R!At(w, "work"),
           UNCHANGED <<registered, signalled, main>>, faults' \in 0..MaxFaults
    PROVE  ThreadsInv'
<1>1. ThreadTypes /\ QP!IInv
  BY DEF ThreadsInv
<1>2. /\ R!NoThread \in ThreadType /\ R!NoThread.kind = "none" /\ ~Busy(R!NoThread)
  BY DEF R!NoThread, ThreadType, R!ThreadSteps, Busy
<1>3. Becomes(w, R!NoThread) /\ QP!WorkerDies(w)
  BY <1>2, SameCommands DEF R!Ends, Becomes
<1>4. QueueMoves
  <2>1. QP!EnvironmentStep
    BY <1>3 DEF QP!EnvironmentStep
  <2> QED
    BY <1>1, <2>1, QueueStep DEF ThreadTypes
<1>5. living' = living \ {w} /\ UNCHANGED R!queue
  BY <1>3 DEF QP!WorkerDies, QP!queueVars, R!queue
<1>6. \A v \in Threads : R!Working(v) => KeptBy(v)
  BY <1>1, <1>5, OthersLeaveTasks, WorkersLive
<1>7. ThreadTypes'
  BY <1>1, <1>2, <1>3, <1>4, <1>5, TypesMove DEF ThreadTypes
<1> QED
  BY <1>2, <1>3, <1>4, <1>6, <1>7, ThreadMoves

\* The owner of the running task acts on it, and returns or goes on to finalize it.
LEMMA OwnersKeep ==
    ASSUME ThreadsInv, QueueMoves, NEW w \in Threads, R!Owner(w), ~R!At(w, "work"),
           UNCHANGED <<living, registered, signalled, main, faults>>,
           \/ R!Return(w)
           \/ R!Go(w, "finalize") /\ R!Working(w) /\ KeptBy(w)
    PROVE  ThreadsInv'
<1>1. ThreadTypes
  BY DEF ThreadsInv
<1>2. \A v \in Threads \ {w} : KeptBy(v)
  BY DEF R!Owner, R!Q!Owns, KeptBy, HeldBy
<1>3. PICK next : /\ Becomes(w, next) /\ next.kind = thread[w].kind
                  /\ Busy(next) => R!Working(w) /\ next.task = thread[w].task /\ KeptBy(w)
  <2>1. CASE R!Return(w)
    BY <1>1, <2>1, ReturnBecomes DEF Busy
  <2>2. CASE R!Go(w, "finalize") /\ R!Working(w) /\ KeptBy(w)
    BY <1>1, <2>2, GoBecomes DEF Busy, R!ThreadSteps
  <2> QED
    BY <2>1, <2>2
<1>4. ThreadTypes'
  BY <1>1, <1>3, TypesMove DEF ThreadTypes
<1> QED
  BY <1>2, <1>3, <1>4, ThreadMoves

\* The steps of the owner in the queue.
LEMMA OwnersMoveQueue ==
    ASSUME ThreadsInv, NEW w \in Threads, w \in living, NEW i,
           \/ R!Q!RetryRunning(i, w, FALSE)
           \/ R!Q!PauseRunning(i, w)
           \/ \E s \in R!Q!FinalStatus : R!Q!RecordTerminalEvidence(i, w, s)
           \/ \E s \in {"completed", "failed"} : R!Q!Finish(i, w, s)
           \/ R!Q!CancelRunning(i, w)
    PROVE  QueueMoves /\ living' = living
<1>1. ThreadTypes /\ QP!IInv
  BY DEF ThreadsInv
<1>2. R!Q!FinalStatus = QP!FinalStatus
  BY DEF R!Q!FinalStatus, QP!FinalStatus
<1>3. \/ QP!RetryRunning(i, w, FALSE)
      \/ QP!PauseRunning(i, w)
      \/ \E s \in QP!FinalStatus : QP!RecordTerminalEvidence(i, w, s)
      \/ \E s \in {"completed", "failed"} : QP!Finish(i, w, s)
      \/ QP!CancelRunning(i, w)
  BY <1>2, SameSteps
<1>4. i = current /\ current # 0
  BY <1>3 DEF QP!RetryRunning, QP!PauseRunning, QP!RecordTerminalEvidence, QP!Finish,
              QP!CancelRunning, QP!Owns
<1>5. i \in QP!Ids
  BY <1>1, <1>4, RunningIsNotOver DEF QP!Ids
<1>6. QP!WorkerStep \/ QP!OwnerStep
  <2>1. CASE QP!PauseRunning(i, w) \/ QP!CancelRunning(i, w)
    BY <1>5, <2>1 DEF QP!OwnerStep
  <2>2. CASE ~(QP!PauseRunning(i, w) \/ QP!CancelRunning(i, w))
    BY <1>3, <1>5, <2>2 DEF QP!WorkerStep
  <2> QED
    BY <2>1, <2>2
<1>7. QueueMoves
  BY <1>1, <1>6, QueueStep DEF ThreadTypes
<1>8. living' = living
  BY <1>3 DEF QP!RetryRunning, QP!PauseRunning, QP!RecordTerminalEvidence, QP!Finish,
              QP!CancelRunning, QP!Archive, QP!Requeue
<1> QED
  BY <1>7, <1>8

\* retry_running, pause, record_terminal_evidence, and then the end of the task.
LEMMA RecordsKeep ==
    ASSUME ThreadsInv, NEW w \in Threads, R!Record(w) \/ R!RecordAgain(w) \/ R!Finalize(w)
    PROVE  ThreadsInv'
<1>1. ThreadTypes
  BY DEF ThreadsInv
<1>2. ~R!At(w, "work") /\ w \in living /\ R!Working(w) /\ R!Owner(w)
  BY <1>1, WorkersLive DEF R!Record, R!RecordAgain, R!Finalize, R!At, R!Working
<1>3. UNCHANGED <<registered, signalled, main, faults>>
  BY DEF R!Record, R!RecordAgain, R!Finalize, R!SameMain
<1>4. CASE R!Record(w)
  <2> DEFINE i == thread[w].task
  <2>1. \/ R!Q!RetryRunning(i, w, FALSE) /\ R!Return(w)
        \/ R!Q!PauseRunning(i, w) /\ R!Return(w)
        \/ /\ \E s \in R!Q!FinalStatus : R!Q!RecordTerminalEvidence(i, w, s)
           /\ R!Go(w, "finalize")
    BY <1>4 DEF R!Record
  <2>2. QueueMoves /\ living' = living
    BY <1>2, <2>1, OwnersMoveQueue
  <2>3. CASE R!Return(w)
    BY <1>2, <1>3, <2>2, <2>3, OwnersKeep
  <2>4. ASSUME NEW s \in R!Q!FinalStatus, R!Q!RecordTerminalEvidence(i, w, s), R!Go(w, "finalize")
        PROVE  ThreadsInv'
    <3>1. QP!RecordTerminalEvidence(i, w, s)
      BY <2>4, SameSteps
    <3> DEFINE n == [work[i] EXCEPT !.terminal = s]
    <3>2. work' = [work EXCEPT ![current] = n] /\ current' = current /\ i = current
      BY <3>1 DEF QP!RecordTerminalEvidence, QP!Put, QP!Update, QP!KeepLists, QP!Owns
    <3>3. work[i] \in QP!Job /\ current \in DOMAIN work /\ current # 0
      <4>1. current # 0 /\ i = current
        BY <3>1 DEF QP!RecordTerminalEvidence, QP!Owns
      <4>2. work \in Seq(QP!Job) /\ current \in DOMAIN work
        BY <4>1, RunningIsNotOver DEF ThreadsInv
      <4> QED
        BY ONLY <4>1, <4>2
    <3>4. n.worker = work[i].worker
      BY <3>3 DEF QP!Job
    <3> HIDE DEF n
    <3>5. KeptBy(w)
      BY <3>2, <3>3, <3>4 DEF KeptBy, HeldBy
    <3> QED
      BY <1>2, <1>3, <2>2, <2>4, <3>5, OwnersKeep
  <2> QED
    BY <2>1, <2>3, <2>4
<1>5. CASE R!RecordAgain(w)
  <2>1. CASE R!Go(w, "finalize") /\ UNCHANGED <<R!queue, living>>
    BY <1>2, <1>3, <2>1, QuietSteps DEF R!ThreadSteps
  <2>2. CASE R!Ends(w)
    BY <1>1, <1>2, <1>3, <2>2, EndsKeep DEF ThreadTypes
  <2> QED
    BY <1>5, <2>1, <2>2 DEF R!RecordAgain
<1>6. CASE R!Finalize(w)
  <2>1. thread[w].outcome \in R!Outcomes \cup {"none"}
    BY <1>1 DEF ThreadTypes, ThreadType
  <2>2. /\ R!Return(w)
        /\ \/ R!Q!CancelRunning(thread[w].task, w)
           \/ \E s \in {"completed", "failed"} : R!Q!Finish(thread[w].task, w, s)
    BY <1>6 DEF R!Finalize, R!Q!Finish
  <2>3. QueueMoves /\ living' = living
    BY <1>2, <2>2, OwnersMoveQueue
  <2> QED
    BY <1>2, <1>3, <2>2, <2>3, OwnersKeep
<1> QED
  BY <1>4, <1>5, <1>6

\* A claim takes the task from no thread that works on it.
LEMMA ClaimsKeep ==
    ASSUME ThreadsInv, NEW w \in Threads, R!ClaimTask(w) PROVE ThreadsInv'
<1>1. ThreadTypes /\ QP!IInv /\ OwnInv
  BY DEF ThreadsInv
<1>0. PICK t : t = thread[w].task
  OBVIOUS
<1> DEFINE n == [work[t] EXCEPT !.worker = w, !.lease = claims + 1]
<1>2. /\ R!At(w, "claim") /\ QP!Claim(t, w) /\ R!Go(w, "register")
      /\ UNCHANGED <<registered, signalled, main, faults>>
  BY <1>0, SameSteps DEF R!ClaimTask, R!SameMain
<1>3. /\ current = t /\ current # 0 /\ current' = current /\ living' = living
      /\ work[t].worker \in {NoWorker, w} \/ work[t].worker \notin living
      /\ work' = [work EXCEPT ![current] = n]
  BY <1>2 DEF QP!Claim, QP!KeepLists, QP!Put, QP!Update, QP!WorkerActive
<1>4. w \in living /\ ~R!At(w, "work") /\ ~R!Working(w) /\ thread[w].kind # "none"
  BY <1>1, <1>2, WorkersLive DEF R!At, R!Working, R!ThreadSteps
<1>5. work[t] \in QP!Job /\ t \in DOMAIN work
  <2>1. work \in Seq(QP!Job) /\ current \in DOMAIN work
    BY <1>1, <1>3, RunningIsNotOver
  <2>2. t = current
    BY <1>3
  <2> QED
    BY ONLY <2>1, <2>2
<1>6. QueueMoves
  <2>1. QP!WorkerStep
    BY <1>2, <1>4, <1>5 DEF QP!WorkerStep, QP!Ids
  <2> QED
    BY <1>1, <2>1, QueueStep DEF ThreadTypes
<1>7. HeldBy(t, w)'
  <2>1. n.worker = w
    BY <1>5 DEF QP!Job
  <2> HIDE DEF n
  <2>2. work'[current].worker = w
    BY <1>3, <1>5, <2>1
  <2> QED
    BY <1>3, <2>2 DEF HeldBy
<1>8. ASSUME NEW v \in Threads \ {w}, R!Working(v) PROVE KeptBy(v) /\ thread[v].task # t
  <2>1. v \in living /\ v # NoWorker
    BY <1>1, <1>8, WorkersLive, ThreadsAssumption
  <2>2. work[t].worker # v
    BY <1>3, <2>1
  <2>3. ~Over(t)
    BY <1>1, <1>3, RunningIsNotOver
  <2> QED
    BY <1>1, <1>3, <1>8, <2>2, <2>3 DEF KeptBy, HeldBy, OwnInv
<1>9. PICK next : /\ Becomes(w, next) /\ next.step = "register" /\ next.kind = thread[w].kind
                  /\ next.task = t
  BY <1>0, <1>1, <1>2, GoBecomes DEF R!ThreadSteps
<1>10. ThreadTypes'
  BY <1>1, <1>2, <1>3, <1>6, <1>9, TypesMove DEF ThreadTypes
<1>11. HeldBy(next.task, w)'
  BY <1>7, <1>9 DEF HeldBy
<1> QED
  BY <1>2, <1>4, <1>6, <1>8, <1>9, <1>10, <1>11, ThreadMoves

\* start_next gives a thread its task.
LEMMA TakesKeep ==
    ASSUME ThreadsInv, NEW w \in Threads, R!TakeNext(w) PROVE ThreadsInv'
<1>1. ThreadTypes /\ QP!IInv
  BY DEF ThreadsInv
<1>2. R!At(w, "next") /\ QP!BeginNext /\ UNCHANGED <<registered, signalled, main, faults>>
  BY SameCommands DEF R!TakeNext, R!SameMain
<1>3. QueueMoves /\ living' = living
  <2>1. living' = living
    BY <1>2 DEF QP!BeginNext
  <2> QED
    BY <1>1, <1>2, <2>1, QueueStep DEF ThreadTypes
<1>4. PICK t : t = current' /\ t \in {0} \cup R!Tasks
  BY <1>3 DEF QueueMoves, QP!IInv, QP!TypeOK, QP!Ids
<1> DEFINE next == [thread[w] EXCEPT !.task = t, !.step = "claim"]
<1>5. thread \in [Threads -> ThreadType] /\ thread[w] \in ThreadType
  BY <1>1 DEF ThreadTypes
<1>6. next \in ThreadType /\ next.step = "claim" /\ next.kind = thread[w].kind
  BY <1>4, <1>5 DEF ThreadType, R!ThreadSteps
<1>7. thread' = [thread EXCEPT ![w] = next]
  BY <1>4, <1>5 DEF R!TakeNext
<1> HIDE DEF next
<1>8. Becomes(w, next) /\ ~Busy(next)
  BY <1>6, <1>7 DEF Becomes, Busy
<1>9. ~R!At(w, "work") /\ thread[w].kind # "none"
  BY <1>2 DEF R!At
<1>10. ThreadTypes'
  BY <1>1, <1>2, <1>3, <1>6, <1>8, TypesMove DEF ThreadTypes
<1>11. \A v \in Threads : R!Working(v) => KeptBy(v)
  BY <1>1, <1>2, OthersLeaveTasks, WorkersLive
<1> QED
  BY <1>2, <1>3, <1>8, <1>9, <1>10, <1>11, ThreadMoves

\* A thread finds no task, its job is over, or a transaction of it raises.
LEMMA StopsKeep ==
    ASSUME ThreadsInv, NEW w \in Threads, R!NothingToTake(w) \/ R!JobOver(w) \/ R!ThreadDies(w)
    PROVE  ThreadsInv'
<1>1. ThreadTypes
  BY DEF ThreadsInv
<1>2. ~R!At(w, "work") /\ UNCHANGED <<registered, signalled, main>>
  BY DEF R!NothingToTake, R!JobOver, R!ThreadDies, R!At, R!SameMain
<1>3. CASE R!NothingToTake(w)
  BY <1>1, <1>2, <1>3, EndsKeep DEF R!NothingToTake, R!SameMain, ThreadTypes
<1>4. CASE R!JobOver(w)
  <2>1. CASE R!Go(w, "next") /\ UNCHANGED <<R!queue, living>>
    <3>1. UNCHANGED <<R!queue, living, registered, signalled>> /\ UNCHANGED <<main, faults>>
      BY <1>4, <2>1 DEF R!JobOver, R!SameMain
    <3> QED
      BY <1>2, <2>1, <3>1, QuietSteps DEF R!ThreadSteps
  <2>2. CASE R!Ends(w)
    BY <1>1, <1>2, <1>4, <2>2, EndsKeep DEF R!JobOver, R!SameMain, ThreadTypes
  <2> QED
    BY <1>4, <2>1, <2>2 DEF R!JobOver
<1>5. CASE R!ThreadDies(w)
  <2>1. R!Ends(w) /\ faults < MaxFaults /\ faults' = faults + 1
    BY <1>5 DEF R!ThreadDies
  <2>2. faults' \in 0..MaxFaults
    BY <1>1, <2>1, ThreadsAssumption DEF ThreadTypes
  <2> QED
    BY <1>2, <2>1, <2>2, EndsKeep
<1> QED
  BY <1>3, <1>4, <1>5

\* The queue does not let the thread act on its task.
LEMMA RefusalsKeep ==
    ASSUME ThreadsInv, NEW w \in Threads, R!ClaimRefused(w) \/ R!Outvoted(w)
    PROVE  ThreadsInv'
<1>1. /\ R!Return(w) /\ ~R!At(w, "work") /\ UNCHANGED <<R!queue, living, registered, signalled>>
      /\ UNCHANGED <<main, faults>>
  BY DEF R!ClaimRefused, R!Outvoted, R!SameMain, R!At
<1> QED
  BY <1>1, QuietSteps

\* The cancellation event of a task is created before its work and removed after it.
LEMMA WorkKeeps ==
    ASSUME ThreadsInv, NEW w \in Threads,
           R!Register(w) \/ \E outcome \in R!Outcomes : R!WorkEnds(w, outcome)
    PROVE  ThreadsInv'
<1>1. ThreadTypes /\ QP!IInv
  BY DEF ThreadsInv
<1>2. UNCHANGED <<R!queue, living, main>>
  BY DEF R!Register, R!WorkEnds, R!SameMain
<1>3. QueueMoves
  BY <1>1, <1>2, QueueAssumptions, QP!NextKeeps, OverStays
     DEF QueueMoves, R!queue, QP!vars, QP!queueVars, ThreadTypes
<1>4. \A v \in Threads : R!Working(v) => KeptBy(v)
  BY <1>1, <1>2, OthersLeaveTasks, WorkersLive
<1>5. registered \in [R!Tasks -> Threads \cup {NoWorker}]
  BY <1>1 DEF ThreadTypes
<1>6. CASE R!Register(w)
  <2>1. /\ R!At(w, "register") /\ R!Go(w, "work") /\ UNCHANGED <<signalled, faults>>
        /\ registered' = [registered EXCEPT ![thread[w].task] = w]
    BY <1>6 DEF R!Register, R!SameMain
  <2>2. PICK next : /\ Becomes(w, next) /\ next.step = "work" /\ next.kind = thread[w].kind
                    /\ next.task = thread[w].task
    BY <1>1, <2>1, GoBecomes DEF R!ThreadSteps
  <2>3. registered' \in [R!Tasks -> Threads \cup {NoWorker}]
    BY <1>5, <2>1
  <2>4. ThreadTypes'
    BY <1>1, <1>2, <1>3, <2>1, <2>2, <2>3, TypesMove DEF ThreadTypes
  <2>5. R!Working(w) /\ ~R!At(w, "work") /\ thread[w].kind # "none"
    BY <2>1 DEF R!Working, R!At
  <2> QED
    BY <1>3, <1>4, <2>1, <2>2, <2>4, <2>5, ThreadMoves
<1>7. ASSUME NEW outcome \in R!Outcomes, R!WorkEnds(w, outcome) PROVE ThreadsInv'
  <2>1. /\ R!At(w, "work") /\ registered' = R!Unregistered(w) /\ signalled' = signalled \ {w}
        /\ faults' = IF outcome = "paused" THEN faults + 1 ELSE faults
        /\ outcome = "paused" => faults < MaxFaults
    BY <1>7 DEF R!WorkEnds
  <2> DEFINE settled == R!Settled(w, outcome)
             next == [thread[w] EXCEPT !.step = "record", !.outcome = settled]
  <2>2. settled \in R!Outcomes
    BY DEF R!Settled, R!Outcomes
  <2>3. thread \in [Threads -> ThreadType] /\ thread[w] \in ThreadType
    BY <1>1 DEF ThreadTypes
  <2>4. thread' = [thread EXCEPT ![w] = next]
    BY <1>7, <2>3 DEF R!WorkEnds
  <2> HIDE DEF settled
  <2>5. /\ next \in ThreadType /\ next.step = "record" /\ next.kind = thread[w].kind
        /\ next.task = thread[w].task
    BY <2>2, <2>3 DEF ThreadType, R!ThreadSteps
  <2> HIDE DEF next
  <2>6. Becomes(w, next)
    BY <2>4, <2>5 DEF Becomes
  <2>7. R!Working(w) /\ thread[w].kind # "none"
    BY <2>1, BusyIsWorking DEF R!At
  <2>8. registered' \in [R!Tasks -> Threads \cup {NoWorker}]
    BY <1>5, <2>1 DEF R!Unregistered
  <2>9. faults' \in 0..MaxFaults
    BY <1>1, <2>1, ThreadsAssumption DEF ThreadTypes
  <2>10. ThreadTypes'
    BY <1>1, <1>2, <1>3, <2>1, <2>5, <2>6, <2>7, <2>8, <2>9, TypesMove DEF ThreadTypes
  <2> QED
    BY <1>3, <1>4, <2>1, <2>5, <2>6, <2>7, <2>10, ThreadMoves
<1> QED
  BY <1>6, <1>7

\* Every step of a thread.
LEMMA ThreadsKeep ==
    ASSUME ThreadsInv, NEW w \in Threads, R!ThreadStep(w) \/ R!ThreadDies(w)
    PROVE  ThreadsInv'
BY TakesKeep, StopsKeep, RefusalsKeep, WorkKeeps, RecordsKeep, ClaimsKeep DEF R!ThreadStep

-----------------------------------------------------------------------------
(* The main loop and what happens to the process.                          *)

\* The main loop goes on with its queue step, which leaves the tasks with their threads.
LEMMA MainGoesOn ==
    ASSUME ThreadsInv, UNCHANGED <<thread, registered, signalled, faults, living>>,
           main' \in MainType,
           main'.step \in {"spawn", "signal", "cancel"} => main'.task \in R!Tasks,
           \/ R!Q!Enqueue("no lane", "no key", 0) \/ R!Q!BeginDirect("no key")
           \/ R!Q!ResumeAll
           \/ \E i : R!Q!ResumeOne(i)
           \/ \E i : R!Q!CancelQueued(i)
           \/ \E i : R!Q!BecomeDue(i)
           \/ \E i : R!Q!CancelRunning(i, NoWorker)
           \/ \E req : R!Q!Reconcile(req)
           \/ UNCHANGED R!queue
    PROVE  ThreadsInv'
<1>1. ThreadTypes /\ QP!IInv /\ DOMAIN work \subseteq R!Tasks
  BY DEF ThreadsInv, ThreadTypes
<1>2. \A v \in Threads : R!Working(v) => v \in living
  BY <1>1, WorkersLive
<1> DEFINE Step == \/ R!Q!Enqueue("no lane", "no key", 0) \/ R!Q!BeginDirect("no key")
                   \/ QP!ResumeAll
                   \/ \E i : QP!ResumeOne(i) \/ QP!CancelQueued(i) \/ QP!BecomeDue(i)
                   \/ \E i : QP!CancelRunning(i, NoWorker)
                   \/ \E req : QP!Reconcile(req)
                   \/ UNCHANGED R!queue
<1>3. Step
  BY SameSteps, SameCommands, SameReconciliation
<1>4. \A v \in Threads : R!Working(v) => KeptBy(v)
  BY <1>1, <1>2, <1>3, OthersLeaveTasks
<1>5. QueueMoves
  <2>1. CASE R!Q!Enqueue("no lane", "no key", 0) \/ R!Q!BeginDirect("no key") \/ QP!ResumeAll
    BY <1>1, <2>1, SameCommands, QueueStep
  <2>2. ASSUME NEW i, QP!ResumeOne(i) \/ QP!CancelQueued(i) \/ QP!BecomeDue(i)
        PROVE  QueueMoves
    <3>1. i \in QP!Ids
      <4>1. i \in QP!ToSet(waiting) \/ i \in QP!ToSet(held)
        BY <2>2 DEF QP!ResumeOne, QP!CancelQueued, QP!BecomeDue, QP!ToSet
      <4>2. waiting \in Seq(QP!Ids) /\ held \in Seq(QP!Ids)
        BY <1>1 DEF QP!IInv, QP!TypeOK
      <4>3. CASE i \in QP!ToSet(waiting)
        BY ONLY <4>2, <4>3, SMTT(30) DEF QP!ToSet
      <4>4. CASE i \in QP!ToSet(held)
        BY ONLY <4>2, <4>4, SMTT(30) DEF QP!ToSet
      <4> QED
        BY <4>1, <4>3, <4>4
    <3>2. QP!OwnerStep \/ QP!EnvironmentStep
      BY <2>2, <3>1 DEF QP!OwnerStep, QP!EnvironmentStep
    <3> QED
      BY <1>1, <3>2, QueueStep
  <2>3. ASSUME NEW i, QP!CancelRunning(i, NoWorker) PROVE QueueMoves
    <3>1. i \in QP!Ids
      BY <1>1, <2>3, RunningIsNotOver DEF QP!CancelRunning, QP!Ids
    <3>2. QP!OwnerStep
      BY <2>3, <3>1 DEF QP!OwnerStep
    <3> QED
      BY <1>1, <3>2, QueueStep
  <2>4. ASSUME NEW req, QP!Reconcile(req) PROVE QueueMoves
    BY <1>1, <2>4, QueueStep
  <2>5. CASE UNCHANGED R!queue
    BY <1>1, <2>5, QueueAssumptions, QP!NextKeeps, OverStays
       DEF QueueMoves, R!queue, QP!vars, QP!queueVars
  <2> QED
    BY <1>3, <2>1, <2>2, <2>3, <2>4, <2>5
<1>6. ThreadTypes'
  BY <1>1, <1>5 DEF ThreadTypes, QueueMoves
<1> QED
  BY <1>4, <1>5, <1>6, MainMoves

\* The steps of the queue that the main loop takes leave the workers alive.
LEMMA MainLeavesThreadsAlive ==
    \/ R!Q!Enqueue("no lane", "no key", 0) \/ R!Q!BeginDirect("no key")
    \/ R!Q!ResumeAll
    \/ \E i : R!Q!ResumeOne(i) \/ R!Q!CancelQueued(i) \/ R!Q!BecomeDue(i)
    \/ \E i : R!Q!CancelRunning(i, NoWorker)
    \/ \E req : R!Q!Reconcile(req)
    => living' = living
<1>1. R!Q!Enqueue("no lane", "no key", 0) \/ R!Q!BeginDirect("no key") => living' = living
  BY DEF R!Q!Enqueue, R!Q!BeginDirect, R!Q!Create
<1>2. R!Q!ResumeAll => living' = living
  BY DEF R!Q!ResumeAll
<1>3. (\E i : R!Q!ResumeOne(i) \/ R!Q!CancelQueued(i) \/ R!Q!BecomeDue(i)) => living' = living
  BY DEF R!Q!ResumeOne, R!Q!CancelQueued, R!Q!BecomeDue
<1>4. (\E i : R!Q!CancelRunning(i, NoWorker)) => living' = living
  BY DEF R!Q!CancelRunning, R!Q!Archive
<1>5. (\E req : R!Q!Reconcile(req)) => living' = living
  BY DEF R!Q!Reconcile, R!Q!ReconcileMismatch, R!Q!ReconcileConflict, R!Q!ReconcileTerminal,
         R!Q!ReconcileUnsupported, R!Q!ReconcileExhausted, R!Q!ReconcileRequeue,
         R!Q!FailClosed, R!Q!Archive, R!Q!Requeue
<1> QED
  BY <1>1, <1>2, <1>3, <1>4, <1>5

\* The main loop looks at the queue, reconciles it, and waits for events.
LEMMA PollsKeep ==
    ASSUME ThreadsInv, R!Look \/ R!Reconcile \/ R!NoEvent PROVE ThreadsInv'
<1>1. CASE R!Look
  <2>1. UNCHANGED <<R!queue, living, thread, registered, signalled, faults>>
    BY <1>1 DEF R!Look
  <2>2. main' \in MainType /\ main'.step = "reconcile"
    <3>1. R!MainAt("reconcile") \in MainType /\ R!MainAt("reconcile").step = "reconcile"
      BY MainAtTyped
    <3>2. CASE current = 0
      BY <1>1, <3>1, <3>2 DEF R!Look
    <3>3. CASE current # 0
      <4> DEFINE j == work[current]
      <4>1. work \in Seq(QP!Job) /\ current \in DOMAIN work
        BY <3>3, RunningIsNotOver DEF ThreadsInv
      <4>2. j \in QP!Job
        BY ONLY <4>1
      <4>3. current \in R!Tasks /\ j.worker \in Threads \cup {NoWorker} /\ j.lease \in Nat
        BY <4>1, <4>2 DEF QP!Job, ThreadsInv, ThreadTypes
      <4>4. main' = [R!MainAt("reconcile") EXCEPT !.task = current, !.worker = j.worker,
                                                  !.lease = j.lease]
        BY <1>1, <3>3 DEF R!Look
      <4> HIDE DEF j
      <4> QED
        BY <4>3, <4>4 DEF R!MainAt, MainType
    <3> QED
      BY <3>2, <3>3
  <2> QED
    BY <2>1, <2>2, MainGoesOn
<1>2. CASE R!Reconcile
  <2>1. /\ UNCHANGED <<thread, registered, signalled, faults>>
        /\ UNCHANGED <<R!queue, living>> \/ R!Q!Reconcile(R!Request)
        /\ main' \in {R!MainAt("look"), R!MainAt("events")}
    BY <1>2 DEF R!Reconcile
  <2>2. main' \in MainType /\ main'.step \in {"look", "events"}
    BY <2>1, MainAtTyped
  <2>3. PICK req : UNCHANGED <<R!queue, living>> \/ R!Q!Reconcile(req)
    BY <2>1
  <2>4. living' = living
    BY <2>3, MainLeavesThreadsAlive
  <2> QED
    BY <2>1, <2>2, <2>3, <2>4, MainGoesOn
<1>3. CASE R!NoEvent
  <2>1. /\ UNCHANGED <<R!queue, living, thread, registered, signalled, faults>>
        /\ main' = R!MainAt("look")
    BY <1>3 DEF R!NoEvent
  <2>2. main' \in MainType /\ main'.step = "look"
    BY <2>1, MainAtTyped
  <2> QED
    BY <2>1, <2>2, MainGoesOn
<1> QED
  BY <1>1, <1>2, <1>3

\* Commands of the owner.
LEMMA CommandsKeep ==
    ASSUME ThreadsInv, R!EnqueueTask \/ R!Do \/ R!Resume \/ \E i \in R!Tasks : R!Cancel(i)
    PROVE  ThreadsInv'
<1>1. ThreadTypes /\ QP!IInv
  BY DEF ThreadsInv
<1>2. UNCHANGED <<thread, registered, signalled, faults>>
  BY DEF R!EnqueueTask, R!Do, R!Resume, R!Cancel
<1>3. CASE R!EnqueueTask
  <2>1. R!Q!Enqueue("no lane", "no key", 0) /\ main' = R!MainAt("look")
    BY <1>3 DEF R!EnqueueTask
  <2>2. main' \in MainType /\ main'.step = "look"
    BY <2>1, MainAtTyped
  <2>3. living' = living
    BY <2>1, MainLeavesThreadsAlive
  <2> QED
    BY <1>2, <2>1, <2>2, <2>3, MainGoesOn
<1>4. CASE R!Do
  <2>1. R!Q!BeginDirect("no key") /\ main' = [R!MainAt("spawn") EXCEPT !.task = current']
    BY <1>4 DEF R!Do
  <2>2. QueueMoves
    BY <1>1, <2>1, SameCommands, QueueStep DEF ThreadTypes
  <2>3. current' \in DOMAIN work'
    <3>1. work \in Seq(QP!Job) /\ current' = Len(work) + 1
      BY <1>1, <2>1, RunningIsNotOver DEF R!Q!BeginDirect, R!Q!nextId
    <3>2. Len(work) \in Nat
      BY <3>1
    <3>3. current' # 0
      BY <3>1, <3>2
    <3> QED
      BY <2>2, <3>3 DEF QueueMoves, QP!IInv, QP!TypeOK, QP!Ids
  <2>4. PICK t \in R!Tasks : t = current'
    BY <2>2, <2>3 DEF QueueMoves
  <2>5. main' \in MainType /\ main'.task = t
    BY <2>1, <2>4, MainAtTyped
  <2>6. living' = living
    BY <2>1, MainLeavesThreadsAlive
  <2> QED
    BY <1>2, <2>1, <2>5, <2>6, MainGoesOn
<1>5. CASE R!Resume
  <2>1. (R!Q!ResumeAll \/ \E i : R!Q!ResumeOne(i)) /\ main' = R!MainAt("look")
    BY <1>5 DEF R!Resume
  <2>2. main' \in MainType /\ main'.step = "look"
    BY <2>1, MainAtTyped
  <2>3. living' = living
    BY <2>1, MainLeavesThreadsAlive
  <2> QED
    BY <1>2, <2>1, <2>2, <2>3, MainGoesOn
<1>6. ASSUME NEW i \in R!Tasks, R!Cancel(i) PROVE ThreadsInv'
  <2>1. PICK b \in BOOLEAN : main' = [R!MainAt("signal") EXCEPT !.task = i, !.signal = b]
    BY <1>6 DEF R!Cancel
  <2>2. UNCHANGED <<R!queue, living>>
    BY <1>6 DEF R!Cancel
  <2>3. main' \in MainType /\ main'.task = i
    BY <2>1 DEF R!MainAt, MainType
  <2> QED
    BY <1>2, <2>2, <2>3, MainGoesOn
<1> QED
  BY <1>3, <1>4, <1>5, <1>6

\* The two halves of a cancellation.
LEMMA CancellationKeeps ==
    ASSUME ThreadsInv, R!Signal \/ R!CancelInQueue PROVE ThreadsInv'
<1>1. ThreadTypes /\ QP!IInv
  BY DEF ThreadsInv
<1>2. CASE R!Signal
  <2>1. UNCHANGED <<R!queue, living, thread, registered, faults>> /\ main.step = "signal"
    BY <1>2 DEF R!Signal
  <2>2. main.task \in R!Tasks /\ main \in MainType
    BY <1>1, <2>1 DEF ThreadTypes
  <2>3. registered[main.task] \in Threads \cup {NoWorker}
    BY <1>1, <2>2 DEF ThreadTypes
  <2>4. signalled' \subseteq Threads
    BY <1>1, <1>2, <2>3 DEF R!Signal, ThreadTypes
  <2>5. main' \in MainType /\ main'.task = main.task
    BY <1>2, <2>2 DEF R!Signal, MainType
  <2>6. QueueMoves
    BY <1>1, <2>1, QueueAssumptions, QP!NextKeeps, OverStays
       DEF QueueMoves, R!queue, QP!vars, QP!queueVars, ThreadTypes
  <2>7. \A v \in Threads : R!Working(v) => KeptBy(v)
    BY <1>1, <2>1, OthersLeaveTasks, WorkersLive
  <2>8. ThreadTypes'
    BY <1>1, <2>1, <2>2, <2>4, <2>5, <2>6 DEF ThreadTypes, QueueMoves
  <2> QED
    BY <2>1, <2>6, <2>7, <2>8, MainMoves
<1>3. CASE R!CancelInQueue
  <2>1. /\ UNCHANGED <<thread, registered, signalled, faults>> /\ main' = R!MainAt("look")
        /\ \/ R!Q!CancelRunning(main.task, NoWorker)
           \/ R!Q!CancelQueued(main.task)
           \/ UNCHANGED <<R!queue, living>>
    BY <1>3 DEF R!CancelInQueue
  <2>2. main' \in MainType /\ main'.step = "look"
    BY <2>1, MainAtTyped
  <2>3. living' = living
    BY <2>1, MainLeavesThreadsAlive
  <2>4. PICK i : i = main.task
    OBVIOUS
  <2> QED
    BY <1>1, <2>1, <2>2, <2>3, <2>4, MainGoesOn
<1> QED
  BY <1>2, <1>3

\* The process ends: the queue stays, and no thread of it.
LEMMA CrashKeeps ==
    ASSUME ThreadsInv, R!Crash PROVE ThreadsInv'
<1>1. ThreadTypes /\ QP!IInv
  BY DEF ThreadsInv
<1>2. /\ faults < MaxFaults /\ faults' = faults + 1 /\ living' = {}
      /\ thread' = [w \in Threads |-> R!NoThread] /\ registered' = [i \in R!Tasks |-> NoWorker]
      /\ signalled' = {} /\ main' = R!MainAt("recover") /\ UNCHANGED R!queue
  BY DEF R!Crash
<1>3. QP!IInv'
  BY <1>1, <1>2 DEF R!queue, QP!IInv, QP!TypeOK, QP!Placement, QP!NoStaleOwnership,
                    QP!IdempotentCreation, QP!OneLiveRetry, QP!LaneFIFO, QP!Unfinished, QP!Ids
<1>4. R!NoThread \in ThreadType /\ R!NoThread.kind = "none"
  BY DEF R!NoThread, ThreadType, R!ThreadSteps
<1>5. main' \in MainType /\ main'.step = "recover"
  BY <1>2, MainAtTyped
<1>6. faults' \in 0..MaxFaults
  BY <1>1, <1>2, ThreadsAssumption DEF ThreadTypes
<1>7. \A w \in Threads : thread'[w] = R!NoThread
  BY <1>2
<1>8. ThreadTypes'
  BY <1>1, <1>2, <1>4, <1>5, <1>6, <1>7 DEF ThreadTypes, R!queue
<1>9. \A w \in Threads : ~R!Working(w)'
  BY <1>4, <1>7 DEF R!Working, R!At
<1>10. R!SignalsReachTheirTask'
  BY <1>2 DEF R!SignalsReachTheirTask
<1> QED
  BY <1>3, <1>8, <1>9, <1>10 DEF ThreadsInv, OwnInv, R!OneThreadPerTask

\* Every step keeps it.
LEMMA RunnerKeeps ==
    ASSUME ThreadsInv, [R!Next]_(R!vars) PROVE ThreadsInv'
<1>1. ThreadTypes
  BY DEF ThreadsInv
<1>2. CASE \E w \in Threads : R!ThreadStep(w) \/ R!ThreadDies(w)
  BY <1>2, ThreadsKeep
<1>3. CASE R!MainStep
  <2>1. ASSUME NEW w \in Threads, R!StartDirect(w) PROVE ThreadsInv'
    <3>1. /\ R!Start(w, "direct", main.task, "claim") /\ main' = R!MainAt("look")
          /\ main.step = "spawn"
      BY <2>1 DEF R!StartDirect
    <3>2. PICK t \in {0} \cup R!Tasks : t = main.task
      BY <1>1, <3>1 DEF ThreadTypes
    <3> QED
      BY <3>1, <3>2, StartsKeep
  <2> QED
    BY <1>3, <2>1, PollsKeep, CancellationKeeps DEF R!MainStep
<1>4. CASE R!Command
  BY <1>4, CommandsKeep DEF R!Command
<1>5. CASE R!SchedulerStep
  <2>1. PICK w \in Threads : R!StartTaskWorker(w)
    BY <1>5 DEF R!SchedulerStep
  <2>2. R!Start(w, "queue", 0, "next") /\ main' = main
    BY <2>1 DEF R!StartTaskWorker
  <2> QED
    BY <2>2, StartsKeep
<1>6. CASE R!Crash
  BY <1>6, CrashKeeps
<1>7. CASE R!DelayElapses
  <2>1. PICK i : R!Q!BecomeDue(i)
    BY <1>7 DEF R!DelayElapses
  <2>2. living' = living /\ UNCHANGED <<thread, registered, signalled, main, faults>>
    BY <1>7, <2>1, MainLeavesThreadsAlive DEF R!DelayElapses, R!runnerVars
  <2> QED
    BY <1>1, <2>1, <2>2, MainGoesOn DEF ThreadTypes
<1>8. CASE UNCHANGED R!vars
  <2>1. UNCHANGED <<R!queue, living, thread, registered, signalled, main, faults>>
    BY <1>8 DEF R!vars, R!runnerVars
  <2> QED
    BY <1>1, <2>1, MainGoesOn DEF ThreadTypes
<1> QED
  BY <1>2, <1>3, <1>4, <1>5, <1>6, <1>7, <1>8 DEF R!Next

-----------------------------------------------------------------------------
(* What follows of the threads.                                            *)

\* No thread works when the queue is empty.
LEMMA RunnerStarts == R!Init => ThreadsInv
<1> SUFFICES ASSUME R!Init PROVE ThreadsInv
  OBVIOUS
<1>1. /\ work = <<>> /\ waiting = <<>> /\ current = 0 /\ held = <<>> /\ past = <<>> /\ claims = 0
      /\ decided = [outcome |-> "none", task |-> 0, lease |-> 0]
      /\ living = {} /\ thread = [w \in Threads |-> R!NoThread]
      /\ registered = [i \in R!Tasks |-> NoWorker] /\ signalled = {} /\ main = R!MainAt("look")
      /\ faults = 0
  BY DEF R!Init, R!Q!EmptyQueue
<1>2. QP!Ids = {} /\ work \in Seq(QP!Job) /\ DOMAIN work = {}
  BY <1>1 DEF QP!Ids
<1>3. QP!TypeOK
  BY <1>1, <1>2 DEF QP!TypeOK
<1>4. QP!Placement
  BY <1>1, <1>2 DEF QP!Placement, QP!IsInjective
<1>5. QP!IInv
  BY <1>1, <1>2, <1>3, <1>4 DEF QP!IInv, QP!NoStaleOwnership, QP!IdempotentCreation,
                                QP!OneLiveRetry, QP!LaneFIFO
<1>6. R!NoThread \in ThreadType /\ R!NoThread.kind = "none"
  BY DEF R!NoThread, ThreadType, R!ThreadSteps
<1>7. \A w \in Threads : thread[w] = R!NoThread
  BY <1>1
<1>8. main \in MainType /\ main.step = "look"
  BY <1>1, MainAtTyped
<1>9. ThreadTypes
  BY <1>1, <1>2, <1>6, <1>7, <1>8, ThreadsAssumption DEF ThreadTypes
<1>10. \A w \in Threads : ~R!Working(w)
  BY <1>6, <1>7 DEF R!Working, R!At
<1>11. R!SignalsReachTheirTask
  BY <1>1 DEF R!SignalsReachTheirTask
<1> QED
  BY <1>5, <1>9, <1>10, <1>11 DEF ThreadsInv, OwnInv, R!OneThreadPerTask

\* The queue of the threads has the type that the module of the threads gives it.
LEMMA SameTypes == QP!TypeOK => R!Q!TypeOK
  BY DEF R!Q!TypeOK, QP!TypeOK, R!Q!Ids, QP!Ids, R!Q!Job, QP!Job, R!Q!Status, QP!Status,
         R!Q!QueuedStatus, QP!QueuedStatus, R!Q!HistoryStatus, QP!HistoryStatus,
         R!Q!FinalStatus, QP!FinalStatus, R!Q!Stages, QP!Stages

\* The invariant is that of the run's threads.
LEMMA ThreadsStep ==
    ASSUME part = "threads" => ThreadsInv, [MCNext]_<<part, vars, threadVars>>
    PROVE  (part = "threads" => ThreadsInv)'
<1>1. CASE part = "threads" /\ R!Next /\ UNCHANGED part
  BY <1>1, RunnerKeeps
<1>2. CASE UNCHANGED <<part, threadVars>>
  <2>1. UNCHANGED R!vars /\ UNCHANGED part
    BY <1>2 DEF threadVars, R!vars, R!queue, R!runnerVars
  <2> QED
    BY <2>1, RunnerKeeps
<1> QED
  BY <1>1, <1>2 DEF MCNext

\* A task has one thread, and a stop signal reaches the thread that works on its task or
\* nobody: of every number of threads and tasks, with crashes, cancellations and lost claims.
THEOREM ThreadsKeepToTheirTasks == MCSpec => []ThreadsOwnTheirTasks
<1>1. MCInit => (part = "threads" => ThreadsInv)
  BY RunnerStarts DEF MCInit
<1>2. (part = "threads" => ThreadsInv) /\ [MCNext]_<<part, vars, threadVars>>
      => (part = "threads" => ThreadsInv)'
  BY ThreadsStep
<1>3. (part = "threads" => ThreadsInv) => ThreadsOwnTheirTasks
  BY SameTypes DEF ThreadsInv, ThreadTypes, ThreadType, MainType, ThreadsOwnTheirTasks, R!TypeOK,
                   QP!IInv
<1> QED
  BY <1>1, <1>2, <1>3, PTL DEF MCSpec
===============================================================================
