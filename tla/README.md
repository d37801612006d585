# Enoch: TLA+ models, checks and proofs

Enoch is a persistent agent: a daemon that takes requests from a chat, runs an
agent runtime on them in a work tree, publishes the result for review, and
keeps everything that must outlive the process in JSON files of one state
directory. What is hard about it is not any one function but what happens when
several threads, a replacing daemon, a crash or a repeated message meet the
same files. This directory models that: one module per durable component, the
runs that check them with TLC, and proofs of the main invariants with TLAPS.

## 1. The system

All state files are read, changed and replaced under `file_transaction`
(`src/src/enoch/state.py`): a lock per path, held over the whole
read-modify-write, with an atomic rename at the end. So one *transaction* is
one atomic step of the models; everything between two transactions is not.

| Part | State | Operations | Meets |
|---|---|---|---|
| Task queue, `tasks/queue.py` | `task_queue.json`: pending, running, paused, history; owner, lease, publication, evidence of a task | enqueue, begin, claim, heartbeat, record, finish, retry, pause, resume, cancel, regress, reconcile | all threads of the daemon, extensions, the next daemon |
| Task threads, `app/core.py`, `workflows/local.py` | thread table, cancellation events | main loop, task worker, direct tasks, scheduler, `/stop` | task queue |
| Notifications, `app/notifications.py` | journal of logical messages | send, edit, recover | chat provider, crash between call and record |
| Daemon epoch, `app/epoch.py`, `app/effects.py` | `daemon_epoch.json`, its lock | begin an epoch, guard an effect, monitor a runtime call | two daemons at once |
| Inbox, `app/inbox.py`, `handle_event` | receipts of chat events, cursor | begin, complete, fail, mark reply, acknowledge | provider's redelivery, crash between steps |
| Cron, `cron.py`, core sweeps | `cron.json`: schedules, claims, run-now receipts | add, pause, resume, cancel, run now, claim, admit, record | scheduler thread and task worker sweep at once; task queue |
| Schedule arithmetic, `schedules.py` | none | next daily and next interval target | clock changes |
| Extension schedules, `extensions/schedules.py`, core sweep | `extension_schedules.json`: declared schedules, claims, outcomes | reconcile, pause, resume, run now, claim, record, fail | both sweeping threads, extensions, restarts; task queue |
| Backlog, `backlog.py`, promotion in core | `backlog.json`: pending and past items | add, remove, reprioritize, promote | task worker and owner promote at once; task queue |
| Requests, `app/conversation.py`, `/do`, `/task` | conversation journals | respond, execute an action, record it, answer | inbox's redelivery, task queue, runtime access |
| Runtime calls, `brain.py`, Claude library, `app/effects.py` | session ids; a child process and its control | run, stop, time out, resume a session | user's stop, deadline, the next daemon |
| Publication, `app/task_workflow.py`, `tasks/worktree.py` | publication stage of the task, workspace, branch and review on the forge | edit, repair, validate, capture, record, push, review, remove | stop, crash, retry; forge |
| Extension tasks, `extensions/*.py`, `tasks/events.py` | event log, receipts | append, drain, hook, rerun | replaced process that still drains; task queue |
| Commands, `extensions/contracts.py`, `providers/authorization.py` | what the providers grant and a policy denies | authorize, plan, enqueue | redelivery to a process with another policy |
| Operations, `operations/*.py`, `channel.py`, service libraries | lifecycle record, checkout | update, doctor, roll back, restart, report | operator, service manager, death in the middle |
| Reviews, `/pr merge`, maintenance, `lineage/lifecycle.py` | forge | inspect, land, close duplicates, adopt | people on the forge, lost answers |
| Lineage, `lineage/*.py` | inbox of the parent's changes, assessment queue | scan, assess, inherit, ignore, adopt | replaced daemon's worker, rewriting scan; task queue |
| Evolution and curation, `evolution/*.py` | evidence, candidates, events, curations | scan, synthesize, propose, curate, approve, remove | task events, schedule, crash between files |
| Learning, `learn.py`, `automatic_learning.py`; memory, `memory/*.py` | learning candidates, artifacts and their index; `long_term.json` | snapshot, assess, store, record; save, forget | publishing agent, task threads |
| Host migration, `migration.py`; upgrade, `private_state.py` | bundle, source and target markers; state files with a manifest | export, import, activate, verify, cancel; back up, migrate, roll back | other hosts, daemon that starts, death between writes |
| Environments, `validation_environment.py`, `runtime_dependencies.py` | directories of installed packages | build, rename, use, repair | several processes |
| Quota warnings, `quota_warnings.py` | `quota_warnings.json` | observe, draft, deliver, settle | notifications, provider's clock |
| Attachments, `outbound.py`; Slack library | artifact store, receipts; spool, sequence, delivery records | capture, merge, record, send; store, receive, upload, complete | two threads, lost answers, redelivery |
| Parsing, reports, prompts, provider wrappers, identity, profiles, CLI | none shared | | not modelled, section 9 |

How the parts call each other: the main loop (`run_once`) reconciles the queue,
polls the chat, hands each event to the inbox protocol, whose handler changes
queue, cron, backlog or any of the other stores; worker threads take tasks from
the queue, run the runtime under the effect fence, publish, record evidence,
finalize, and report through the notification service; a sweep enqueues what
schedules, extensions and evolution have due; every queue mutation and every
effect is guarded by the daemon epoch.

What makes each part correct, in short:

* *queue*: no task lost, duplicated or on the wrong list; one owner; one task per
  idempotency key; recovery keeps what durable evidence proves;
* *threads*: no two threads on one task; a stop reaches its task and no other;
  every task is eventually settled;
* *notifications*: nothing is sent twice unless the provider may have failed
  silently; ambiguity fails closed; a final status is not replaced by progress;
* *epoch*: an effect only under the generation that is current then;
* *inbox*: a completed command is not run again; nothing acknowledged before it
  was answered; a poisonous event cannot block the channel;
* *cron*: one live occurrence per schedule, no claim dropped, no pause overrun;
* *extension schedules*: the same promise of one occurrence, with refusals that
  are acknowledged and extensions that come and go;
* *backlog*: an item is worked on once, whoever promotes it, and none is stuck;
* *requests*: an action of a conversation is performed once, none is hidden from
  the answer, and the one that starts work is the last;
* *runtime calls*: a late answer is not success, a cancellation was asked for,
  every call ends and leaves no child behind, a session has its startup context;
* *publication*: the review shows what was validated, work that was captured is
  published or kept, a task that owes a review completes with one;
* *extensions and commands*: events in order, each failure answered once, nothing
  runs without what authorizes it;
* *operations*: only vetted code runs, a silent end is reported, a restart follows;
* *reviews and lineage*: what is merged is what was inspected; no change is passed
  over, adopted twice or judged by what it is not; the owner's decisions stand;
* *evolution, learning, memory*: evidence is studied once and not lost, approved
  work is queued once, what is learned was published;
* *migration, upgrade, environments*: at most one host may go on, with the newest
  state and a new authority; a failed upgrade loses nothing; an environment in use
  is whole, unless a check took it for broken;
* *messages*: files are whole, accounted for and shared once; what was accepted
  from Slack is handed on in order; warnings are of the cycle they speak of.

The behaviours that a test would hardly reach are listed, with the line where
each bites and the property that covers it, under `hazards` in `PROJECT.json`.

## 2. The modules

| Module | Models | Composes |
|---|---|---|
| `TaskQueue` | `tasks/queue.py`: one action per transaction | |
| `TaskRunner` | threads and main loop of one daemon | `TaskQueue` (instance `Q`, sharing all its variables) |
| `Notifications` | the journal, its recovery, and a chat that shows the effects | |
| `EpochFence` | what the fence promises: effects happen under the current generation | |
| `DaemonEpoch` | lock, epoch file, effects, monitors, crashes | refines `EpochFence` (`Fence`) |
| `Inbox` | receipts, replies and cursor of one channel | |
| `Cron` | schedules, both sweeping threads, their tasks | |
| `Calendar` | target arithmetic: pure operators over zones, days and intervals | |
| `Schedules` | the target of one schedule: claimed and recorded, each however late | `Calendar` |
| `ExtensionSchedules` | declared schedules, sweeps, refusals, restarts | |
| `Backlog` | items and their promotion by worker and owner | |
| `Requests` | messages, conversation journals and the tasks they make | |
| `RuntimeRuns` | one invocation of a runtime after another | |
| `Publication` | the way of one task to its review | |
| `ExtensionTasks` | event log, draining processes, reruns | |
| `Commands` | commands of extensions and their authorization | |
| `Operations` | update, restart, status and service manager | |
| `Reviews` | the forge, `/pr merge`, maintenance, adoption | |
| `Lineage` | scans, assessment queue, inheritance | |
| `Evolution`, `Curation` | evidence to approved work; the pool that the model curates | |
| `Learning`, `Memory` | skills learned and recorded; the memory store | |
| `Migration`, `PrivateState`, `Environments` | hosts and bundles; upgrade of schemas; installed packages | |
| `QuotaWarnings` | the monitor of one quota window | |
| `Outbound`, `SlackUpload`, `SlackIntake` | files of replies; their upload; messages from Slack | |
| `MCRecovery` | suite of what a restarted daemon finds | `TaskQueue`, `Notifications` |
| `MCWork` | suite of lanes, retries and threads | `TaskQueue`, `TaskRunner` |
| `MCRecurring` | suite of recurring work | `Cron`, `Schedules`, `ExtensionSchedules`, `Backlog` |
| `MCService` | suite of what the daemon does for those it serves | `Inbox`, `TaskRunner`, `Publication`, `ExtensionTasks`, `Commands`, `Operations`, `Requests`, `RuntimeRuns`, `Notifications` |
| `MCAgent` | suite of what the agent makes of itself, keeps and hands out | the twelve modules from `Reviews` to `SlackIntake`, and `Curation` |
| `TaskQueueProofs`, `ThreadProofs` | proofs: the queue and the notification journal; the threads over the queue | |
| `DaemonEpochProofs` | proofs: the epoch and its fence | |
| `ServiceProofs` | proofs: inbox, commands, operations, calls, requests, publication, extension events | |
| `RecurringProofs` | proofs: cron and extension schedules, daily and interval targets, the backlog | |
| `AgentProofs` | proofs: reviews, lineage, learning and memory, migration, private state, environments, decisions | |
| `EvolutionProofs` | proofs: evidence, proposals and approvals; the curated pool | |
| `MessageProofs` | proofs: files of replies, their upload, Slack's messages, quota warnings | |
| `MCDaemonEpoch`, `MCNotifications` | constants of single modules for TLC | |

A *suite* checks several components that share no state: a variable `part` is
drawn at the start, a behaviour runs that component and the others keep their
first state. So a suite has the states of its components, not of their product,
and a property of the suite is the conjunction of the components' properties
which its name sums up; the properties themselves are stated, with the code they
are about, in the components' modules. Interaction is modelled inside a module:
each has of its neighbours (queue, forge, runtime, notification ledger) what it
reads of them, changed by environment actions in any order.

**TaskQueue.** `job[i]` holds the fields of task *i* on which the code branches;
`pending`, `running`, `paused`, `history` are the four places of the file.
Tasks are created through `Create` (which looks for the idempotency key over
all tasks, as `_find_task_by_idempotency_key` does), begun by `BeginNext`
(first due task whose lane is clear), owned by `Claim`/`Heartbeat`, and leave
the slot through `Finish`, `CancelRunning`, `RetryRunning`, `PauseRunning` or
`Reconcile`. `reconcile_running_task` is split by outcome, one action per
outcome. Times are "due or not", a review reference is "present or not", lease
tokens are counted. Worker identities die and are started again by the
environment: `WorkerDies` may come at any moment, between any two transactions.
A definition `X_Something` before an `X`, with the comment "Fault:", is what a
bug in that code would look like; no behaviour uses it (likewise in the other
modules).

**TaskRunner.** `thread[w]` is the step at which a thread stands: take the next
task, claim it, register its cancellation event, work, record, finalize. The
main loop (`main`) reads the running task, reconciles with what it saw in a
second transaction (as `_reconcile_workflow` does), then handles one command.
`/stop` is three steps: read the status and look up the event, set it, cancel
in the queue. `Crash` ends all threads; `ThreadDies` is an uncaught exception
of a queue transaction. Every queue step is an action of `TaskQueue`, so the
rules of the queue are not restated.

**Notifications.** A delivery runs under the epoch guard from its first journal
write to its last, so there is one at a time (`call`); each write and the
provider call are steps of their own because the process can end between them.
The kind of `provider` (durable contract, idempotent delivery, lookup) is
chosen at `Init` and never changes, so that one run covers every kind. `applied` and `hidden` are ghosts: what the chat really shows.

**DaemonEpoch.** Workers are threads of daemon processes that may all be alive.
`begin_daemon_epoch` and a bounded effect hold the file lock over several
steps; a check takes it for one. A runtime call holds no lock and is watched by
a monitor thread that polls. **EpochFence** is the abstract promise: a
generation that only grows, and effects of its holder only.

**Inbox.** Events are numbered by cursor. `step` walks the first event of the
poll through begin, dispatch, complete, reply, mark, cursor, acknowledge;
every step is one durable write, `Mishap` is an exception out of the poll and
`Crash` the end of the process, at any of them.

**Cron.** `sweep` is where each of the two threads stands in
`_enqueue_due_cron_jobs`; the queue is reduced to which tasks are live, keyed as
the code keys them (`cron:<id>:<claim>`). Targets are only "has come": the
arithmetic is in **Calendar**, where `next_daily_run` and `next_interval_run`
are operators and the bisection for the instant of a clock change is a recursive
function over spans; it is checked at every instant of zones with forward and
backward jumps against a definition that enumerates the days. **Schedules** moves one
target through it: an occurrence is claimed at any time after its target, and
recorded at any time after that, so that several targets may pass meanwhile; a claim of
a run-now request leaves the target alone.

**ExtensionSchedules.** The sweep of `Cron` with the differences of the code:
what a sweep read when it claimed an occurrence is not looked up again (`Look`
uses the `last` of the claim), every step after is its own transaction, a
refusal (`Refuse`) acknowledges the claim without a task, and each start of the
daemon reconciles the schedules with what extensions declare then (`Reconciled`,
by the kind of change).

**Backlog.** `actor` is where each of the two promotions stands: read the queue,
read the next item, enqueue under the key `backlog:<id>`, mark promoted. The
worker's and the starter's promotions exclude each other by a lock and are one
actor; the owner's commands are handled one at a time. A queue that other
requests keep busy is an environment that may take the idle moment away.

**Requests.** `main` is the step of the thread that handles a message; `journal`
is the conversation's file. `Execute` and `Record` are two steps, as the effect
and its record are in `run_conversation`; the six ways into the queue (`Direct`,
`Enqueue`, `Pause` and what comes before) are the transactions of `_do`, `_task`
and `_queue_paused_request`. `Crash` ends the process and the message is
delivered again.

**RuntimeRuns.** `run.at` goes from start over polling to accepting and ending;
`child` is the CLI process, `control` the two events of the execution control,
`current` whether the daemon's epoch still is. Codex and Claude start, wait,
answer and recover each by actions of their own, since they differ in the last look
at the control, in which failures lose the session and in the children they leave
behind. `between` is the pause in which a task has an answer but is not over: it may
repair what its checks refused by another run, which keeps the control and with it a
stop that came meanwhile. A note on what a synchronization brought is a turn of the
conversation that neither adds its context nor marks it as added.
The process may end at any step.

**Publication.** One action per stage of `run_direct_work` and `_publish_feature_pr`
with its failure: `run` is where the worker is, `job` what the queue records of it,
`copy` the workspace, `forge` branch and review. A stop, a crash or a manual
retry may come at any step, and the next attempt resumes from `job` and `copy`.

**ExtensionTasks.** A queue transaction owes events, which are appended one by
one; `torn` is a line cut short. `drain` is where each process is in
`_drain_extension_task_events`; a replaced process goes on until its next check.
**Commands** has the plan of a command, its authorization at the turn and at the
worker, and processes whose providers and policy change.

**Operations.** `update` walks through `update_from_authoritative` (fetch, fast-forward,
doctor, roll back), `process` through service manager, startup and shutdown;
`lifecycle` is what one process leaves for the next.

**Reviews.** Every request to the forge is an action with the outcomes "failed
before", "took effect" and "took effect, answer lost"; people act between any
two.

**Lineage.** A daemon's handler and worker read the inbox, talk to forge or
runtime, and write in a later transaction; `overlapped` remembers that a
replaced daemon did. What holds only without such an overlap says so.

**Evolution**, **Curation.** `job` is where the main thread is in the scan of one
source; each file it writes is a step, and a restart may come between any two.
`Curation` follows one proposal of the model from the pool it was shown to what
`/evolve remove` cites.

**Learning**, **Memory.** A snapshot reads the parts of a published skill while
the source goes on publishing; artifacts and their index are two files. Saves of
a reply are one transaction per memory.

**Migration.** `command[h]` is the step of the command on a host, each durable
write an action; markers, epoch and state are per host. `Overlap` says whether a
daemon may be started while a command runs: the suite checks what holds when the
operator does as the document says (`FALSE`), and `migration_fence` what the
document promises in any case (`TRUE`). An export that fails once the bundle has its
name drops the fence and, unless it was the last write of the marker that failed, keeps
the bundle (`ExportFails`); `Leftovers` says whether such a bundle may be imported, and
is `FALSE` in the suite (section 6 says what is lost otherwise). **PrivateState** and
**Environments** are walks through `migrate_private_state`, through
`ensure_validation_environment` and the installation of runtime dependencies, with a
failure or a kill at each step. A Doctor's check of an environment that is whole may fail
too (`CheckFails`), and then the environment is removed although others use it.

**QuotaWarnings.** `account` is the truth, `monitor` one check from reading the
quota to writing the outcome, `ledger` the notification records.

**Outbound.** Two threads capture files into one store and carry what they
captured into a receipt and a reply; a redelivered message finds its text in the
journal. **SlackUpload** is the upload of such files with the journal that calls
it again, **SlackIntake** the way of a message into the inbox.

## 3. The runs

| Run | Question | Bounds |
|---|---|---|
| `recovery_all` | queue: every operation, checkpoint and evidence, then a death; journal: every write, answer and kind of provider, over two daemons | 2 tasks, captured and published reviews, 2 attempts, 2 leases; 3 messages (deferred warning, progress, final), 2 attempts |
| `work_all` | lanes, retries and keys; who works on a task and whom a signal reaches | 3 tasks, 1 lane, 1 key, 2 attempts; 2 tasks, 2 threads, 1 fault |
| `recurring_all` | occurrences neither doubled, lost nor started in a pause; targets at every instant; what is due is done | 1 cron and 1 declared schedule, 2 threads, 3 and 2 targets, 2 and 4 failures; a day of 8 ticks with a jump at every instant; 2 items, 2 faults |
| `epoch_takeover` | safety, refinement of `EpochFence`, takeover and end of replaced runtime calls | 2 daemons of 2 threads, 2 effects, read errors |
| `service_all` | chat to publication: nothing repeated, hidden, unreviewed or unauthorized, everything comes to an end | 3 events, 2 attempts; 1 task, 2 threads, 2 attempts; 2 contents, 1 repair, a fault, a crash and a retry; 3 event tasks, 2 processes; 2 commands, 1 capability; 3 revisions, 2 operator edits; 2 messages of 2 actions; 3 calls, 2 sessions; 1 reply, 1 final edit, 2 daemons |
| `agent_all` | no change, evidence, decision, state or message lost, doubled or taken for another | see `MCAgent_all.cfg`: mostly 2 of what interacts, 1 or 2 faults, 3 hosts with 2 bundles |
| `notify_stop`, `inbox_redelivery`, `runner_stop`, `recurring_overlap`, `outbound_bound`, `migration_fence` | the findings of section 6 | the least that shows them |

The properties of the suites, and whose they are:

* `recovery_all`: `TypeOK`, `Placement`, `NoStaleOwnership`, `HistoryIsMonotonic`,
  `RecoveryKeepsOutcome` of the queue; `JournalIsHonest`, `DeliveriesStaySettled`
  of the journal.
* `work_all`: `LaneFIFO`, `OneLiveRetry`, `IdempotentCreation` of the queue,
  `ThreadsOwnTheirTasks` of the threads.
* `recurring_all`: `OccurrencesAreSound` (no overlap unless the queue refused, all
  justified), `TargetsAreKept` (next daily occurrence, interval anchor), `PauseFences`,
  `WorkIsKept` (no claim lost, an item promoted once), `DueWorkIsDone` (liveness).
* `service_all`: `AcknowledgedLast`, `CommandNotRepeated` of the inbox;
  `ConversationsAreFaithful` of requests and calls; `CapturesArePublished` of
  publication; `ExtensionsHearInOrder`; `WorkIsGoverned` of commands and
  operations; `EndsAreReported` of operations and calls; `TasksSettle` (threads,
  publication, calls) and `NobodyWaits` (inbox, requests, extensions, operations,
  replies left in flight) are liveness; `StatesAreTyped`.
* `agent_all`: `ReviewsAreFaithful`, `ChangesAreAccountedFor` (lineage),
  `EvidenceIsAccountedFor` (evolution, curation), `KnowledgeIsSound` (learning,
  memory), `StateSurvives` (migration, upgrade, environments), `MessagesAreWhole`
  (attachments, Slack), `WarningsAreTrue` (quota), `NothingGoesBack` (decisions and
  authority).

Why these bounds are enough to be interesting: two threads are what a stale
owner needs; two tasks what a wrong list, a wrong signal or a taken slot needs;
three tasks an order within a lane with one task delayed or paused between, and
a retry of a task whose first retry has ended; two daemons a daemon that is
replaced while it decides; two mishaps a crash during the recovery from a
crash; three hosts a bundle that is cancelled and exported again to a third;
one fault per behaviour finds any single step that is not safe to fail, since it
may strike at each. Schedules meet only in the list of a sweep, which a failure
cuts short; one schedule with two threads has every order of claim, command and
failure. What the proofs show does not depend on the bounds at all. Counters
that the code leaves unbounded (begins, leases, targets, failures, effects) are
bounded in the guards by constants marked `bound` where they are declared.
`CHECK_DEADLOCK FALSE` is said only where the modelled part may stop: no event
left to handle, every daemon dead, no notification left to send, no instant
left, no command given.

A mutant per property (`mutants` in `PROJECT.json`) shows that each can fail.

## 4. Fairness

* `TaskQueue`, `MCRecovery`: none; only safety is checked.
* `TaskRunner.FairSpec`: each thread's own step, the main loop's step, the
  scheduler's start of a worker, and the passing of a retry delay. Threads are
  run by the operating system, work ends because a task has a deadline, the
  scheduler thread loops for ever. Commands, faults and crashes get none.
* `Notifications.FairSpec`: start of a daemon (the service manager restarts
  it) and the daemon's step (transports have timeouts).
* `DaemonEpoch.FairSpec`: weak for own steps and for a cancelled runtime call
  to return; strong for taking the lock and for a monitor's poll, because
  `flock` wakes waiters in turn while weak fairness would let the others pass
  for ever.
* `Inbox.FairSpec`: the daemon's step.
* `Cron` and `ExtensionSchedules`: both sweeping threads and the finishing of a
  live task. The scheduler thread loops and catches its exceptions.
* `Backlog.FairSpec`: the worker's promotion, since the scheduler thread starts a
  task worker again and again, and the end of live tasks. The owner owes nothing.
* `MCService`: beside `TaskRunner`'s, `Inbox`'s and `Notifications`', the worker of a publication
  (its steps are calls with time limits), the append of an owed event and the
  draining of each process, the progress of the daemon and of the service
  manager (`Operations`), the handler, a worker's claim and end and the return of
  runtime access (`Requests`: the owner restores it), and the polling of a runtime
  call together with its deadline. Commands, faults, crashes and people get none.
* `MCAgent`: none; only safety is checked. Scans, assessments and checks depend
  on commands and on schedules that the owner may turn off.

A suite's `MCSpec` has the fairness of its components, each while it is the part
that runs.

## 5. What is proved

Every theorem is of the specification that a run checks and holds for every value of
its constants: any number of tasks, threads, messages, events, commands, daemons,
crashes and faults. The properties are seldom inductive. Each proof has a
strengthening that says what the code knows at each point in the middle of a
handler; it was checked with TLC before it was proved.

`TaskQueueProofs`: `TypeCorrect`, `TasksInPlace` (`Placement`), `OwnershipIsFresh`
(`NoStaleOwnership`), `CreationIsIdempotent`, `RetriesAreUnique`
(`OneLiveRetry`), `LanesAreFIFO` (`LaneFIFO`), `OutcomesAreFinal`
(`HistoryIsMonotonic`) and `EvidenceDecides` (`RecoveryKeepsOutcome`). `Placement` is
not inductive without the types, nor the others without `Placement`: a list
operation is only known to move the right task when the status of the task says
which list it is on, and no list holds it twice. `IInv` is their conjunction;
one lemma per operation shows that it is kept, under it one step per conjunct.
Its first section has what removing, appending and prepending do to the elements of
a list without repetition.

The same module has the journal's theorems, `JournalTellsTheTruth` (`JournalIsHonest`) and
`SettledDeliveriesStay` (`DeliveriesStaySettled`). A delivery is spread over several
steps and several daemons, and what the chat shows is not on disk. `JInv` counts: each
effect of a message but one is a failure that its provider returned
(`RecordInv`), a delivery that may be claimed again has none unaccounted for
(`CallInv`), and after the worker closed the status message only a terminal edit is on
its way (`EditInv`).

`ThreadProofs`: `ThreadsKeepToTheirTasks` (`ThreadsOwnTheirTasks`), over the queue's
`IInv`. Two threads could have one task if a thread went on with a task that
another had claimed; `OwnInv` says that a thread which works holds its task in the
running slot under its own claim, or that the task is over, and once over a task stays
over (`HistoryKept`). A claim is refused while the claim's thread lives,
reconciliation changes nothing then, and only `/stop` takes a task from a live thread,
by ending it.

`DaemonEpochProofs`, for any daemons and threads: `TypeCorrect`,
`LockIsExclusive`, `GenerationsAreUnique`, `CancellationIsJustified`,
`TakeoverIsExclusive`, and `ImplementsFence`: `DaemonEpoch`
implements `EpochFence`. Two strengthenings carry it: a daemon never has a
generation above the current one, and a worker that passed the check while it
holds the lock is still current (`Standing`), because only the holder of the
lock can change the epoch. From that an effect is always of the current
generation, which is the refinement's only non-stuttering case besides takeover.

`ServiceProofs`, an invariant for each part of `MCService`:

* `AcknowledgementIsLast` (`AcknowledgedLast`), from `InboxInv`: where the event in hand
  stands tells what its receipt, its reply and the cursor are, on disk and in memory.
  `CommandsRunOnce` (`CommandNotRepeated`) follows: a completed receipt is
  never dispatched.
* `GovernedWork` (`WorkIsGoverned`), from `CommandsInv` (a handler that runs was
  authorized, its requests have the keys they had at its first run) and
  `OperationsInv` (the revision that a daemon is started from was vetted, whoever
  edits the checkout meanwhile).
* `EndsTold` (`EndsAreReported`), from `OperationsInv` (an end without a report leaves
  a mark that the next start finds) and `CallsInv`.
* `FaithfulConversations` (`ConversationsAreFaithful`), from `RequestsInv` and
  `CallsInv`: the journal of a request is the list of its actions as far as it was
  performed, with at most one in the making, whose task, if it was enqueued, has the
  key under which a repetition finds it.
* `PublishedCaptures` (`CapturesArePublished`), from `PublicationInv`, which ties every
  point of a run to the stage of the task, the recorded revision and the checks it
  passed.
* `ExtensionsHear` (`ExtensionsHearInOrder`), from `EventsInv`: an event older than the
  one in hand was given before, by this process or an earlier one, although its receipt
  may be missing.

`RecurringProofs`: `OccurrencesStaySound` (`OccurrencesAreSound`), `PausesFence`
(`PauseFences`) and `WorkStaysKept` (`WorkIsKept`). Claims of a schedule are numbered as
they are issued, so what a schedule has let go of is older than its claim. `CronInv`
says that only the last task it knows and the task of its claim can be live, and the
second only after the first has ended; that a claim is left for whatever is due or
requested; and that a sweep which is about to record a task has it. `DeclaredInv` says
the same of extension schedules, where a task may also live on behind a refused claim,
and adds what a sweep may rely on, although it looks only once: the last task it read of
is still the last one as long as its claim stands, and an ended task does not come back.
`BacklogInv` ties an item that counts as promoted to its task.

The same module proves `TargetsStayKept` (`TargetsAreKept`): a daily target is the next
occurrence of its local time and an interval's target is on its grid, whatever the day,
the zones, the jumps and the intervals. Three facts carry the daily half. A
run is the first instant of its date at which the clocks show the local time or a later
one (`RunsAtFirst`), also in the gap of a forward jump, where the code bisects; that the
bisection ends at the jump (`BisectionFindsTheJump`) is an induction on the length of the
span, made as the argument that a shortest span on which it failed would have a shorter
one. Runs of successive dates are in order, so only the date of asking and the next
need be looked at, which is where `ZoneAssumption` is used; `OffsetAssumption` keeps the
searched range around the jump. `DailyInv` then says that the target was calculated at
`asked` and that nothing has moved it since. `IntervalsStayAnchored` is the half about
intervals.

`AgentProofs`, an invariant for each component of `MCAgent`:

* `ReviewsStayFaithful` (`ReviewsAreFaithful`), from `ReviewsInv`: the head in a merge
  request was found mergeable, and what a command goes on with as landed has landed,
  which nothing takes back (`LandedStays`).
* `KnowledgeStaysSound` (`KnowledgeIsSound`), from `LearningInv` (what of a snapshot has
  been read is what its revision says; a task has its line in the index from when it is
  written) and `MemoriesInv`. A day never runs out of ids because there are no more
  memories than texts (`NewIdIsFree`, by the pigeonhole principle), and the prompt shows
  no more than it has room for because memories differ in age (`ShownFits`).
* `StateAlwaysSurvives` (`StateSurvives`), under two hypotheses about the operator.
  `Overlap = FALSE`: no daemon is started while a command of the migration runs, which is
  what the documentation asks and no lock enforces (the run `migration_fence` shows what
  happens otherwise). `Leftovers = FALSE`: a bundle that a failed export left behind is
  not imported, which nothing in the code enforces either (section 6). `MigrationInv` says in which phase the agent is, by host: open, exported
  or moving; that every host but the one of the phase is set aside; and that no epoch is
  above what a host may have been granted. `PrivateInv`: at each write of an upgrade the
  backup is what was there before, and a manifest names the version of what it stands
  beside. `EnvironmentsInv`: who builds holds the lock, and what has a final name is
  whole.
* `ChangesStayAccountedFor` (`ChangesAreAccountedFor`), from `LineageInv`: the inbox, and
  every copy of it that a scan has in hand, has each change that its own cursor has
  passed. As long as no replaced daemon went on, a scan and the worker exclude each
  other; a task that was enqueued is linked, or will be by its command or by the
  repetition of it; a judgement on record was made of the content it stands beside.
* `NothingEverGoesBack` (`NothingGoesBack`), an action property, from `LineageInv`,
  `LearningInv` and `MigrationInv`, again under `Overlap = FALSE` and
  `Leftovers = FALSE`, which only its part about authority needs.

`MessageProofs`: `MessagesStayWhole` (`MessagesAreWhole`) and `WarningsStayTrue`, an
invariant for each component. A hypothesis of the first is that one process listens to
Slack: the connections of two do not exclude each other.

* `IntakeInv`: the number of an event tells where it is. Behind the cursor it was handed
  on, ahead of it it will be, and of the records that pruning took `Keep` others came
  after (`GapInv`), so that a message within that distance is known when Slack sends it
  again.
* `UploadInv`: nothing is shared before the record says that it may have been, and an
  attempt that finds such a record looks at the channel before it goes on (`AttemptsInv`,
  `SharingInv`, `ShownInv`).
* `QuotaInv`, for `WarningsStayTrue` (`WarningsAreTrue`): a warning that is
  sent was written for the window it is sent in, none is repeated, and a milder one
  follows only where the arrival of the graver is unknown. The monitor never
  sees when a window ended; that there are ends which explain every reset time on record is
  an existential of the invariant (`TimesInv`). Windows end further apart than a reported
  time may be off, so a time tells its window; after a warning of a window was
  sent the record stays in that window's cycle until the window is all but over; and what
  was delivered in the record's cycle is what it owes, or it knows of something as grave
  (`LedgerInv`, `ChatInv`). `QuotaAssumption` of `MCAgent` states the
  distances.
* `OutboundInv`: each file that a run named is in one place of its thread's record, to be
  done, attached, refused or in hand, whatever the other thread does to the stored file
  of the same content. `ArtifactsInv`: what is attached, or about to be, has an artifact in
  the store.

`EvolutionProofs`: `EvidenceStaysAccountedFor` (`EvidenceIsAccountedFor`), the promises
of evolution and of curation.

* `EvolutionInv`: of the events of an input a scan has seen what was studied
  (`eSeen = eStudied`); evidence that no candidate is linked to is cited by none, or by one
  for each failure so far, or by the draft in hand (`EvidenceInv`); a candidate is proposed
  only when no proposal is open (`ProposalInv`); and the tasks of a candidate are counted
  against the failures, with what the failure in the making may still cost (`ApprovalInv`).
* `CurationInv`: the model was shown the pool of the candidates as they stand, and what
  counts as authoritative evidence landed or was completed (`TurnInv`, `CurationsInv`).
  That the bound on the pool leaves no source out while there is room for one of each
  follows by an argument about the least candidate left out and an injection of the first
  candidate of each source (`First`) into the sources.

Assumptions: the `ASSUME`s of the modules, which say that null values are not
members of the sets they stand beside and that bounds are numbers
(`BoundsAssumption`, `MessagesAssumption`, `ThreadsAssumption` and so on). TLC
evaluates them in every run.

Only model-checked: what is temporal under fairness (`HandoverCompletes`,
`DueWorkIsDone`, `TasksSettle`, `NobodyWaits`), since liveness and `ENABLED` are outside
the prover; and `StatesAreTyped` of `MCService`, whose parts the inductive invariants
contain without a theorem of its own. Every other property of a passing run has a
theorem.

## 6. Findings

Six runs show a disagreement between a document and the code; each quotes
both in `PROJECT.json`.

1. `notify_stop`: the status that `/stop` writes is overwritten by the next
   progress of the worker that still runs.
2. `inbox_redelivery`: an event whose handler failed is not redelivered when a
   later event of the same poll succeeds, because the cursor passes it.
3. `runner_stop`: a stop or cancel between the claim of a task and the
   registration of its cancellation event signals nobody; the work goes on.
4. `recurring_overlap`: an occurrence of an extension schedule was enqueued, the
   process ended before the schedule recorded it, and the repeated occurrence was
   refused (capability denied, extension gone): the schedule forgets the live
   task and the next occurrence starts beside it. `OverlapNeedsRefusal` shows
   that nothing else leads there.
5. `outbound_bound`: the files of all runs of one reply are merged without a
   bound, though each run may name as many as a notification may carry; the
   reply is then refused and its receipt cannot be read back.
6. `migration_fence`: a daemon that made its checks before the export wrote its
   fence acquires its epoch after the export; no lock covers both.

Promises that the models show not to hold either, with no run of their own,
stated so that nobody relies on them:

* a request made while the runtime is unavailable is enqueued under another key
  than the same message once it is back: a crash between makes two tasks
  (`core.py:2991`, in `Requests`);
* a task event is appended after the queue's write and a failure to append it is
  swallowed: an extension may never hear of a task's end (`queue.py:1435`);
* a warning whose text changed is refused for good by the journal, which has the
  key with the first text (`quota_warnings.py:127`);
* a Codex run whose progress report raises, because the task was stopped or the
  daemon replaced in the meantime, is given up but its child goes on working
  (`brain.py:945`); a resumed Claude session that is gone is replaced by one
  without the startup context (`claude/core.py:486`);
* an approval may make two tasks, if two things fail: the process ends after the task was
  enqueued and before the approval is marked, the owner approves again, and the queue
  has an error then (`core.py:3678`); `OneTaskPerApproval` of `Evolution` states
  the bound, one task more for every two failures;
* a removal may cite completed work that regressed since (`core.py:3347`);
* forgetting a memory by its id removes an older one that mentions the id
  (`memory/store.py:159`);
* two listener processes of Slack may store events out of order
  (`Processes = {1, 2}` in `SlackIntake`);
* an export of the migration that fails after the bundle has its name and before the
  marker says so (`migration.py:199` to `210`: the directory cannot be synchronized, the
  bundle cannot be read back, or the command is interrupted) removes the fence and keeps
  the bundle: the source goes on while a bundle that verifies can be imported elsewhere.
  With `Leftovers = TRUE` two hosts may go on (`OneContinuation`), and both may begin the
  same generation (`AuthorityAdvances`); a run with `Parts = {"migration"}` finds either
  in seconds;
* a Doctor whose check of the build backend fails or times out removes the environment
  that the tests of another Doctor run in, although nothing was wrong with it
  (`validation_environment.py:79`); `EnvironmentInUseIsWhole` excepts it.

## 7. Limits of the models worth knowing

* `Notifications`: content is part of the key; what a conflicting repetition is
  answered is left out. One provider, one conversation.
* `Inbox`: one daemon at a time; a replaced daemon's late write is left out.
* `TaskRunner`: heartbeats, inline work in the main loop (which blocks it),
  promotion from the backlog and shutdown are left out; publication is a module of
  its own, of one worker.
* `Cron`: a manual `/task retry` of an occurrence is a task of its own.
* `Backlog`: one daemon; promotion is checked with few items because priorities
  and statuses multiply, and no property depends on which item is next. An item
  removed between its reading and its enqueueing still gets a task: nothing
  promises otherwise.
* `Calendar` assumes zones whose clocks do not fall back across midnight
  (`ZoneAssumption`). In such a zone `next_daily_run` can return an instant
  that has passed: `"00:00"` in `America/St_Johns` asked at 2010-11-07 02:40 UTC. A zone
  has one jump within the horizon, and an offset is less than a day
  (`OffsetAssumption`), as `datetime` demands.
* The terminal report of a task has no journal entry before it is sent, so a
  crash between finalization and report loses it; nothing promises otherwise.
* `Lineage`: one parent. When the commits of a pull request cannot be read, the code
  takes the merge commit alone to stand for it (`lineage/core.py:1473`); `CommitsOf`
  leaves that out. `Migration`: the suite's invariants hold with
  `Overlap = FALSE` and `Leftovers = FALSE`; bundles are imported on one host each, as the
  document asks.
* `DaemonEpoch`: the epoch file is not lost while daemons run; one that is missing when a
  daemon begins is the case of a new host, with the floor of a migration or without.
* `Evolution`: the suite has one approval and one fault, so that the second task after two
  failures is covered by `EvidenceStaysAccountedFor` alone.
* `SlackIntake`: one process in the suite; a replaced runtime's listener beside its
  successor's is in the module (`Processes`), and breaks the order.
* `QuotaWarnings`: one window; `Curation`: one pool. The scores and texts that the
  model produces are choices.
* Hazards that no property covers: the shared checkout after `/stop`
  (`core.py:3125`); a nested `file_transaction` on one path, or two paths taken in
  opposite orders (`state.py:92`; the code takes cron, epoch, queue and epoch,
  notifications, which no module checks over all call paths); an event that kills
  the process each time (`inbox.py:83`); inbox writes of a replaced daemon
  (`inbox.py:70`).

## 8. Plan

The modules planned at first are written. What is left, in order of importance:

1. `StatesAreTyped` of `MCService` as a theorem.
2. `StateLocks`: the order in which locks are taken over all call paths.

## 9. Not modelled

Command parsing, wording of replies, reports, prompts, the parsing of checkers'
output, identity and profile files, skill catalog, CLI and setup: they compute a value
from their input and share no state. Runtime, forge, version control and service
libraries wrap external programs: their effects are steps of the modules that
call them. The conformance suites test contracts and were read as
documentation.

## 10. Running

    tlc -workers 2 -config MCRecovery_all.cfg MCRecovery.tla
    tlapm TaskQueueProofs.tla
