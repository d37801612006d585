------------------------------- MODULE Lineage -------------------------------
(***************************************************************************)
(* Changes of the parent agent: lineage/core.py (scan and inbox),          *)
(* lineage/assessment_queue.py and assessment.py (the judgement of each    *)
(* change by a worker), lineage/lifecycle.py (adoption), and the /inherit  *)
(* commands of app/core.py, run by daemons of which a replaced one may     *)
(* still be at work.  A change is the number of its commit on the parent's *)
(* branch; a pull request of two commits is known by its merge commit.     *)
(* Durable: inbox, queue, tasks.                                           *)
(***************************************************************************)
EXTENDS Naturals, Sequences, FiniteSets

CONSTANTS MaxChanges,   \* commits of the parent after birth
          MaxOverlap,   \* commits when a replaced daemon goes on
          ScanLimit,    \* lineage.scan_limit
          MaxDaemons,   \* generations of the daemon
          MaxEvents,    \* /inherit <change> commands
          MaxFaults     \* failures of the forge, the runtime, the storage, or daemons that end

VARIABLES parent,    \* its newest commit and the merge commits of its pull requests
          inbox,     \* the scan cursor and a candidate per change
          queue,     \* the current assessment job
          tasks,     \* adaptation tasks, in the order of their ids
          epoch,     \* the generation of the current daemon
          handler,   \* the command that each daemon handles
          worker,    \* the assessment worker of each daemon
          again,     \* commands whose event is delivered again
          events, faults,
          overlapped \* history: a replaced daemon went on with what it did

vars == <<parent, inbox, queue, tasks, epoch, handler, worker, again, events, faults, overlapped>>

Changes == 1..MaxChanges
Daemons == 1..MaxDaemons
Statuses == <<"unknown", "pending", "ignored", "linked", "adopted">>

Unseen == [status |-> "unknown", diff |-> FALSE, judged |-> "pending", seen |-> FALSE, task |-> 0]
Candidate == [status : {Statuses[i] : i \in DOMAIN Statuses}, diff : BOOLEAN,
              judged : {"pending", "failed", "assessed"},
              seen : BOOLEAN,      \* the diff that the judgement was made from
              task : 0..MaxEvents]
Inbox == [cursor : 0..MaxChanges, candidates : [Changes -> Candidate]]

NoJob == [status |-> "none", owner |-> 0, changes |-> {}]
Idle == [at |-> "none", change |-> 0, event |-> 0, latest |-> 0,
         copy |-> [cursor |-> 0, candidates |-> [c \in Changes |-> Unseen]]]
NoWorker == [at |-> "none", todo |-> {}, diffs |-> {}, change |-> 0, judged |-> "pending"]

TypeOK ==
    /\ parent \in [head : 0..MaxChanges, merges : SUBSET Changes]
    /\ inbox \in Inbox
    /\ queue \in [status : {"none", "pending", "running"}, owner : 0..MaxDaemons, changes : SUBSET Changes]
    /\ tasks \in Seq([change : Changes, event : 1..MaxEvents,
                      status : {"active", "cancelled", "landed"}])
    /\ epoch \in Daemons /\ events \in 0..MaxEvents /\ faults \in 0..MaxFaults
    /\ handler \in [Daemons -> [at : {"none", "command", "scan", "merge", "save", "enqueue", "link", "turn"},
                                change : 0..MaxChanges, event : 0..MaxEvents, latest : 0..MaxChanges,
                                copy : Inbox]]
    /\ worker \in [Daemons -> [at : {"none", "batch", "answer", "update", "finish", "failed"},
                               todo : SUBSET Changes, diffs : SUBSET Changes, change : 0..MaxChanges,
                               judged : {"pending", "failed", "assessed"}]]
    /\ again \subseteq Changes \X (1..MaxEvents) /\ overlapped \in BOOLEAN

Init ==
    /\ parent = [head |-> 0, merges |-> {}]
    /\ inbox = [cursor |-> 0, candidates |-> [c \in Changes |-> Unseen]]
    /\ queue = NoJob /\ tasks = <<>> /\ epoch = 1
    /\ handler = [d \in Daemons |-> Idle] /\ worker = [d \in Daemons |-> NoWorker]
    /\ again = {} /\ events = 0 /\ faults = MaxFaults /\ overlapped = FALSE

-----------------------------------------------------------------------------
(* Helpers.                                                                *)

Known(candidates, c) == candidates[c].status # "unknown"

Pending(candidates) == {c \in Changes : candidates[c].status = "pending"}

\* lineage_assessment_candidates.
ToAssess(candidates) == {c \in Pending(candidates) : candidates[c].judged # "assessed"}

\* _remote_pr_commits.
CommitsOf(merge) == IF merge \in parent.merges THEN {merge - 1, merge} ELSE {merge}

\* _commits_after_cursor: the cursor is found among the newest commits, or an error.
CursorFound(cursor) == cursor + ScanLimit > parent.head
CommitsAfter(cursor) == {c \in Changes : cursor < c /\ c <= parent.head}

\* A pull request stands for its commits.
ChangesAfter(cursor) ==
    LET new == CommitsAfter(cursor)
        merged == UNION {CommitsOf(m) : m \in new \cap parent.merges}
    IN  (new \cap parent.merges) \cup (new \ merged)

\* Fault: what is seen again is pending again.
Merged_Reset(candidate, diff) ==
    LET full == candidate.diff \/ diff IN
    [candidate EXCEPT !.status = "pending", !.diff = full,
        !.judged = IF @ = "assessed" /\ full = candidate.diff THEN "assessed" ELSE "pending"]

\* _merge_candidate_metadata: a diff that was read is kept; another digest voids
\* the judgement, a failed one is forgotten.
Merged(candidate, diff) ==
    LET full == candidate.diff \/ diff IN
    [candidate EXCEPT
        !.status = IF @ = "unknown" THEN "pending" ELSE @,
        !.diff = full,
        !.judged = IF @ = "assessed" /\ full = candidate.diff THEN "assessed" ELSE "pending"]

\* _retry_candidate_diff.
Retried(candidate) == [candidate EXCEPT !.diff = TRUE, !.judged = "pending"]

Set(c, field, value) == inbox' = [inbox EXCEPT !.candidates[c][field] = value]

\* After a command the main loop goes on; a replaced daemon ends with this turn.
Done(d) == IF d = epoch THEN Idle ELSE [Idle EXCEPT !.at = "turn"]

Handle(d, next) == handler' = [handler EXCEPT ![d] = next]
Work(d, next) == worker' = [worker EXCEPT ![d] = next]

Fault == faults > 0 /\ faults' = faults - 1

\* A completed task of the change, or the linked one, whose review landed.
Landed(c) ==
    \E t \in DOMAIN tasks :
        /\ tasks[t].change = c \/ t = inbox.candidates[c].task
        /\ tasks[t].status = "landed"

-----------------------------------------------------------------------------
(* The parent, and the tasks.                                              *)

Land(pullRequest) ==
    LET head == parent.head + (IF pullRequest THEN 2 ELSE 1) IN
    /\ head <= IF overlapped THEN MaxOverlap ELSE MaxChanges
    /\ parent' = [head |-> head,
                  merges |-> IF pullRequest THEN parent.merges \cup {head} ELSE parent.merges]
    /\ UNCHANGED <<inbox, queue, tasks, epoch, handler, worker, again, events, faults, overlapped>>

\* A task, or a retry of it, completes and its review lands.
TaskLands(t) ==
    /\ tasks[t].status = "active"
    /\ tasks' = [tasks EXCEPT ![t].status = "landed"]
    /\ UNCHANGED <<parent, inbox, queue, epoch, handler, worker, again, events, faults, overlapped>>

-----------------------------------------------------------------------------
(* /inherit.  A daemon handles one command at a time.                      *)

\* reconcile_lineage_adoptions, before the command; a review may be unreadable.
Reconcile(readable) ==
    inbox' = [inbox EXCEPT !.candidates = [c \in Changes |->
                 IF @[c].status = "linked" /\ c \in readable /\ Landed(c)
                 THEN [@[c] EXCEPT !.status = "adopted"] ELSE @[c]]]

\* The event of a command that did not end comes again before any later one.
InheritCommand(d) ==
    /\ d = epoch /\ handler[d].at = "none"
    /\ \E readable \in {{}, Changes} : Reconcile(readable)
    /\ \/ again = {} /\ Handle(d, [Idle EXCEPT !.at = "scan"]) /\ UNCHANGED <<events, again>>
       \/ \E c \in Changes :
            /\ again = {}
            /\ events < MaxEvents /\ Known(inbox.candidates, c)
            /\ Handle(d, [Idle EXCEPT !.at = "command", !.change = c, !.event = events + 1])
            /\ events' = events + 1 /\ UNCHANGED again
       \/ \E e \in again :
            /\ Handle(d, [Idle EXCEPT !.at = "command", !.change = e[1], !.event = e[2]])
            /\ again' = again \ {e} /\ UNCHANGED events
    /\ UNCHANGED <<parent, queue, tasks, epoch, worker, faults, overlapped>>

\* Refused while an assessment is queued; else the inbox is read, and the newest commit.
ScanStarts(d) ==
    /\ handler[d].at = "scan"
    /\ Handle(d, IF queue.status # "none" THEN Done(d)
                 ELSE [handler[d] EXCEPT !.at = "merge", !.latest = parent.head, !.copy = inbox])
    /\ UNCHANGED <<parent, inbox, queue, tasks, epoch, worker, again, events, faults, overlapped>>

\* Fault: the cursor is advanced in spite of an error.
ScanMerges_Anyway(d) ==
    LET h == handler[d] IN
    /\ h.at = "merge"
    /\ Fault
    /\ Handle(d, [h EXCEPT !.at = "save", !.copy.cursor = h.latest])
    /\ UNCHANGED <<parent, inbox, queue, tasks, epoch, worker, again, events, overlapped>>

\* The commits, reviews, files and diffs are read over the network into the copy.
\* An error leaves the cursor and keeps what was merged before it.
ScanMerges(d) ==
    LET h == handler[d]
        new == IF h.copy.cursor = h.latest \/ ~CursorFound(h.copy.cursor) THEN {}
               ELSE ChangesAfter(h.copy.cursor)
        Candidates(read, diffs, retried) ==
            [c \in Changes |->
               IF c \in retried /\ h.copy.candidates[c].status = "pending" /\ ~h.copy.candidates[c].diff
               THEN Retried(h.copy.candidates[c])
               ELSE IF c \in read THEN Merged(h.copy.candidates[c], c \in diffs)
               ELSE h.copy.candidates[c]]
    IN
    /\ h.at = "merge"
    /\ \/ /\ h.copy.cursor = h.latest \/ CursorFound(h.copy.cursor)
          /\ \E diffs \in SUBSET new, retried \in {{}, Changes} :
               Handle(d, [h EXCEPT !.at = "save", !.copy.cursor = h.latest,
                                   !.copy.candidates = Candidates(new, diffs, retried)])
          /\ UNCHANGED faults
       \/ /\ h.copy.cursor # h.latest /\ ~CursorFound(h.copy.cursor)
          /\ Handle(d, [h EXCEPT !.at = "save"]) /\ UNCHANGED faults
       \/ /\ Fault
          /\ \E read \in SUBSET new :
               Handle(d, [h EXCEPT !.at = "save", !.copy.candidates = Candidates(read, read, {})])
    /\ UNCHANGED <<parent, inbox, queue, tasks, epoch, worker, again, events, overlapped>>

\* _save_inbox_payload: the whole inbox, as the scan knows it.
ScanSaves(d) ==
    /\ handler[d].at = "save"
    /\ inbox' = handler[d].copy
    /\ Handle(d, [Idle EXCEPT !.at = "enqueue"])
    /\ UNCHANGED <<parent, queue, tasks, epoch, worker, again, events, faults, overlapped>>

EnqueueAssessment(d) ==
    LET changes == ToAssess(inbox.candidates) IN
    /\ handler[d].at = "enqueue"
    /\ queue' = IF changes # {} /\ queue.status = "none"
                THEN [status |-> "pending", owner |-> 0, changes |-> changes] ELSE queue
    /\ Handle(d, Done(d))
    /\ UNCHANGED <<parent, inbox, tasks, epoch, worker, again, events, faults, overlapped>>

\* /inherit ignore: of a pending change only.
IgnoreCandidate(d, c) ==
    /\ d = epoch /\ handler[d].at = "none" /\ again = {}
    /\ c \in Pending(inbox.candidates)
    /\ Set(c, "status", "ignored")
    /\ UNCHANGED <<parent, queue, tasks, epoch, handler, worker, again, events, faults, overlapped>>

TaskOf(event) == CHOOSE t \in DOMAIN tasks : tasks[t].event = event

Assigned(event) == \E t \in DOMAIN tasks : tasks[t].event = event

\* _adopt_lineage_candidate: a judged change gets a task; an event that comes again
\* finds the task it has.
Adopt(d) ==
    LET h == handler[d]  known == inbox.candidates[h.change] IN
    /\ h.at = "command"
    /\ IF known.status \in {"pending", "ignored"} /\ known.judged = "assessed"
       THEN /\ tasks' = IF Assigned(h.event) THEN tasks
                        ELSE Append(tasks, [change |-> h.change, event |-> h.event, status |-> "active"])
            /\ Handle(d, [h EXCEPT !.at = "link"])
       ELSE Handle(d, Done(d)) /\ UNCHANGED tasks
    /\ UNCHANGED <<parent, inbox, queue, epoch, worker, again, events, faults, overlapped>>

\* link_inbox_candidate, a transaction of its own; the task of a change that is
\* gone is cancelled.
Link(d) ==
    LET h == handler[d] IN
    /\ h.at = "link"
    /\ IF Known(inbox.candidates, h.change)
       THEN /\ inbox' = [inbox EXCEPT !.candidates[h.change].status = "linked",
                                      !.candidates[h.change].task = TaskOf(h.event)]
            /\ UNCHANGED tasks
       ELSE /\ tasks' = [tasks EXCEPT ![TaskOf(h.event)].status =
                            IF @ = "active" THEN "cancelled" ELSE @]
            /\ UNCHANGED inbox
    /\ Handle(d, Done(d))
    /\ UNCHANGED <<parent, queue, epoch, worker, again, events, faults, overlapped>>

-----------------------------------------------------------------------------
(* The assessment worker.                                                  *)

\* claim_lineage_assessment by the main loop: a job of another daemon is taken over.
\* A replaced daemon can still do it at the end of its turn.
Claim(d) ==
    /\ d = epoch \/ handler[d].at = "turn"
    /\ worker[d].at = "none" /\ queue.status # "none"
    /\ ~(queue.status = "running" /\ queue.owner = d)
    /\ queue' = [queue EXCEPT !.status = "running", !.owner = d]
    /\ LET todo == ToAssess(inbox.candidates) \cap queue.changes IN
       Work(d, [NoWorker EXCEPT !.at = "batch", !.todo = todo,
                                !.diffs = {c \in todo : inbox.candidates[c].diff}])
    /\ handler' = [handler EXCEPT ![d].at = IF @ = "turn" THEN "none" ELSE @]
    /\ UNCHANGED <<parent, inbox, tasks, epoch, again, events, faults, overlapped>>

\* The next batch (of one), guarded by the epoch.
WorkerAsks(d) ==
    LET w == worker[d] IN
    /\ w.at = "batch"
    /\ IF d # epoch THEN Work(d, NoWorker)
       ELSE IF w.todo = {} THEN Work(d, [w EXCEPT !.at = "finish"])
       ELSE \E c \in w.todo : Work(d, [w EXCEPT !.at = "answer", !.change = c, !.todo = @ \ {c}])
    /\ UNCHANGED <<parent, inbox, queue, tasks, epoch, handler, again, events, faults, overlapped>>

\* The answer of the runtime is judged, or the change is marked failed.
WorkerJudges(d) ==
    LET w == worker[d] IN
    /\ w.at = "answer"
    /\ IF d # epoch THEN Work(d, NoWorker) /\ UNCHANGED faults
       ELSE \/ Work(d, [w EXCEPT !.at = "update", !.judged = "assessed"]) /\ UNCHANGED faults
            \/ Work(d, [w EXCEPT !.at = "update", !.judged = "failed"]) /\ Fault
    /\ UNCHANGED <<parent, inbox, queue, tasks, epoch, handler, again, events, overlapped>>

\* update_inbox_candidate, a transaction that the epoch does not fence.
WorkerUpdates(d) ==
    LET w == worker[d]  c == w.change IN
    /\ w.at = "update"
    /\ IF Known(inbox.candidates, c)
       THEN /\ inbox' = [inbox EXCEPT !.candidates[c].judged = w.judged,
                                      !.candidates[c].seen = c \in w.diffs]
            /\ Work(d, [w EXCEPT !.at = "batch"])
       ELSE Work(d, [w EXCEPT !.at = "failed"]) /\ UNCHANGED inbox
    /\ UNCHANGED <<parent, queue, tasks, epoch, handler, again, events, faults, overlapped>>

\* complete and fail_lineage_assessment: of the daemon's own claim only.
WorkerFinishes(d) ==
    /\ worker[d].at \in {"finish", "failed"}
    /\ queue' = IF queue.owner = d /\ (worker[d].at = "failed" \/ d = epoch) THEN NoJob ELSE queue
    /\ Work(d, NoWorker)
    /\ UNCHANGED <<parent, inbox, tasks, epoch, handler, again, events, faults, overlapped>>

\* Anything else that the worker raises; recording the failure may fail too.
WorkerRaises(d) ==
    /\ worker[d].at \in {"batch", "answer", "finish"}
    /\ Fault
    /\ Work(d, NoWorker) \/ Work(d, [worker[d] EXCEPT !.at = "failed"])
    /\ UNCHANGED <<parent, inbox, queue, tasks, epoch, handler, again, events, overlapped>>

-----------------------------------------------------------------------------
(* A daemon ends, or is replaced while it goes on with its command and its *)
(* worker, until it sees the new epoch.                                    *)

Busy(d) == handler[d].at # "none" \/ worker[d].at # "none"

NewDaemon(survives) ==
    /\ epoch < MaxDaemons /\ Fault
    /\ survives => Busy(epoch) /\ parent.head <= MaxOverlap
    /\ epoch' = epoch + 1
    /\ overlapped' = (overlapped \/ survives)
    /\ again' = again \cup (IF handler[epoch].event = 0 THEN {}
                            ELSE {<<handler[epoch].change, handler[epoch].event>>})
    /\ handler' = IF survives THEN [handler EXCEPT ![epoch].at = IF @ = "none" THEN "turn" ELSE @]
                  ELSE [handler EXCEPT ![epoch] = Idle]
    /\ worker' = IF survives THEN worker ELSE [worker EXCEPT ![epoch] = NoWorker]
    /\ UNCHANGED <<parent, inbox, queue, tasks, events>>

ReplacedEnds(d) ==
    /\ d < epoch /\ Busy(d)
    /\ Handle(d, Idle) /\ Work(d, NoWorker)
    /\ UNCHANGED <<parent, inbox, queue, tasks, epoch, again, events, faults, overlapped>>

HandlerStep(d) == ScanStarts(d) \/ ScanMerges(d) \/ ScanSaves(d) \/ EnqueueAssessment(d) \/ Adopt(d) \/ Link(d)

WorkerStep(d) == WorkerAsks(d) \/ WorkerJudges(d) \/ WorkerUpdates(d) \/ WorkerFinishes(d) \/ WorkerRaises(d)

Environment ==
    \/ \E pullRequest \in BOOLEAN : Land(pullRequest)
    \/ \E t \in DOMAIN tasks : TaskLands(t)
    \/ \E survives \in BOOLEAN : NewDaemon(survives)
    \/ \E d \in Daemons : ReplacedEnds(d) \/ InheritCommand(d) \/ \E c \in Changes : IgnoreCandidate(d, c)

Next == (\E d \in Daemons : HandlerStep(d) \/ Claim(d) \/ WorkerStep(d)) \/ Environment

Spec == Init /\ [][Next]_vars

-----------------------------------------------------------------------------
(* Properties.                                                             *)

\* The cursor never passes a change that the inbox lacks, by itself or in its pull
\* request: errors in the middle of a scan, the scan limit, commits that land
\* during it and a replaced daemon's older copy lose none (refresh_lineage_inbox).
NothingIsPassedOver ==
    \A c \in 1..inbox.cursor :
        \E m \in Changes : c \in CommitsOf(m) /\ Known(inbox.candidates, m)

Rank(status) == CHOOSE i \in DOMAIN Statuses : Statuses[i] = status

\* What the owner decided on a change is not undone by the scan or the worker; only
\* the scan of a replaced daemon, which saves the inbox it once read, can.
DecisionsStand ==
    [][\A c \in Changes : Rank(inbox'.candidates[c].status) >= Rank(inbox.candidates[c].status)
                          \/ overlapped]_vars

\* A change has one adaptation task, however often its event comes and wherever
\* between creating and linking the task the daemon ends; a daemon that was replaced
\* may undo the link and open the change for another task (_adopt_lineage_candidate).
OneTaskPerChange ==
    overlapped \/ \A c \in Changes : Cardinality({t \in DOMAIN tasks : tasks[t].change = c}) <= 1

\* A judgement was made from the content that the inbox shows, and is void when a
\* missing diff arrives; a replaced daemon is not held to it.
JudgedAsShown ==
    overlapped \/ \A c \in Changes : LET known == inbox.candidates[c] IN
                                     known.judged = "assessed" => known.seen = known.diff
=============================================================================
