----------------------------- MODULE Publication -----------------------------
(***************************************************************************)
(* How one task turns a request into a review: app/task_workflow.py with   *)
(* its workspace (tasks/worktree.py), doctor repairs, the captured         *)
(* revision, the review of the forge, and what survives a stop, a failure  *)
(* of any of them and the end of the process.                              *)
(* A content of the checkout is a number; a revision is named after the    *)
(* content that it commits, and 0 is the authoritative base.  job is the   *)
(* last task of a chain of manual retries.  Durable: job, copy and forge.  *)
(***************************************************************************)
EXTENDS Naturals

CONSTANTS MaxContents,   \* contents the runtime writes
          MaxAttempts,   \* max_attempts of a task
          RepairLimit,   \* task.validation_repair_attempts
          MaxFaults,     \* failures of the runtime, the repository or the forge
          MaxCrashes, MaxRetries

VARIABLES kind,       \* an edit, or the request to publish an existing branch
          provider,   \* what the review provider and the configuration ask for
          job, copy, forge, run,
          passed,     \* contents that the doctor passed
          written,    \* contents written so far
          budget      \* faults, crashes and manual retries left

vars == <<kind, provider, job, copy, forge, run, passed, written, budget>>

Contents == 0..MaxContents
Status == {"pending", "running", "paused", "completed", "failed", "cancelled", "unproven"}
Stages == {"none", "validated", "captured", "review_published"}
Providers == {"remote", "local", "local_only"}   \* local_only: a review is required
Outcomes == {"completed", "transient", "permanent", "cancelled", "paused"}

\* The points between which the process can end or the owner can act.
Points == {"none", "prepare", "branch", "resume", "workspace", "turn", "repair", "discard",
           "doctor", "validated", "capture", "record", "push", "create", "review",
           "result", "remove", "finish"}

TypeOK ==
    /\ kind \in {"edit", "branch"} /\ provider \in Providers
    /\ job \in [status : Status, attempt : 0..MaxAttempts, stage : Stages, revision : Contents,
                id : BOOLEAN, url : BOOLEAN, published : BOOLEAN, result : BOOLEAN]
    /\ copy \in [registered : BOOLEAN, branch : BOOLEAN, head : Contents, tree : Contents]
    /\ forge \in [pushed : Contents, review : {"none", "open", "closed"}]
    /\ run \in [at : Points, revision : Contents, repairs : 0..RepairLimit, next : Points,
                stopped : {"no", "cancelled", "expired"}, outcome : Outcomes]
    /\ passed \subseteq Contents /\ written \in Contents
    /\ budget \in [faults : 0..MaxFaults, crashes : 0..MaxCrashes, retries : 0..MaxRetries]

NoRun == [at |-> "none", revision |-> 0, repairs |-> 0, next |-> "none",
          stopped |-> "no", outcome |-> "completed"]

Init ==
    /\ kind \in {"edit", "branch"} /\ provider \in Providers
    /\ job = [status |-> "pending", attempt |-> 0, stage |-> "none", revision |-> 0,
              id |-> FALSE, url |-> FALSE, published |-> FALSE, result |-> FALSE]
    /\ written = IF kind = "branch" THEN 1 ELSE 0
    /\ copy = [registered |-> FALSE, branch |-> kind = "branch", head |-> written, tree |-> written]
    /\ forge = [pushed |-> 0, review |-> "none"]
    /\ run = NoRun /\ passed = {}
    /\ budget = [faults |-> MaxFaults, crashes |-> MaxCrashes, retries |-> MaxRetries]

-----------------------------------------------------------------------------
(* Shared conditions and steps.                                            *)

\* The lease: /stop moves the task to history at once.
Owned == job.status = "running"

ConfirmedReview == job.published /\ (job.id \/ job.url)

UnpublishedRevision ==
    job.revision # 0 /\ job.stage \in {"captured", "review_published"} /\ ~ConfirmedReview

RequiresRemoteReview == provider # "local" \/ kind = "branch"

Dirty == copy.tree # copy.head

At(point) == run.at = point

Fault == budget.faults > 0 /\ budget' = [budget EXCEPT !.faults = @ - 1]

Go(point) == run' = [run EXCEPT !.at = point]

Ends(outcome) == run' = [run EXCEPT !.at = "finish", !.outcome = outcome]

\* Publication that began is retried; before that, an unclassified failure is final.
PublicationFails == Ends("transient")

\* A step that first asks the queue for the lease.
IfOwned(step, otherwise) == IF Owned THEN step ELSE Ends(otherwise) /\ UNCHANGED job

\* A registered workspace is used as it is; otherwise the branch is checked out,
\* created at start when it does not exist.
CheckedOut(start) ==
    IF copy.registered THEN copy
    ELSE LET head == IF copy.branch THEN copy.head ELSE start IN
         [registered |-> TRUE, branch |-> TRUE, head |-> head, tree |-> head]

Removed(withBranch) == [copy EXCEPT !.registered = FALSE, !.branch = @ /\ ~withBranch]

-----------------------------------------------------------------------------
(* The worker: from the claim to a validated change.                       *)

Begin ==
    /\ job.status = "pending" /\ At("none")
    /\ job' = [job EXCEPT !.status = "running", !.attempt = @ + 1]
    /\ run' = [NoRun EXCEPT
                 !.at = IF job.result /\ job.url /\ job.published THEN "finish"
                        ELSE IF job.stage \in {"captured", "review_published"} THEN "resume"
                        ELSE IF kind = "branch" THEN "branch" ELSE "prepare"]
    /\ UNCHANGED <<kind, provider, copy, forge, passed, written, budget>>

PrepareTaskWorktree ==
    /\ At("prepare")
    /\ IF Owned THEN /\ copy' = CheckedOut(0)
                     /\ run' = [run EXCEPT !.at = "workspace", !.next = "turn"]
                ELSE Ends("permanent") /\ UNCHANGED copy
    /\ UNCHANGED <<kind, provider, job, forge, passed, written, budget>>

\* record_workspace: refused once the lease is lost.
RecordWorkspace ==
    /\ At("workspace")
    /\ IF Owned THEN Go(run.next) ELSE Ends("permanent")
    /\ UNCHANGED <<kind, provider, job, copy, forge, passed, written, budget>>

\* The turn of the runtime, then the inspection of what it left.
RunWorkTurn ==
    /\ At("turn") /\ run.stopped = "no"
    /\ \E content \in {copy.tree, written + 1} \cap Contents :
         /\ copy' = [copy EXCEPT !.tree = content]
         /\ written' = IF content > written THEN content ELSE written
         /\ Go(IF content = copy.head THEN "discard" ELSE "doctor")
    /\ UNCHANGED <<kind, provider, job, forge, passed, budget>>

\* Nothing changed: the workspace goes, with its branch; a failure is only noted.
DiscardUnchanged ==
    /\ At("discard")
    /\ \/ copy' = Removed(TRUE) /\ UNCHANGED budget
       \/ Fault /\ UNCHANGED copy
    /\ Ends("completed")
    /\ UNCHANGED <<kind, provider, job, forge, passed, written>>

DoctorPasses ==
    /\ At("doctor") /\ run.stopped = "no"
    /\ passed' = passed \cup {copy.tree}
    /\ Go("validated")
    /\ UNCHANGED <<kind, provider, job, copy, forge, written, budget>>

\* The report of the failure is recorded; it is repaired if it can be.
DoctorFails ==
    /\ At("doctor") /\ run.stopped = "no"
    /\ job' = [job EXCEPT !.result = @ \/ Owned]
    /\ \/ /\ run.repairs < RepairLimit
          /\ run' = [run EXCEPT !.at = "repair", !.repairs = @ + 1]
       \/ Ends("permanent")
    /\ UNCHANGED <<kind, provider, copy, forge, passed, written, budget>>

\* A repair may also leave nothing of the change.
Repair ==
    /\ At("repair") /\ run.stopped = "no"
    /\ \E content \in {copy.head, copy.tree, written + 1} \cap Contents :
         /\ copy' = [copy EXCEPT !.tree = content]
         /\ written' = IF content > written THEN content ELSE written
    /\ Go("doctor")
    /\ UNCHANGED <<kind, provider, job, forge, passed, budget>>

RecordValidated ==
    /\ At("validated") /\ run.stopped = "no"
    /\ IF ~Dirty THEN Ends("permanent") /\ UNCHANGED job
       ELSE IfOwned(job' = [job EXCEPT !.stage = "validated"] /\ Go("capture"), "permanent")
    /\ UNCHANGED <<kind, provider, copy, forge, passed, written, budget>>

\* _raise_if_current_task_cancelled and raise_if_stopped.
Interrupted ==
    /\ run.at \in {"turn", "repair", "doctor", "validated"}
    /\ run.stopped # "no"
    /\ Ends("cancelled")
    /\ UNCHANGED <<kind, provider, job, copy, forge, passed, written, budget>>

\* The runtime fails, or is out of quota.
RuntimeFails ==
    /\ At("turn") \/ At("repair")
    /\ Fault
    /\ \/ Ends("permanent")
       \/ (At("turn") /\ Ends("transient"))
       \/ Ends("paused")
    /\ UNCHANGED <<kind, provider, job, copy, forge, passed, written>>

-----------------------------------------------------------------------------
(* publish_feature_pr.                                                     *)

CaptureChange ==
    /\ At("capture") /\ Dirty
    /\ copy' = [copy EXCEPT !.head = copy.tree]
    /\ run' = [run EXCEPT !.at = "record", !.revision = copy.tree]
    /\ UNCHANGED <<kind, provider, job, forge, passed, written, budget>>

CaptureFails ==
    /\ At("prepare") \/ At("branch") \/ At("resume") \/ At("capture")
    /\ Fault
    /\ Ends("permanent") \/ (~At("resume") /\ Ends("transient"))
    /\ UNCHANGED <<kind, provider, job, copy, forge, passed, written>>

\* The checkpoint that a later attempt resumes from.
RecordCaptured ==
    /\ At("record")
    /\ IfOwned(/\ job' = [job EXCEPT !.stage = "captured", !.revision = run.revision,
                                     !.published = @ /\ kind # "branch"]
               /\ Go("push"), "transient")
    /\ UNCHANGED <<kind, provider, copy, forge, passed, written, budget>>

\* The workspace of a revision: one that is registered must be on it.
AtRevision(revision, next) ==
    /\ Owned
    /\ \/ /\ copy.registered => copy.head = revision
          /\ copy' = CheckedOut(revision)
          /\ run' = [run EXCEPT !.at = "workspace", !.next = next, !.revision = revision]
       \/ /\ copy.registered /\ copy.head # revision
          /\ Ends("permanent") /\ UNCHANGED copy

\* publish_existing_branch: the branch has to be clean.
PublishExistingBranch ==
    /\ At("branch")
    /\ \/ AtRevision(copy.head, "record")
       \/ (~Owned /\ Ends("permanent") /\ UNCHANGED copy)
    /\ UNCHANGED <<kind, provider, job, forge, passed, written, budget>>

\* resume_task_publish: the recorded revision, without another turn.
ResumeTaskPublish ==
    /\ At("resume")
    /\ \/ AtRevision(job.revision, IF job.stage = "review_published" /\ job.url
                                   THEN "remove" ELSE "push")
       \/ (~Owned /\ Ends("permanent") /\ UNCHANGED copy)
    /\ UNCHANGED <<kind, provider, job, forge, passed, written, budget>>

\* require_captured_working_copy, then the first half of publish_review.  A local
\* provider pushes nothing.
Push ==
    /\ At("push")
    /\ IF copy.tree # run.revision
       THEN PublicationFails /\ UNCHANGED forge
       ELSE /\ forge' = IF provider = "remote" THEN [forge EXCEPT !.pushed = run.revision] ELSE forge
            /\ Go("create")
    /\ UNCHANGED <<kind, provider, job, copy, passed, written, budget>>

\* create_pull_request: an open review of the branch is used again.
CreateReview ==
    /\ At("create") /\ provider = "remote"
    /\ forge' = [forge EXCEPT !.review = "open"]
    /\ Go("review")
    /\ UNCHANGED <<kind, provider, job, copy, passed, written, budget>>

\* The review of a local provider has an id of its own and no url.
CreateLocally ==
    /\ At("create") /\ provider # "remote"
    /\ IF RequiresRemoteReview THEN Ends("permanent") ELSE Go("review")
    /\ UNCHANGED <<kind, provider, job, copy, forge, passed, written, budget>>

\* Nothing of a review without confirmation is recorded.
PublishFails ==
    /\ At("push") \/ At("create") \/ At("remove")
    /\ Fault
    /\ PublicationFails
    /\ UNCHANGED <<kind, provider, job, copy, forge, passed, written>>

RecordReview ==
    /\ At("review")
    /\ IfOwned(/\ job' = IF provider = "remote"
                         THEN [job EXCEPT !.stage = "review_published", !.id = TRUE,
                                          !.url = TRUE, !.published = TRUE]
                         ELSE [job EXCEPT !.stage = "captured", !.id = TRUE, !.published = FALSE]
               /\ Go(IF provider = "remote" THEN "result" ELSE "remove"), "transient")
    /\ UNCHANGED <<kind, provider, copy, forge, passed, written, budget>>

RecordResult ==
    /\ At("result")
    /\ job' = [job EXCEPT !.result = TRUE]
    /\ Go("remove")
    /\ UNCHANGED <<kind, provider, copy, forge, passed, written, budget>>

\* Fault: the branch goes with the workspace, published or not.
RemoveWorkspace_WithBranch ==
    /\ At("remove")
    /\ copy' = Removed(TRUE)
    /\ Ends(IF run.stopped = "no" THEN "completed" ELSE "cancelled")
    /\ UNCHANGED <<kind, provider, job, forge, passed, written, budget>>

\* The branch goes with it only when a review has its revision.  The stop is
\* looked at after the publication.
RemoveWorkspace ==
    /\ At("remove")
    /\ copy' = Removed(job.url)
    /\ Ends(IF run.stopped = "no" THEN "completed" ELSE "cancelled")
    /\ UNCHANGED <<kind, provider, job, forge, passed, written, budget>>

-----------------------------------------------------------------------------
(* The end of a run, and what comes after it.                              *)

Final ==
    IF run.stopped = "expired" /\ run.outcome # "paused" THEN "failed"
    ELSE CASE run.outcome = "completed" -> "completed"
           [] run.outcome = "cancelled" -> "cancelled"
           [] run.outcome = "paused" -> "paused"
           [] run.outcome = "transient" /\ job.attempt < MaxAttempts -> "pending"
           [] OTHER -> "failed"

\* Only the holder of the lease finalizes.  What a completed task left is removed,
\* unless its checkout has changes.
Finish ==
    /\ At("finish")
    /\ job' = IF Owned THEN [job EXCEPT !.status = Final, !.result = TRUE] ELSE job
    /\ copy' = IF Owned /\ Final = "completed" /\ copy.registered /\ ~Dirty
               THEN Removed(TRUE) ELSE copy
    /\ run' = NoRun
    /\ UNCHANGED <<kind, provider, forge, passed, written, budget>>

Stop ==
    /\ job.status \in {"pending", "running", "paused"}
    /\ job' = [job EXCEPT !.status = "cancelled"]
    /\ run' = IF At("none") THEN run ELSE [run EXCEPT !.stopped = "cancelled"]
    /\ UNCHANGED <<kind, provider, copy, forge, passed, written, budget>>

Expire ==
    /\ run.at \notin {"none", "finish"} /\ run.stopped = "no"
    /\ run' = [run EXCEPT !.stopped = "expired"]
    /\ UNCHANGED <<kind, provider, job, copy, forge, passed, written, budget>>

\* The process ends; the next one reconciles the running task.
Crash ==
    /\ budget.crashes > 0 /\ run.at # "none"
    /\ budget' = [budget EXCEPT !.crashes = @ - 1]
    /\ run' = NoRun
    /\ job' = IF ~Owned THEN job
              ELSE [job EXCEPT !.status =
                      IF ConfirmedReview THEN "completed"
                      ELSE IF job.stage = "review_published" \/ job.id THEN "unproven"
                      ELSE IF job.attempt < MaxAttempts THEN "pending" ELSE "failed"]
    /\ UNCHANGED <<kind, provider, copy, forge, passed, written>>

Resume ==
    /\ job.status = "paused"
    /\ job.attempt < MaxAttempts          \* bound
    /\ job' = [job EXCEPT !.status = "pending"]
    /\ UNCHANGED <<kind, provider, copy, forge, run, passed, written, budget>>

\* retry_failed_task: the copy publishes what was captured, or starts again.
RetryFailedTask ==
    /\ job.status = "failed" \/ (job.status = "completed" /\ UnpublishedRevision)
    /\ At("none") /\ budget.retries > 0
    /\ budget' = [budget EXCEPT !.retries = @ - 1]
    /\ job' = [job EXCEPT !.status = "pending", !.attempt = 0,
                          !.stage = IF UnpublishedRevision THEN "captured" ELSE @,
                          !.id = @ /\ ~UnpublishedRevision,
                          !.published = @ /\ ~UnpublishedRevision]
    /\ UNCHANGED <<kind, provider, copy, forge, run, passed, written>>

\* Another provider takes a restart.
ConfigureRemote ==
    /\ At("none") /\ provider # "remote"
    /\ provider' = "remote"
    /\ UNCHANGED <<kind, job, copy, forge, run, passed, written, budget>>

\* /worktree cleanup and discard: not while the task is active.  Git keeps an
\* unmerged branch unless it is forced.
RemoveManagedTaskWorktree(discard) ==
    /\ copy.registered
    /\ job.status \notin {"pending", "running", "paused"}
    /\ discard \/ ~Dirty
    /\ copy' = Removed(discard \/ copy.head = 0)
    /\ UNCHANGED <<kind, provider, job, forge, run, passed, written, budget>>

CloseReview ==
    /\ forge.review = "open"
    /\ forge' = [forge EXCEPT !.review = "closed"]
    /\ UNCHANGED <<kind, provider, job, copy, run, passed, written, budget>>

Worker ==
    \/ PrepareTaskWorktree \/ RecordWorkspace \/ RunWorkTurn \/ DiscardUnchanged
    \/ DoctorPasses \/ DoctorFails \/ Repair \/ RecordValidated \/ Interrupted
    \/ CaptureChange \/ RecordCaptured \/ PublishExistingBranch \/ ResumeTaskPublish
    \/ Push \/ CreateReview \/ CreateLocally \/ RecordReview \/ RecordResult \/ RemoveWorkspace
    \/ RuntimeFails \/ CaptureFails \/ PublishFails
    \/ Begin \/ Finish

Owner ==
    \/ Stop \/ Resume \/ RetryFailedTask \/ ConfigureRemote \/ CloseReview
    \/ \E discard \in BOOLEAN : RemoveManagedTaskWorktree(discard)

Next == Worker \/ Owner \/ Expire \/ Crash

Spec == Init /\ [][Next]_vars /\ WF_vars(Worker)

-----------------------------------------------------------------------------
(* Properties.                                                             *)

\* What is offered for review was validated as it is: no repair, retry, stop or
\* restart lets a content reach the forge that the doctor did not pass
\* (run_direct_work, publish_feature_pr).  An existing branch is not validated.
ReviewedIsValidated == kind = "edit" => forge.pushed \in passed \cup {0}

\* No silent downgrade: where a remote review is required, a task that captured a
\* change completes only with a confirmed review (review_publication_problem).
CompletedIsReviewed ==
    [][(job'.status = "completed" /\ job.status # "completed"
        /\ job.revision # 0 /\ RequiresRemoteReview) => ConfirmedReview /\ job.url]_vars

OnBranch(revision) == copy.branch /\ copy.head = revision
GivenUp == \E discard \in BOOLEAN : RemoveManagedTaskWorktree(discard)

\* Only the owner throws away a recorded revision that no review has.
RecordedCaptureSurvives ==
    [][(job.revision # 0 /\ OnBranch(job.revision) /\ ~OnBranch(job.revision)')
        => (forge.pushed = job.revision \/ GivenUp)]_vars

\* Once its revision is recorded, a task publishes that revision and no other: the
\* runtime is not asked again and nothing else is committed or pushed, whatever
\* fails or restarts (record_current_publish_stage, resume_task_publish).
PublishesWhatWasRecorded ==
    [][/\ (job.revision # 0 /\ job.stage \in {"captured", "review_published"})
            => (job'.revision = job.revision /\ written' = written)
       /\ forge'.pushed # forge.pushed => job.revision = forge'.pushed]_vars

\* Work comes to an end: with faults and restarts that stop, this does not last, a task
\* that waits or runs settles, is paused, or waits for the operator.
Unsettled == job.status \in {"pending", "running"}
=============================================================================
