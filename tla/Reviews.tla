-------------------------------- MODULE Reviews --------------------------------
(***************************************************************************)
(* Reviews on the forge after publication.  The main thread merges one for *)
(* /pr merge and reconciles lineage adoptions with what has landed         *)
(* (app/core.py, lineage/lifecycle.py); a task thread closes duplicates    *)
(* (run_forge_maintenance); people push, close and merge on the forge in   *)
(* the meantime.  Every request to the forge (libraries/github) can fail   *)
(* before or after it took effect, and the process can end; then the       *)
(* command or the task comes again.                                        *)
(***************************************************************************)
EXTENDS Naturals, FiniteSets

CONSTANTS Reviews,      \* numbers of the reviews
          MaxPushes,    \* bound: pushes to a review
          MaxCommands,  \* bound: /pr merge commands
          MaxFaults     \* bound: failed requests and restarts

VARIABLES reviews,   \* the forge: state, head and whether the head can be merged
          merged,    \* the head that was merged; 0: none
          vetted,    \* ghost: heads that a command found to be mergeable
          command,   \* the command in hand
          adopted,   \* lineage changes, by their review, that are adopted
          request,   \* the maintenance task: the reviews named, and the one to keep
          task,      \* where the task is, and what is left to close
          closed,    \* ghost: reviews that the task closed
          commands, faults

vars == <<reviews, merged, vetted, command, adopted, request, task, closed, commands, faults>>

None == [at |-> "none", review |-> 0, head |-> 0]

Init ==
    /\ reviews = [r \in Reviews |-> [state |-> "open", head |-> 1, ready |-> TRUE, pushes |-> MaxPushes]]
    /\ merged = [r \in Reviews |-> 0] /\ vetted = {}
    /\ command = None /\ adopted = {} /\ closed = {}
    /\ \E named \in {n \in SUBSET Reviews : Cardinality(n) > 1}, keep \in Reviews :
        request = [named |-> named, keep |-> keep]
    /\ task = [at |-> "queued", left |-> {}]
    /\ commands = MaxCommands /\ faults = MaxFaults

Forge == <<reviews, merged>>
Commanding == <<vetted, command, adopted, commands>>
Maintaining == <<request, task, closed>>

Fault == faults > 0 /\ faults' = faults - 1
Go(step) == command' = [command EXCEPT !.at = step]
At(step) == command.at = step
Open(r) == reviews[r].state = "open"
Landed(r) == reviews[r].state = "merged"

-----------------------------------------------------------------------------
(* People on the forge.                                                    *)

Push(r, ready) ==
    /\ Open(r) /\ reviews[r].pushes > 0
    /\ reviews' = [reviews EXCEPT ![r].head = @ + 1, ![r].ready = ready, ![r].pushes = @ - 1]
    /\ UNCHANGED <<merged, Commanding, Maintaining, faults>>

SettleOutside(r, state) ==
    /\ Open(r) /\ reviews[r].pushes > 0
    /\ reviews' = [reviews EXCEPT ![r].state = state, ![r].pushes = 0]
    /\ merged' = IF state = "merged" THEN [merged EXCEPT ![r] = reviews[r].head] ELSE merged
    /\ vetted' = vetted \cup {<<r, reviews[r].head>>}
    /\ UNCHANGED <<command, adopted, commands, Maintaining, faults>>

-----------------------------------------------------------------------------
(* /pr merge.                                                              *)

Command(r) ==
    /\ At("none") /\ commands > 0 /\ commands' = commands - 1
    /\ command' = [None EXCEPT !.at = "inspect", !.review = r]
    /\ UNCHANGED <<Forge, vetted, adopted, Maintaining, faults>>

\* A review that has landed is only reported.
Inspect ==
    /\ At("inspect")
    /\ IF Landed(command.review) THEN Go("reconcile") ELSE Go("status")
    /\ UNCHANGED <<Forge, vetted, adopted, commands, Maintaining, faults>>

\* inspect_pull_request_merge and _require_mergeable_pull_request.
RequireMergeable ==
    LET r == command.review IN
    /\ At("status")
    /\ IF Open(r) /\ reviews[r].ready
       THEN /\ command' = [command EXCEPT !.at = "merge", !.head = reviews[r].head]
            /\ vetted' = vetted \cup {<<r, reviews[r].head>>}
       ELSE Go("refused") /\ UNCHANGED vetted
    /\ UNCHANGED <<Forge, adopted, commands, Maintaining, faults>>

\* The forge merges the head that the request names, if it still is the head.
Accepted == Open(command.review) /\ reviews[command.review].head = command.head

Merging ==
    /\ reviews' = [reviews EXCEPT ![command.review].state = "merged", ![command.review].pushes = 0]
    /\ merged' = [merged EXCEPT ![command.review] = reviews[command.review].head]

\* merge_pull_request: the answer may be lost.
Merge ==
    /\ At("merge")
    /\ \/ Accepted /\ Merging /\ Go("landed") /\ UNCHANGED faults
       \/ Accepted /\ Merging /\ Fault /\ Go("refused")
       \/ ~Accepted /\ Go("refused") /\ UNCHANGED <<Forge, faults>>
    /\ UNCHANGED <<vetted, adopted, commands, Maintaining>>

\* land_review looks again; the result is "landed", or "requested" if it is not yet.
LookAgain ==
    /\ At("landed") /\ Go("reconcile")
    /\ UNCHANGED <<Forge, vetted, adopted, commands, Maintaining, faults>>

RequestFails ==
    /\ command.at \in {"inspect", "status", "landed"} /\ Fault /\ Go("refused")
    /\ UNCHANGED <<Forge, vetted, adopted, commands, Maintaining>>

\* Fault: a review that is not open any more is taken to have landed.
HasLanded_Settled(r) == ~Open(r)

HasLanded(r) == Landed(r)

\* reconcile_lineage_adoptions: of all linked changes, by what the forge says now; a
\* review that cannot be read is passed over.
Reconcile ==
    /\ At("reconcile")
    /\ \/ adopted' = adopted \cup {r \in Reviews : HasLanded(r)} /\ UNCHANGED faults
       \/ Fault /\ \E read \in SUBSET Reviews : adopted' = adopted \cup {r \in read : HasLanded(r)}
    /\ Go("reported")
    /\ UNCHANGED <<Forge, vetted, commands, Maintaining>>

Reply ==
    /\ command.at \in {"refused", "reported"} /\ command' = None
    /\ UNCHANGED <<Forge, vetted, adopted, commands, Maintaining, faults>>

\* /inherit reconciles before it scans.
Inherit ==
    /\ At("none") /\ commands > 0 /\ commands' = commands - 1
    /\ command' = [None EXCEPT !.at = "reconcile"]
    /\ UNCHANGED <<Forge, vetted, adopted, Maintaining, faults>>

-----------------------------------------------------------------------------
(* Maintenance.                                                            *)

\* forge_maintenance_request: a kept review must be one of those named.
Selected == IF request.keep \in request.named THEN request.named \ {request.keep} ELSE {}

Begin ==
    /\ task.at = "queued"
    /\ task' = IF Selected = {} THEN [at |-> "ordinary", left |-> {}] ELSE [at |-> "closing", left |-> Selected]
    /\ UNCHANGED <<Forge, Commanding, request, closed, faults>>

\* close_pull_request; a failure is noted and the next one is closed.
Close(r) ==
    /\ task.at = "closing" /\ r \in task.left /\ \A s \in task.left : r <= s
    /\ task' = [task EXCEPT !.left = @ \ {r}]
    /\ \/ Open(r) /\ reviews' = [reviews EXCEPT ![r].state = "closed", ![r].pushes = 0] /\ UNCHANGED faults
       \/ ~Open(r) /\ UNCHANGED <<reviews, faults>>
       \/ Fault /\ UNCHANGED reviews
    /\ closed' = IF reviews' = reviews THEN closed ELSE closed \cup {r}
    /\ UNCHANGED <<merged, Commanding, request>>

\* The task is complete, whichever reviews could not be closed.
Complete ==
    /\ task.at = "closing" /\ task.left = {} /\ task' = [task EXCEPT !.at = "completed"]
    /\ UNCHANGED <<Forge, Commanding, request, closed, faults>>

\* The process ends: the event and the task come again.
Restart ==
    /\ Fault
    /\ command' = IF At("none") \/ command.review = 0 THEN None ELSE [None EXCEPT !.at = "inspect", !.review = command.review]
    /\ task' = IF task.at = "closing" THEN [at |-> "queued", left |-> {}] ELSE task
    /\ UNCHANGED <<Forge, vetted, adopted, commands, request, closed>>

-----------------------------------------------------------------------------

MainThread == Inspect \/ RequireMergeable \/ Merge \/ LookAgain \/ RequestFails \/ Reconcile \/ Reply

Next ==
    \/ MainThread \/ Inherit \/ Begin \/ Complete \/ Restart
    \/ \E r \in Reviews :
        \/ \E ready \in BOOLEAN : Push(r, ready)
        \/ \E state \in {"merged", "closed"} : SettleOutside(r, state)
        \/ Command(r) \/ Close(r)

Spec == Init /\ [][Next]_vars

TypeOK ==
    /\ \A r \in Reviews : reviews[r].state \in {"open", "merged", "closed"}
    /\ adopted \subseteq Reviews /\ closed \subseteq Reviews /\ task.left \subseteq Reviews

\* What is merged is a head that was found mergeable, whatever is pushed between the
\* inspection and the merge (the sha of merge_pull_request).
MergedAsInspected == \A r \in Reviews : merged[r] > 0 => <<r, merged[r]>> \in vetted

\* A change of the parent is adopted only if its review has landed, and a merge is
\* reported only if it happened, over lost answers and commands that come again.
AdoptedWorkHasLanded ==
    /\ \A r \in adopted : Landed(r)
    /\ At("reported") /\ command.review > 0 => Landed(command.review)

\* Closing duplicates never closes the review to keep, also when it runs again.
KeptReviewStays == request.keep \notin closed
=============================================================================
