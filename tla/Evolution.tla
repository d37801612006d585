------------------------------ MODULE Evolution ------------------------------
(***************************************************************************)
(* Evolution: evidence scans of chat turns and task events                 *)
(* (evolution/evidence.py), candidates and the schedule (core.py),         *)
(* proposals in the event log (events.py), and the handlers of app/core.py *)
(* that run them one after the other in the main thread.  The process may  *)
(* end between any two writes; task events arrive from the task threads.   *)
(* Durable: latest, seen, evidence, candidates, proposals, tasks, state.   *)
(***************************************************************************)
EXTENDS Naturals, Sequences, FiniteSets

CONSTANTS Turns,         \* inputs of source "feedback": chat turns
          Tasks,         \* inputs of source "experience": tasks and their events
          BatchSize,     \* inputs that a scan takes, and waits for
          Observations,  \* what the runtime can find in a batch
          Titles,        \* what it can call a candidate
          MaxEvents,     \* bound: chat turns and task events
          MaxProposals,  \* bound: proposals
          MaxApprovals,  \* bound: /evolve approve commands
          MaxClaims,     \* bound: due times of the schedule
          MaxSettings,   \* bound: changes of the mode
          MaxFaults      \* bound: failures of the runtime or the storage, and restarts

VARIABLES latest,     \* newest version of each input; 0: none
          seen,       \* its version in the completed scans
          studied,    \* ghost: the version that the runtime was shown in them
          evidence,   \* evidence.jsonl: each signal and the candidates it is linked to
          candidates, \* the status of each candidate
          proposals,  \* the "proposed" events: candidate, and whether it is open
          tasks,      \* evolve tasks: candidate and the event that asked for it
          state,      \* mode, whether the schedule is due, its claim, the brainstorm claim
          job,        \* what the main thread does
          again,      \* approvals whose event is delivered again
          approvals, faults

vars == <<latest, seen, studied, evidence, candidates, proposals, tasks, state, job, again, approvals, faults>>

Inputs == Turns \cup Tasks
Source(input) == IF input \in Turns THEN "feedback" ELSE "experience"

\* A signal is known by its source, refs and observation; a candidate by its source,
\* evidence and title.
Signals == [from : ((SUBSET Turns) \cup (SUBSET Tasks)) \ {{}}, observation : Observations]
SourceOf(signal) == Source(CHOOSE i \in signal.from : TRUE)
IsCandidate(c) == c.source \in {"feedback", "experience", "brainstorming"} /\ c.evidence \subseteq Signals

NoJob == [at |-> "none", trigger |-> "none", source |-> "feedback", read |-> {},
          version |-> [i \in Inputs |-> 0], found |-> {}, drafts |-> {}, top |-> {}, event |-> 0, claim |-> 0]

Init ==
    /\ latest = [i \in Inputs |-> 0] /\ seen = latest /\ studied = latest
    /\ evidence = <<>> /\ candidates = <<>> /\ proposals = <<>> /\ tasks = <<>>
    /\ state = [mode |-> "co-evolve", due |-> FALSE, claim |-> 0, claims |-> 0, settings |-> 0, cooled |-> FALSE]
    /\ job = NoJob /\ again = {} /\ approvals = 0 /\ faults = MaxFaults

-----------------------------------------------------------------------------
(* Helpers.                                                                *)

With(f, x, value) == [y \in DOMAIN f \cup {x} |-> IF y = x THEN value ELSE f[y]]

Pending(source) == {i \in Inputs : Source(i) = source /\ latest[i] # seen[i]}

Unlinked == {s \in DOMAIN evidence : evidence[s] = {}}

Actionable == {c \in DOMAIN candidates : candidates[c] = "candidate"}

Open == {p \in DOMAIN proposals : proposals[p].open}

Cited(s) == {c \in DOMAIN candidates : s \in c.evidence}

\* link_evidence.
Linked(signals, c) ==
    [s \in DOMAIN evidence |-> IF s \in signals THEN evidence[s] \cup {c} ELSE evidence[s]]

Idle == job.at = "none"
At(step) == job.at = step
Go(step) == job' = [job EXCEPT !.at = step]
Then(step) == job' = [NoJob EXCEPT !.at = step, !.trigger = job.trigger, !.claim = job.claim]
End == job' = NoJob

Forced == job.trigger # "threshold"

\* _scan_evidence_sources: feedback, then experience; a proposal goes on with synthesis.
NextSource ==
    IF job.source = "feedback"
    THEN job' = [NoJob EXCEPT !.at = "read", !.trigger = job.trigger, !.claim = job.claim, !.source = "experience"]
    ELSE IF Forced THEN Then("synthesize") ELSE End

Fault == faults > 0 /\ faults' = faults - 1

Durable == <<seen, studied, evidence, candidates, proposals, tasks, state>>
Rest == <<again, approvals>>

-----------------------------------------------------------------------------
(* Inputs.                                                                 *)

Total == Cardinality({p \in Inputs \X (1..MaxEvents) : p[2] <= latest[p[1]]})

\* A chat turn is logged by the main thread itself.
Turn(i) ==
    /\ Idle /\ latest[i] = 0 /\ Total < MaxEvents
    /\ latest' = [latest EXCEPT ![i] = 1]
    /\ UNCHANGED <<Durable, job, Rest, faults>>

\* Task events come from the task threads, which a scan at the threshold waits for.
TaskEvent(i) ==
    /\ Total < MaxEvents /\ (Idle \/ Forced)
    /\ latest' = [latest EXCEPT ![i] = @ + 1]
    /\ UNCHANGED <<Durable, job, Rest, faults>>

-----------------------------------------------------------------------------
(* Evidence scans.                                                         *)

\* _run_due_evidence_scans.
DueScan ==
    /\ Idle /\ state.mode # "disabled"
    /\ \E source \in {"feedback", "experience"} : Cardinality(Pending(source)) >= BatchSize
    /\ job' = [NoJob EXCEPT !.at = "read", !.trigger = "threshold"]
    /\ UNCHANGED <<latest, Durable, Rest, faults>>

\* _scan_feedback, _scan_experience: the inputs of no completed scan, as they are now.
Read ==
    LET pending == Pending(job.source) IN
    /\ At("read")
    /\ IF pending = {} \/ (Cardinality(pending) < BatchSize /\ ~Forced)
       THEN NextSource
       ELSE \E batch \in SUBSET pending :
              /\ Cardinality(batch) = IF Cardinality(pending) < BatchSize THEN Cardinality(pending) ELSE BatchSize
              /\ job' = [job EXCEPT !.at = "generate", !.read = batch, !.version = latest]
    /\ UNCHANGED <<latest, Durable, Rest, faults>>

\* The runtime answers with the signals it finds, or fails: a failed scan is recorded,
\* which leaves its inputs pending.
Generate ==
    /\ At("generate")
    /\ \/ /\ \E found \in SUBSET [from : (SUBSET job.read) \ {{}}, observation : Observations] :
               /\ Cardinality(found) <= 1
               /\ job' = [job EXCEPT !.at = "append", !.found = found]
          /\ UNCHANGED faults
       \/ NextSource /\ Fault
    /\ UNCHANGED <<latest, Durable, Rest>>

\* Signals that are not known yet are appended before the scan is recorded.
AppendSignals ==
    /\ At("append")
    /\ \/ /\ evidence' = [s \in DOMAIN evidence \cup job.found |->
                             IF s \in DOMAIN evidence THEN evidence[s] ELSE {}]
          /\ Go("record") /\ UNCHANGED faults
       \/ NextSource /\ Fault /\ UNCHANGED evidence
    /\ UNCHANGED <<latest, seen, studied, candidates, proposals, tasks, state, Rest>>

\* Fault: a scan covers its inputs as they are when it is recorded.
RecordScan_Now ==
    /\ At("record")
    /\ seen' = [i \in Inputs |-> IF i \in job.read THEN latest[i] ELSE seen[i]]
    /\ studied' = [i \in Inputs |-> IF i \in job.read THEN job.version[i] ELSE studied[i]]
    /\ IF Forced /\ {i \in Inputs : Source(i) = job.source /\ job.version[i] # seen[i]} # job.read
       THEN Go("read") ELSE NextSource
    /\ UNCHANGED <<latest, evidence, candidates, proposals, tasks, state, Rest, faults>>

\* The completed scan covers its inputs as they were read; a forced one goes on with
\* what was pending besides.
RecordScan ==
    /\ At("record")
    /\ \/ /\ seen' = [i \in Inputs |-> IF i \in job.read THEN job.version[i] ELSE seen[i]]
          /\ studied' = [i \in Inputs |-> IF i \in job.read THEN job.version[i] ELSE studied[i]]
          /\ IF Forced /\ {i \in Inputs : Source(i) = job.source /\ job.version[i] # seen[i]} # job.read
             THEN Go("read") ELSE NextSource
          /\ UNCHANGED faults
       \/ NextSource /\ Fault /\ UNCHANGED <<seen, studied>>
    /\ UNCHANGED <<latest, evidence, candidates, proposals, tasks, state, Rest>>

-----------------------------------------------------------------------------
(* Synthesis of candidates from evidence that is linked to none.           *)

\* A draft cites evidence of one source.
Drafts == {d \in [source : {"feedback", "experience"}, evidence : (SUBSET Unlinked) \ {{}}, title : Titles] :
              \A s \in d.evidence : SourceOf(s) = d.source}

\* One that is a candidate already is linked at once; others are written first.
Synthesize ==
    /\ At("synthesize")
    /\ \/ /\ state.mode # "disabled"
          /\ \E d \in Drafts :
               IF d \in DOMAIN candidates
               THEN evidence' = Linked(d.evidence, d) /\ Then("brainstorm")
               ELSE /\ job' = [job EXCEPT !.at = "write", !.drafts = {d}]
                    /\ UNCHANGED evidence
       \/ Then("brainstorm") /\ UNCHANGED evidence
    /\ UNCHANGED <<latest, seen, studied, candidates, proposals, tasks, state, Rest, faults>>

\* An error of the storage is reported with the proposal, which goes on.
WriteCandidate ==
    /\ At("write")
    /\ \/ /\ \E d \in job.drafts : candidates' = With(candidates, d, "candidate")
          /\ Go("link") /\ UNCHANGED faults
       \/ Then("brainstorm") /\ Fault /\ UNCHANGED candidates
    /\ UNCHANGED <<latest, seen, studied, evidence, proposals, tasks, state, Rest>>

LinkEvidence ==
    /\ At("link")
    /\ \/ /\ \E d \in job.drafts : evidence' = Linked(d.evidence, d)
          /\ Then("brainstorm") /\ UNCHANGED faults
       \/ Then("brainstorm") /\ Fault /\ UNCHANGED evidence
    /\ UNCHANGED <<latest, seen, studied, candidates, proposals, tasks, state, Rest>>

\* A scheduled check of mode auto-evolve without candidates asks for ideas, once per
\* cooldown, which is claimed before.
Brainstorm ==
    /\ At("brainstorm")
    /\ IF /\ job.trigger = "schedule" /\ state.mode = "auto-evolve"
          /\ Actionable = {} /\ ~state.cooled
       THEN state' = [state EXCEPT !.cooled = TRUE] /\ Go("ideas")
       ELSE Go("curate") /\ UNCHANGED state
    /\ UNCHANGED <<latest, seen, studied, evidence, candidates, proposals, tasks, Rest, faults>>

\* create_brainstorm_candidates: an idea that is known already is not written again.
Ideas ==
    /\ At("ideas")
    /\ \/ LET idea == [source |-> "brainstorming", evidence |-> {}, title |-> CHOOSE t \in Titles : TRUE] IN
          candidates' = IF idea \in DOMAIN candidates THEN candidates ELSE With(candidates, idea, "candidate")
       \/ UNCHANGED candidates
    /\ Go("curate")
    /\ UNCHANGED <<latest, seen, studied, evidence, proposals, tasks, state, Rest, faults>>

-----------------------------------------------------------------------------
(* Proposals.                                                              *)

\* /evolve propose, and _run_due_evolve_schedule, which takes a claim that is still
\* there before it looks at the time.  A disabled schedule is acknowledged at once.
Propose ==
    /\ Idle /\ Len(proposals) < MaxProposals
    /\ job' = [NoJob EXCEPT !.at = IF state.mode = "disabled" THEN "curate" ELSE "read", !.trigger = "human"]
    /\ UNCHANGED <<latest, Durable, Rest, faults>>

Due ==
    /\ ~state.due /\ state.claims < MaxClaims
    /\ state' = [state EXCEPT !.due = TRUE, !.claims = @ + 1, !.cooled = FALSE]
    /\ UNCHANGED <<latest, seen, studied, evidence, candidates, proposals, tasks, job, Rest, faults>>

ClaimSchedule ==
    /\ Idle /\ (state.claim > 0 \/ state.due)
    /\ LET claim == IF state.claim > 0 THEN state.claim ELSE state.claims IN
       /\ state' = [state EXCEPT !.claim = claim]
       /\ job' = [NoJob EXCEPT !.at = IF state.mode = "disabled" THEN "ack" ELSE "read",
                               !.trigger = "schedule", !.claim = claim]
    /\ UNCHANGED <<latest, seen, studied, evidence, candidates, proposals, tasks, Rest, faults>>

AfterProposal == IF job.trigger = "schedule" THEN Then("ack") ELSE End

\* propose_evolve: the curator recommends one of the candidates, or none.
Curate ==
    /\ At("curate")
    /\ \/ /\ state.mode # "disabled"
          /\ \E c \in Actionable : job' = [job EXCEPT !.at = "supersede", !.top = {c}]
       \/ AfterProposal
    /\ UNCHANGED <<latest, Durable, Rest, faults>>

\* close_open_proposals; an error ends the command, or the check, which is due still.
Supersede ==
    /\ At("supersede")
    /\ \/ /\ proposals' = [p \in DOMAIN proposals |-> [proposals[p] EXCEPT !.open = FALSE]]
          /\ Go("propose") /\ UNCHANGED faults
       \/ End /\ Fault /\ UNCHANGED proposals
    /\ UNCHANGED <<latest, seen, studied, evidence, candidates, tasks, state, Rest>>

\* The event is recorded, or the error is ignored.
ProposeEvent ==
    /\ At("propose")
    /\ \/ /\ \E c \in job.top : proposals' = Append(proposals, [candidate |-> c, open |-> TRUE])
          /\ UNCHANGED faults
       \/ Fault /\ UNCHANGED proposals
    /\ AfterProposal
    /\ UNCHANGED <<latest, seen, studied, evidence, candidates, tasks, state, Rest>>

\* acknowledge_evolve_schedule: of its own claim.
Acknowledge ==
    /\ At("ack")
    /\ state' = IF state.claim = job.claim THEN [state EXCEPT !.claim = 0, !.due = FALSE] ELSE state
    /\ End
    /\ UNCHANGED <<latest, seen, studied, evidence, candidates, proposals, tasks, Rest, faults>>

\* set_evolve_mode, and the other settings: the claim is dropped, the due time is not.
SetMode(mode) ==
    /\ Idle /\ mode # state.mode /\ state.settings < MaxSettings
    /\ state' = [state EXCEPT !.mode = mode, !.claim = 0, !.settings = @ + 1]
    /\ UNCHANGED <<latest, seen, studied, evidence, candidates, proposals, tasks, job, Rest, faults>>

-----------------------------------------------------------------------------
(* /evolve approve and /evolve remove.                                     *)

\* The events "selected" and "removed" close the candidate's proposal; an error of
\* the event log is ignored.
CloseProposal(c) ==
    \/ /\ proposals' = [p \in DOMAIN proposals |->
                           IF proposals[p].candidate = c THEN [proposals[p] EXCEPT !.open = FALSE]
                           ELSE proposals[p]]
       /\ UNCHANGED faults
    \/ Fault /\ UNCHANGED proposals

\* _evolve_approve.  The event of a command that did not end comes again before others.
Approve(c, event) ==
    /\ Idle
    /\ \/ /\ again = {} /\ event = approvals + 1 /\ event <= MaxApprovals /\ c \in DOMAIN candidates
          /\ approvals' = event /\ UNCHANGED again
       \/ <<c, event>> \in again /\ again' = {} /\ UNCHANGED approvals
    /\ IF c \in Actionable
       THEN job' = [NoJob EXCEPT !.at = "enqueue", !.top = {c}, !.event = event] /\ CloseProposal(c)
       ELSE UNCHANGED <<job, proposals, faults>>
    /\ UNCHANGED <<latest, seen, studied, evidence, candidates, tasks, state>>

\* The task, known by the event: one that comes again finds it.
EnqueueApproved ==
    /\ At("enqueue")
    /\ \/ /\ \E c \in job.top :
               tasks' = IF \E t \in DOMAIN tasks : tasks[t].event = job.event THEN tasks
                        ELSE Append(tasks, [candidate |-> c, event |-> job.event])
          /\ Go("mark") /\ UNCHANGED faults
       \/ End /\ Fault /\ UNCHANGED tasks
    /\ UNCHANGED <<latest, seen, studied, evidence, candidates, proposals, state, Rest>>

MarkApproved ==
    /\ At("mark")
    /\ \E c \in job.top : candidates' = [candidates EXCEPT ![c] = "approved"]
    /\ End
    /\ UNCHANGED <<latest, seen, studied, evidence, proposals, tasks, state, Rest, faults>>

\* remove_evolve_candidate: the status, then the event.
Remove(c) ==
    /\ Idle /\ again = {} /\ c \in Actionable
    /\ candidates' = [candidates EXCEPT ![c] = "removed"]
    /\ job' = [NoJob EXCEPT !.at = "removed", !.top = {c}]
    /\ UNCHANGED <<latest, seen, studied, evidence, proposals, tasks, state, Rest, faults>>

RecordRemoved ==
    /\ At("removed")
    /\ \E c \in job.top : CloseProposal(c)
    /\ End
    /\ UNCHANGED <<latest, seen, studied, evidence, candidates, tasks, state, Rest>>

-----------------------------------------------------------------------------

Restart ==
    /\ ~Idle /\ Fault
    /\ again' = again \cup {p \in job.top \X {job.event} : p[2] > 0}
    /\ End
    /\ UNCHANGED <<latest, Durable, approvals>>

MainThread ==
    \/ Read \/ Generate \/ AppendSignals \/ RecordScan
    \/ Synthesize \/ WriteCandidate \/ LinkEvidence \/ Brainstorm \/ Ideas
    \/ Curate \/ Supersede \/ ProposeEvent \/ Acknowledge
    \/ EnqueueApproved \/ MarkApproved \/ RecordRemoved

Commands ==
    \/ Propose \/ (\E mode \in {"disabled", "co-evolve", "auto-evolve"} : SetMode(mode))
    \/ (\E c \in DOMAIN candidates : Remove(c) \/ \E event \in 1..MaxApprovals : Approve(c, event))

Next ==
    \/ MainThread \/ ClaimSchedule \/ DueScan \/ Commands \/ Due \/ Restart
    \/ (\E i \in Turns : Turn(i)) \/ (\E i \in Tasks : TaskEvent(i))

Spec == Init /\ [][Next]_vars

-----------------------------------------------------------------------------
(* Properties.                                                             *)

TypeOK ==
    /\ latest \in [Inputs -> 0..MaxEvents] /\ seen \in [Inputs -> 0..MaxEvents]
    /\ DOMAIN evidence \subseteq Signals
    /\ \A s \in DOMAIN evidence : \A c \in evidence[s] : IsCandidate(c)
    /\ \A c \in DOMAIN candidates : IsCandidate(c) /\ candidates[c] \in {"candidate", "approved", "removed"}
    /\ \A p \in DOMAIN proposals : IsCandidate(proposals[p].candidate)
    /\ state.claim \in 0..MaxClaims /\ faults \in 0..MaxFaults /\ approvals \in 0..MaxApprovals

\* What no scan waits for any more was shown to the runtime as it is now: an event that
\* arrives during a scan, a failed scan or a crash loses none (_scanned_task_markers).
NothingUnstudied == \A i \in Inputs : seen[i] = latest[i] => studied[i] = latest[i]

\* Evidence is linked to candidates that cite it and are stored, wherever the process
\* ends; and is cited by one candidate, or by one more for each failure or restart
\* between writing the candidate and linking it (synthesize_evolve_candidates_from_evidence).
EvidenceIsAccountedFor ==
    \A s \in DOMAIN evidence :
        /\ evidence[s] \subseteq Cited(s)
        /\ Cardinality(Cited(s)) <= 1 + MaxFaults - faults

\* At most one proposal is open, whatever superseded, approved or removed before and
\* wherever it stopped (close_open_proposals).
OneOpenProposal == Cardinality(Open) <= 1

\* A candidate gets one task, and an approved one has it, however often the event of
\* its approval comes; another one takes two failures: the process ends before the
\* candidate is marked, the event that comes again finds the queue failing, and the
\* human, told so, approves again (_evolve_approve).
OneTaskPerApproval ==
    \A c \in DOMAIN candidates :
        LET own == {t \in DOMAIN tasks : tasks[t].candidate = c} IN
        /\ Cardinality(own) <= 1 + (MaxFaults - faults) \div 2
        /\ candidates[c] = "approved" => own # {}

=============================================================================
