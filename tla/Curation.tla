------------------------------- MODULE Curation -------------------------------
(***************************************************************************)
(* The curation of the pool of evolution candidates: /evolve propose asks  *)
(* the model which candidate to recommend and which ones a human should    *)
(* remove, checks the reply against the work that tasks completed, and     *)
(* keeps it; /evolve remove cites what was kept.  See                      *)
(* evolution/curation.py, propose_evolve and remove_evolve_candidate of    *)
(* evolution/core.py, and record_evolve_event of evolution/events.py.      *)
(*                                                                         *)
(* Main thread: proposals, removals and approvals.  Beside it tasks end    *)
(* and regress (module TaskQueue), and a human records that the review of  *)
(* a task landed.                                                          *)
(***************************************************************************)
EXTENDS Naturals, Sequences, FiniteSets

CONSTANTS Candidates,     \* the pool is 1..Candidates, in the order of its ranking; has every kind
          Tasks,          \* tasks that may end
          Reviews,        \* reviews that tasks may have published; 0 for none
          PoolLimit,      \* DEFAULT_CURATION_LIMIT, 24
          EvidenceLimit,  \* DEFAULT_COMPLETION_EVIDENCE_LIMIT, 12
          MaxCurations,   \* bound: curations kept
          MaxRegressions, \* bound: completed tasks that regress
          MaxDecisions    \* bound: candidates that the human approves or removes

VARIABLES candidate,   \* the pool: source, scope and status of each candidate
          review,      \* the review of each task
          ends,        \* the terminal events of the tasks' journal
          promoted,    \* tasks with a "promoted" event of the evolution journal
          turn,        \* the proposal that the model works on
          curations    \* evolve_curations.jsonl

vars == <<candidate, review, ends, promoted, turn, curations>>
work == <<review, ends, promoted>>

Pool == 1..Candidates
Sources == {"feedback", "brainstorming"}
Actionable == {c \in Pool : candidate[c].status = "candidate"}
Resolved == "already-resolved"
Classifications == {Resolved, "duplicate"}

\* The candidates that a pool may hold.
Kind(source, body, safe) == [source |-> source, body |-> body, safe |-> safe, status |-> "candidate"]
Kinds == {Kind("feedback", TRUE, TRUE), Kind("feedback", TRUE, FALSE), Kind("brainstorming", FALSE, TRUE)}

\* The references that a completion offers: its task and its review.
TaskRef(t) == <<"task", t>>
Refs(t) == {TaskRef(t)} \cup {<<"pr", r>> : r \in {review[t]} \ {0}}
AllRefs == UNION {Refs(t) : t \in Tasks}

None == [candidate |-> 0, classification |-> "none", refs |-> {}]
Idle == [step |-> "idle", pool |-> {}, evidence |-> {}, landed |-> {}, finished |-> {}]

Init ==
    /\ candidate \in {f \in [Pool -> Kinds] : \A k \in Kinds : \E c \in Pool : f[c] = k}
    /\ review \in [Tasks -> Reviews]
    /\ ends = <<>> /\ promoted = {} /\ turn = Idle /\ curations = <<>>

-----------------------------------------------------------------------------
(* The work of the tasks.                                                  *)

Ended(t) == \E i \in 1..Len(ends) : ends[i].task = t

\* load_recent_task_outcomes: the latest terminal event of each task.
Outcomes == {i \in 1..Len(ends) : \A j \in (i + 1)..Len(ends) : ends[j].task # ends[i].task}
Latest(t) == ends[CHOOSE i \in Outcomes : ends[i].task = t]

\* A "completed" event whose runtime stopped early has partial work.
TaskEnds(t) ==
    /\ ~Ended(t)
    /\ \E event \in {"completed", "partial", "failed"} :
          ends' = Append(ends, [task |-> t, event |-> event])
    /\ UNCHANGED <<candidate, review, promoted, turn, curations>>

Regressions == {i \in 1..Len(ends) : ends[i].event = "regressed"}

Regress(t) ==
    /\ Ended(t) /\ Latest(t).event \in {"completed", "partial"}
    /\ Cardinality(Regressions) < MaxRegressions
    /\ ends' = Append(ends, [task |-> t, event |-> "regressed"])
    /\ UNCHANGED <<candidate, review, promoted, turn, curations>>

\* record_evolve_event("promoted"): with review, revision and time, by a human.
Promote(t) ==
    /\ t \notin promoted /\ review[t] # 0 /\ Ended(t)
    /\ Latest(t).event \in {"completed", "partial"}
    /\ promoted' = promoted \cup {t}
    /\ UNCHANGED <<candidate, review, ends, turn, curations>>

-----------------------------------------------------------------------------
(* What a proposal shows the model.                                        *)

\* _select_curation_candidates: the first of each source, then by rank, as long as
\* the bound allows.
First == {c \in Actionable : \A d \in Actionable : d < c => candidate[d].source # candidate[c].source}
Before(c) == IF c \in First THEN {d \in First : d <= c}
             ELSE First \cup {d \in Actionable : d <= c}
Selected == {c \in Actionable : Cardinality(Before(c)) <= PoolLimit}

\* _completion_evidence_payload
Authority(outcome) ==
    CASE outcome.event = "partial" -> "none"
      [] outcome.event # "partial" /\ outcome.task \in promoted -> "authoritative-body"
      [] OTHER -> IF review[outcome.task] # 0 THEN "none" ELSE "task-completion"

\* recent_completion_evidence: of the most recent completions, in their order.
Evidence ==
    LET completions == {i \in Outcomes : ends[i].event \in {"completed", "partial"}}
        recent == {i \in completions : Cardinality({j \in completions : i <= j}) <= EvidenceLimit}
    IN  {[at |-> i, task |-> ends[i].task, authority |-> Authority(ends[i])] : i \in recent}

\* propose_evolve up to the reply; landed and finished are ghosts, the truth
\* about the work at that time.
Propose ==
    /\ turn.step = "idle" /\ Len(curations) < MaxCurations /\ Actionable # {}
    /\ turn' = [step |-> "asked",
                pool |-> Selected,
                evidence |-> Evidence,
                landed |-> {t \in promoted : Latest(t).event = "completed"},
                finished |-> {t \in Tasks : /\ Ended(t) /\ Latest(t).event = "completed"
                                            /\ review[t] = 0}]
    /\ UNCHANGED <<candidate, work, curations>>

-----------------------------------------------------------------------------
(* The reply.                                                              *)

\* _known_evidence: the first item that offers a reference.
Item(ref) == CHOOSE item \in turn.evidence :
                /\ ref \in Refs(item.task)
                /\ \A other \in turn.evidence : ref \in Refs(other.task) => item.at <= other.at
Known == UNION {Refs(item.task) : item \in turn.evidence}

SupportsResolution(c, refs) ==
    LET authorities == {Item(ref).authority : ref \in refs}
    IN  \/ "authoritative-body" \in authorities
        \/ ~candidate[c].body /\ "task-completion" \in authorities

ValidRecommendation(id) == id = 0 \/ (id \in turn.pool /\ candidate[id].safe)

ValidSuggestion(s) ==
    /\ s.candidate \in turn.pool /\ s.refs \subseteq Known
    /\ s.classification = Resolved => SupportsResolution(s.candidate, s.refs)

\* deterministic_fallback: the first candidate whose scope is safe, or none.
Fallback ==
    LET safe == {c \in turn.pool : candidate[c].safe}
    IN  IF safe = {} THEN 0 ELSE CHOOSE c \in safe : \A d \in safe : c <= d

\* A suggestion cites one reference or none; more of them only add authorities.
Suggestions == {None} \cup [candidate : Pool, classification : Classifications,
                            refs : {{}} \cup {{ref} : ref \in AllRefs}]

\* Ghost: work that truly resolves the candidate is among what s cites.
Backed(s) ==
    \E t \in turn.landed \cup (IF s.candidate # 0 /\ ~candidate[s.candidate].body
                              THEN turn.finished ELSE {}) : Refs(t) \cap s.refs # {}

\* curate_candidates and record_curation.  One suggestion stands for the list of
\* them; a reply that is not of the schema falls back like an invalid one.
Reply(recommended, s) ==
    /\ turn.step = "asked"
    /\ LET valid == /\ ValidRecommendation(recommended)
                    /\ s = None \/ (ValidSuggestion(s) /\ s.candidate # recommended)
       IN  curations' = Append(curations,
              [status |-> IF valid THEN "llm" ELSE "deterministic-fallback",
               recommended |-> IF valid THEN recommended ELSE Fallback,
               suggestion |-> IF valid THEN s ELSE None,
               backed |-> valid /\ Backed(s)])
    /\ turn' = Idle /\ UNCHANGED <<candidate, work>>

\* The process ends while the model works.
Crash ==
    /\ turn.step = "asked" /\ turn' = Idle
    /\ UNCHANGED <<candidate, work, curations>>

-----------------------------------------------------------------------------
(* What the human does.                                                    *)

MayDecide(c) ==
    /\ turn.step = "idle" /\ c \in Actionable
    /\ Candidates - Cardinality(Actionable) < MaxDecisions

\* /evolve remove <id>; the suggestion that the removal cites changes nothing else.
RemoveCandidate(c) ==
    /\ MayDecide(c)
    /\ candidate' = [candidate EXCEPT ![c].status = "removed"]
    /\ UNCHANGED <<work, turn, curations>>

\* /evolve approve <id>
ApproveCandidate(c) ==
    /\ MayDecide(c)
    /\ candidate' = [candidate EXCEPT ![c].status = "approved"]
    /\ UNCHANGED <<work, turn, curations>>

Next ==
    \/ \E t \in Tasks : TaskEnds(t) \/ Regress(t) \/ Promote(t)
    \/ Propose \/ Crash
    \/ \E recommended \in 0..Candidates : Reply(recommended, None)
    \/ \E s \in Suggestions, conflict \in BOOLEAN : Reply(IF conflict THEN s.candidate ELSE 0, s)
    \/ \E c \in Pool : ApproveCandidate(c) \/ RemoveCandidate(c)

Spec == Init /\ [][Next]_vars

-----------------------------------------------------------------------------
(* Properties.                                                             *)

\* The type of the state.
TypeOK ==
    /\ candidate \in [Pool -> [source : Sources, body : BOOLEAN, safe : BOOLEAN,
                               status : {"candidate", "approved", "removed"}]]
    /\ review \in [Tasks -> Reviews] /\ promoted \subseteq Tasks
    /\ \A i \in 1..Len(ends) :
          ends[i] \in [task : Tasks, event : {"completed", "partial", "failed", "regressed"}]
    /\ turn.step \in {"idle", "asked"}
    /\ \A i \in 1..Len(curations) :
          /\ curations[i].status \in {"llm", "deterministic-fallback"}
          /\ curations[i].recommended \in 0..Candidates /\ curations[i].suggestion \in Suggestions

\* A suggestion that a candidate is resolved was backed, when the model was asked,
\* by work in the authoritative body, or for a candidate that changes no body by
\* completed work; regressed, failed, partial or unlanded work never backs one.
ResolutionIsBacked ==
    \A i \in 1..Len(curations) :
       curations[i].suggestion.classification = Resolved => curations[i].backed

\* The bound on the pool leaves no source out while it has room for one of each,
\* and whatever the model replies no candidate of an unsafe scope is recommended.
PoolIsFair ==
    /\ \A i \in 1..Len(curations) :
          curations[i].recommended # 0 => candidate[curations[i].recommended].safe
    /\ turn.step = "asked" =>
          /\ Cardinality(turn.pool) < PoolLimit => Actionable \subseteq turn.pool
          /\ PoolLimit >= Cardinality(Sources) =>
                \A c \in Actionable : \E d \in turn.pool : candidate[d].source = candidate[c].source
=============================================================================
