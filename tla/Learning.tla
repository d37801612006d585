------------------------------- MODULE Learning -------------------------------
(***************************************************************************)
(* Skills between agents.  /learn takes a snapshot of a skill that another *)
(* agent publishes (learn.py, skills/catalog.py), has the runtime assess   *)
(* it and stores a learning candidate (evolution/core.py), one command of  *)
(* the main thread at a time, while the agent keeps publishing.  Task      *)
(* threads record their own new skills (automatic_learning.py) after the   *)
(* task is final.  The process may end between any two steps; an event     *)
(* whose command did not end is delivered again.                           *)
(***************************************************************************)
EXTENDS Naturals, Sequences, FiniteSets

CONSTANTS Parts,        \* contents that a published file can have
          Tasks,        \* tasks that change a skill package, or do not
          MaxPushes,    \* bound: revisions of the source
          MaxCommands,  \* bound: /learn commands
          MaxFaults     \* bound: failures and restarts

VARIABLES published,  \* what the source publishes, by revision; the last is its branch head
          learn,      \* the command in hand
          candidates, \* durable: learning candidates by snapshot, and their status
          tasks,      \* durable: what became of each task
          index,      \* durable: artifacts.jsonl, one task per line
          artifacts,  \* durable: tasks whose artifact file is written
          lock,       \* the task that holds the learning lock; 0: none
          commands, faults

vars == <<published, learn, candidates, tasks, index, artifacts, lock, commands, faults>>

\* A revision: how body.yaml exposes the skill and its version there, the version
\* in skill.yaml, and what skill.yaml and SKILL.md say ("empty": nothing).
Revisions == [exposure : {"none", "hidden", "public"}, declared : 0..2, version : 0..2,
              metadata : Parts, instructions : Parts \cup {"empty"}]
First == [exposure |-> "public", declared |-> 1, version |-> 1,
          metadata |-> CHOOSE p \in Parts : TRUE, instructions |-> CHOOSE p \in Parts : TRUE]

Idle == [at |-> "none", revision |-> 0, declared |-> 0, version |-> 0, metadata |-> "empty", instructions |-> "empty"]

Init ==
    /\ published = <<First>> /\ learn = Idle /\ candidates = <<>>
    /\ tasks = [t \in Tasks |-> "queued"] /\ index = <<>> /\ artifacts = {} /\ lock = 0
    /\ commands = MaxCommands /\ faults = MaxFaults

Recording == <<tasks, index, artifacts, lock>>
Learned == <<learn, candidates, commands>>

Newest == Len(published)

\* The source's maintainers change one thing about the skill.
Push ==
    /\ Newest <= MaxPushes
    /\ \E r \in Revisions :
        /\ Cardinality({f \in DOMAIN r : r[f] # published[Newest][f]}) = 1
        /\ published' = Append(published, r)
    /\ UNCHANGED <<Learned, Recording, faults>>

-----------------------------------------------------------------------------
(* /learn <skill> from <agent>.                                            *)

At(step) == learn.at = step
Refuse == learn' = Idle

\* parse_learn_request, resolve_published_source: the branch is resolved once.
Resolve ==
    /\ At("none") /\ commands > 0 /\ commands' = commands - 1
    /\ learn' = [Idle EXCEPT !.at = "body", !.revision = Newest]
    /\ UNCHANGED <<published, candidates, Recording, faults>>

\* Fault: the files are read from the branch.
ReadAt_Newest == published[Newest]

\* What a file of the snapshot is read from.
ReadAt == published[learn.revision]

\* body.yaml: the skill is declared, and not hidden.
ReadBody ==
    /\ At("body")
    /\ IF ReadAt.exposure = "public"
       THEN learn' = [learn EXCEPT !.at = "metadata", !.declared = ReadAt.declared]
       ELSE Refuse
    /\ UNCHANGED <<published, candidates, commands, Recording, faults>>

ReadMetadata ==
    /\ At("metadata")
    /\ learn' = [learn EXCEPT !.at = "instructions", !.version = ReadAt.version, !.metadata = ReadAt.metadata]
    /\ UNCHANGED <<published, candidates, commands, Recording, faults>>

\* Two declared versions agree.
VersionsAgree == learn.declared = 0 \/ learn.version = 0 \/ learn.declared = learn.version

ReadInstructions ==
    /\ At("instructions")
    /\ IF ReadAt.instructions = "empty" \/ ~VersionsAgree
       THEN Refuse
       ELSE learn' = [learn EXCEPT !.at = "assess", !.instructions = ReadAt.instructions]
    /\ UNCHANGED <<published, candidates, commands, Recording, faults>>

\* An unreadable file, a failing runtime: the command answers with the error.
ReadFails ==
    /\ learn.at \in {"body", "metadata", "instructions", "assess"}
    /\ faults > 0 /\ faults' = faults - 1 /\ Refuse
    /\ UNCHANGED <<published, candidates, commands, Recording>>

\* The runtime's answer: not applicable, malformed or of protected scope; or a draft.
Assess(applicable) ==
    /\ At("assess")
    /\ IF applicable THEN learn' = [learn EXCEPT !.at = "create"] ELSE Refuse
    /\ UNCHANGED <<published, candidates, commands, Recording, faults>>

\* A candidate is known by its revision and contents.
Snapshot == [revision |-> learn.revision, metadata |-> learn.metadata, instructions |-> learn.instructions]

\* create_learning_candidate: one that exists stays as it is, whatever its status.
Create ==
    /\ At("create") /\ Refuse
    /\ candidates' = IF Snapshot \in DOMAIN candidates THEN candidates
                     ELSE [s \in DOMAIN candidates \cup {Snapshot} |->
                             IF s = Snapshot THEN "candidate" ELSE candidates[s]]
    /\ UNCHANGED <<published, commands, Recording, faults>>

\* /evolve approve or remove, between two commands.
Decide(snapshot, status) ==
    /\ At("none") /\ snapshot \in DOMAIN candidates /\ candidates[snapshot] = "candidate"
    /\ candidates' = [candidates EXCEPT ![snapshot] = status]
    /\ UNCHANGED <<published, learn, commands, Recording, faults>>

-----------------------------------------------------------------------------
(* Artifacts of own skills.                                                *)

Run(t) ==
    /\ tasks[t] = "queued" /\ \A u \in Tasks : tasks[u] # "running"
    /\ tasks' = [tasks EXCEPT ![t] = "running"]
    /\ UNCHANGED <<published, Learned, index, artifacts, lock, faults>>

\* The outcome is final first; the artifact is recorded if skill files changed.
Finalize(t) ==
    /\ tasks[t] = "running"
    /\ \E outcome \in {"record", "final"} : tasks' = [tasks EXCEPT ![t] = outcome]
    /\ UNCHANGED <<published, Learned, index, artifacts, lock, faults>>

\* _learning_transaction.
Acquire(t) ==
    /\ tasks[t] = "record" /\ lock = 0 /\ lock' = t
    /\ UNCHANGED <<published, Learned, tasks, index, artifacts, faults>>

AppendIndex(t) ==
    /\ lock = t /\ tasks[t] = "record"
    /\ tasks' = [tasks EXCEPT ![t] = "indexed"]
    /\ index' = Append(index, t)
    /\ UNCHANGED <<published, Learned, artifacts, lock, faults>>

WriteArtifact(t) ==
    /\ lock = t /\ tasks[t] = "indexed"
    /\ artifacts' = artifacts \cup {t} /\ lock' = 0 /\ tasks' = [tasks EXCEPT ![t] = "final"]
    /\ UNCHANGED <<published, Learned, index, faults>>

\* A failed write is left at that: _record_automatic_learning.
WriteFails(t) ==
    /\ lock = t /\ faults > 0 /\ faults' = faults - 1
    /\ lock' = 0 /\ tasks' = [tasks EXCEPT ![t] = "final"]
    /\ UNCHANGED <<published, Learned, index, artifacts>>

Recovered(task) ==
    CASE task = "running" -> "queued" [] task \in {"record", "indexed"} -> "final" [] OTHER -> task

\* The process ends and another starts: the command comes again, a running task is
\* run again, an artifact that was not recorded never is.
Restart ==
    /\ faults > 0 /\ faults' = faults - 1
    /\ learn' = Idle /\ lock' = 0
    /\ commands' = IF At("none") THEN commands ELSE commands + 1
    /\ tasks' = [t \in Tasks |-> Recovered(tasks[t])]
    /\ UNCHANGED <<published, candidates, index, artifacts>>

-----------------------------------------------------------------------------

Next ==
    \/ Push \/ Resolve \/ ReadBody \/ ReadMetadata \/ ReadInstructions \/ ReadFails \/ Create \/ Restart
    \/ \E applicable \in BOOLEAN : Assess(applicable)
    \/ \E s \in DOMAIN candidates, status \in {"approved", "removed"} : Decide(s, status)
    \/ \E t \in Tasks :
        Run(t) \/ Finalize(t) \/ Acquire(t) \/ AppendIndex(t) \/ WriteArtifact(t) \/ WriteFails(t)

Spec == Init /\ [][Next]_vars

TypeOK ==
    /\ published \in Seq(Revisions) /\ lock \in Tasks \cup {0} /\ artifacts \subseteq Tasks
    /\ \A s \in DOMAIN candidates : candidates[s] \in {"candidate", "approved", "removed"}
    /\ learn.revision \in 0..Newest

\* A learning candidate is one revision of the source as it was published: never a
\* mixture of two, hidden, or declared with another version than it has (load_published_skill).
CandidatesWerePublished ==
    \A s \in DOMAIN candidates :
        LET at == published[s.revision] IN
        /\ s.metadata = at.metadata /\ s.instructions = at.instructions
        /\ at.exposure = "public" /\ (at.declared = at.version \/ 0 \in {at.declared, at.version})

\* An artifact file has its line in the index, and a task has one line, over restarts
\* and failures between the steps of recording (record_learning_artifact).
ArtifactsAreIndexedOnce ==
    /\ artifacts \subseteq {index[i] : i \in DOMAIN index}
    /\ \A i, j \in DOMAIN index : index[i] = index[j] => i = j

\* Learning the same snapshot again takes no decision back (create_learning_candidate).
LearningKeepsDecisions ==
    [][\A s \in DOMAIN candidates : candidates[s] # "candidate" => candidates'[s] = candidates[s]]_vars
=============================================================================
