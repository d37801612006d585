----------------------------- MODULE Environments -----------------------------
(***************************************************************************)
(* The two directories of packages that Enoch installs for itself and that *)
(* every process shares: the managed environment in which Doctor runs the  *)
(* tests (validation_environment.py, called by immune.py), and the runtime *)
(* dependencies of the agent (runtime_dependencies.py).  Each is built in  *)
(* a temporary directory under a lock and renamed into place.              *)
(*                                                                         *)
(* A directory is the set of its parts; it is removed, like it is built,   *)
(* part by part.  The fingerprint of both is fixed here.  Time limits and  *)
(* failures of pip are one nondeterministic failure of a step; a check     *)
(* that runs the interpreter can fail though nothing is missing.           *)
(***************************************************************************)
EXTENDS Naturals, Sequences, FiniteSets, SequencesExt

CONSTANTS Doctors,    \* processes that validate a work tree
          Starts,     \* processes of the agent that start
          MaxFaults,  \* bound: failed steps and processes that end
          MaxDamages  \* bound: parts lost from outside

VARIABLES target,    \* the parts of each directory
          temporary, \* the directory that each process builds
          lock,      \* the holder of each lock
          step,      \* where each process is
          python,    \* the interpreter that each Doctor uses
          base,      \* the interpreter of the agent itself has the build backend
          damaged,   \* directories that lost a part from outside, or were taken for broken
          faults, damages

vars == <<target, temporary, lock, step, python, base, damaged, faults, damages>>
outside == <<base, damaged, damages>>

Processes == Doctors \cup Starts
Directories == {"validation", "dependencies"}
Nobody == 0  \* no process

\* _create_environment and _ensure_installed: the order in which parts appear.
Order == [validation |-> <<"python", "backend", "paths", ".complete">>,
          dependencies |-> <<"first-package", "second-package", ".complete">>]
Whole(d) == ToSet(Order[d])
Directory(p) == IF p \in Doctors THEN "validation" ELSE "dependencies"

Init ==
    /\ target = [d \in Directories |-> {}] /\ temporary = [p \in Processes |-> {}]
    /\ lock = [d \in Directories |-> Nobody] /\ step = [p \in Processes |-> "start"]
    /\ python = [p \in Processes |-> "base"] /\ base \in BOOLEAN
    /\ damaged = {} /\ faults = MaxFaults /\ damages = MaxDamages

Go(p, to) == step' = [step EXCEPT ![p] = to]
At(p, where) == step[p] = where

-----------------------------------------------------------------------------
(* What a process finds.                                                   *)

\* _environment_is_complete; complete.is_file().
Complete(d) ==
    /\ ".complete" \in target[d]
    /\ d = "validation" => "python" \in target[d]

\* _backend_is_available and _build_backend_check in the interpreter of p.
HasBackend(p) == IF python[p] = "base" THEN base ELSE {"python", "backend"} \subseteq target["validation"]

\* existing_validation_environment, without the lock.
Look(p) ==
    /\ p \in Doctors /\ At(p, "start")
    /\ python' = [python EXCEPT ![p] = IF Complete("validation") THEN "managed" ELSE "base"]
    /\ Go(p, "check") /\ UNCHANGED <<target, temporary, lock, outside, faults>>

\* _validation_python_and_backend_check: tests run, unless the backend is missing
\* and the managed environment can supply it.
Check(p) ==
    /\ At(p, "check") /\ Go(p, IF HasBackend(p) THEN "use" ELSE "wait")
    /\ UNCHANGED <<target, temporary, lock, python, outside, faults>>

\* runtime_dependency_paths: the marker is enough.
Start(p) ==
    /\ p \in Starts /\ At(p, "start")
    /\ Go(p, IF Complete("dependencies") THEN "use" ELSE "wait")
    /\ UNCHANGED <<target, temporary, lock, python, outside, faults>>

-----------------------------------------------------------------------------
(* ensure_validation_environment and _ensure_installed.                    *)

Acquire(p) ==
    /\ At(p, "wait") /\ lock[Directory(p)] = Nobody
    /\ lock' = [lock EXCEPT ![Directory(p)] = p]
    /\ Go(p, "locked") /\ UNCHANGED <<target, temporary, python, outside, faults>>

Leave(p, to) ==
    /\ lock' = [lock EXCEPT ![Directory(p)] = Nobody] /\ Go(p, to)

\* Another process built it meanwhile.
Found(p) ==
    /\ At(p, "locked") /\ Complete(Directory(p))
    /\ p \in Doctors => "backend" \in target["validation"]
    /\ Leave(p, IF p \in Doctors THEN "recheck" ELSE "use")
    /\ UNCHANGED <<target, temporary, python, outside, faults>>

\* shutil.rmtree of what is there.
RemoveParts(p) ==
    /\ At(p, "locked") \/ At(p, "remove")
    /\ At(p, "locked") => \/ ~Complete(Directory(p))
                          \/ p \in Doctors /\ "backend" \notin target["validation"]
    /\ \/ /\ target[Directory(p)] = {} /\ Go(p, "build") /\ UNCHANGED target
       \/ /\ \E part \in target[Directory(p)] :
                target' = [target EXCEPT ![Directory(p)] = @ \ {part}]
          /\ Go(p, "remove")
    /\ UNCHANGED <<temporary, lock, python, outside, faults>>

\* The next part; for the validation environment each is verified as it appears.
Build(p) ==
    /\ At(p, "build") /\ temporary[p] # Whole(Directory(p))
    /\ temporary' = [temporary EXCEPT ![p] =
          ToSet(SubSeq(Order[Directory(p)], 1, Cardinality(@) + 1))]
    /\ UNCHANGED <<target, lock, step, python, outside, faults>>

\* temporary.replace(target)
Publish(p) ==
    /\ At(p, "build") /\ temporary[p] = Whole(Directory(p))
    /\ target' = [target EXCEPT ![Directory(p)] = temporary[p]]
    /\ temporary' = [temporary EXCEPT ![p] = {}]
    /\ damaged' = damaged \ {Directory(p)}
    /\ Leave(p, IF p \in Doctors THEN "recheck" ELSE "use")
    /\ UNCHANGED <<python, base, faults, damages>>

\* A step fails: what was built is removed and the error reported.
Fail(p) ==
    /\ At(p, "build") /\ faults > 0 /\ faults' = faults - 1
    /\ temporary' = [temporary EXCEPT ![p] = {}]
    /\ Leave(p, "failed") /\ UNCHANGED <<target, python, outside>>

\* The backend check again, now in the managed environment.
Recheck(p) ==
    /\ At(p, "recheck") /\ python' = [python EXCEPT ![p] = "managed"]
    /\ Go(p, IF "python" \in target["validation"] /\ "backend" \in target["validation"]
             THEN "use" ELSE "failed")
    /\ UNCHANGED <<target, temporary, lock, outside, faults>>

\* The interpreter that a check runs is killed, or takes too long, though nothing is
\* missing.  Under the lock the first makes Doctor remove an environment that others may
\* use, as one that is broken, and the second is an error.
CheckFails(p) ==
    /\ p \in Doctors /\ faults > 0 /\ faults' = faults - 1
    /\ \/ At(p, "check") /\ HasBackend(p) /\ Go(p, "wait") /\ UNCHANGED <<lock, python, damaged>>
       \/ /\ At(p, "locked") /\ Complete("validation")
          /\ \/ /\ damaged' = damaged \cup {"validation"} /\ Go(p, "remove") /\ UNCHANGED lock
             \/ Leave(p, "failed") /\ UNCHANGED damaged
          /\ UNCHANGED python
       \/ /\ At(p, "recheck") /\ python' = [python EXCEPT ![p] = "managed"]
          /\ Go(p, "failed") /\ UNCHANGED <<lock, damaged>>
    /\ UNCHANGED <<target, temporary, base, damages>>

\* Tests ran; the agent ended.
End(p) ==
    /\ At(p, "use") \/ At(p, "failed")
    /\ Go(p, "done") /\ UNCHANGED <<target, temporary, lock, python, outside, faults>>

\* The process ends anywhere: the lock is freed, what it built stays where it is.
Crash(p) ==
    /\ step[p] \in {"wait", "locked", "remove", "build"} /\ faults > 0 /\ faults' = faults - 1
    /\ temporary' = [temporary EXCEPT ![p] = {}]
    /\ lock' = [d \in Directories |-> IF lock[d] = p THEN Nobody ELSE lock[d]]
    /\ Go(p, "done") /\ UNCHANGED <<target, python, outside>>

\* Outside of Enoch a part is lost: a removed base interpreter, a cleaned directory.
Damage(d) ==
    /\ damages > 0 /\ damages' = damages - 1 /\ damaged' = damaged \cup {d}
    /\ \E part \in target[d] : target' = [target EXCEPT ![d] = @ \ {part}]
    /\ UNCHANGED <<temporary, lock, step, python, base, faults>>

ProcessNext(p) ==
    \/ Look(p) \/ Check(p) \/ Start(p) \/ Acquire(p) \/ Found(p) \/ RemoveParts(p)
    \/ Build(p) \/ Publish(p) \/ Recheck(p) \/ End(p)

Next ==
    \/ \E p \in Processes : ProcessNext(p) \/ Fail(p) \/ CheckFails(p) \/ Crash(p)
    \/ \E d \in Directories : Damage(d)

Spec == Init /\ [][Next]_vars

-----------------------------------------------------------------------------
(* Properties.                                                             *)

\* The type of the state.
TypeOK ==
    /\ \A d \in Directories : target[d] \subseteq Whole(d)
    /\ \A p \in Processes : temporary[p] \subseteq Whole(Directory(p))
    /\ lock \in [Directories -> Processes \cup {Nobody}]
    /\ python \in [Processes -> {"base", "managed"}] /\ base \in BOOLEAN
    /\ damaged \subseteq Directories /\ faults \in 0..MaxFaults /\ damages \in 0..MaxDamages

Using(p) == At(p, "use") /\ (p \in Doctors => python[p] = "managed")

\* What a process uses is whole for as long as it uses it, whatever other processes
\* look for, remove, build or leave half done when they end, unless it was damaged
\* from outside, or a check took it for broken that failed of itself.
EnvironmentInUseIsWhole ==
    \A p \in Processes :
       Using(p) /\ Directory(p) \notin damaged => target[Directory(p)] = Whole(Directory(p))
=============================================================================
