------------------------------- MODULE MCWork -------------------------------
(***************************************************************************)
(* The queue with its lanes and keys, and the threads over the queue.  A   *)
(* behaviour runs one of them (part), the other keeps its first state.     *)
(***************************************************************************)
EXTENDS TaskQueue, TLC

CONSTANTS Parts,     \* what is checked: "queue", "threads"
          MaxWork, MaxRuns, MaxClaims, Threads, MaxFaults    \* of TaskRunner

ASSUME ThreadsAssumption ==
    /\ MaxWork \in Nat \ {0} /\ MaxRuns \in Nat \ {0}
    /\ MaxClaims \in Nat /\ MaxFaults \in Nat
    /\ NoWorker \notin Threads

VARIABLES part,
          work, waiting, current, held, past, decided, claims, living,
          thread, registered, signalled, main, faults

threadVars == <<work, waiting, current, held, past, decided, claims, living,
                thread, registered, signalled, main, faults>>

R == INSTANCE TaskRunner WITH
        MaxTasks <- MaxWork, MaxBegins <- MaxRuns, MaxLeases <- MaxClaims, Workers <- Threads,
        job <- work, pending <- waiting, running <- current, paused <- held, history <- past,
        reconciliation <- decided, leases <- claims, alive <- living

ThreadSymmetry == Permutations(Threads)

MCInit == part \in Parts /\ Init /\ R!Init

MCNext ==
    \/ part = "queue" /\ Next /\ UNCHANGED <<part, threadVars>>
    \/ part = "threads" /\ R!Next /\ UNCHANGED <<part, vars>>

MCSpec == MCInit /\ [][MCNext]_<<part, vars, threadVars>>

\* The threads over the queue: a task has one thread, and a stop signal reaches the
\* thread that works on its task or nobody.
ThreadsOwnTheirTasks == part = "threads" => R!TypeOK /\ R!OneThreadPerTask /\ R!SignalsReachTheirTask
=============================================================================
