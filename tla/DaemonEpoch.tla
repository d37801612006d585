---------------------------- MODULE DaemonEpoch ----------------------------
(***************************************************************************)
(* The daemon epoch of src/src/enoch/app/epoch.py and the effect fence of  *)
(* src/src/enoch/app/effects.py, at the level of the epoch file's lock.    *)
(*                                                                         *)
(* A worker is a thread of a daemon process.  begin_daemon_epoch and a     *)
(* bounded effect hold the lock over several steps; a check of the epoch   *)
(* takes and drops the lock around one read, so it is one step that needs  *)
(* the lock to be free.  A runtime call holds no lock: a monitor thread    *)
(* polls the epoch meanwhile.  The lock of a dead process is dropped by    *)
(* the system.                                                             *)
(***************************************************************************)
EXTENDS Integers, Sequences

CONSTANTS Daemons,     \* daemon processes, each started once
          Threads,     \* the threads of a process
          Main,        \* the thread that constructs the application
          Nobody,
          Floor,       \* migration_authority_floor
          ReadErrors,  \* whether a poll of the epoch file may fail
          EffectBound  \* bound: effects in a behaviour

Workers == Daemons \X Threads

ASSUME MainAssumption == Main \in Threads
ASSUME NobodyAssumption == Nobody \notin Workers
ASSUME FloorAssumption == Floor \in Nat
ASSUME ReadErrorsAssumption == ReadErrors \in BOOLEAN

VARIABLES current,  \* generation in daemon_epoch.json, 0 for none
          epoch,    \* generation that each daemon was granted
          process,  \* "new", "up" or "dead"
          lock,     \* holder of the epoch file's lock
          pc,       \* where each worker is
          monitor,  \* of the worker's runtime call: "off", "watching", "fired", "broken"
          log       \* ghost: generations whose bounded effects happened

vars == <<current, epoch, process, lock, pc, monitor, log>>

\* Steps at which a worker holds the lock.
Locked == {"granting", "checking", "effecting", "releasing"}
Unlocked == {"idle", "beginning", "waiting", "running", "returned"}

Up(w) == process[w[1]] = "up"
IsCurrent(w) == epoch[w[1]] = current

Init ==
    /\ current = 0
    /\ epoch = [d \in Daemons |-> 0]
    /\ process = [d \in Daemons |-> "new"]
    /\ lock = Nobody
    /\ pc = [w \in Workers |-> "idle"]
    /\ monitor = [w \in Workers |-> "off"]
    /\ log = <<>>

GoTo(w, step) == pc' = [pc EXCEPT ![w] = step]

-----------------------------------------------------------------------------
(* Taking over.                                                            *)

StartDaemon(d) ==
    /\ process[d] = "new"
    /\ process' = [process EXCEPT ![d] = "up"]
    /\ GoTo(<<d, Main>>, "beginning")
    /\ UNCHANGED <<current, epoch, lock, monitor, log>>

Acquire(w, from, to) ==
    /\ Up(w) /\ pc[w] = from
    /\ lock = Nobody
    /\ lock' = w
    /\ GoTo(w, to)
    /\ UNCHANGED <<current, epoch, process, monitor, log>>

AcquireToBegin(w) == Acquire(w, "beginning", "granting")

Larger(m, n) == IF m < n THEN n ELSE m

\* Fault: the generation is counted from the migrated authority alone.
NextGeneration_Floor(generation) == Floor + 1

NextGeneration(generation) == Larger(generation, Floor) + 1

\* The epoch file is replaced atomically.
Grant(w) ==
    /\ Up(w) /\ pc[w] = "granting"
    /\ current' = NextGeneration(current)
    /\ epoch' = [epoch EXCEPT ![w[1]] = NextGeneration(current)]
    /\ GoTo(w, "releasing")
    /\ UNCHANGED <<process, lock, monitor, log>>

-----------------------------------------------------------------------------
(* Bounded effects: DaemonEffectFence.run under daemon_epoch_guard.        *)

Ready(w) == Up(w) /\ pc[w] = "idle" /\ epoch[w[1]] > 0

BeginEffect(w) ==
    /\ Ready(w)
    /\ GoTo(w, "waiting")
    /\ UNCHANGED <<current, epoch, process, lock, monitor, log>>

AcquireForEffect(w) == Acquire(w, "waiting", "checking")

\* Fault: the epoch is not compared.
CheckEpoch_Never(w) ==
    /\ Up(w) /\ pc[w] = "checking"
    /\ GoTo(w, "effecting")
    /\ UNCHANGED <<current, epoch, process, lock, monitor, log>>

\* A stale daemon is refused with StaleDaemonEpoch.
CheckEpoch(w) ==
    /\ Up(w) /\ pc[w] = "checking"
    /\ GoTo(w, IF IsCurrent(w) THEN "effecting" ELSE "releasing")
    /\ UNCHANGED <<current, epoch, process, lock, monitor, log>>

Commit(w) ==
    /\ Up(w) /\ pc[w] = "effecting"
    /\ Len(log) < EffectBound
    /\ log' = Append(log, epoch[w[1]])
    /\ GoTo(w, "releasing")
    /\ UNCHANGED <<current, epoch, process, lock, monitor>>

\* The effect raises before anything happened.
EffectFails(w) ==
    /\ Up(w) /\ pc[w] = "effecting"
    /\ GoTo(w, "releasing")
    /\ UNCHANGED <<current, epoch, process, lock, monitor, log>>

Release(w) ==
    /\ Up(w) /\ pc[w] = "releasing"
    /\ lock' = Nobody
    /\ GoTo(w, "idle")
    /\ UNCHANGED <<current, epoch, process, monitor, log>>

-----------------------------------------------------------------------------
(* Runtime calls: DaemonEffectFence.runtime_control.                       *)

\* require_current and the monitor's start; a stale daemon stays out.
EnterRuntime(w) ==
    /\ Ready(w)
    /\ lock = Nobody
    /\ IsCurrent(w)
    /\ GoTo(w, "running")
    /\ monitor' = [monitor EXCEPT ![w] = "watching"]
    /\ UNCHANGED <<current, epoch, process, lock, log>>

\* A poll of _monitor_epoch that finds the daemon stale sets the cancellation;
\* one that finds it current changes nothing.
MonitorFires(w) ==
    /\ Up(w) /\ monitor[w] = "watching"
    /\ lock = Nobody
    /\ ~IsCurrent(w)
    /\ monitor' = [monitor EXCEPT ![w] = "fired"]
    /\ UNCHANGED <<current, epoch, process, lock, pc, log>>

\* Only StaleDaemonEpoch is caught: an unreadable epoch file ends the monitor.
MonitorBreaks(w) ==
    /\ ReadErrors
    /\ Up(w) /\ monitor[w] = "watching"
    /\ monitor' = [monitor EXCEPT ![w] = "broken"]
    /\ UNCHANGED <<current, epoch, process, lock, pc, log>>

RuntimeReturns(w) ==
    /\ Up(w) /\ pc[w] = "running"
    /\ GoTo(w, "returned")
    /\ monitor' = [monitor EXCEPT ![w] = "off"]
    /\ UNCHANGED <<current, epoch, process, lock, log>>

\* The epoch is checked again; what the call returned is then persisted by a
\* bounded effect, or lost with StaleDaemonEpoch.
Revalidate(w) ==
    /\ Up(w) /\ pc[w] = "returned"
    /\ lock = Nobody
    /\ GoTo(w, IF IsCurrent(w) THEN "waiting" ELSE "idle")
    /\ UNCHANGED <<current, epoch, process, lock, monitor, log>>

-----------------------------------------------------------------------------
(* The end of a process.                                                   *)

Ended(d) ==
    /\ process[d] = "up"
    /\ process' = [process EXCEPT ![d] = "dead"]
    /\ pc' = [w \in Workers |-> IF w[1] = d THEN "idle" ELSE pc[w]]
    /\ UNCHANGED <<current, epoch, log>>

\* Fault: the lock outlives its process.
Crash_KeepsLock(d) ==
    /\ Ended(d)
    /\ monitor' = [w \in Workers |-> IF w[1] = d THEN "off" ELSE monitor[w]]
    /\ UNCHANGED lock

\* Fault: monitors are no daemon threads and outlive the process.
Crash_KeepsMonitor(d) ==
    /\ Ended(d)
    /\ lock' = IF lock # Nobody /\ lock[1] = d THEN Nobody ELSE lock
    /\ UNCHANGED monitor

Crash(d) ==
    /\ Ended(d)
    /\ lock' = IF lock # Nobody /\ lock[1] = d THEN Nobody ELSE lock
    /\ monitor' = [w \in Workers |-> IF w[1] = d THEN "off" ELSE monitor[w]]

\* Steps that a worker takes by itself once it got so far.
OwnStep(w) ==
    Grant(w) \/ CheckEpoch(w) \/ Commit(w) \/ EffectFails(w) \/ Release(w)

\* Steps that wait for the lock.
LockStep(w) ==
    AcquireToBegin(w) \/ AcquireForEffect(w) \/ Revalidate(w)

FreeStep(w) ==
    BeginEffect(w) \/ EnterRuntime(w) \/ RuntimeReturns(w) \/ MonitorBreaks(w)

Next ==
    \/ \E d \in Daemons : StartDaemon(d) \/ Crash(d)
    \/ \E w \in Workers : OwnStep(w) \/ LockStep(w) \/ MonitorFires(w) \/ FreeStep(w)

Spec == Init /\ [][Next]_vars

\* A thread that holds the lock runs on; flock wakes its waiters at every
\* release and passes none of them over for ever (a worker waits to go on, or its
\* monitor to poll, never both at once); a runtime that was cancelled
\* returns, as its provider must.  Nobody has to begin an effect or a call, and
\* a runtime that is not cancelled may run for ever.
FairSpec ==
    /\ Spec
    /\ \A w \in Workers :
          /\ WF_vars(OwnStep(w))
          /\ SF_vars(LockStep(w) \/ MonitorFires(w))
          /\ WF_vars(monitor[w] = "fired" /\ RuntimeReturns(w))

-----------------------------------------------------------------------------
(* Properties.                                                             *)

\* The file, the processes, the lock and the workers are well formed, and nothing
\* runs in a process that is not up.
TypeOK ==
    /\ current \in Nat
    /\ epoch \in [Daemons -> Nat]
    /\ process \in [Daemons -> {"new", "up", "dead"}]
    /\ lock \in Workers \cup {Nobody}
    /\ pc \in [Workers -> Locked \cup Unlocked]
    /\ monitor \in [Workers -> {"off", "watching", "fired", "broken"}]
    /\ \A w \in Workers : ~Up(w) => pc[w] = "idle" /\ monitor[w] = "off"
    /\ log \in Seq(Nat)

\* The workers that are inside the lock are the one that holds it, crashes
\* included.
LockHeld == \A w \in Workers : pc[w] \in Locked <=> lock = w

\* No two daemons of an installation are granted the same generation, and none
\* is granted one beyond the file's.
GenerationsDiffer ==
    /\ \A d \in Daemons : epoch[d] <= current
    /\ \A d, e \in Daemons : epoch[d] = epoch[e] /\ epoch[d] > 0 => d = e

\* A daemon takes over only between bounded effects: one that was authorised
\* finishes, or dies with its process, before the epoch changes.
TakeoverWaits ==
    [][current' # current => \A w \in Workers : pc[w] # "effecting"]_vars

\* A runtime call is cancelled by its monitor only when its daemon was replaced.
CancelledOnlyIfReplaced ==
    \A w \in Workers : monitor[w] = "fired" => epoch[w[1]] < current

\* Every effect happens under the generation that is current then, so none of an
\* obsolete daemon comes after one of its successor: see EpochFence.
Fence == INSTANCE EpochFence WITH owner <- current
FenceHolds == Fence!FenceSpec

\* A runtime call of a replaced daemon comes to an end, unless its monitor could
\* not read the epoch file.
ReplacedRuntimeEnds ==
    \A w \in Workers :
       pc[w] = "running" /\ ~IsCurrent(w) ~> pc[w] # "running" \/ monitor[w] = "broken"

\* A daemon that was started gets its epoch or dies, whatever the others do.
TakeoverHappens ==
    \A d \in Daemons : process[d] = "up" ~> epoch[d] > 0 \/ process[d] = "dead"
=============================================================================
