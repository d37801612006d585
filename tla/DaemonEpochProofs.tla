-------------------------- MODULE DaemonEpochProofs --------------------------
(***************************************************************************)
(* The safety of DaemonEpoch for any number of daemons and threads, and    *)
(* that it implements EpochFence.                                          *)
(***************************************************************************)
EXTENDS DaemonEpoch, SequenceTheorems, TLAPS

\* The steps of a worker whose daemon has its epoch.
Granted == {"waiting", "checking", "effecting", "running", "returned"}

\* Where a worker is tells what its daemon holds: no epoch before the grant,
\* for which only the main thread waits, one after it, and the current one while an effect is in progress.
Standing ==
    /\ \A d \in Daemons : process[d] = "new" => epoch[d] = 0
    /\ \A w \in Workers :
          /\ pc[w] \in {"beginning", "granting"} => epoch[w[1]] = 0 /\ w[2] = Main
          /\ pc[w] \in Granted \/ monitor[w] # "off" => epoch[w[1]] > 0
          /\ pc[w] = "effecting" => IsCurrent(w)

IInv ==
    /\ TypeOK
    /\ LockHeld
    /\ GenerationsDiffer
    /\ Standing
    /\ CancelledOnlyIfReplaced

\* The first element of a worker is its daemon.
LEMMA Home == \A w \in Workers : w[1] \in Daemons
  BY DEF Workers

\* A worker is known by its daemon and its thread.
LEMMA SameWorker == \A v, w \in Workers : v[1] = w[1] /\ v[2] = w[2] => v = w
  BY DEF Workers

\* A daemon's main thread is one of the workers.
LEMMA MainWorker == \A d \in Daemons : <<d, Main>> \in Workers /\ <<d, Main>>[1] = d /\ <<d, Main>>[2] = Main
  BY MainAssumption DEF Workers

\* The initial state satisfies the inductive invariant.
LEMMA InitIInv == Init => IInv
  <1> SUFFICES ASSUME Init PROVE IInv
    OBVIOUS
  <1> USE Home, NobodyAssumption DEF Init
  <1>1. TypeOK
    BY DEF TypeOK, Up, Locked, Unlocked
  <1>2. LockHeld
    BY DEF LockHeld, Locked
  <1>3. GenerationsDiffer /\ Standing /\ CancelledOnlyIfReplaced
    BY DEF GenerationsDiffer, Standing, CancelledOnlyIfReplaced, Granted
  <1> QED
    BY <1>1, <1>2, <1>3 DEF IInv

\* A step of one worker that leaves the file, the epochs, the processes and the
\* effects alone keeps the invariant, if what it does to the lock, to its place
\* and to its monitor is in order.
LEMMA LocalStep ==
    ASSUME IInv, NEW w \in Workers, Up(w),
           NEW step \in Locked \cup Unlocked,
           NEW watch \in {"off", "watching", "fired", "broken"},
           GoTo(w, step), monitor' = [monitor EXCEPT ![w] = watch],
           lock' \in Workers \cup {Nobody},
           UNCHANGED <<current, epoch, process, log>>,
           \A v \in Workers \ {w} : lock' = v <=> lock = v,
           lock' = w <=> step \in Locked,
           step \in {"beginning", "granting"} => epoch[w[1]] = 0 /\ w[2] = Main,
           step \in Granted \/ watch # "off" => epoch[w[1]] > 0,
           step = "effecting" => IsCurrent(w),
           watch = "fired" => epoch[w[1]] < current
    PROVE  IInv'
  <1> USE Home DEF IInv, TypeOK, GoTo
  <1>1. TypeOK'
    BY DEF Up
  <1>2. LockHeld'
    BY DEF LockHeld
  <1>3. GenerationsDiffer'
    BY DEF GenerationsDiffer
  <1>4. Standing'
    BY DEF Standing, IsCurrent, Granted
  <1>5. CancelledOnlyIfReplaced'
    BY DEF CancelledOnlyIfReplaced
  <1> QED
    BY <1>1, <1>2, <1>3, <1>4, <1>5

\* Starting a daemon keeps the invariant.
LEMMA StartStep == ASSUME IInv, NEW d \in Daemons, StartDaemon(d) PROVE IInv'
  <1> USE Home DEF IInv, TypeOK
  <1> DEFINE w == <<d, Main>>
  <1>1. w \in Workers /\ w[1] = d /\ w[2] = Main
    BY MainWorker
  <1>2. pc[w] = "idle" /\ epoch[d] = 0
    BY <1>1 DEF Up, Standing, StartDaemon
  <1>a. /\ process' = [process EXCEPT ![d] = "up"] /\ pc' = [pc EXCEPT ![w] = "beginning"]
        /\ UNCHANGED <<current, epoch, lock, monitor, log>>
    BY DEF StartDaemon, GoTo
  <1> HIDE DEF w
  <1>3. TypeOK'
    BY <1>1, <1>a DEF Up, Unlocked
  <1>4. LockHeld'
    BY <1>1, <1>2, <1>a DEF LockHeld, Locked
  <1>5. GenerationsDiffer' /\ CancelledOnlyIfReplaced'
    BY <1>a DEF GenerationsDiffer, CancelledOnlyIfReplaced
  <1>6. Standing'
    BY <1>1, <1>2, <1>a DEF Standing, IsCurrent, Granted
  <1> QED
    BY <1>3, <1>4, <1>5, <1>6

\* A daemon that dies keeps the invariant.
LEMMA CrashStep == ASSUME IInv, NEW d \in Daemons, Crash(d) PROVE IInv'
  <1> USE Home, NobodyAssumption DEF IInv, TypeOK, Crash, Ended
  <1>1. TypeOK'
    BY DEF Up, Unlocked
  <1>2. LockHeld'
    BY DEF LockHeld, Locked
  <1>3. GenerationsDiffer' /\ CancelledOnlyIfReplaced'
    BY DEF GenerationsDiffer, CancelledOnlyIfReplaced
  <1>4. Standing'
    BY DEF Standing, IsCurrent, Granted
  <1> QED
    BY <1>1, <1>2, <1>3, <1>4

\* The generation that is granted is higher than the one in the file.
LEMMA NextIsLarger ==
    ASSUME current \in Nat
    PROVE  NextGeneration(current) \in Nat /\ NextGeneration(current) > current
  BY FloorAssumption DEF NextGeneration, Larger

\* Only the holder of the lock is inside it.
LEMMA Alone ==
    ASSUME IInv, NEW w \in Workers, pc[w] \in Locked
    PROVE  lock = w /\ \A v \in Workers \ {w} : pc[v] \notin Locked
  BY DEF IInv, LockHeld

\* A grant keeps the invariant: it happens inside the lock, so no effect is in
\* progress whose epoch it could make stale.
LEMMA GrantStep == ASSUME IInv, NEW w \in Workers, Grant(w) PROVE IInv'
  <1> DEFINE g == NextGeneration(current)
  <1>1. g \in Nat /\ g > current
    BY NextIsLarger DEF IInv, TypeOK
  <1>2. lock = w /\ \A v \in Workers \ {w} : pc[v] \notin Locked
    BY Alone DEF Grant, Locked
  <1> HIDE DEF g
  <1>a. /\ Up(w) /\ pc[w] = "granting" /\ current' = g
        /\ epoch' = [epoch EXCEPT ![w[1]] = g]
        /\ pc' = [pc EXCEPT ![w] = "releasing"]
        /\ UNCHANGED <<process, lock, monitor, log>>
    BY DEF Grant, g, GoTo
  <1> USE Home DEF IInv, TypeOK
  <1>3. TypeOK'
    BY <1>1, <1>a DEF Up, Locked
  <1>4. LockHeld'
    BY <1>a DEF LockHeld, Locked
  <1>5. GenerationsDiffer'
    BY <1>1, <1>a DEF GenerationsDiffer
  <1>6. \A v \in Workers : pc[v] # "effecting" \/ v = w
    BY <1>2 DEF Locked
  <1>7. Standing'
    <2>1. \A d \in Daemons : process'[d] = "new" => epoch'[d] = 0
      BY <1>a DEF Standing, Up
    <2>2. \A v \in Workers : pc'[v] \in {"beginning", "granting"} => epoch'[v[1]] = 0 /\ v[2] = Main
      <3> SUFFICES ASSUME NEW v \in Workers, pc'[v] \in {"beginning", "granting"}
                   PROVE  epoch'[v[1]] = 0 /\ v[2] = Main
        OBVIOUS
      <3>1. v # w /\ pc[v] \in {"beginning", "granting"}
        BY <1>a
      <3>2. pc[v] = "beginning"
        BY <3>1, <1>2 DEF Locked
      <3>3. epoch[v[1]] = 0 /\ v[2] = Main /\ w[2] = Main
        BY <3>2, <1>a DEF Standing
      <3>4. v[1] # w[1]
        BY <3>1, <3>3, SameWorker
      <3> QED
        BY <3>3, <3>4, <1>a
    <2>3. \A v \in Workers : pc'[v] \in Granted \/ monitor'[v] # "off" => epoch'[v[1]] > 0
      BY <1>1, <1>a DEF Standing, Granted
    <2>4. \A v \in Workers : pc'[v] # "effecting"
      BY <1>a, <1>6
    <2> QED
      BY <2>1, <2>2, <2>3, <2>4 DEF Standing
  <1>8. CancelledOnlyIfReplaced'
    BY <1>1, <1>a DEF CancelledOnlyIfReplaced, Standing
  <1> QED
    BY <1>3, <1>4, <1>5, <1>7, <1>8

\* An effect keeps the invariant: its worker is inside the lock with the current
\* epoch.
LEMMA CommitStep == ASSUME IInv, NEW w \in Workers, Commit(w) PROVE IInv'
  <1> DEFINE g == epoch[w[1]]
  <1>1. g \in Nat /\ g = current
    BY Home DEF IInv, TypeOK, Commit, Standing, IsCurrent
  <1> HIDE DEF g
  <1>a. /\ Up(w) /\ pc[w] = "effecting" /\ log' = Append(log, g)
        /\ pc' = [pc EXCEPT ![w] = "releasing"]
        /\ UNCHANGED <<current, epoch, process, lock, monitor>>
    BY DEF Commit, g, GoTo
  <1> USE Home DEF IInv, TypeOK
  <1>2. TypeOK'
    BY <1>1, <1>a DEF Up, Locked
  <1>3. LockHeld'
    BY <1>a DEF LockHeld, Locked
  <1>4. GenerationsDiffer' /\ CancelledOnlyIfReplaced'
    BY <1>a DEF GenerationsDiffer, CancelledOnlyIfReplaced
  <1>5. Standing'
    BY <1>a DEF Standing, IsCurrent, Granted
  <1> QED
    BY <1>2, <1>3, <1>4, <1>5

\* Taking the lock keeps the invariant.
LEMMA AcquireStep ==
    ASSUME IInv, NEW w \in Workers, AcquireToBegin(w) \/ AcquireForEffect(w)
    PROVE  IInv'
  <1>1. PICK step \in {"granting", "checking"} :
            /\ Acquire(w, IF step = "granting" THEN "beginning" ELSE "waiting", step)
    BY DEF AcquireToBegin, AcquireForEffect
  <1>2. monitor' = [monitor EXCEPT ![w] = monitor[w]]
    BY <1>1 DEF Acquire, IInv, TypeOK
  <1>3. monitor[w] \in {"off", "watching", "fired", "broken"}
    BY DEF IInv, TypeOK
  <1>4. /\ step \in {"beginning", "granting"} => epoch[w[1]] = 0 /\ w[2] = Main
        /\ step \in Granted \/ monitor[w] # "off" => epoch[w[1]] > 0
        /\ monitor[w] = "fired" => epoch[w[1]] < current
    BY <1>1 DEF IInv, Standing, Granted, Acquire, CancelledOnlyIfReplaced
  <1>5. /\ lock' = w /\ lock = Nobody
        /\ Up(w) /\ GoTo(w, step) /\ UNCHANGED <<current, epoch, process, log>>
    BY <1>1 DEF Acquire
  <1>6. \A v \in Workers \ {w} : lock' = v <=> lock = v
    BY <1>5, NobodyAssumption
  <1>7. step \in Locked /\ step # "effecting"
    BY DEF Locked
  <1> QED
    BY <1>2, <1>3, <1>4, <1>5, <1>6, <1>7, LocalStep

\* A step inside the lock or out of it keeps the invariant.
LEMMA InsideStep ==
    ASSUME IInv, NEW w \in Workers,
           CheckEpoch(w) \/ EffectFails(w) \/ Release(w)
    PROVE  IInv'
  <1>1. PICK step \in {"effecting", "releasing", "idle"} :
            /\ GoTo(w, step)
            /\ step = "effecting" => pc[w] = "checking" /\ IsCurrent(w)
            /\ lock' = IF step = "idle" THEN Nobody ELSE lock
    BY DEF CheckEpoch, EffectFails, Release
  <1>2. /\ Up(w) /\ pc[w] \in Locked
        /\ UNCHANGED <<current, epoch, process, log>>
        /\ monitor' = monitor
    BY DEF CheckEpoch, EffectFails, Release, Locked
  <1>3. lock = w
    BY <1>2, Alone
  <1>4. monitor' = [monitor EXCEPT ![w] = monitor[w]]
    BY <1>2 DEF IInv, TypeOK
  <1>5. monitor[w] \in {"off", "watching", "fired", "broken"}
    BY DEF IInv, TypeOK
  <1>6. /\ step \in Granted \/ monitor[w] # "off" => epoch[w[1]] > 0
        /\ monitor[w] = "fired" => epoch[w[1]] < current
        /\ step \notin {"beginning", "granting"}
    BY <1>1 DEF IInv, Standing, Granted, CancelledOnlyIfReplaced
  <1>7. /\ \A v \in Workers \ {w} : lock' = v <=> lock = v
        /\ lock' = w <=> step \in Locked
        /\ lock' \in Workers \cup {Nobody}
    BY <1>1, <1>3, NobodyAssumption DEF Locked
  <1>8. step \in Locked \cup Unlocked
    BY DEF Locked, Unlocked
  <1>9. step = "effecting" => IsCurrent(w)
    BY <1>1
  <1> QED
    BY <1>1, <1>2, <1>4, <1>5, <1>6, <1>7, <1>8, <1>9, LocalStep

\* A step outside the lock keeps the invariant.
LEMMA OutsideStep ==
    ASSUME IInv, NEW w \in Workers,
           \/ BeginEffect(w) \/ EnterRuntime(w) \/ RuntimeReturns(w)
           \/ MonitorBreaks(w) \/ MonitorFires(w) \/ Revalidate(w)
    PROVE  IInv'
  <1> USE DEF IInv, TypeOK
  <1>1. Up(w) /\ UNCHANGED <<current, epoch, process, lock, log>>
    BY DEF BeginEffect, Ready, EnterRuntime, RuntimeReturns, MonitorBreaks,
           MonitorFires, Revalidate
  <1>2. PICK step \in Locked \cup Unlocked :
            /\ GoTo(w, step)
            /\ step # pc[w] =>
                  pc[w] \in Unlocked \ {"beginning"} /\ step \in Unlocked \ {"beginning"}
            /\ step \in Granted => pc[w] \in Granted \/ epoch[w[1]] > 0
    <2>1. CASE MonitorBreaks(w) \/ MonitorFires(w)
      <3>1. pc' = [pc EXCEPT ![w] = pc[w]] /\ pc[w] \in Locked \cup Unlocked
        BY <2>1 DEF MonitorBreaks, MonitorFires
      <3> QED
        BY <3>1 DEF GoTo
    <2>2. CASE BeginEffect(w) \/ EnterRuntime(w)
      <3>1. PICK step \in {"waiting", "running"} :
                GoTo(w, step) /\ pc[w] = "idle" /\ epoch[w[1]] > 0
        BY <2>2 DEF BeginEffect, EnterRuntime, Ready
      <3> QED
        BY <3>1 DEF Unlocked
    <2>3. CASE RuntimeReturns(w) \/ Revalidate(w)
      <3>1. PICK step \in {"returned", "waiting", "idle"} :
                GoTo(w, step) /\ pc[w] \in {"running", "returned"}
        BY <2>3 DEF RuntimeReturns, Revalidate
      <3> QED
        BY <3>1 DEF Unlocked, Granted
    <2> QED
      BY <2>1, <2>2, <2>3
  <1>3. PICK watch \in {"off", "watching", "fired", "broken"} :
            /\ monitor' = [monitor EXCEPT ![w] = watch]
            /\ watch # "off" => monitor[w] # "off" \/ epoch[w[1]] > 0
            /\ watch = "fired" => monitor[w] = "fired" \/ ~IsCurrent(w)
    <2>1. monitor = [monitor EXCEPT ![w] = monitor[w]]
      OBVIOUS
    <2> QED
      BY <2>1 DEF BeginEffect, Ready, EnterRuntime, RuntimeReturns, MonitorBreaks,
           MonitorFires, Revalidate
  <1>4. step \in {"beginning", "granting"} => epoch[w[1]] = 0 /\ w[2] = Main
    <2>1. step \in {"beginning", "granting"} => pc[w] = step
      BY <1>2 DEF Unlocked
    <2> QED
      BY <2>1 DEF Standing
  <1>5. step \in Granted \/ watch # "off" => epoch[w[1]] > 0
    BY <1>2, <1>3 DEF Standing
  <1>6. step = "effecting" => IsCurrent(w)
    <2>1. step = "effecting" => pc[w] = "effecting"
      BY <1>2 DEF Unlocked
    <2> QED
      BY <2>1 DEF Standing
  <1>7. watch = "fired" => epoch[w[1]] < current
    BY <1>3, Home DEF CancelledOnlyIfReplaced, IsCurrent, GenerationsDiffer
  <1>8. lock' = w <=> step \in Locked
    BY <1>1, <1>2 DEF LockHeld, Locked, Unlocked
  <1>9. /\ \A v \in Workers \ {w} : lock' = v <=> lock = v
        /\ lock' \in Workers \cup {Nobody}
    BY <1>1
  <1> HIDE DEF IInv, TypeOK
  <1> QED
    BY <1>1, <1>2, <1>3, <1>4, <1>5, <1>6, <1>7, <1>8, <1>9, LocalStep

\* Every step keeps the invariant.
LEMMA NextIInv == IInv /\ [Next]_vars => IInv'
  <1> SUFFICES ASSUME IInv, [Next]_vars PROVE IInv'
    OBVIOUS
  <1>1. CASE \E d \in Daemons : StartDaemon(d) \/ Crash(d)
    BY <1>1, StartStep, CrashStep
  <1>2. ASSUME NEW w \in Workers,
               OwnStep(w) \/ LockStep(w) \/ MonitorFires(w) \/ FreeStep(w)
        PROVE  IInv'
    BY <1>2, GrantStep, CommitStep, AcquireStep, InsideStep, OutsideStep
       DEF OwnStep, LockStep, FreeStep
  <1>3. CASE UNCHANGED vars
    BY <1>3 DEF vars, IInv, TypeOK, LockHeld, GenerationsDiffer, Standing, IsCurrent, Up,
                CancelledOnlyIfReplaced
  <1> QED
    BY <1>1, <1>2, <1>3 DEF Next

\* The invariant holds in every state.
LEMMA Inductive == Spec => []IInv
  BY InitIInv, NextIInv, PTL DEF Spec

-----------------------------------------------------------------------------
(* The safety of the fence.                                                *)

\* The file, the processes, the lock and the workers stay well formed: the
\* type invariant of epoch.py's state.
THEOREM TypeCorrect == Spec => []TypeOK
  BY Inductive, PTL DEF IInv

\* file_transaction keeps the guarded section to one worker, over crashes.
THEOREM LockIsExclusive == Spec => []LockHeld
  BY Inductive, PTL DEF IInv

\* begin_daemon_epoch never grants a generation twice.
THEOREM GenerationsAreUnique == Spec => []GenerationsDiffer
  BY Inductive, PTL DEF IInv

\* _monitor_epoch cancels a runtime call only of a daemon that was replaced.
THEOREM CancellationIsJustified == Spec => []CancelledOnlyIfReplaced
  BY Inductive, PTL DEF IInv

\* The epoch changes only while no bounded effect is in progress: the worker
\* that grants is inside the lock, so no other one is.
THEOREM TakeoverIsExclusive == Spec => TakeoverWaits
  <1>1. IInv /\ [Next]_vars =>
          [current' # current => \A w \in Workers : pc[w] # "effecting"]_vars
    <2> SUFFICES ASSUME IInv, Next, current' # current, NEW v \in Workers
                 PROVE  pc[v] # "effecting"
      BY DEF vars
    <2>1. PICK w \in Workers : Grant(w)
      BY DEF Next, OwnStep, LockStep, FreeStep, StartDaemon, Crash, Ended, CheckEpoch,
             Commit, EffectFails, Release, AcquireToBegin, AcquireForEffect, Acquire,
             Revalidate, MonitorFires, BeginEffect, EnterRuntime, RuntimeReturns,
             MonitorBreaks
    <2>2. pc[w] = "granting" /\ pc[w] \in Locked
      BY <2>1 DEF Grant, Locked
    <2>3. v # w => pc[v] \notin Locked
      BY <2>2, Alone
    <2> QED
      BY <2>2, <2>3 DEF Locked
  <1> QED
    BY <1>1, Inductive, PTL DEF Spec, TakeoverWaits

\* The lock-level protocol implements the fence: a grant is a takeover, a commit
\* is an effect of the owner, and every other step changes nothing.
THEOREM ImplementsFence == Spec => FenceHolds
  <1>1. Init => Fence!FenceInit
    BY DEF Init, Fence!FenceInit
  <1>2. IInv /\ [Next]_vars => [Fence!FenceNext]_<<current, log>>
    <2> SUFFICES ASSUME IInv, [Next]_vars
                 PROVE  Fence!FenceNext \/ UNCHANGED <<current, log>>
      OBVIOUS
    <2>1. ASSUME NEW w \in Workers, Grant(w) PROVE Fence!FenceNext
      <3>1. NextGeneration(current) \in Nat /\ NextGeneration(current) > current
        BY NextIsLarger DEF IInv, TypeOK
      <3> QED
        BY <2>1, <3>1 DEF Grant, Fence!FenceNext, Fence!TakeOver
    <2>2. ASSUME NEW w \in Workers, Commit(w) PROVE Fence!FenceNext
      <3>1. epoch[w[1]] = current /\ current > 0
        BY <2>2 DEF Commit, IInv, Standing, IsCurrent, Granted
      <3> QED
        BY <2>2, <3>1 DEF Commit, Fence!FenceNext, Fence!Effect
    <2>3. \/ \E w \in Workers : Grant(w) \/ Commit(w)
          \/ UNCHANGED <<current, log>>
      BY DEF Next, OwnStep, LockStep, FreeStep, StartDaemon, Crash, Ended, CheckEpoch,
             EffectFails, Release, AcquireToBegin, AcquireForEffect, Acquire,
             Revalidate, MonitorFires, BeginEffect, EnterRuntime, RuntimeReturns,
             MonitorBreaks, vars
    <2> QED
      BY <2>1, <2>2, <2>3
  <1> QED
    BY <1>1, <1>2, Inductive, PTL DEF Spec, FenceHolds, Fence!FenceSpec, Fence!fenceVars
=============================================================================
