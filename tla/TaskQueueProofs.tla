-------------------------- MODULE TaskQueueProofs --------------------------
(***************************************************************************)
(* Proofs about the task queue, for every value of the constants, and      *)
(* about the notification journal that its daemons deliver from.           *)
(*                                                                         *)
(* IInv is inductive: the placement of tasks needs the types, and each of  *)
(* the other parts needs the placement to know which tasks an operation    *)
(* cannot touch.  Every operation but three is an update of one task that  *)
(* moves it between lists: Moved states what such an update must satisfy,  *)
(* MovedKeeps shows once that this is enough, and each operation is then   *)
(* shown to satisfy Moved.                                                 *)
(***************************************************************************)
EXTENDS MCRecovery, SequenceTheorems, TLAPS

-----------------------------------------------------------------------------
(* Sequences: what the list operations of the queue do to the members.     *)

\* Appending a new element keeps a list free of duplicates.
LEMMA AppendNew ==
    ASSUME NEW S, NEW s \in Seq(S), NEW e \in S
    PROVE  /\ Append(s, e) \in Seq(S)
           /\ ToSet(Append(s, e)) = ToSet(s) \cup {e}
           /\ IsInjective(s) /\ e \notin ToSet(s) => IsInjective(Append(s, e))
<1>1. /\ Append(s, e) \in Seq(S)
      /\ DOMAIN Append(s, e) = 1..(Len(s) + 1)
      /\ \A i \in 1..Len(s) : Append(s, e)[i] = s[i]
      /\ Append(s, e)[Len(s) + 1] = e
      /\ DOMAIN s = 1..Len(s) /\ Len(s) \in Nat
  OBVIOUS
<1>2. ToSet(Append(s, e)) = ToSet(s) \cup {e}
  <2>1. ASSUME NEW x \in ToSet(Append(s, e)) PROVE x \in ToSet(s) \cup {e}
    BY <1>1 DEF ToSet
  <2>2. ASSUME NEW x \in ToSet(s) PROVE x \in ToSet(Append(s, e))
    BY <1>1 DEF ToSet
  <2>3. e \in ToSet(Append(s, e))
    BY <1>1 DEF ToSet
  <2>4. QED BY <2>1, <2>2, <2>3
<1>3. IsInjective(s) /\ e \notin ToSet(s) => IsInjective(Append(s, e))
  BY <1>1 DEF IsInjective, ToSet
<1>4. QED BY <1>1, <1>2, <1>3

\* Where the elements of a joined list come from.
LEMMA JoinPlaces ==
    ASSUME NEW S, NEW s \in Seq(S), NEW t \in Seq(S)
    PROVE  /\ s \o t \in Seq(S)
           /\ Len(s) \in Nat /\ Len(t) \in Nat
           /\ Len(s \o t) = Len(s) + Len(t)
           /\ \A i \in 1..Len(s) : (s \o t)[i] = s[i]
           /\ \A i \in 1..Len(t) : (s \o t)[Len(s) + i] = t[i]
  OBVIOUS

\* Joining two lists without common elements.
LEMMA JoinDisjoint ==
    ASSUME NEW S, NEW s \in Seq(S), NEW t \in Seq(S)
    PROVE  /\ s \o t \in Seq(S)
           /\ ToSet(s \o t) = ToSet(s) \cup ToSet(t)
           /\ IsInjective(s) /\ IsInjective(t) /\ ToSet(s) \cap ToSet(t) = {}
                => IsInjective(s \o t)
<1>1. /\ s \o t \in Seq(S)
      /\ Len(s) \in Nat /\ Len(t) \in Nat
      /\ DOMAIN s = 1..Len(s) /\ DOMAIN t = 1..Len(t)
      /\ DOMAIN (s \o t) = 1..(Len(s) + Len(t))
      /\ \A i \in 1..Len(s) : (s \o t)[i] = s[i]
      /\ \A i \in 1..Len(t) : (s \o t)[Len(s) + i] = t[i]
  OBVIOUS
<1>2. ASSUME NEW i \in DOMAIN (s \o t)
      PROVE  \/ i \in DOMAIN s /\ (s \o t)[i] = s[i]
             \/ i - Len(s) \in DOMAIN t /\ (s \o t)[i] = t[i - Len(s)] /\ i > Len(s)
  <2>1. CASE i <= Len(s) BY <1>1, <2>1
  <2>2. CASE i > Len(s)
    <3>1. i - Len(s) \in 1..Len(t) BY <1>1, <2>2
    <3>2. (s \o t)[Len(s) + (i - Len(s))] = t[i - Len(s)] BY <1>1, <3>1
    <3>3. Len(s) + (i - Len(s)) = i BY <1>1
    <3>4. QED BY <1>1, <2>2, <3>1, <3>2, <3>3
  <2>3. QED BY <1>1, <2>1, <2>2
<1>3. ToSet(s \o t) = ToSet(s) \cup ToSet(t)
  <2>1. ASSUME NEW x \in ToSet(s \o t) PROVE x \in ToSet(s) \cup ToSet(t)
    BY <1>2 DEF ToSet
  <2>2. ASSUME NEW x \in ToSet(s) PROVE x \in ToSet(s \o t)
    BY <1>1 DEF ToSet
  <2>3. ASSUME NEW x \in ToSet(t) PROVE x \in ToSet(s \o t)
    <3>1. PICK i \in DOMAIN t : x = t[i] BY DEF ToSet
    <3>2. Len(s) + i \in DOMAIN (s \o t) /\ (s \o t)[Len(s) + i] = x BY <1>1, <3>1
    <3>3. QED BY <3>2 DEF ToSet
  <2>4. QED BY <2>1, <2>2, <2>3
<1>4. ASSUME IsInjective(s), IsInjective(t), ToSet(s) \cap ToSet(t) = {}
      PROVE  IsInjective(s \o t)
  <2> SUFFICES ASSUME NEW i \in DOMAIN (s \o t), NEW j \in DOMAIN (s \o t),
                      (s \o t)[i] = (s \o t)[j]
               PROVE  i = j
    BY DEF IsInjective
  <2>1. CASE i \in DOMAIN s /\ j \in DOMAIN s
    BY <1>1, <1>4, <2>1 DEF IsInjective
  <2>2. CASE i \notin DOMAIN s /\ j \notin DOMAIN s
    <3>1. i - Len(s) \in DOMAIN t /\ j - Len(s) \in DOMAIN t
          /\ t[i - Len(s)] = t[j - Len(s)]
      BY <1>2, <2>2
    <3>2. i - Len(s) = j - Len(s) BY <3>1, <1>4 DEF IsInjective
    <3>3. i \in Int /\ j \in Int BY <1>1
    <3>4. QED BY <3>2, <3>3, <1>1
  <2>3. CASE i \in DOMAIN s /\ j \notin DOMAIN s
    <3>1. (s \o t)[i] \in ToSet(s) BY <1>1, <2>3 DEF ToSet
    <3>2. (s \o t)[j] \in ToSet(t) BY <1>2, <2>3 DEF ToSet
    <3>3. QED BY <3>1, <3>2, <1>4
  <2>4. CASE i \notin DOMAIN s /\ j \in DOMAIN s
    <3>1. (s \o t)[j] \in ToSet(s) BY <1>1, <2>4 DEF ToSet
    <3>2. (s \o t)[i] \in ToSet(t) BY <1>2, <2>4 DEF ToSet
    <3>3. QED BY <3>1, <3>2, <1>4
  <2>5. QED BY <2>1, <2>2, <2>3, <2>4
<1>5. QED BY <1>1, <1>3, <1>4

\* Putting a new element in front.
LEMMA PrependNew ==
    ASSUME NEW S, NEW s \in Seq(S), NEW e \in S
    PROVE  /\ Cons(e, s) \in Seq(S)
           /\ ToSet(Cons(e, s)) = ToSet(s) \cup {e}
           /\ IsInjective(s) /\ e \notin ToSet(s) => IsInjective(Cons(e, s))
<1> DEFINE u == <<e>>
<1>1. u \in Seq(S) /\ ToSet(u) = {e} /\ IsInjective(u)
  BY DEF ToSet, IsInjective
<1>2. Cons(e, s) = u \o s
  BY DEF Cons
<1> HIDE DEF u
<1>3. /\ u \o s \in Seq(S)
      /\ ToSet(u \o s) = ToSet(u) \cup ToSet(s)
      /\ IsInjective(u) /\ IsInjective(s) /\ ToSet(u) \cap ToSet(s) = {}
           => IsInjective(u \o s)
  BY <1>1, JoinDisjoint
<1>4. QED BY <1>1, <1>2, <1>3

\* What is left when the element at one place is removed.
LEMMA RemoveAtShape ==
    ASSUME NEW S, NEW s \in Seq(S), NEW k \in DOMAIN s
    PROVE  /\ RemoveAt(s, k) \in Seq(S)
           /\ DOMAIN RemoveAt(s, k) = 1..(Len(s) - 1)
           /\ \A i \in 1..(Len(s) - 1) :
                 RemoveAt(s, k)[i] = IF i < k THEN s[i] ELSE s[i + 1]
<1> DEFINE d == RemoveAt(s, k)
<1>0. /\ DOMAIN s = 1..Len(s) /\ Len(s) \in Nat /\ k \in 1..Len(s) /\ Len(s) - 1 \in Nat
      /\ \A i \in 1..Len(s) : s[i] \in S
  OBVIOUS
<1> DEFINE front == SubSeq(s, 1, k - 1)
           rear  == SubSeq(s, k + 1, Len(s))
<1>1. /\ front \in Seq(S) /\ Len(front) = k - 1
      /\ \A i \in 1..(k - 1) : front[i] = s[i]
  BY <1>0
<1>2. /\ rear \in Seq(S) /\ Len(rear) = Len(s) - k
      /\ \A i \in 1..(Len(s) - k) : rear[i] = s[k + i]
  BY <1>0
<1>3. /\ d = front \o rear /\ d \in Seq(S)
      /\ DOMAIN d = 1..(Len(front) + Len(rear))
      /\ \A i \in 1..Len(front) : d[i] = front[i]
      /\ \A i \in 1..Len(rear) : d[Len(front) + i] = rear[i]
  <2>1. d = front \o rear BY DEF RemoveAt
  <2> HIDE DEF d, front, rear
  <2>2. /\ d \in Seq(S) /\ Len(d) = Len(front) + Len(rear)
        /\ \A i \in 1..Len(front) : d[i] = front[i]
        /\ \A i \in 1..Len(rear) : d[Len(front) + i] = rear[i]
    <3>1. front \in Seq(S) /\ rear \in Seq(S) BY <1>1, <1>2
    <3>2. /\ front \o rear \in Seq(S)
          /\ Len(front \o rear) = Len(front) + Len(rear)
          /\ \A i \in 1..Len(front) : (front \o rear)[i] = front[i]
          /\ \A i \in 1..Len(rear) : (front \o rear)[Len(front) + i] = rear[i]
      BY <3>1, JoinPlaces
    <3>3. QED BY <3>2, <2>1
  <2>3. DOMAIN d = 1..(Len(front) + Len(rear)) BY <2>2
  <2>4. QED BY <2>1, <2>2, <2>3
<1> HIDE DEF d, front, rear
<1>4. DOMAIN d = 1..(Len(s) - 1)
  BY <1>1, <1>2, <1>3, <1>0
<1>5. ASSUME NEW i \in 1..(Len(s) - 1), i < k PROVE d[i] = s[i]
  BY <1>1, <1>3, <1>5, <1>0
<1>6. ASSUME NEW i \in 1..(Len(s) - 1), ~(i < k) PROVE d[i] = s[i + 1]
  <2> DEFINE r == i - (k - 1)
  <2>1. r \in 1..Len(rear) /\ Len(front) + r = i /\ k + r = i + 1
    BY <1>1, <1>2, <1>6, <1>0
  <2>2. d[Len(front) + r] = rear[r] BY <2>1, <1>3
  <2>3. rear[r] = s[k + r] BY <2>1, <1>2
  <2>4. QED BY <2>1, <2>2, <2>3
<1>7. QED BY <1>3, <1>4, <1>5, <1>6 DEF d

\* Removing the element at one place of a list free of duplicates.
LEMMA RemoveAtPlace ==
    ASSUME NEW S, NEW s \in Seq(S), NEW k \in DOMAIN s, IsInjective(s)
    PROVE  /\ RemoveAt(s, k) \in Seq(S)
           /\ ToSet(RemoveAt(s, k)) = ToSet(s) \ {s[k]}
           /\ IsInjective(RemoveAt(s, k))
<1> DEFINE d == RemoveAt(s, k)
<1>1. /\ DOMAIN s = 1..Len(s) /\ Len(s) \in Nat /\ k \in 1..Len(s) /\ Len(s) - 1 \in Nat
      /\ \A i \in 1..Len(s) : s[i] \in S
  OBVIOUS
<1>2. /\ d \in Seq(S)
      /\ DOMAIN d = 1..(Len(s) - 1)
      /\ \A i \in 1..(Len(s) - 1) : d[i] = IF i < k THEN s[i] ELSE s[i + 1]
  BY RemoveAtShape
<1> HIDE DEF d
<1>4. ASSUME NEW i \in DOMAIN d
      PROVE  LET j == IF i < k THEN i ELSE i + 1 IN
             j \in DOMAIN s /\ d[i] = s[j] /\ j # k
  BY <1>1, <1>2
<1>5. IsInjective(d)
  <2> SUFFICES ASSUME NEW i \in DOMAIN d, NEW j \in DOMAIN d, d[i] = d[j]
               PROVE  i = j
    BY DEF IsInjective
  <2> DEFINE at(n) == IF n < k THEN n ELSE n + 1
  <2>1. at(i) \in DOMAIN s /\ at(j) \in DOMAIN s /\ s[at(i)] = s[at(j)]
    BY <1>4
  <2>2. at(i) = at(j) BY <2>1 DEF IsInjective
  <2>3. i \in Int /\ j \in Int /\ k \in Int BY <1>1, <1>2
  <2>4. QED BY <2>2, <2>3
<1>6. ToSet(d) = ToSet(s) \ {s[k]}
  <2>1. ASSUME NEW x \in ToSet(d) PROVE x \in ToSet(s) \ {s[k]}
    <3>1. PICK i \in DOMAIN d : x = d[i] BY DEF ToSet
    <3>2. PICK j \in DOMAIN s : d[i] = s[j] /\ j # k BY <1>4
    <3>3. QED BY <3>1, <3>2 DEF ToSet, IsInjective
  <2>2. ASSUME NEW x \in ToSet(s) \ {s[k]} PROVE x \in ToSet(d)
    <3>1. PICK i \in 1..Len(s) : x = s[i] /\ i # k BY <1>1 DEF ToSet
    <3>2. CASE i < k
      BY <1>1, <1>2, <3>1, <3>2 DEF ToSet
    <3>3. CASE i > k
      <4>1. i - 1 \in 1..(Len(s) - 1) /\ ~(i - 1 < k) /\ (i - 1) + 1 = i BY <1>1, <3>3
      <4>2. d[i - 1] = x BY <1>2, <3>1, <4>1
      <4>3. QED BY <1>2, <4>1, <4>2 DEF ToSet
    <3>4. QED BY <1>1, <3>1, <3>2, <3>3
  <2>3. QED BY <2>1, <2>2
<1>7. QED BY <1>2, <1>5, <1>6 DEF d

-----------------------------------------------------------------------------
(* The invariant.                                                          *)

IInv ==
    /\ TypeOK
    /\ Placement
    /\ NoStaleOwnership
    /\ IdempotentCreation
    /\ OneLiveRetry
    /\ LaneFIFO

\* What one step may do to finished tasks.
HistoryKept ==
    \A i \in ToSet(history) :
       /\ i \in ToSet(history)'
       /\ job'[i] # job[i] =>
            \/ job[i].status = "completed" /\ job'[i].status = "regressed"
            \/ job[i].status = "regressed" /\ job'[i].status \in {"reverted", "forward-fixed"}

\* The bookkeeping variables that no list depends on keep their types.
RestOK ==
    /\ reconciliation' \in [outcome : {"none", "conflict", "terminal_repair",
                                       "unsupported_evidence",
                                       "interrupted_worker_recovery"},
                            task : Nat, lease : Nat]
    /\ leases' \in Nat
    /\ alive' \subseteq Workers

ListOK(list, S) == list \in Seq(S) /\ IsInjective(list)

\* The list holds the task exactly when the task is meant to be on it.
Relisted(list, newList, id, member) ==
    /\ ListOK(newList, Ids)
    /\ ToSet(newList) = IF member THEN ToSet(list) \cup {id} ELSE ToSet(list) \ {id}

\* What an operation on one task may do to the queue order.
Requeued(id) ==
    \/ pending' = pending
    \/ pending' = Cons(id, pending)
    \/ \E k \in DOMAIN pending : pending[k] = id /\ pending' = RemoveAt(pending, k)

\* Nothing of the task's lane that is unfinished was created before it.
FirstOfLane(id) ==
    \A i \in Ids : i < id /\ job[i].lane = job[id].lane => ~Unfinished(i)

\* When the task may get the fields n without overtaking its lane: it ends,
\* it has no lane, it stays where it is, it comes back to the front or steps
\* aside after it was the first of its lane, or it is that first one.
InTurn(id, n) ==
    \/ n.status \in HistoryStatus
    \/ n.lane = NoLane
    \/ n.status = job[id].status /\ pending' = pending
    \/ /\ job[id].status \in {"running", "paused"}
       /\ n.status = "paused" \/ (n.status = "pending" /\ pending' = Cons(id, pending))
    \/ job[id].status = "pending" /\ n.status = "running" /\ FirstOfLane(id)

\* Task id gets the fields n and sits where n.status says.
Moved(id, n) ==
    /\ id \in Ids
    /\ n \in Job
    /\ job' = Update(id, n)
    /\ n.key = job[id].key /\ n.parent = job[id].parent /\ n.isRetry = job[id].isRetry
    /\ n.lane = job[id].lane
    /\ n.worker # NoWorker => n.status = "running"
    /\ n.terminal # "none" => n.status \in {"running"} \cup HistoryStatus
    /\ id \in ToSet(history) =>
          \/ job[id].status = "completed" /\ n.status = "regressed"
          \/ job[id].status = "regressed" /\ n.status \in {"reverted", "forward-fixed"}
    /\ Relisted(pending, pending', id, n.status = "pending")
    /\ Relisted(paused, paused', id, n.status = "paused")
    /\ Relisted(history, history', id, n.status \in HistoryStatus)
    /\ IF n.status = "running"
       THEN running \in {0, id} /\ running' = id
       ELSE running' = IF running = id THEN 0 ELSE running
    /\ Requeued(id) /\ InTurn(id, n)
    /\ RestOK

-----------------------------------------------------------------------------
(* The order of the queue.                                                 *)

\* Joining keeps the order of both lists, the first before the second.
LEMMA JoinOrder ==
    ASSUME NEW S, NEW s \in Seq(S), NEW t \in Seq(S), NEW i, NEW j
    PROVE  /\ Before(t, i, j) => Before(s \o t, i, j)
           /\ i \in ToSet(s) /\ j \in ToSet(t) => Before(s \o t, i, j)
<1>1. /\ Len(s) \in Nat /\ Len(t) \in Nat
      /\ DOMAIN s = 1..Len(s) /\ DOMAIN t = 1..Len(t)
      /\ DOMAIN (s \o t) = 1..(Len(s) + Len(t))
      /\ \A m \in 1..Len(s) : (s \o t)[m] = s[m]
      /\ \A m \in 1..Len(t) : (s \o t)[Len(s) + m] = t[m]
  BY JoinPlaces
<1> DEFINE u == s \o t
<1> HIDE DEF u
<1>2. ASSUME Before(t, i, j) PROVE Before(u, i, j)
  <2>1. PICK m \in DOMAIN t, n \in DOMAIN t : m < n /\ t[m] = i /\ t[n] = j
    BY <1>2 DEF Before
  <2>2. /\ Len(s) + m \in DOMAIN u /\ Len(s) + n \in DOMAIN u
        /\ Len(s) + m < Len(s) + n
    BY <1>1, <2>1 DEF u
  <2>3. u[Len(s) + m] = i /\ u[Len(s) + n] = j BY <1>1, <2>1 DEF u
  <2>4. QED BY <2>2, <2>3 DEF Before
<1>3. ASSUME i \in ToSet(s), j \in ToSet(t) PROVE Before(u, i, j)
  <2>1. PICK m \in DOMAIN s, n \in DOMAIN t : s[m] = i /\ t[n] = j
    BY <1>3 DEF ToSet
  <2>2. m \in DOMAIN u /\ Len(s) + n \in DOMAIN u /\ m < Len(s) + n
    BY <1>1, <2>1 DEF u
  <2>3. u[m] = i /\ u[Len(s) + n] = j BY <1>1, <2>1 DEF u
  <2>4. QED BY <2>2, <2>3 DEF Before
<1>4. QED BY <1>2, <1>3 DEF u

\* Putting an element in front keeps the order of the others behind it.
LEMMA PrependOrder ==
    ASSUME NEW S, NEW s \in Seq(S), NEW e \in S, NEW i, NEW j
    PROVE  /\ Before(s, i, j) => Before(Cons(e, s), i, j)
           /\ j \in ToSet(s) => Before(Cons(e, s), e, j)
<1> DEFINE u == <<e>>
<1>1. u \in Seq(S) /\ e \in ToSet(u) BY DEF ToSet
<1>2. Cons(e, s) = u \o s BY DEF Cons
<1> HIDE DEF u
<1>3. QED BY <1>1, <1>2, JoinOrder

\* Appending an element keeps the order of the others in front of it.
LEMMA AppendOrder ==
    ASSUME NEW S, NEW s \in Seq(S), NEW e \in S, NEW i, NEW j
    PROVE  /\ Before(s, i, j) => Before(Append(s, e), i, j)
           /\ i \in ToSet(s) => Before(Append(s, e), i, e)
<1>1. /\ DOMAIN s = 1..Len(s) /\ Len(s) \in Nat
      /\ DOMAIN Append(s, e) = 1..(Len(s) + 1)
      /\ \A m \in 1..Len(s) : Append(s, e)[m] = s[m]
      /\ Append(s, e)[Len(s) + 1] = e
  OBVIOUS
<1>2. ASSUME Before(s, i, j) PROVE Before(Append(s, e), i, j)
  BY <1>1, <1>2 DEF Before
<1>3. ASSUME i \in ToSet(s) PROVE Before(Append(s, e), i, e)
  <2>1. PICK m \in DOMAIN s : s[m] = i BY <1>3 DEF ToSet
  <2>2. /\ m \in DOMAIN Append(s, e) /\ Len(s) + 1 \in DOMAIN Append(s, e)
        /\ m < Len(s) + 1
    BY <1>1, <2>1
  <2>3. QED BY <1>1, <2>1, <2>2 DEF Before
<1>4. QED BY <1>2, <1>3

\* Removing an element keeps the order of the others.
LEMMA RemoveOrder ==
    ASSUME NEW S, NEW s \in Seq(S), NEW k \in DOMAIN s, NEW i, NEW j,
           i # s[k], j # s[k], Before(s, i, j)
    PROVE  Before(RemoveAt(s, k), i, j)
<1> DEFINE d == RemoveAt(s, k)
<1>1. /\ DOMAIN s = 1..Len(s) /\ Len(s) \in Nat /\ k \in 1..Len(s)
      /\ DOMAIN d = 1..(Len(s) - 1)
      /\ \A m \in 1..(Len(s) - 1) : d[m] = IF m < k THEN s[m] ELSE s[m + 1]
  <2>1. DOMAIN s = 1..Len(s) /\ Len(s) \in Nat /\ k \in 1..Len(s) OBVIOUS
  <2>2. QED BY <2>1, RemoveAtShape
<1> HIDE DEF d
<1>2. PICK m \in DOMAIN s, n \in DOMAIN s : m < n /\ s[m] = i /\ s[n] = j
  BY DEF Before
<1> DEFINE at(x) == IF x < k THEN x ELSE x - 1
<1>3. ASSUME NEW x \in DOMAIN s, x # k PROVE at(x) \in DOMAIN d /\ d[at(x)] = s[x]
  <2>1. CASE x < k BY <1>1, <1>3, <2>1
  <2>2. CASE x > k
    <3>1. at(x) = x - 1 /\ x - 1 \in 1..(Len(s) - 1) /\ ~(x - 1 < k) /\ (x - 1) + 1 = x
      BY <1>1, <2>2
    <3>2. QED BY <1>1, <3>1
  <2>3. QED BY <1>1, <1>3, <2>1, <2>2
<1>4. m # k /\ n # k BY <1>2
<1>5. at(m) < at(n) BY <1>1, <1>2, <1>4
<1>6. QED BY <1>2, <1>3, <1>4, <1>5 DEF Before, d

\* Whatever one operation does to its own task, the others keep their order.
LEMMA RequeuedOrder ==
    ASSUME pending \in Seq(Ids), NEW id \in Ids, Requeued(id), NEW i, NEW j,
           i # id, j # id, Before(pending, i, j)
    PROVE  Before(pending', i, j)
<1>1. ASSUME NEW k \in DOMAIN pending, pending[k] = id, pending' = RemoveAt(pending, k)
      PROVE  Before(pending', i, j)
  BY <1>1, RemoveOrder
<1>2. CASE pending' = Cons(id, pending) BY <1>2, PrependOrder
<1>3. QED BY <1>1, <1>2 DEF Requeued

\* An update of one task in its turn keeps the lanes in order.
LEMMA InTurnKeepsFIFO ==
    ASSUME TypeOK, Placement, LaneFIFO, NEW id \in Ids, NEW n,
           Ids' = Ids, job'[id] = n, \A i \in Ids : i # id => job'[i] = job[i],
           n.lane = job[id].lane, Requeued(id), InTurn(id, n)
    PROVE  LaneFIFO'
<1> SUFFICES ASSUME NEW i \in Ids, NEW j \in Ids, i < j,
                    job'[i].lane # NoLane, job'[i].lane = job'[j].lane,
                    Unfinished(i)', Unfinished(j)'
             PROVE  /\ job'[j].status = "pending"
                    /\ job'[i].status = "pending" => Before(pending', i, j)
  BY DEF LaneFIFO
<1>1. job[i].lane # NoLane /\ job[i].lane = job[j].lane BY DEF LaneFIFO
<1>2. pending \in Seq(Ids) /\ id \in Int /\ i \in Int /\ j \in Int
  BY DEF TypeOK, Ids
<1>3. ASSUME Unfinished(i), Unfinished(j)
      PROVE  /\ job[j].status = "pending" /\ j \in ToSet(pending)
             /\ job[i].status = "pending" => Before(pending, i, j)
  BY <1>1, <1>3 DEF LaneFIFO, Placement
<1>4. CASE i # id /\ j # id
  <2>1. Unfinished(i) /\ Unfinished(j) BY <1>4 DEF Unfinished
  <2>2. QED BY <1>2, <1>3, <1>4, <2>1, RequeuedOrder
<1>5. CASE i = id
  <2>1. j # id /\ Unfinished(j) BY <1>2, <1>5 DEF Unfinished
  <2>2. CASE n.status = job[id].status /\ pending' = pending
    <3>1. Unfinished(i) BY <1>5, <2>2 DEF Unfinished
    <3>2. QED BY <1>3, <1>5, <2>1, <2>2, <3>1
  <2>3. CASE /\ job[id].status \in {"running", "paused"}
             /\ n.status = "paused" \/ (n.status = "pending" /\ pending' = Cons(id, pending))
    <3>1. Unfinished(i) BY <1>5, <2>3 DEF Unfinished
    <3>2. job'[j].status = "pending" /\ j \in ToSet(pending) BY <1>3, <2>1, <3>1
    <3>3. pending' = Cons(id, pending) => Before(pending', id, j)
      BY <1>2, <3>2, PrependOrder
    <3>4. QED BY <1>5, <2>3, <3>2, <3>3
  <2>4. CASE job[id].status = "pending" /\ n.status = "running" /\ FirstOfLane(id)
    <3>1. Unfinished(i) BY <1>5, <2>4 DEF Unfinished
    <3>2. QED BY <1>3, <1>5, <2>1, <2>4, <3>1
  <2>5. n.status \notin HistoryStatus /\ n.lane # NoLane
    BY <1>5 DEF Unfinished, HistoryStatus, FinalStatus
  <2>6. QED BY <2>2, <2>3, <2>4, <2>5 DEF InTurn
<1>6. CASE j = id
  <2>1. i # id /\ Unfinished(i) /\ job[i].status = job'[i].status
    BY <1>2, <1>6 DEF Unfinished
  <2>2. CASE n.status = job[id].status /\ pending' = pending
    <3>1. Unfinished(j) BY <1>6, <2>2 DEF Unfinished
    <3>2. QED BY <1>3, <1>6, <2>1, <2>2, <3>1
  <2>3. CASE job[id].status \in {"running", "paused"}
    BY <1>3, <1>6, <2>1, <2>3 DEF Unfinished
  <2>4. CASE FirstOfLane(id)
    BY <1>1, <1>6, <2>1, <2>4 DEF FirstOfLane
  <2>5. n.status \notin HistoryStatus /\ n.lane # NoLane
    BY <1>6 DEF Unfinished, HistoryStatus, FinalStatus
  <2>6. QED BY <2>2, <2>3, <2>4, <2>5 DEF InTurn
<1>7. QED BY <1>4, <1>5, <1>6

-----------------------------------------------------------------------------
\* Updating one task and moving it to the list of its new status keeps the
\* invariant.
LEMMA MovedKeeps ==
    ASSUME IInv, NEW id, NEW n, Moved(id, n)
    PROVE  IInv' /\ HistoryKept
<1> USE DEF IInv
<1>1. /\ Ids' = Ids /\ id \in Ids /\ n \in Job
      /\ job \in Seq(Job) /\ job' \in Seq(Job)
      /\ job'[id] = n
      /\ \A i \in Ids : i # id => job'[i] = job[i]
  BY DEF Moved, TypeOK, Ids, Update
<1>2. TypeOK'
  <2>1. running' \in {0} \cup Ids
    BY DEF Moved, TypeOK
  <2>2. QED BY <1>1, <2>1 DEF Moved, Relisted, ListOK, RestOK, TypeOK
<1>3. /\ 0 \notin Ids
      /\ \A i \in Ids : job[i] \in Job /\ job[i].status \in Status
      /\ n.status \in Status
  <2>1. 0 \notin Ids BY DEF TypeOK, Ids
  <2>2. \A i \in Ids : job[i] \in Job BY <1>1 DEF Ids
  <2>3. \A j \in Job : j.status \in Status BY DEF Job
  <2>4. QED BY <1>1, <2>1, <2>2, <2>3
<1>4. Placement'
  <2>1. IsInjective(pending)' /\ IsInjective(paused)' /\ IsInjective(history)'
    BY DEF Moved, Relisted, ListOK
  <2>2. ASSUME NEW i \in Ids
        PROVE  /\ i \in ToSet(pending') <=> job'[i].status = "pending"
               /\ i = running' <=> job'[i].status = "running"
               /\ i \in ToSet(paused') <=> job'[i].status = "paused"
               /\ i \in ToSet(history') <=> job'[i].status \in HistoryStatus
    <3>1. CASE i = id
      BY <1>1, <1>3, <3>1 DEF Moved, Relisted, Placement
    <3>2. CASE i # id
      BY <1>1, <1>3, <3>2 DEF Moved, Relisted, Placement
    <3>3. QED BY <3>1, <3>2
  <2>3. QED BY <1>1, <2>1, <2>2 DEF Placement
<1>5. NoStaleOwnership'
  BY <1>1 DEF NoStaleOwnership, Moved
<1>6. IdempotentCreation'
  BY <1>1 DEF IdempotentCreation, Moved
<1>7. /\ HistoryKept
      /\ job[id].status = "cancelled" => n.status = "cancelled"
  <2>1. ToSet(history) \subseteq Ids BY DEF TypeOK, ToSet
  <2>2. id \in ToSet(history) <=> job[id].status \in HistoryStatus
    BY <1>1 DEF Placement
  <2>3. id \in ToSet(history) => id \in ToSet(history')
    BY DEF Moved, Relisted, HistoryStatus
  <2>4. \A i \in ToSet(history) : i \in ToSet(history')
    BY <2>3 DEF Moved, Relisted
  <2>5. QED BY <1>1, <2>1, <2>2, <2>4 DEF HistoryKept, Moved, HistoryStatus, FinalStatus
<1>8. OneLiveRetry'
  BY <1>1, <1>7 DEF OneLiveRetry, Moved
<1>9. LaneFIFO'
  BY <1>1, InTurnKeepsFIFO DEF Moved
<1>10. QED BY <1>2, <1>4, <1>5, <1>6, <1>7, <1>8, <1>9

-----------------------------------------------------------------------------
\* Where a new task goes.
Listed(n) ==
    \/ /\ n.status = "pending"
       /\ running' = running
       /\ ListOK(pending', Ids \cup {nextId})
       /\ ToSet(pending') = ToSet(pending) \cup {nextId}
       /\ \/ pending' = Append(pending, nextId)
          \/ pending' = Cons(nextId, pending) /\ n.lane = NoLane
    \/ /\ n.status = "running"
       /\ running = 0
       /\ running' = nextId
       /\ pending' = pending
       /\ n.lane = NoLane

\* Creating one task keeps the invariant.
LEMMA CreatedKeeps ==
    ASSUME IInv, NEW n \in Job, Create(n), Listed(n),
           n.worker = NoWorker, n.terminal = "none",
           n.isRetry => ~AlreadyRetried(n.parent)
    PROVE  IInv' /\ HistoryKept
<1> USE DEF IInv
<1>1. /\ job \in Seq(Job) /\ job' \in Seq(Job)
      /\ Ids' = Ids \cup {nextId} /\ nextId \notin Ids /\ nextId \in Nat \ {0}
      /\ 0 \notin Ids
      /\ job'[nextId] = n
      /\ \A i \in Ids : job'[i] = job[i] /\ job'[i] \in Job
  <2>1. job \in Seq(Job) /\ job' = Append(job, n) BY DEF TypeOK, Create
  <2>2. QED BY <2>1 DEF Ids, nextId
<1>2. ToSet(pending) \subseteq Ids /\ ToSet(paused) \subseteq Ids /\ ToSet(history) \subseteq Ids
  BY DEF TypeOK, ToSet
<1>3. TypeOK'
  <2>1. paused' \in Seq(Ids') /\ history' \in Seq(Ids')
    BY <1>1, SeqMonotonic DEF TypeOK, Create
  <2>2. pending' \in Seq(Ids') /\ running' \in {0} \cup Ids'
    BY <1>1, SeqMonotonic DEF TypeOK, Listed, ListOK
  <2>3. reconciliation' = reconciliation /\ leases' = leases /\ alive' = alive
    BY DEF Create
  <2>4. QED BY <1>1, <2>1, <2>2, <2>3 DEF TypeOK
<1>4. Placement'
  <2>1. IsInjective(pending)' /\ IsInjective(paused)' /\ IsInjective(history)'
    BY DEF Listed, ListOK, Create, Placement
  <2>2. ASSUME NEW i \in Ids'
        PROVE  /\ i \in ToSet(pending') <=> job'[i].status = "pending"
               /\ i = running' <=> job'[i].status = "running"
               /\ i \in ToSet(paused') <=> job'[i].status = "paused"
               /\ i \in ToSet(history') <=> job'[i].status \in HistoryStatus
    <3>1. CASE i = nextId
      BY <1>1, <1>2, <3>1 DEF Listed, Create, HistoryStatus, FinalStatus, TypeOK
    <3>2. CASE i # nextId
      BY <1>1, <3>2 DEF Listed, Create, Placement
    <3>3. QED BY <3>1, <3>2
  <2>3. QED BY <2>1, <2>2 DEF Placement
<1>5. NoStaleOwnership'
  BY <1>1 DEF NoStaleOwnership
<1>6. IdempotentCreation'
  <2>1. n.key # NoKey => \A i \in Ids : job[i].key # n.key BY DEF Create, KeyTaken
  <2>2. QED BY <1>1, <2>1 DEF IdempotentCreation
<1>7. OneLiveRetry'
  <2>1. n.isRetry => \A i \in Ids : job[i].parent = n.parent => job[i].status = "cancelled"
    BY DEF AlreadyRetried
  <2>2. QED BY <1>1, <2>1 DEF OneLiveRetry
<1>8. HistoryKept
  BY <1>1, <1>2 DEF HistoryKept, Create
<1>9. LaneFIFO'
  <2> SUFFICES ASSUME NEW i \in Ids', NEW j \in Ids', i < j,
                      job'[i].lane # NoLane, job'[i].lane = job'[j].lane,
                      Unfinished(i)', Unfinished(j)'
               PROVE  /\ job'[j].status = "pending"
                      /\ job'[i].status = "pending" => Before(pending', i, j)
    BY DEF LaneFIFO
  <2>1. /\ i \in Int /\ j \in Int /\ \A k \in Ids : k < nextId
        /\ pending \in Seq(Ids \cup {nextId})
    BY <1>1, SeqMonotonic DEF TypeOK, Ids, nextId
  <2>2. i \in Ids BY <1>1, <2>1
  <2>3. job'[i].status = "pending" => i \in ToSet(pending)
    BY <1>1, <2>2 DEF Placement
  <2>4. CASE j = nextId
    <3>1. n.lane # NoLane BY <1>1, <2>4
    <3>2. n.status = "pending" /\ pending' = Append(pending, nextId) BY <3>1 DEF Listed
    <3>3. QED BY <1>1, <2>1, <2>3, <2>4, <3>2, AppendOrder
  <2>5. CASE j \in Ids
    <3>1. /\ job[j].status = "pending"
          /\ job[i].status = "pending" => Before(pending, i, j)
      BY <1>1, <2>2, <2>5 DEF LaneFIFO, Unfinished
    <3>2. Before(pending, i, j) => Before(pending', i, j)
      <4> DEFINE S == Ids \cup {nextId}
      <4>1. pending \in Seq(S) /\ nextId \in S BY <2>1
      <4> HIDE DEF S
      <4>2. /\ Before(pending, i, j) => Before(Append(pending, nextId), i, j)
            /\ Before(pending, i, j) => Before(Cons(nextId, pending), i, j)
        BY <4>1, AppendOrder, PrependOrder
      <4>3. QED BY <4>2 DEF Listed
    <3>3. QED BY <1>1, <2>2, <2>5, <3>1, <3>2
  <2>6. QED BY <1>1, <2>4, <2>5
<1>10. QED BY <1>3, <1>4, <1>5, <1>6, <1>7, <1>8, <1>9

-----------------------------------------------------------------------------
(* The operations.                                                         *)

\* A new task without owner has the fields of a task.
LEMMA NewJobOK ==
    ASSUME NEW status \in Status, NEW attempt \in Nat, NEW lane \in Lanes \cup {NoLane},
           NEW key \in Keys \cup {NoKey}, NEW parent \in Nat
    PROVE  /\ NewJob(status, attempt, lane, key, parent) \in Job
           /\ NewJob(status, attempt, lane, key, parent).status = status
           /\ NewJob(status, attempt, lane, key, parent).worker = NoWorker
           /\ NewJob(status, attempt, lane, key, parent).lane = lane
           /\ NewJob(status, attempt, lane, key, parent).terminal = "none"
           /\ ~NewJob(status, attempt, lane, key, parent).isRetry
  BY DEF NewJob, Job, Stages

\* Appending or prepending the new task lists it.
LEMMA NewlyListed ==
    ASSUME IInv, NEW n, n.status = "pending", running' = running,
           \/ pending' = Append(pending, nextId)
           \/ pending' = Cons(nextId, pending) /\ n.lane = NoLane
    PROVE  Listed(n)
<1>1. pending \in Seq(Ids) /\ IsInjective(pending) BY DEF IInv, TypeOK, Placement
<1>2. nextId \notin Ids BY DEF IInv, TypeOK, Ids, nextId
<1>3. nextId \notin ToSet(pending) BY <1>1, <1>2 DEF ToSet
<1> DEFINE S == Ids \cup {nextId}
<1>4. pending \in Seq(S) /\ nextId \in S BY <1>1, SeqMonotonic
<1> HIDE DEF S
<1>5. /\ ListOK(pending', S)
      /\ ToSet(pending') = ToSet(pending) \cup {nextId}
  <2>1. /\ Append(pending, nextId) \in Seq(S)
        /\ ToSet(Append(pending, nextId)) = ToSet(pending) \cup {nextId}
        /\ IsInjective(Append(pending, nextId))
    BY <1>1, <1>3, <1>4, AppendNew
  <2>2. /\ Cons(nextId, pending) \in Seq(S)
        /\ ToSet(Cons(nextId, pending)) = ToSet(pending) \cup {nextId}
        /\ IsInjective(Cons(nextId, pending))
    BY <1>1, <1>3, <1>4, PrependNew
  <2>3. QED BY <2>1, <2>2 DEF ListOK
<1>6. QED BY <1>5 DEF Listed, S

\* A task is created: enqueued, begun directly or retried.
LEMMA CreateStepKeeps ==
    ASSUME IInv, CreateStep
    PROVE  IInv' /\ HistoryKept
<1>1. ASSUME NEW lane \in Lanes \cup {NoLane}, NEW key \in Keys \cup {NoKey},
             NEW parent \in {0} \cup Ids, Enqueue(lane, key, parent)
      PROVE  IInv' /\ HistoryKept
  <2> DEFINE n == NewJob("pending", 0, lane, key, parent)
  <2>1. parent \in Nat BY DEF IInv, TypeOK, Ids
  <2>2. /\ n \in Job /\ n.status = "pending" /\ n.worker = NoWorker
        /\ n.terminal = "none" /\ ~n.isRetry
    BY <2>1, NewJobOK DEF Status, QueuedStatus
  <2>3. Create(n) /\ running' = running /\ pending' = Append(pending, nextId)
    BY <1>1 DEF Enqueue
  <2> HIDE DEF n
  <2>4. QED BY <2>2, <2>3, NewlyListed, CreatedKeeps
<1>2. ASSUME NEW key \in Keys \cup {NoKey}, EnqueueFront(key)
      PROVE  IInv' /\ HistoryKept
  <2> DEFINE n == NewJob("pending", 0, NoLane, key, 0)
  <2>1. /\ n \in Job /\ n.status = "pending" /\ n.worker = NoWorker
        /\ n.terminal = "none" /\ ~n.isRetry /\ n.lane = NoLane
    BY NewJobOK DEF Status, QueuedStatus
  <2>2. Create(n) /\ running' = running /\ pending' = Cons(nextId, pending)
    BY <1>2 DEF EnqueueFront
  <2> HIDE DEF n
  <2>3. QED BY <2>1, <2>2, NewlyListed, CreatedKeeps
<1>3. ASSUME NEW key \in Keys \cup {NoKey}, BeginDirect(key)
      PROVE  IInv' /\ HistoryKept
  <2> DEFINE n == NewJob("running", 1, NoLane, key, 0)
  <2>1. /\ n \in Job /\ n.status = "running" /\ n.worker = NoWorker
        /\ n.terminal = "none" /\ ~n.isRetry /\ n.lane = NoLane
    BY NewJobOK DEF Status
  <2>2. Create(n) /\ running = 0 /\ running' = nextId /\ pending' = pending
    BY <1>3 DEF BeginDirect
  <2> HIDE DEF n
  <2>3. Listed(n) BY <2>1, <2>2 DEF Listed
  <2>4. QED BY <2>1, <2>2, <2>3, CreatedKeeps
<1>4. ASSUME NEW id \in Ids, RetryFailed(id)
      PROVE  IInv' /\ HistoryKept
  <2>0. PICK reconciled \in BOOLEAN, url \in BOOLEAN :
          LET original == job[id]
              publicationOnly == UnpublishedRevision(original) /\ ~reconciled
              copy == [NewJob("pending", 0, original.lane, NoKey, id) EXCEPT
                         !.isRetry = TRUE,
                         !.stage = IF publicationOnly THEN "captured" ELSE original.stage,
                         !.revision = original.revision,
                         !.ref = original.ref /\ (publicationOnly => url),
                         !.published = ~publicationOnly /\ original.published]
          IN /\ ~AlreadyRetried(id) /\ Create(copy)
             /\ pending' = Append(pending, nextId) /\ UNCHANGED running
    BY <1>4 DEF RetryFailed
  <2> DEFINE base == NewJob("pending", 0, job[id].lane, NoKey, id)
             publicationOnly == UnpublishedRevision(job[id]) /\ ~reconciled
             stage == IF publicationOnly THEN "captured" ELSE job[id].stage
             published == ~publicationOnly /\ job[id].published
             ref == job[id].ref /\ (publicationOnly => url)
             n == [base EXCEPT
                     !.isRetry = TRUE,
                     !.stage = stage,
                     !.revision = job[id].revision,
                     !.ref = ref,
                     !.published = published]
  <2>1. job[id] \in Job /\ id \in Nat BY DEF IInv, TypeOK, Ids
  <2>2. job[id].lane \in Lanes \cup {NoLane} BY <2>1 DEF Job
  <2>3. /\ base \in Job /\ base.status = "pending" /\ base.worker = NoWorker
        /\ base.terminal = "none" /\ base.parent = id
    BY <2>1, <2>2, NewJobOK DEF Status, QueuedStatus, NewJob
  <2>4. Create(n) /\ running' = running /\ pending' = Append(pending, nextId)
        /\ ~AlreadyRetried(id)
    BY <2>0
  <2>5. /\ stage \in Stages /\ published \in BOOLEAN
        /\ job[id].revision \in BOOLEAN /\ ref \in BOOLEAN
    BY <2>1 DEF Job, Stages
  <2> HIDE DEF base, publicationOnly, stage, published, ref
  <2>6. /\ n \in Job /\ n.status = "pending" /\ n.worker = NoWorker
        /\ n.terminal = "none" /\ n.parent = id
    BY <2>3, <2>5 DEF Job
  <2> HIDE DEF n
  <2>7. QED BY <2>4, <2>6, NewlyListed, CreatedKeeps
<1>5. QED BY <1>1, <1>2, <1>3, <1>4 DEF CreateStep

-----------------------------------------------------------------------------
(* What each list operation means for one task.                            *)

\* The three lists hold tasks, each at most once.
LEMMA ListsOK ==
    ASSUME IInv
    PROVE  ListOK(pending, Ids) /\ ListOK(paused, Ids) /\ ListOK(history, Ids)
  BY DEF IInv, TypeOK, Placement, ListOK

\* A list that stays as it is.
LEMMA SameList ==
    ASSUME NEW list, ListOK(list, Ids), NEW id, NEW member,
           IF member THEN id \in ToSet(list) ELSE id \notin ToSet(list)
    PROVE  Relisted(list, list, id, member)
  BY DEF Relisted

\* A task is added behind a list.
LEMMA AppendedList ==
    ASSUME NEW list, ListOK(list, Ids), NEW id \in Ids, id \notin ToSet(list),
           NEW member, member
    PROVE  Relisted(list, Append(list, id), id, member)
  BY AppendNew DEF Relisted, ListOK

\* A task is added in front of a list.
LEMMA PrependedList ==
    ASSUME NEW list, ListOK(list, Ids), NEW id \in Ids, id \notin ToSet(list),
           NEW member, member
    PROVE  Relisted(list, Cons(id, list), id, member)
  BY PrependNew DEF Relisted, ListOK

\* A task is taken from a list.
LEMMA RemovedList ==
    ASSUME NEW list, ListOK(list, Ids), NEW k \in DOMAIN list, NEW member, ~member
    PROVE  Relisted(list, RemoveAt(list, k), list[k], member)
  BY RemoveAtPlace DEF Relisted, ListOK

\* Where a task is, by its status.
LEMMA PlaceOf ==
    ASSUME IInv, NEW id \in Ids
    PROVE  /\ id # 0 /\ job[id] \in Job
           /\ id \in ToSet(pending) <=> job[id].status = "pending"
           /\ id = running <=> job[id].status = "running"
           /\ id \in ToSet(paused) <=> job[id].status = "paused"
           /\ id \in ToSet(history) <=> job[id].status \in HistoryStatus
  BY DEF IInv, TypeOK, Placement, Ids

-----------------------------------------------------------------------------
(* The running task.                                                       *)

SameOrigin(n, j) ==
    /\ n.key = j.key /\ n.parent = j.parent /\ n.isRetry = j.isRetry
    /\ n.lane = j.lane

\* It stays running.
LEMMA StayMoves ==
    ASSUME IInv, NEW id \in Ids, running = id, NEW n \in Job, SameOrigin(n, job[id]),
           n.status = "running", Put(n), KeepLists, leases' \in Nat, alive' = alive
    PROVE  Moved(id, n)
<1>1. job[id].status = "running" /\ n.status \notin HistoryStatus
  BY PlaceOf DEF HistoryStatus, FinalStatus
<1>2. /\ Relisted(pending, pending, id, n.status = "pending")
      /\ Relisted(paused, paused, id, n.status = "paused")
      /\ Relisted(history, history, id, n.status \in HistoryStatus)
      /\ id \notin ToSet(history)
  BY <1>1, PlaceOf, ListsOK, SameList DEF HistoryStatus, FinalStatus
<1>3. RestOK BY DEF RestOK, KeepLists, IInv, TypeOK
<1>4. Requeued(id) /\ InTurn(id, n) BY <1>1 DEF Requeued, InTurn, KeepLists
<1>5. QED BY <1>2, <1>3, <1>4 DEF Moved, Put, KeepLists, SameOrigin

\* It is archived.
LEMMA ArchiveMoves ==
    ASSUME IInv, NEW id \in Ids, running = id, NEW n \in Job, SameOrigin(n, job[id]),
           n.status \in FinalStatus, n.worker = NoWorker, Archive(n), RestOK
    PROVE  Moved(id, n)
<1>1. job[id].status = "running" /\ n.status \in HistoryStatus
  BY PlaceOf DEF HistoryStatus
<1>2. /\ Relisted(pending, pending, id, n.status = "pending")
      /\ Relisted(paused, paused, id, n.status = "paused")
      /\ id \notin ToSet(history)
  BY <1>1, PlaceOf, ListsOK, SameList DEF HistoryStatus, FinalStatus
<1>3. Relisted(history, Append(history, id), id, n.status \in HistoryStatus)
  BY <1>1, <1>2, ListsOK, AppendedList
<1>4. n.status # "running" BY DEF FinalStatus
<1>5. Requeued(id) /\ InTurn(id, n) BY <1>1 DEF Requeued, InTurn, Archive
<1>6. QED BY <1>1, <1>2, <1>3, <1>4, <1>5 DEF Moved, Archive, Put, SameOrigin

\* It goes back to the front of the queue.
LEMMA RequeueMoves ==
    ASSUME IInv, NEW id \in Ids, running = id, NEW n \in Job, SameOrigin(n, job[id]),
           n.status = "pending", n.worker = NoWorker, n.terminal = "none",
           Requeue(n), RestOK
    PROVE  Moved(id, n)
<1>1. job[id].status = "running" /\ n.status \notin HistoryStatus
  BY PlaceOf DEF HistoryStatus, FinalStatus
<1>2. /\ Relisted(history, history, id, n.status \in HistoryStatus)
      /\ Relisted(paused, paused, id, n.status = "paused")
      /\ id \notin ToSet(history) /\ id \notin ToSet(pending)
  BY <1>1, PlaceOf, ListsOK, SameList DEF HistoryStatus, FinalStatus
<1>3. Relisted(pending, Cons(id, pending), id, n.status = "pending")
  BY <1>2, ListsOK, PrependedList
<1>4. Requeued(id) /\ InTurn(id, n) BY <1>1 DEF Requeued, InTurn, Requeue
<1>5. QED BY <1>1, <1>2, <1>3, <1>4 DEF Moved, Requeue, Put, SameOrigin

\* Releasing a claim leaves the other fields alone.
LEMMA ReleasedOK ==
    ASSUME NEW j \in Job
    PROVE  /\ Released(j) \in Job /\ Released(j).worker = NoWorker
           /\ SameOrigin(Released(j), j)
           /\ Released(j).terminal = j.terminal
           /\ WithoutEvidence(j) \in Job /\ WithoutEvidence(j).terminal = "none"
           /\ WithoutEvidence(j).worker = j.worker
           /\ WithoutEvidence(j).status = j.status
           /\ SameOrigin(WithoutEvidence(j), j)
  BY DEF Released, WithoutEvidence, Job, SameOrigin

\* Setting the status and the delay keeps the claim and the origin.
LEMMA RestatusOK ==
    ASSUME NEW j \in Job, NEW s \in Status, NEW due \in BOOLEAN
    PROVE  LET n == [j EXCEPT !.status = s, !.due = due]
               m == [j EXCEPT !.status = s]
           IN /\ n \in Job /\ n.status = s /\ SameOrigin(n, j)
              /\ n.worker = j.worker /\ n.terminal = j.terminal
              /\ m \in Job /\ m.status = s /\ SameOrigin(m, j)
              /\ m.worker = j.worker /\ m.terminal = j.terminal
  BY DEF Job, SameOrigin

\* The two together.
LEMMA ReleasedRestatusOK ==
    ASSUME NEW j \in Job, NEW s \in Status, NEW due \in BOOLEAN
    PROVE  LET n == [Released(j) EXCEPT !.status = s, !.due = due]
               m == [Released(j) EXCEPT !.status = s]
           IN /\ n \in Job /\ n.status = s /\ SameOrigin(n, j)
              /\ n.worker = NoWorker /\ n.terminal = j.terminal
              /\ m \in Job /\ m.status = s /\ SameOrigin(m, j)
              /\ m.worker = NoWorker /\ m.terminal = j.terminal
<1> DEFINE r == Released(j)
<1>1. r \in Job /\ r.worker = NoWorker /\ SameOrigin(r, j) /\ r.terminal = j.terminal
  BY ReleasedOK
<1> HIDE DEF r
<1>2. LET n == [r EXCEPT !.status = s, !.due = due]
          m == [r EXCEPT !.status = s]
      IN /\ n \in Job /\ n.status = s /\ SameOrigin(n, r)
         /\ n.worker = r.worker /\ n.terminal = r.terminal
         /\ m \in Job /\ m.status = s /\ SameOrigin(m, r)
         /\ m.worker = r.worker /\ m.terminal = r.terminal
  BY <1>1, RestatusOK
<1>3. QED BY <1>1, <1>2 DEF r, SameOrigin

\* A step of the worker of a running task.
LEMMA WorkerStepKeeps ==
    ASSUME IInv, WorkerStep
    PROVE  IInv' /\ HistoryKept
<1> SUFFICES ASSUME NEW id \in Ids, NEW w \in alive,
                    \/ Claim(id, w)
                    \/ Heartbeat(id, w)
                    \/ \E p \in Publications : RecordPublication(id, w, p)
                    \/ \E s \in FinalStatus : RecordTerminalEvidence(id, w, s)
                    \/ \E s \in {"completed", "failed"} : Finish(id, w, s)
                    \/ \E due \in BOOLEAN : RetryRunning(id, w, due)
             PROVE  IInv' /\ HistoryKept
  BY DEF WorkerStep
<1> DEFINE j == job[id]
<1>1. /\ running = id /\ j \in Job /\ j.status = "running" /\ w \in Workers
      /\ leases \in Nat /\ alive \subseteq Workers
      /\ reconciliation \in [outcome : {"none", "conflict", "terminal_repair",
                                        "unsupported_evidence",
                                        "interrupted_worker_recovery"},
                             task : Nat, lease : Nat]
  <2>1. running = id
    BY DEF Claim, Heartbeat, RecordPublication, RecordTerminalEvidence, Finish,
           RetryRunning, Owns
  <2>2. QED BY <2>1, PlaceOf DEF IInv, TypeOK
<1> HIDE DEF j
<1>2. CASE Claim(id, w)
  <2> DEFINE n == [j EXCEPT !.worker = w, !.lease = leases + 1]
  <2>0. w \in Workers \cup {NoWorker} /\ leases + 1 \in Nat
    BY <1>1
  <2>1. n \in Job /\ n.status = "running" /\ SameOrigin(n, j)
    BY <1>1, <2>0 DEF Job, SameOrigin
  <2>2. Put(n) /\ KeepLists /\ leases' \in Nat /\ alive' = alive
    BY <1>1, <1>2 DEF Claim, j
  <2> HIDE DEF n
  <2>3. QED BY <1>1, <2>1, <2>2, StayMoves, MovedKeeps DEF j
<1>3. CASE Heartbeat(id, w)
  <2> DEFINE n == [j EXCEPT !.lease = leases + 1]
  <2>1. n \in Job /\ n.status = "running" /\ SameOrigin(n, j)
    BY <1>1 DEF Job, SameOrigin
  <2>2. Put(n) /\ KeepLists /\ leases' \in Nat /\ alive' = alive
    BY <1>1, <1>3 DEF Heartbeat, j
  <2> HIDE DEF n
  <2>3. QED BY <1>1, <2>1, <2>2, StayMoves, MovedKeeps DEF j
<1>4. ASSUME NEW p \in Publications, RecordPublication(id, w, p)
      PROVE  IInv' /\ HistoryKept
  <2> DEFINE revision  == j.revision \/ p.revision
             ref       == j.ref \/ p.ref
             published == IF p.published = "keep" THEN j.published
                          ELSE p.published = "yes"
             n == [j EXCEPT !.stage = p.stage, !.revision = revision,
                            !.ref = ref, !.published = published]
  <2>1. p.stage \in Stages
    BY PublicationsAssumption DEF PublicationStates, Stages
  <2>2. revision \in BOOLEAN /\ ref \in BOOLEAN
    BY <1>1
  <2>3. published \in BOOLEAN
    <3>1. j.published \in BOOLEAN BY <1>1 DEF Job
    <3>2. QED BY <3>1
  <2>4. Put(n) /\ KeepLists /\ leases' \in Nat /\ alive' = alive
    BY <1>1, <1>4 DEF RecordPublication, j
  <2> HIDE DEF revision, ref, published
  <2>5. n \in Job /\ n.status = "running" /\ SameOrigin(n, j)
    BY <1>1, <2>1, <2>2, <2>3, Zenon DEF Job, SameOrigin
  <2> HIDE DEF n
  <2>6. QED BY <1>1, <2>4, <2>5, StayMoves, MovedKeeps DEF j
<1>5. ASSUME NEW s \in FinalStatus, RecordTerminalEvidence(id, w, s)
      PROVE  IInv' /\ HistoryKept
  <2> DEFINE n == [j EXCEPT !.terminal = s]
  <2>1. n \in Job /\ n.status = "running" /\ SameOrigin(n, j)
    BY <1>1 DEF Job, SameOrigin
  <2>2. Put(n) /\ KeepLists /\ leases' \in Nat /\ alive' = alive
    BY <1>1, <1>5 DEF RecordTerminalEvidence, j
  <2> HIDE DEF n
  <2>3. QED BY <1>1, <2>1, <2>2, StayMoves, MovedKeeps DEF j
<1>6. ASSUME NEW s \in {"completed", "failed"}, Finish(id, w, s)
      PROVE  IInv' /\ HistoryKept
  <2> DEFINE n == [Released(j) EXCEPT !.status = s, !.due = TRUE]
  <2>1. s \in FinalStatus /\ s \in Status BY DEF FinalStatus, HistoryStatus, Status
  <2>2. n \in Job /\ n.status = s /\ SameOrigin(n, j) /\ n.worker = NoWorker
    BY <1>1, <2>1, ReleasedRestatusOK
  <2>3. Archive(n) /\ RestOK
    BY <1>1, <1>6 DEF Finish, RestOK, Archive, j
  <2> HIDE DEF n
  <2>4. QED BY <1>1, <2>1, <2>2, <2>3, ArchiveMoves, MovedKeeps DEF j
<1>7. ASSUME NEW due \in BOOLEAN, RetryRunning(id, w, due)
      PROVE  IInv' /\ HistoryKept
  <2> DEFINE r == Released(j)
             m == [r EXCEPT !.status = "pending", !.due = due]
             n == WithoutEvidence(m)
  <2>0. "pending" \in Status BY DEF Status, QueuedStatus
  <2>1. m \in Job /\ m.status = "pending" /\ SameOrigin(m, j) /\ m.worker = NoWorker
    <3>1. r \in Job /\ r.worker = NoWorker /\ SameOrigin(r, j) BY <1>1, ReleasedOK
    <3> HIDE DEF r
    <3>2. QED BY <2>0, <3>1 DEF Job, SameOrigin
  <2>2. Requeue(n) /\ RestOK
    BY <1>1, <1>7 DEF RetryRunning, RestOK, Requeue, j
  <2> HIDE DEF m
  <2>3. /\ n \in Job /\ n.status = "pending" /\ SameOrigin(n, j)
        /\ n.worker = NoWorker /\ n.terminal = "none"
    BY <2>1, ReleasedOK DEF SameOrigin
  <2> HIDE DEF n
  <2>4. QED BY <1>1, <2>2, <2>3, RequeueMoves, MovedKeeps DEF j
<1>8. QED BY <1>2, <1>3, <1>4, <1>5, <1>6, <1>7

\* A step that the owner asks for: cancel, pause, resume, regress, resolve.
LEMMA OwnerStepKeeps ==
    ASSUME IInv, OwnerStep
    PROVE  IInv' /\ HistoryKept
<1> SUFFICES ASSUME NEW id \in Ids,
                    \/ \E w \in Workers \cup {NoWorker} :
                          CancelRunning(id, w) \/ PauseRunning(id, w)
                    \/ PausePending(id)
                    \/ ResumeOne(id)
                    \/ CancelQueued(id)
                    \/ Regress(id)
                    \/ ResolveRegressed(id, "reverted", 0)
                    \/ \E related \in Ids : ResolveRegressed(id, "forward-fixed", related)
             PROVE  IInv' /\ HistoryKept
  BY DEF OwnerStep
<1> DEFINE j == job[id]
<1>1. j \in Job BY PlaceOf
<1>2. /\ "pending" \in Status /\ "paused" \in Status /\ "cancelled" \in Status
      /\ "regressed" \in Status /\ "reverted" \in Status /\ "forward-fixed" \in Status
      /\ "cancelled" \in FinalStatus /\ "cancelled" \in HistoryStatus
      /\ "regressed" \in HistoryStatus /\ "reverted" \in HistoryStatus
      /\ "forward-fixed" \in HistoryStatus
      /\ "pending" \notin HistoryStatus /\ "paused" \notin HistoryStatus
      /\ "running" \notin HistoryStatus
  BY DEF Status, QueuedStatus, HistoryStatus, FinalStatus
<1>3. IInv /\ TRUE \in BOOLEAN
      /\ (reconciliation' = reconciliation /\ leases' = leases /\ alive' = alive => RestOK)
  BY DEF IInv, TypeOK, RestOK
<1> HIDE DEF j
<1>4. ASSUME NEW w \in Workers \cup {NoWorker}, CancelRunning(id, w)
      PROVE  IInv' /\ HistoryKept
  <2> DEFINE n == [Released(j) EXCEPT !.status = "cancelled"]
  <2>1. n \in Job /\ n.status = "cancelled" /\ SameOrigin(n, j) /\ n.worker = NoWorker
    BY <1>1, <1>2, ReleasedRestatusOK
  <2>2. running = id /\ Archive(n) /\ RestOK
    BY <1>3, <1>4 DEF CancelRunning, Archive, j
  <2> HIDE DEF n
  <2>3. QED BY <1>2, <2>1, <2>2, ArchiveMoves, MovedKeeps DEF j
<1>5. ASSUME NEW w \in Workers \cup {NoWorker}, PauseRunning(id, w)
      PROVE  IInv' /\ HistoryKept
  <2> DEFINE m == [Released(j) EXCEPT !.status = "paused"]
             n == WithoutEvidence(m)
  <2>1. m \in Job /\ m.status = "paused" /\ SameOrigin(m, j) /\ m.worker = NoWorker
    BY <1>1, <1>2, ReleasedRestatusOK
  <2>2. /\ running = id /\ running' = 0 /\ job' = Update(id, n) /\ RestOK
        /\ paused' = Append(paused, id) /\ pending' = pending /\ history' = history
    BY <1>3, <1>5 DEF PauseRunning, Put, j
  <2> HIDE DEF m
  <2>3. /\ n \in Job /\ n.status = "paused" /\ SameOrigin(n, j)
        /\ n.worker = NoWorker /\ n.terminal = "none"
    BY <2>1, ReleasedOK DEF SameOrigin
  <2> HIDE DEF n
  <2>4. id \notin ToSet(pending) /\ id \notin ToSet(paused) /\ id \notin ToSet(history)
    BY <1>2, <2>2, PlaceOf
  <2>5. /\ Relisted(pending, pending', id, n.status = "pending")
        /\ Relisted(paused, paused', id, n.status = "paused")
        /\ Relisted(history, history', id, n.status \in HistoryStatus)
    BY <1>2, <2>2, <2>3, <2>4, ListsOK, SameList, AppendedList
  <2>6. Requeued(id) /\ InTurn(id, n)
    <3>1. job[id].status = "running" BY <2>2, PlaceOf
    <3>2. Requeued(id) BY <2>2 DEF Requeued
    <3>3. InTurn(id, n) BY <2>3, <3>1 DEF InTurn
    <3>4. QED BY <3>2, <3>3
  <2>7. Moved(id, n) BY <2>2, <2>3, <2>4, <2>5, <2>6 DEF Moved, SameOrigin, j
  <2>8. QED BY <2>7, MovedKeeps
<1>6. CASE PausePending(id)
  <2> DEFINE m == [Released(j) EXCEPT !.status = "paused"]
             n == WithoutEvidence(m)
  <2>1. m \in Job /\ m.status = "paused" /\ SameOrigin(m, j) /\ m.worker = NoWorker
    BY <1>1, <1>2, ReleasedRestatusOK
  <2>2. /\ running' = running /\ job' = Update(id, n) /\ RestOK
        /\ paused' = Append(paused, id) /\ history' = history
    BY <1>3, <1>6 DEF PausePending, j
  <2>3. PICK k \in DOMAIN pending : pending[k] = id /\ pending' = RemoveAt(pending, k)
    BY <1>6 DEF PausePending
  <2> HIDE DEF m
  <2>4. /\ n \in Job /\ n.status = "paused" /\ SameOrigin(n, j)
        /\ n.worker = NoWorker /\ n.terminal = "none"
    BY <2>1, ReleasedOK DEF SameOrigin
  <2> HIDE DEF n
  <2>5. id \in ToSet(pending) BY <2>3 DEF ToSet
  <2>6. id # running /\ id \notin ToSet(paused) /\ id \notin ToSet(history)
    BY <1>2, <2>5, PlaceOf
  <2>7. Relisted(pending, pending', id, n.status = "pending")
    BY <2>3, <2>4, ListsOK, RemovedList
  <2>8. /\ Relisted(paused, paused', id, n.status = "paused")
        /\ Relisted(history, history', id, n.status \in HistoryStatus)
    BY <1>2, <2>2, <2>4, <2>6, ListsOK, SameList, AppendedList
  <2>9. Requeued(id) /\ InTurn(id, n)
    BY <1>6, <2>3, <2>4 DEF Requeued, InTurn, PausePending, SameOrigin, j
  <2>10. Moved(id, n) BY <2>2, <2>4, <2>6, <2>7, <2>8, <2>9 DEF Moved, SameOrigin, j
  <2>11. QED BY <2>10, MovedKeeps
<1>7. CASE ResumeOne(id)
  <2> DEFINE n == [Released(j) EXCEPT !.status = "pending"]
  <2>1. /\ n \in Job /\ n.status = "pending" /\ SameOrigin(n, j)
        /\ n.worker = NoWorker /\ n.terminal = j.terminal
    BY <1>1, <1>2, ReleasedRestatusOK
  <2>2. /\ running' = running /\ job' = Update(id, n) /\ RestOK
        /\ pending' = Cons(id, pending) /\ history' = history
    BY <1>3, <1>7 DEF ResumeOne, j
  <2>3. PICK k \in DOMAIN paused : paused[k] = id /\ paused' = RemoveAt(paused, k)
    BY <1>7 DEF ResumeOne
  <2> HIDE DEF n
  <2>4. id \in ToSet(paused) BY <2>3 DEF ToSet
  <2>5. /\ id # running /\ id \notin ToSet(pending) /\ id \notin ToSet(history)
        /\ n.terminal = "none"
    BY <1>2, <2>1, <2>4, PlaceOf DEF IInv, NoStaleOwnership, j
  <2>6. Relisted(paused, paused', id, n.status = "paused")
    BY <2>1, <2>3, ListsOK, RemovedList
  <2>7. /\ Relisted(pending, pending', id, n.status = "pending")
        /\ Relisted(history, history', id, n.status \in HistoryStatus)
    BY <1>2, <2>1, <2>2, <2>5, ListsOK, SameList, PrependedList
  <2>8. Requeued(id) /\ InTurn(id, n)
    <3>1. job[id].status = "paused" BY <2>4, PlaceOf
    <3>2. Requeued(id) BY <2>2 DEF Requeued
    <3>3. QED BY <2>1, <2>2, <3>1, <3>2 DEF InTurn
  <2>9. Moved(id, n) BY <2>1, <2>2, <2>5, <2>6, <2>7, <2>8 DEF Moved, SameOrigin, j
  <2>10. QED BY <2>9, MovedKeeps
<1>8. CASE CancelQueued(id)
  <2> DEFINE n == [j EXCEPT !.status = "cancelled"]
  <2>1. /\ n \in Job /\ n.status = "cancelled" /\ SameOrigin(n, j)
        /\ n.worker = j.worker /\ n.terminal = j.terminal
    BY <1>1, <1>2, <1>3, RestatusOK
  <2>2. /\ running' = running /\ job' = Update(id, n) /\ RestOK
        /\ history' = Append(history, id)
    BY <1>3, <1>8 DEF CancelQueued, j
  <2> HIDE DEF n
  <2>3. \/ /\ id \in ToSet(pending) /\ paused' = paused
           /\ \E k \in DOMAIN pending : pending[k] = id /\ pending' = RemoveAt(pending, k)
        \/ /\ id \in ToSet(paused) /\ pending' = pending
           /\ \E k \in DOMAIN paused : paused[k] = id /\ paused' = RemoveAt(paused, k)
    BY <1>8 DEF CancelQueued, ToSet
  <2>4. /\ id # running /\ id \notin ToSet(history) /\ n.worker = NoWorker
        /\ id \in ToSet(pending) => id \notin ToSet(paused)
    BY <1>2, <2>1, <2>3, PlaceOf DEF IInv, NoStaleOwnership, j
  <2>5. /\ Relisted(pending, pending', id, n.status = "pending")
        /\ Relisted(paused, paused', id, n.status = "paused")
    BY <2>1, <2>3, <2>4, ListsOK, SameList, RemovedList
  <2>6. Relisted(history, history', id, n.status \in HistoryStatus)
    BY <1>2, <2>1, <2>2, <2>4, ListsOK, AppendedList
  <2>7. Requeued(id) /\ InTurn(id, n) BY <1>2, <2>1, <2>3 DEF Requeued, InTurn
  <2>8. Moved(id, n) BY <1>2, <2>1, <2>2, <2>4, <2>5, <2>6, <2>7 DEF Moved, SameOrigin, j
  <2>9. QED BY <2>8, MovedKeeps
<1>9. ASSUME NEW s \in {"regressed", "reverted", "forward-fixed"},
             id \in ToSet(history), Relabel(id, s),
             \/ j.status = "completed" /\ s = "regressed"
             \/ j.status = "regressed" /\ s \in {"reverted", "forward-fixed"}
      PROVE  IInv' /\ HistoryKept
  <2> DEFINE n == [j EXCEPT !.status = s]
  <2>1. s \in HistoryStatus /\ s \in Status /\ s \notin {"pending", "paused", "running"}
    BY <1>2
  <2>2. /\ n \in Job /\ n.status = s /\ SameOrigin(n, j)
        /\ n.worker = j.worker /\ n.terminal = j.terminal
    BY <1>1, <1>3, <2>1, RestatusOK
  <2>3. /\ running' = running /\ job' = Update(id, n) /\ RestOK
        /\ pending' = pending /\ paused' = paused /\ history' = history
    BY <1>3, <1>9 DEF Relabel, KeepLists, j
  <2> HIDE DEF n
  <2>4. /\ id # running /\ id \notin ToSet(pending) /\ id \notin ToSet(paused)
        /\ n.worker = NoWorker
    BY <1>2, <1>9, <2>2, PlaceOf DEF IInv, NoStaleOwnership, j
  <2>5. /\ Relisted(pending, pending', id, n.status = "pending")
        /\ Relisted(paused, paused', id, n.status = "paused")
        /\ Relisted(history, history', id, n.status \in HistoryStatus)
    BY <1>9, <2>1, <2>2, <2>3, <2>4, ListsOK, SameList
  <2>6. Requeued(id) /\ InTurn(id, n) BY <2>1, <2>2, <2>3 DEF Requeued, InTurn
  <2>7. Moved(id, n)
    BY <1>9, <2>1, <2>2, <2>3, <2>4, <2>5, <2>6 DEF Moved, SameOrigin, j
  <2>8. QED BY <2>7, MovedKeeps
<1>10. CASE Regress(id)
  BY <1>9, <1>10 DEF Regress, j
<1>11. CASE ResolveRegressed(id, "reverted", 0)
  BY <1>9, <1>11 DEF ResolveRegressed, j
<1>12. ASSUME NEW related \in Ids, ResolveRegressed(id, "forward-fixed", related)
       PROVE  IInv' /\ HistoryKept
  BY <1>9, <1>12 DEF ResolveRegressed, j
<1>13. QED BY <1>4, <1>5, <1>6, <1>7, <1>8, <1>10, <1>11, <1>12

\* The next task is started.
LEMMA BeginNextKeeps ==
    ASSUME IInv, BeginNext
    PROVE  IInv' /\ HistoryKept
<1>1. PICK k \in DOMAIN pending :
         /\ job' = Update(pending[k], [job[pending[k]] EXCEPT !.status = "running",
                                                             !.attempt = @ + 1,
                                                             !.due = TRUE])
         /\ running' = pending[k]
         /\ pending' = RemoveAt(pending, k)
         /\ LaneClear(k)
  BY DEF BeginNext, Startable
<1> DEFINE id == pending[k]
           j  == job[id]
           n  == [j EXCEPT !.status = "running", !.attempt = @ + 1, !.due = TRUE]
<1>2. id \in Ids /\ id \in ToSet(pending) BY DEF IInv, TypeOK, ToSet
<1>3. j \in Job /\ j.status = "pending" /\ id \notin ToSet(paused) /\ id \notin ToSet(history)
  BY <1>2, PlaceOf DEF HistoryStatus, FinalStatus
<1>4. /\ running = 0 /\ running' = id /\ job' = Update(id, n)
      /\ paused' = paused /\ history' = history /\ RestOK
  BY <1>1 DEF BeginNext, RestOK, IInv, TypeOK
<1> HIDE DEF j
<1>5. /\ n \in Job /\ n.status = "running" /\ SameOrigin(n, j)
  <2>1. j.attempt + 1 \in Nat /\ "running" \in Status BY <1>3 DEF Job, Status
  <2>2. QED BY <1>3, <2>1 DEF Job, SameOrigin
<1> HIDE DEF n
<1>6. Relisted(pending, pending', id, n.status = "pending")
  BY <1>1, <1>5, ListsOK, RemovedList
<1>7. /\ Relisted(paused, paused', id, n.status = "paused")
      /\ Relisted(history, history', id, n.status \in HistoryStatus)
  BY <1>3, <1>4, <1>5, ListsOK, SameList DEF HistoryStatus, FinalStatus
<1>8. n.lane = NoLane \/ FirstOfLane(id)
  <2> SUFFICES ASSUME n.lane # NoLane, NEW i \in Ids, i < id, job[i].lane = job[id].lane,
                      Unfinished(i)
               PROVE  FALSE
    BY DEF FirstOfLane
  <2>1. /\ \A p \in ToSet(paused) : job[p].lane # job[id].lane
        /\ \A m \in 1..(k - 1) : job[pending[m]].lane # job[id].lane
    BY <1>1, <1>5 DEF LaneClear, SameOrigin, j
  <2>2. job[i].status # "running" /\ i \notin ToSet(paused)
    BY <1>4, <2>1, PlaceOf
  <2>3. job[i].status = "pending" BY <2>2, PlaceOf DEF Unfinished
  <2>4. job[id].lane # NoLane /\ Unfinished(id)
    BY <1>3, <1>5 DEF SameOrigin, Unfinished, j
  <2>5. Before(pending, i, id) BY <1>2, <2>3, <2>4 DEF IInv, LaneFIFO
  <2>6. PICK m \in DOMAIN pending, q \in DOMAIN pending :
               m < q /\ pending[m] = i /\ pending[q] = id
    BY <2>5 DEF Before
  <2>7. q = k BY <2>6 DEF IInv, Placement, IsInjective
  <2>8. m \in 1..(k - 1)
    <3>1. DOMAIN pending = 1..Len(pending) /\ Len(pending) \in Nat BY DEF IInv, TypeOK
    <3>2. QED BY <2>6, <2>7, <3>1
  <2>9. QED BY <2>1, <2>6, <2>8
<1>9. Requeued(id) /\ InTurn(id, n)
  BY <1>1, <1>3, <1>5, <1>8 DEF Requeued, InTurn, j
<1> HIDE DEF id
<1>10. Moved(id, n)
  BY <1>2, <1>3, <1>4, <1>5, <1>6, <1>7, <1>9 DEF Moved, SameOrigin, j
<1>11. QED BY <1>10, MovedKeeps

\* Resuming all paused tasks is the one step that moves several at once.
LEMMA ResumeAllKeeps ==
    ASSUME IInv, ResumeAll
    PROVE  IInv' /\ HistoryKept
<1> USE DEF IInv
<1>1. /\ pending' = paused \o pending /\ paused' = <<>>
      /\ running' = running /\ history' = history /\ reconciliation' = reconciliation
      /\ leases' = leases /\ alive' = alive
      /\ job' = [i \in Ids |-> IF i \in ToSet(paused)
                               THEN [Released(job[i]) EXCEPT !.status = "pending"]
                               ELSE job[i]]
  BY DEF ResumeAll
<1>2. "pending" \in Status /\ TRUE \in BOOLEAN BY DEF Status, QueuedStatus
<1>3. ASSUME NEW i \in Ids, i \in ToSet(paused)
      PROVE  /\ job'[i] \in Job /\ job'[i].status = "pending"
             /\ job'[i].worker = NoWorker /\ job'[i].terminal = job[i].terminal
             /\ SameOrigin(job'[i], job[i])
  <2> DEFINE r == Released(job[i])
  <2>1. job'[i] = [r EXCEPT !.status = "pending"] BY <1>1, <1>3
  <2>2. /\ r \in Job /\ r.worker = NoWorker /\ r.terminal = job[i].terminal
        /\ SameOrigin(r, job[i])
    BY PlaceOf, ReleasedOK
  <2> HIDE DEF r
  <2>3. QED BY <1>2, <2>1, <2>2 DEF Job, SameOrigin
<1>4. \A i \in Ids : i \notin ToSet(paused) => job'[i] = job[i] /\ job'[i] \in Job
  BY <1>1, PlaceOf
<1>5. Ids' = Ids /\ job' \in Seq(Job)
  <2>1. job \in Seq(Job) BY DEF TypeOK
  <2>2. Len(job) \in Nat /\ Ids = 1..Len(job) BY <2>1 DEF Ids
  <2>3. DOMAIN job' = Ids /\ \A i \in Ids : job'[i] \in Job BY <1>1, <1>3, <1>4
  <2>4. job' \in [1..Len(job) -> Job] BY <1>1, <2>2, <2>3
  <2>5. QED BY <2>2, <2>3, <2>4, SeqDef DEF Ids
<1>6. ToSet(paused) \cap ToSet(pending) = {}
  <2>1. \A i \in ToSet(paused) : i \in Ids BY DEF TypeOK, ToSet
  <2>2. QED BY <2>1, PlaceOf
<1>7. /\ pending' \in Seq(Ids) /\ IsInjective(pending')
      /\ ToSet(pending') = ToSet(paused) \cup ToSet(pending)
  BY <1>1, <1>6, ListsOK, JoinDisjoint DEF ListOK
<1>8. paused' \in Seq(Ids) /\ ToSet(paused') = {} /\ IsInjective(paused')
  BY <1>1 DEF ToSet, IsInjective
<1>9. TypeOK'
  BY <1>1, <1>5, <1>7, <1>8 DEF TypeOK
<1>10. Placement'
  <2>1. ASSUME NEW i \in Ids
        PROVE  /\ i \in ToSet(pending') <=> job'[i].status = "pending"
               /\ i = running' <=> job'[i].status = "running"
               /\ i \in ToSet(paused') <=> job'[i].status = "paused"
               /\ i \in ToSet(history') <=> job'[i].status \in HistoryStatus
    <3>1. CASE i \in ToSet(paused)
      BY <1>1, <1>3, <1>7, <1>8, <3>1, PlaceOf DEF HistoryStatus, FinalStatus
    <3>2. CASE i \notin ToSet(paused)
      BY <1>1, <1>4, <1>7, <1>8, <3>2, PlaceOf
    <3>3. QED BY <3>1, <3>2
  <2>2. QED BY <1>1, <1>5, <1>7, <1>8, <2>1 DEF Placement
<1>11. \A i \in Ids : /\ SameOrigin(job'[i], job[i])
                      /\ job'[i].status = "cancelled" <=> job[i].status = "cancelled"
  <2>1. \A i \in Ids : i \in ToSet(paused) => job[i].status = "paused" BY PlaceOf
  <2>2. QED BY <1>3, <1>4, <2>1 DEF SameOrigin
<1>12. NoStaleOwnership'
  <2>1. \A i \in Ids : i \in ToSet(paused) => job[i].terminal = "none"
    BY PlaceOf DEF NoStaleOwnership, HistoryStatus, FinalStatus
  <2>2. QED BY <1>3, <1>4, <1>5, <2>1 DEF NoStaleOwnership
<1>13. IdempotentCreation'
  BY <1>5, <1>11 DEF IdempotentCreation, SameOrigin
<1>14. OneLiveRetry'
  BY <1>5, <1>11 DEF OneLiveRetry, SameOrigin
<1>15. HistoryKept
  <2>1. \A i \in ToSet(history) : i \in Ids BY DEF TypeOK, ToSet
  <2>2. \A i \in ToSet(history) : i \notin ToSet(paused)
    BY <2>1, PlaceOf DEF HistoryStatus, FinalStatus
  <2>3. QED BY <1>1, <1>4, <2>1, <2>2 DEF HistoryKept
<1>16. LaneFIFO'
  <2> SUFFICES ASSUME NEW i \in Ids, NEW x \in Ids, i < x,
                      job'[i].lane # NoLane, job'[i].lane = job'[x].lane,
                      Unfinished(i)', Unfinished(x)'
               PROVE  /\ job'[x].status = "pending"
                      /\ job'[i].status = "pending" => Before(pending', i, x)
    BY <1>5 DEF LaneFIFO
  <2>1. \A y \in Ids : Unfinished(y)' => Unfinished(y)
    BY <1>3, <1>4, PlaceOf DEF Unfinished
  <2>2. /\ job[x].status = "pending" /\ x \in ToSet(pending) /\ x \notin ToSet(paused)
        /\ job[i].status = "pending" => Before(pending, i, x)
    BY <1>11, <2>1, PlaceOf DEF LaneFIFO, SameOrigin
  <2>3. job'[x].status = "pending" BY <1>4, <2>2
  <2>4. pending \in Seq(Ids) /\ paused \in Seq(Ids) BY DEF TypeOK
  <2>5. ASSUME job'[i].status = "pending" PROVE Before(pending', i, x)
    <3>1. CASE i \in ToSet(paused) BY <1>1, <2>2, <2>4, <3>1, JoinOrder
    <3>2. CASE i \notin ToSet(paused)
      BY <1>1, <1>4, <2>2, <2>4, <2>5, <3>2, JoinOrder
    <3>3. QED BY <3>1, <3>2
  <2>6. QED BY <2>3, <2>5
<1>17. QED BY <1>9, <1>10, <1>12, <1>13, <1>14, <1>15, <1>16

\* A running task whose worker is gone is reconciled.
LEMMA ReconcileKeeps ==
    ASSUME IInv, NEW req, Reconcile(req)
    PROVE  IInv' /\ HistoryKept
<1> DEFINE id == running
           j  == job[id]
<1>1. /\ id \in Ids /\ j \in Job /\ j.status = "running" /\ id # 0
      /\ j.lease \in Nat /\ id \in Nat
  <2>1. running # 0
    BY DEF Reconcile, ReconcileMismatch, ReconcileConflict, ReconcileTerminal,
           ReconcileUnsupported, ReconcileExhausted, ReconcileRequeue, Unproven, Interrupted
  <2>2. running \in Ids /\ running \in Nat BY <2>1 DEF IInv, TypeOK, Ids
  <2>3. QED BY <2>1, <2>2, PlaceOf DEF Job
<1>2. RestOK
  <2> DEFINE Outcomes == {"none", "conflict", "terminal_repair", "unsupported_evidence",
                          "interrupted_worker_recovery"}
  <2>1. \E outcome \in Outcomes : Outcome(outcome)
    BY DEF Reconcile, ReconcileMismatch, ReconcileConflict, ReconcileTerminal,
           ReconcileUnsupported, ReconcileExhausted, ReconcileRequeue, FailClosed
  <2>2. leases' = leases /\ alive' = alive
    BY DEF Reconcile, ReconcileMismatch, ReconcileConflict, ReconcileTerminal,
           ReconcileUnsupported, ReconcileExhausted, ReconcileRequeue, FailClosed,
           Archive, Requeue
  <2>3. reconciliation' \in [outcome : Outcomes, task : Nat, lease : Nat]
    BY <1>1, <2>1 DEF Outcome
  <2>4. QED BY <2>2, <2>3 DEF RestOK, IInv, TypeOK
<1>3. ASSUME UNCHANGED <<job, pending, running, paused, history>>
      PROVE  IInv' /\ HistoryKept
  <2>1. Ids' = Ids BY <1>3 DEF Ids
  <2>2. TypeOK' BY <1>2, <1>3, <2>1 DEF IInv, TypeOK, RestOK
  <2>3. /\ Placement' /\ NoStaleOwnership' /\ IdempotentCreation' /\ OneLiveRetry'
        /\ LaneFIFO'
    BY <1>3, <2>1 DEF IInv, Placement, NoStaleOwnership, IdempotentCreation, OneLiveRetry,
                      LaneFIFO, Unfinished
  <2>4. HistoryKept BY <1>3 DEF HistoryKept
  <2>5. QED BY <2>2, <2>3, <2>4 DEF IInv
<1> DEFINE archived(s) == [Released(j) EXCEPT !.status = s, !.due = TRUE]
           requeued    == [Released(j) EXCEPT !.status = "pending", !.due = TRUE]
<1>4. ASSUME NEW s \in FinalStatus, Archive(archived(s))
      PROVE  IInv' /\ HistoryKept
  <2>1. /\ archived(s) \in Job /\ archived(s).status = s /\ SameOrigin(archived(s), j)
        /\ archived(s).worker = NoWorker
    <3>1. s \in Status BY DEF Status, HistoryStatus
    <3>2. QED BY <1>1, <3>1, ReleasedRestatusOK
  <2> HIDE DEF archived
  <2>2. QED BY <1>1, <1>2, <1>4, <2>1, ArchiveMoves, MovedKeeps
<1>5. ASSUME Requeue(requeued), j.terminal = "none"
      PROVE  IInv' /\ HistoryKept
  <2>1. /\ requeued \in Job /\ requeued.status = "pending" /\ SameOrigin(requeued, j)
        /\ requeued.worker = NoWorker /\ requeued.terminal = "none"
    <3>1. "pending" \in Status BY DEF Status, QueuedStatus
    <3>2. QED BY <1>1, <1>5, <3>1, ReleasedRestatusOK
  <2> HIDE DEF requeued
  <2>2. QED BY <1>1, <1>2, <1>5, <2>1, RequeueMoves, MovedKeeps
<1>6. CASE ReconcileMismatch(req) \/ ReconcileConflict(req) \/ ReconcileUnsupported(req)
  BY <1>3, <1>6 DEF ReconcileMismatch, ReconcileConflict, ReconcileUnsupported, FailClosed
<1>7. CASE ReconcileTerminal(req)
  BY <1>4, <1>7 DEF ReconcileTerminal
<1>8. CASE ReconcileExhausted(req)
  <2>1. "failed" \in FinalStatus BY DEF FinalStatus
  <2>2. Archive(archived("failed")) BY <1>8 DEF ReconcileExhausted
  <2>3. QED BY <1>4, <2>1, <2>2
<1>9. CASE ReconcileRequeue(req)
  <2>1. j.terminal = "none"
    <3>1. ProvenStatuses(j) = {} BY <1>9 DEF ReconcileRequeue, Unproven
    <3>2. j.terminal \in FinalStatus => j.terminal \in ProvenStatuses(j)
      BY DEF ProvenStatuses
    <3>3. j.terminal \in FinalStatus \cup {"none"} BY <1>1 DEF Job
    <3>4. QED BY <3>1, <3>2, <3>3
  <2>2. QED BY <1>5, <1>9, <2>1 DEF ReconcileRequeue
<1>10. QED BY <1>6, <1>7, <1>8, <1>9 DEF Reconcile

\* Time passes, workers start and end.
LEMMA EnvironmentStepKeeps ==
    ASSUME IInv, EnvironmentStep
    PROVE  IInv' /\ HistoryKept
<1>1. ASSUME NEW id \in Ids, BecomeDue(id)
      PROVE  IInv' /\ HistoryKept
  <2> DEFINE j == job[id]
             n == [j EXCEPT !.due = TRUE]
  <2>1. /\ job' = Update(id, n) /\ RestOK /\ pending' = pending /\ running' = running
        /\ paused' = paused /\ history' = history
    BY <1>1 DEF BecomeDue, RestOK, IInv, TypeOK
  <2>2. j \in Job /\ j.status \in {"pending", "paused"} BY <1>1, PlaceOf DEF BecomeDue
  <2>3. /\ j.worker = NoWorker /\ j.terminal = "none" /\ id # running
        /\ id \notin ToSet(history)
    BY <2>2, PlaceOf DEF IInv, NoStaleOwnership, HistoryStatus, FinalStatus
  <2> HIDE DEF j
  <2>4. /\ n \in Job /\ n.status = j.status /\ SameOrigin(n, j)
        /\ n.worker = j.worker /\ n.terminal = j.terminal
    BY <2>2 DEF Job, SameOrigin
  <2> HIDE DEF n
  <2>5. /\ Relisted(pending, pending', id, n.status = "pending")
        /\ Relisted(paused, paused', id, n.status = "paused")
        /\ Relisted(history, history', id, n.status \in HistoryStatus)
    BY <2>1, <2>4, PlaceOf, ListsOK, SameList DEF j
  <2>6. Requeued(id) /\ InTurn(id, n) BY <2>1, <2>4 DEF Requeued, InTurn, j
  <2>7. Moved(id, n) BY <2>1, <2>2, <2>3, <2>4, <2>5, <2>6 DEF Moved, SameOrigin, j
  <2>8. QED BY <2>7, MovedKeeps
<1>2. ASSUME NEW w \in Workers, WorkerDies(w) \/ WorkerStarts(w)
      PROVE  IInv' /\ HistoryKept
  <2>1. UNCHANGED queueVars /\ alive' \subseteq Workers
    BY <1>2 DEF WorkerDies, WorkerStarts, IInv, TypeOK
  <2>2. QED BY <2>1 DEF queueVars, IInv, TypeOK, Placement, NoStaleOwnership,
                        IdempotentCreation, OneLiveRetry, LaneFIFO, Unfinished,
                        HistoryKept, Ids
<1>3. QED BY <1>1, <1>2 DEF EnvironmentStep

-----------------------------------------------------------------------------
(* What may take the running task from its slot.                           *)

RecoveryStep ==
    running # 0 /\ running' # running =>
       /\ \/ WorkerActive(job[running])
          \/ job'[running].status \in {"cancelled", "paused"}
          \/ ProvenStatuses(job[running]) \subseteq {job'[running].status}
       /\ reconciliation' # reconciliation => ~WorkerActive(job[running])

\* The slot is emptied by the owning worker, by the owner of the service, or by
\* a reconciliation that found the worker gone and follows the evidence.
LEMMA NextRecovers == IInv /\ [Next]_vars => RecoveryStep
<1> SUFFICES ASSUME IInv, [Next]_vars, running # 0, running' # running
             PROVE  /\ \/ WorkerActive(job[running])
                       \/ job'[running].status \in {"cancelled", "paused"}
                       \/ ProvenStatuses(job[running]) \subseteq {job'[running].status}
                    /\ reconciliation' # reconciliation => ~WorkerActive(job[running])
  BY DEF RecoveryStep
<1> DEFINE j == job[running]
<1>1. running \in Ids /\ j \in Job BY PlaceOf DEF IInv, TypeOK
<1>2. ASSUME NEW n, Put(n) PROVE job'[running] = n
  BY <1>1, <1>2 DEF Put, Update, Ids
<1>3. CASE CreateStep
  BY <1>3 DEF CreateStep, Enqueue, EnqueueFront, BeginDirect, RetryFailed
<1>4. CASE BeginNext
  BY <1>4 DEF BeginNext
<1>5. CASE WorkerStep
  <2>1. PICK id \in Ids, w \in alive :
          \/ \E s \in {"completed", "failed"} : Finish(id, w, s)
          \/ \E due \in BOOLEAN : RetryRunning(id, w, due)
    BY <1>5, Zenon DEF WorkerStep, Claim, Heartbeat, RecordPublication, RecordTerminalEvidence,
                KeepLists
  <2>2. Owns(id, w) /\ reconciliation' = reconciliation
    BY <2>1 DEF Finish, RetryRunning
  <2>3. QED BY <2>2 DEF Owns, WorkerActive
<1>6. CASE OwnerStep
  <2>1. PICK id \in Ids, w \in Workers \cup {NoWorker} :
          CancelRunning(id, w) \/ PauseRunning(id, w)
    BY <1>6 DEF OwnerStep, PausePending, ResumeOne, CancelQueued, Regress,
                ResolveRegressed, Relabel, KeepLists
  <2> DEFINE n(s) == [Released(j) EXCEPT !.status = s]
  <2>2. n("cancelled").status = "cancelled" /\ n("paused") \in Job
        /\ n("paused").status = "paused"
    BY <1>1, ReleasedRestatusOK DEF Status, QueuedStatus, HistoryStatus, FinalStatus
  <2>3. WithoutEvidence(n("paused")).status = "paused" BY <2>2, ReleasedOK
  <2>4. CASE CancelRunning(id, w)
    <3>1. Put(n("cancelled")) /\ reconciliation' = reconciliation
      BY <2>4 DEF CancelRunning, Archive
    <3> HIDE DEF n
    <3>2. QED BY <1>2, <2>2, <3>1
  <2>5. CASE PauseRunning(id, w)
    <3>1. Put(WithoutEvidence(n("paused"))) /\ reconciliation' = reconciliation
      BY <2>5 DEF PauseRunning
    <3> HIDE DEF n
    <3>2. QED BY <1>2, <2>3, <3>1
  <2>6. QED BY <2>1, <2>4, <2>5
<1>7. CASE ResumeAll
  BY <1>7 DEF ResumeAll
<1>8. ASSUME NEW req \in Requests, Reconcile(req)
      PROVE  /\ ~WorkerActive(j)
             /\ ProvenStatuses(j) \subseteq {job'[running].status}
  <2>1. ReconcileTerminal(req) \/ ReconcileExhausted(req) \/ ReconcileRequeue(req)
    BY <1>8 DEF Reconcile, ReconcileMismatch, ReconcileConflict, ReconcileUnsupported,
                FailClosed
  <2>2. ~WorkerActive(j)
    BY <2>1 DEF ReconcileTerminal, ReconcileExhausted, ReconcileRequeue, Unproven,
                Interrupted
  <2>3. CASE ReconcileTerminal(req)
    <3>1. PICK status \in FinalStatus :
            /\ ProvenStatuses(j) = {status}
            /\ Archive([Released(j) EXCEPT !.status = status, !.due = TRUE])
      BY <2>3 DEF ReconcileTerminal
    <3> DEFINE n == [Released(j) EXCEPT !.status = status, !.due = TRUE]
    <3>2. n.status = status BY <1>1, ReleasedRestatusOK DEF Status, HistoryStatus
    <3>3. Put(n) BY <3>1 DEF Archive
    <3> HIDE DEF n
    <3>4. QED BY <1>2, <2>2, <3>1, <3>2, <3>3
  <2>4. CASE ReconcileExhausted(req) \/ ReconcileRequeue(req)
    BY <2>2, <2>4 DEF ReconcileExhausted, ReconcileRequeue, Unproven
  <2>5. QED BY <2>1, <2>3, <2>4
<1>9. CASE EnvironmentStep
  BY <1>9 DEF EnvironmentStep, BecomeDue, WorkerDies, WorkerStarts, queueVars
<1>10. CASE UNCHANGED vars
  BY <1>10 DEF vars, queueVars
<1>11. QED BY <1>3, <1>4, <1>5, <1>6, <1>7, <1>8, <1>9, <1>10 DEF Next

-----------------------------------------------------------------------------
(* The theorems.                                                           *)

\* The invariant holds of an empty queue.
LEMMA InitIInv == Init => IInv
<1> SUFFICES ASSUME Init PROVE IInv
  OBVIOUS
<1>1. Ids = {} /\ job \in Seq(Job) BY DEF Init, EmptyQueue, Ids
<1>2. TypeOK BY <1>1 DEF Init, EmptyQueue, TypeOK
<1>3. Placement BY <1>1 DEF Init, EmptyQueue, Placement, IsInjective
<1>4. QED
  BY <1>1, <1>2, <1>3 DEF IInv, NoStaleOwnership, IdempotentCreation, OneLiveRetry,
                          LaneFIFO

\* Every operation keeps it, and touches finished tasks only along the one path.
LEMMA NextKeeps == IInv /\ [Next]_vars => IInv' /\ HistoryKept
<1> SUFFICES ASSUME IInv, [Next]_vars PROVE IInv' /\ HistoryKept
  OBVIOUS
<1>1. CASE CreateStep BY <1>1, CreateStepKeeps
<1>2. CASE BeginNext BY <1>2, BeginNextKeeps
<1>3. CASE WorkerStep BY <1>3, WorkerStepKeeps
<1>4. CASE OwnerStep BY <1>4, OwnerStepKeeps
<1>5. CASE ResumeAll BY <1>5, ResumeAllKeeps
<1>6. CASE \E req \in Requests : Reconcile(req) BY <1>6, ReconcileKeeps
<1>7. CASE EnvironmentStep BY <1>7, EnvironmentStepKeeps
<1>8. CASE UNCHANGED vars
  BY <1>8 DEF vars, queueVars, IInv, TypeOK, Placement, NoStaleOwnership,
              IdempotentCreation, OneLiveRetry, LaneFIFO, Unfinished, HistoryKept, Ids
<1>9. QED BY <1>1, <1>2, <1>3, <1>4, <1>5, <1>6, <1>7, <1>8 DEF Next

\* The queue file always has the shape that the loader expects.
THEOREM TypeCorrect == Spec => []TypeOK
<1>1. IInv => TypeOK BY DEF IInv
<1>2. QED BY <1>1, InitIInv, NextKeeps, PTL DEF Spec

\* Every task is on exactly one list, the one its status names: no operation,
\* interleaved with any other, loses, duplicates or strands a task.
THEOREM TasksInPlace == Spec => []Placement
<1>1. IInv => Placement BY DEF IInv
<1>2. QED BY <1>1, InitIInv, NextKeeps, PTL DEF Spec

\* A claim or terminal evidence never survives into a queued task.
THEOREM OwnershipIsFresh == Spec => []NoStaleOwnership
<1>1. IInv => NoStaleOwnership BY DEF IInv
<1>2. QED BY <1>1, InitIInv, NextKeeps, PTL DEF Spec

\* Two tasks never carry the same idempotency key.
THEOREM CreationIsIdempotent == Spec => []IdempotentCreation
<1>1. IInv => IdempotentCreation BY DEF IInv
<1>2. QED BY <1>1, InitIInv, NextKeeps, PTL DEF Spec

\* A failed task never has two retries that count.
THEOREM RetriesAreUnique == Spec => []OneLiveRetry
<1>1. IInv => OneLiveRetry BY DEF IInv
<1>2. QED BY <1>1, InitIInv, NextKeeps, PTL DEF Spec

\* Within an execution lane the work is first in, first out: pauses, retries,
\* recoveries and resumptions put a task back in front of what was created
\* after it, and nothing of the lane starts past it.
THEOREM LanesAreFIFO == Spec => []LaneFIFO
<1>1. IInv => LaneFIFO BY DEF IInv
<1>2. QED BY <1>1, InitIInv, NextKeeps, PTL DEF Spec

\* Finished tasks stay finished, with the outcome they were archived with.
THEOREM OutcomesAreFinal == Spec => HistoryIsMonotonic
<1>1. IInv /\ [Next]_vars =>
        [\A i \in ToSet(history) :
           /\ i \in ToSet(history)'
           /\ job'[i] # job[i] =>
                \/ job[i].status = "completed" /\ job'[i].status = "regressed"
                \/ job[i].status = "regressed"
                   /\ job'[i].status \in {"reverted", "forward-fixed"}]_vars
  BY NextKeeps DEF HistoryKept
<1>2. QED BY <1>1, InitIInv, NextKeeps, PTL DEF Spec, HistoryIsMonotonic
\* A running task whose worker is gone leaves the slot only with the outcome its
\* durable evidence proves, or because the owner stopped it; and recovery never
\* takes a task from a worker that is active.
THEOREM EvidenceDecides == Spec => RecoveryKeepsOutcome
<1>1. IInv /\ [Next]_vars =>
        [running # 0 /\ running' # running =>
           /\ \/ WorkerActive(job[running])
              \/ job'[running].status \in {"cancelled", "paused"}
              \/ ProvenStatuses(job[running]) \subseteq {job'[running].status}
           /\ reconciliation' # reconciliation => ~WorkerActive(job[running])]_vars
  BY NextRecovers DEF RecoveryStep
<1>2. QED BY <1>1, InitIInv, NextKeeps, PTL DEF Spec, RecoveryKeepsOutcome

-----------------------------------------------------------------------------
(* The notification journal, for every set of messages, every kind of      *)
(* provider and any number of daemons, crashes and attempts.               *)
(*                                                                         *)
(* The properties say what the chat shows; they are not inductive, because *)
(* a delivery is spread over several steps and several daemons.  JInv adds *)
(* what a record and the delivery in progress tell of the effects so far:  *)
(* a delivery that may be claimed again has no effect that is not          *)
(* accounted for, and one that is ambiguous cannot be claimed.             *)

\* No delivery outlives its daemon, and recovery looks at what is unsettled and
\* not being delivered.
DaemonInv ==
    /\ phase \in {"down", "starting"} => call = N!NoCall
    /\ phase # "recovering" => todo = {}
    /\ \A k \in todo : record[k].status \in N!Unsettled /\ call.key # k

\* Each effect but one is a failure that the provider returned; before the last
\* known outcome of a delivery that may be repeated, each one is.
Accounted(k) == N!Idempotent \/ applied[k] <= hidden[k]

RecordInv ==
    \A k \in Messages :
       /\ N!Idempotent => applied[k] <= 1
       /\ applied[k] <= 1 + hidden[k]
       /\ record[k].status \in {"absent", "pending"} => applied[k] = 0
       /\ record[k].status \notin {"absent", "pending"} => record[k].attempts > 0
       /\ record[k].status = "retryable_failure" => Accounted(k)

\* What the delivery in progress knows.
CallInv ==
    /\ call.step \in {"claim", "invoke"} => Accounted(call.key)
    /\ call.step = "settle" =>
          /\ call.result = "delivered" => applied[call.key] > 0
          /\ call.result = "retryable_failure" => Accounted(call.key)
    /\ call.step = "claim" /\ record[call.key].status = "in_flight" =>
          N!Idempotent \/ (N!Reconcilable /\ applied[call.key] = 0)

\* The status message of a task: once the worker has closed it, nothing but a
\* terminal edit is on its way.
EditInv ==
    /\ \A k \in Terminal \cap Tracked : record[k].status # "absent" => closed
    /\ shown # NoMessage => record[shown].status # "absent"
    /\ phase = "serving" /\ call.step # "none" /\ closed /\ call.key \in Tracked =>
          call.key \in Terminal

JInv == N!TypeOK /\ N!IntentFirst /\ DaemonInv /\ RecordInv /\ CallInv /\ EditInv

USE DEF N!Unsettled, N!Idempotent, N!Reconcilable

-----------------------------------------------------------------------------
(* What the journal's writes do.                                           *)

Record == [status : N!Statuses, attempts : Nat, owner : Nat]

\* Setting the status of one record leaves the rest of the journal alone.
LEMMA StatusSet ==
    ASSUME record \in [Messages -> Record], NEW k \in Messages, NEW s \in N!Statuses,
           N!SetStatus(k, s)
    PROVE  /\ record' \in [Messages -> Record]
           /\ record'[k].status = s
           /\ record'[k].attempts = record[k].attempts
           /\ record'[k].owner = record[k].owner
           /\ \A m \in Messages : m # k => record'[m] = record[m]
  BY DEF N!SetStatus, Record

\* The types that a step cannot disturb on its own.
LEMMA Types ==
    ASSUME N!TypeOK
    PROVE  /\ record \in [Messages -> Record]
           /\ \A k \in Messages : /\ record[k].status \in N!Statuses
                                  /\ record[k].attempts \in Nat /\ record[k].owner \in Nat
                                  /\ applied[k] \in Nat /\ hidden[k] \in Nat
           /\ call.step # "none" => call.key \in Messages
           /\ call.step = "none" => call.key = NoMessage
           /\ call.step \in {"none", "claim", "invoke", "settle"}
           /\ NoMessage \notin Messages /\ Edits \subseteq Messages
           /\ Terminal \subseteq Messages /\ Tracked \subseteq Messages
  BY MessagesAssumption DEF N!TypeOK, Record

\* Settling a record that is in flight, by recovery or at the end of a delivery.
LEMMA SettledKeeps ==
    ASSUME JInv, UNCHANGED provider, NEW k \in Messages, NEW s \in N!Results,
           phase \in {"recovering", "serving"}, call = N!NoCall,
           record[k].status = "in_flight",
           s = "delivered" => applied[k] > 0,
           s = "retryable_failure" => Accounted(k),
           N!Settled(k, s), todo' \subseteq todo, k \notin todo'
    PROVE  JInv'
<1> USE DEF JInv
<1>1. s \in N!Statuses BY DEF N!Results, N!Statuses
<1>2. /\ record' \in [Messages -> Record]
      /\ record'[k].status = s /\ record'[k].attempts = record[k].attempts
      /\ record'[k].owner = record[k].owner
      /\ \A m \in Messages : m # k => record'[m] = record[m]
  BY <1>1, Types, StatusSet DEF N!Settled
<1>3. /\ generation' = generation /\ phase' = phase /\ call' = call /\ closed' = closed
      /\ applied' = applied /\ hidden' = hidden /\ shown' = shown
  BY DEF N!Settled, N!chat
<1>4. N!TypeOK' BY <1>2, <1>3 DEF N!TypeOK, Record
<1>5. N!IntentFirst' BY <1>2, <1>3, Types DEF N!IntentFirst, N!NoCall
<1>6. DaemonInv' BY <1>2, <1>3, Types DEF DaemonInv, N!TypeOK
<1>7. RecordInv' BY <1>2, <1>3, Types DEF RecordInv, Accounted, N!Results
<1>8. CallInv' BY <1>3 DEF CallInv, N!NoCall
<1>9. EditInv' BY <1>2, <1>3, Types DEF EditInv, N!NoCall, N!TypeOK, N!Results
<1>10. QED BY <1>4, <1>5, <1>6, <1>7, <1>8, <1>9

\* Beginning a delivery that may be claimed.
LEMMA ReplayKeeps ==
    ASSUME JInv, UNCHANGED provider, NEW k \in Messages, NEW again \in BOOLEAN,
           phase \in {"recovering", "serving"}, call = N!NoCall,
           record[k].status \in N!Unsettled,
           record[k].status = "in_flight" =>
              N!Idempotent \/ (N!Reconcilable /\ applied[k] = 0),
           phase = "serving" => ~N!Suppressed(k),
           N!Replay(k, again), todo' \subseteq todo, k \notin todo'
    PROVE  JInv'
<1> USE DEF JInv
<1>1. /\ call' = [key |-> k, step |-> "claim", result |-> "delivered", again |-> again]
      /\ record' = record /\ generation' = generation /\ phase' = phase /\ closed' = closed
      /\ applied' = applied /\ hidden' = hidden /\ shown' = shown
  BY DEF N!Replay, N!CallAt, N!chat
<1>2. /\ call'.key = k /\ call'.step = "claim"
      /\ call' \in [key : Messages \cup {NoMessage}, step : {"none", "claim", "invoke", "settle"},
                    result : N!Results, again : BOOLEAN]
  BY <1>1 DEF N!Results
<1>3. N!TypeOK' BY <1>1, <1>2, Types DEF N!TypeOK
<1>4. N!IntentFirst' BY <1>1, <1>2 DEF N!IntentFirst
<1>5. DaemonInv' BY <1>1, <1>2 DEF DaemonInv
<1>6. RecordInv' BY <1>1 DEF RecordInv, Accounted
<1>7. Accounted(k)
  BY Types DEF RecordInv, Accounted
<1>8. CallInv' BY <1>1, <1>2, <1>7 DEF CallInv, Accounted
<1>9. EditInv' BY <1>1, <1>2 DEF EditInv, N!Suppressed
<1>10. QED BY <1>3, <1>4, <1>5, <1>6, <1>8, <1>9

\* What becomes of a delivery that an earlier daemon left in flight.
LEMMA RecoverInFlightKeeps ==
    ASSUME JInv, UNCHANGED provider, NEW k \in Messages, NEW again \in BOOLEAN,
           phase \in {"recovering", "serving"}, call = N!NoCall,
           record[k].status = "in_flight",
           phase = "serving" => ~N!Suppressed(k),
           N!RecoverInFlight(k, again), todo' \subseteq todo, k \notin todo'
    PROVE  JInv'
<1>1. /\ "terminal_failure" \in N!Results /\ "delivered" \in N!Results
      /\ "retryable_failure" \in N!Results
  BY DEF N!Results
<1>2. ASSUME N!FailClosed(k, again) PROVE JInv'
  BY <1>1, <1>2, SettledKeeps DEF N!FailClosed
<1>3. ASSUME N!ReplayOrExhaust(k, again),
             N!Idempotent \/ (N!Reconcilable /\ applied[k] = 0)
      PROVE  JInv'
  <2>1. CASE N!Settled(k, "terminal_failure") BY <1>1, <2>1, SettledKeeps
  <2>2. CASE N!Replay(k, again) BY <1>3, <2>2, ReplayKeeps
  <2>3. QED BY <1>3, <2>1, <2>2 DEF N!ReplayOrExhaust
<1>4. CASE N!ReconcileFound(k)
  BY <1>1, <1>4, SettledKeeps DEF N!ReconcileFound
<1>5. CASE N!ReconcileAbsent(k, again)
  BY <1>3, <1>5 DEF N!ReconcileAbsent
<1>6. CASE N!ReconcileFails(k, again)
  <2>1. CASE ~N!Idempotent /\ N!FailClosed(k, again) BY <1>2, <2>1
  <2>2. CASE N!Idempotent /\ ~again /\ N!Settled(k, "retryable_failure")
    BY <1>1, <2>2, SettledKeeps DEF Accounted
  <2>3. CASE /\ N!Idempotent /\ again
             /\ N!SetStatus(k, "retryable_failure")
             /\ call' = N!CallAt(k, "claim", FALSE)
             /\ UNCHANGED <<generation, phase, closed, N!chat>>
    <3> USE DEF JInv
    <3>1. /\ call' = [key |-> k, step |-> "claim", result |-> "delivered", again |-> FALSE]
          /\ generation' = generation /\ phase' = phase /\ closed' = closed
          /\ applied' = applied /\ hidden' = hidden /\ shown' = shown
      BY <2>3 DEF N!CallAt, N!chat
    <3>2. /\ call'.key = k /\ call'.step = "claim"
          /\ call' \in [key : Messages \cup {NoMessage},
                        step : {"none", "claim", "invoke", "settle"},
                        result : N!Results, again : BOOLEAN]
      BY <3>1 DEF N!Results
    <3>3. "retryable_failure" \in N!Statuses BY DEF N!Statuses
    <3>4. /\ record' \in [Messages -> Record]
          /\ record'[k].status = "retryable_failure"
          /\ record'[k].attempts = record[k].attempts
          /\ \A m \in Messages : m # k => record'[m] = record[m]
      BY <2>3, <3>3, Types, StatusSet
    <3>5. N!TypeOK' BY <3>1, <3>2, <3>4, Types DEF N!TypeOK, Record
    <3>6. N!IntentFirst' BY <3>1, <3>2, <3>4 DEF N!IntentFirst
    <3>7. DaemonInv' BY <3>1, <3>2, <3>4, Types DEF DaemonInv, N!TypeOK
    <3>8. RecordInv' BY <2>3, <3>1, <3>4, Types DEF RecordInv, Accounted
    <3>9. CallInv' BY <2>3, <3>1, <3>2, <3>4 DEF CallInv, Accounted
    <3>10. EditInv' BY <3>1, <3>2, <3>4, Types DEF EditInv, N!Suppressed, N!TypeOK
    <3>11. QED BY <3>5, <3>6, <3>7, <3>8, <3>9, <3>10
  <2>4. QED BY <1>6, <2>1, <2>2, <2>3 DEF N!ReconcileFails
<1>7. CASE N!ReconcileUnknown(k, again)
  BY <1>2, <1>3, <1>7 DEF N!ReconcileUnknown
<1>8. QED BY <1>4, <1>5, <1>6, <1>7 DEF N!RecoverInFlight

-----------------------------------------------------------------------------
(* The steps.                                                              *)

\* A daemon starts, crashes, and begins and ends its recovery.
LEMMA ProcessKeeps ==
    ASSUME JInv, UNCHANGED provider,
           N!Start \/ N!Crash \/ N!BeginRecovery \/ N!EndRecovery
    PROVE  JInv'
<1> USE DEF JInv
<1>1. CASE N!Start
  BY <1>1, Types DEF N!Start, N!chat, N!TypeOK, N!IntentFirst, DaemonInv, RecordInv, CallInv,
                     EditInv, Accounted, N!NoCall
<1>2. CASE N!Crash
  <2>1. /\ call' = N!NoCall /\ todo' = {} /\ phase' = "down" /\ record' = record
        /\ generation' = generation /\ closed' = closed
        /\ applied' = applied /\ hidden' = hidden /\ shown' = shown
    BY <1>2 DEF N!Crash, N!chat
  <2>2. N!TypeOK' BY <2>1 DEF N!TypeOK, N!NoCall, N!Results
  <2>3. N!IntentFirst' /\ DaemonInv' BY <2>1 DEF N!IntentFirst, DaemonInv, N!NoCall
  <2>4. RecordInv' BY <2>1 DEF RecordInv, Accounted
  <2>5. CallInv' /\ EditInv' BY <2>1 DEF CallInv, EditInv, N!NoCall
  <2>6. QED BY <2>2, <2>3, <2>4, <2>5
<1>3. CASE N!BeginRecovery
  BY <1>3, Types DEF N!BeginRecovery, N!chat, N!TypeOK, N!IntentFirst, DaemonInv, RecordInv,
                     CallInv, EditInv, Accounted, N!NoCall
<1>4. CASE N!EndRecovery
  BY <1>4, Types DEF N!EndRecovery, N!Idle, N!chat, N!TypeOK, N!IntentFirst, DaemonInv,
                     RecordInv, CallInv, EditInv, Accounted, N!NoCall
<1>5. QED BY <1>1, <1>2, <1>3, <1>4

\* Recovery settles one delivery, whatever its status is.
LEMMA RecoverKeeps ==
    ASSUME JInv, UNCHANGED provider, NEW k \in Messages, N!Recover(k)
    PROVE  JInv'
<1>1. /\ phase = "recovering" /\ call = N!NoCall /\ k \in todo
      /\ todo' \subseteq todo /\ k \notin todo' /\ record[k].status \in N!Unsettled
  BY DEF N!Recover, N!Idle, JInv, DaemonInv
<1>2. CASE record[k].status = "in_flight" /\ N!RecoverInFlight(k, FALSE)
  BY <1>1, <1>2, RecoverInFlightKeeps
<1>3. CASE record[k].status # "in_flight" /\ N!Replay(k, FALSE)
  BY <1>1, <1>3, ReplayKeeps
<1>4. QED BY <1>2, <1>3 DEF N!Recover

\* A caller writes the intent of a message, or asks for another delivery of it.
LEMMA CallerKeeps ==
    ASSUME JInv, UNCHANGED provider, NEW k \in Messages,
           N!PersistIntent(k) \/ N!DeliverAgain(k)
    PROVE  JInv'
<1> USE DEF JInv
<1>1. CASE N!PersistIntent(k)
  <2>1. /\ call' = [key |-> k, step |-> "claim", result |-> "delivered", again |-> FALSE]
        /\ closed' = (closed \/ k \in Terminal \cap Tracked)
        /\ generation' = generation /\ phase' = phase /\ todo' = todo
        /\ applied' = applied /\ hidden' = hidden /\ shown' = shown
        /\ phase = "serving" /\ ~N!Suppressed(k) /\ record[k].status = "absent"
        /\ N!SetStatus(k, "pending") /\ call = N!NoCall
    BY <1>1 DEF N!PersistIntent, N!CallAt, N!chat, N!Idle
  <2>2. /\ call'.key = k /\ call'.step = "claim"
        /\ call' \in [key : Messages \cup {NoMessage},
                      step : {"none", "claim", "invoke", "settle"},
                      result : N!Results, again : BOOLEAN]
    BY <2>1 DEF N!Results
  <2>3. "pending" \in N!Statuses BY DEF N!Statuses
  <2>4. /\ record' \in [Messages -> Record]
        /\ record'[k].status = "pending"
        /\ record'[k].attempts = record[k].attempts
        /\ \A m \in Messages : m # k => record'[m] = record[m]
    BY <2>1, <2>3, Types, StatusSet
  <2>5. N!TypeOK' BY <2>1, <2>2, <2>4, Types DEF N!TypeOK, Record
  <2>6. N!IntentFirst' BY <2>1, <2>2, <2>4, Types DEF N!IntentFirst, RecordInv
  <2>7. DaemonInv' BY <2>1, <2>2, <2>4, Types DEF DaemonInv
  <2>8. RecordInv' BY <2>1, <2>4, Types DEF RecordInv, Accounted
  <2>9. CallInv' BY <2>1, <2>2, <2>4, Types DEF CallInv, RecordInv, Accounted
  <2>10. EditInv' BY <2>1, <2>2, <2>4, Types DEF EditInv, N!Suppressed, N!TypeOK
  <2>11. QED BY <2>5, <2>6, <2>7, <2>8, <2>9, <2>10
<1>2. CASE N!DeliverAgain(k)
  <2>1. /\ phase = "serving" /\ call = N!NoCall /\ ~N!Suppressed(k)
        /\ todo' \subseteq todo /\ k \notin todo'
    BY <1>2 DEF N!DeliverAgain, N!Idle, DaemonInv
  <2>2. CASE record[k].status \in {"pending", "retryable_failure"} /\ N!Replay(k, FALSE)
    BY <2>1, <2>2, ReplayKeeps
  <2>3. CASE record[k].status = "in_flight" /\ N!RecoverInFlight(k, TRUE)
    BY <2>1, <2>3, RecoverInFlightKeeps
  <2>4. QED BY <1>2, <2>2, <2>3 DEF N!DeliverAgain
<1>3. QED BY <1>1, <1>2

\* A delivery is claimed.
LEMMA ClaimKeeps ==
    ASSUME JInv, UNCHANGED provider, N!Claim
    PROVE  JInv'
<1> USE DEF JInv
<1> DEFINE k == call.key
<1>1. /\ call.step = "claim" /\ k \in Messages
      /\ generation' = generation /\ phase' = phase /\ todo' = todo /\ closed' = closed
      /\ applied' = applied /\ hidden' = hidden /\ shown' = shown
      /\ call' = [call EXCEPT !.step = "invoke"]
  BY Types DEF N!Claim, N!chat
<1>2. /\ call'.step = "invoke" /\ call'.key = k
      /\ call' \in [key : Messages \cup {NoMessage},
                    step : {"none", "claim", "invoke", "settle"},
                    result : N!Results, again : BOOLEAN]
  BY <1>1 DEF N!TypeOK
<1>3. /\ record' \in [Messages -> Record]
      /\ record'[k].status = "in_flight" /\ record'[k].owner = generation
      /\ record'[k].attempts = record[k].attempts + 1
      /\ \A m \in Messages : m # k => record'[m] = record[m]
  BY <1>1, Types DEF N!Claim, Record, N!TypeOK, N!Statuses
<1> HIDE DEF k
<1>4. N!TypeOK' BY <1>1, <1>2, <1>3, Types DEF N!TypeOK, Record
<1>5. N!IntentFirst' BY <1>1, <1>2, <1>3, Types DEF N!IntentFirst
<1>6. DaemonInv' BY <1>1, <1>2, <1>3, Types DEF DaemonInv, N!NoCall, N!TypeOK, k
<1>7. RecordInv' BY <1>1, <1>3, Types DEF RecordInv, Accounted
<1>8. CallInv' BY <1>1, <1>2 DEF CallInv, Accounted, k
<1>9. EditInv'
  <2>1. record[k].status # "absent" BY <1>1 DEF N!IntentFirst, k
  <2>2. QED BY <1>1, <1>2, <1>3, <2>1, Types DEF EditInv, N!TypeOK, k
<1>10. QED BY <1>4, <1>5, <1>6, <1>7, <1>8, <1>9

\* What the chat shows after a provider call, whatever the call returned.
LEMMA EffectOf ==
    ASSUME JInv, NEW k \in Messages, call.step = "invoke", call.key = k,
           N!NoEffect \/ N!TakesEffect(k),
           hidden' \in {hidden, [hidden EXCEPT ![k] = @ + 1]}
    PROVE  /\ applied' \in [Messages -> Nat] /\ hidden' \in [Messages -> Nat]
           /\ \A m \in Messages : m # k => applied'[m] = applied[m] /\ hidden'[m] = hidden[m]
           /\ applied'[k] \in {applied[k], applied[k] + 1}
           /\ hidden'[k] \in {hidden[k], hidden[k] + 1}
           /\ N!Idempotent => applied'[k] <= 1
           /\ N!NoEffect => applied'[k] = applied[k]
           /\ N!TakesEffect(k) => applied'[k] > 0
           /\ shown' \in {shown, k} /\ shown' \in Edits \cup {NoMessage}
           /\ shown' # NoMessage => record[shown'].status # "absent"
<1> USE DEF JInv
<1>1. applied \in [Messages -> Nat] /\ hidden \in [Messages -> Nat] BY DEF N!TypeOK
<1>2. /\ hidden' \in [Messages -> Nat] /\ hidden'[k] \in {hidden[k], hidden[k] + 1}
      /\ \A m \in Messages : m # k => hidden'[m] = hidden[m]
  BY <1>1
<1>3. N!Idempotent => applied[k] <= 1 BY DEF RecordInv
<1>4. /\ record[k].status # "absent"
      /\ shown \in Edits \cup {NoMessage}
      /\ shown # NoMessage => record[shown].status # "absent"
  BY DEF N!IntentFirst, EditInv, N!TypeOK
<1>5. CASE N!NoEffect
  <2>1. applied' = applied /\ shown' = shown BY <1>5 DEF N!NoEffect
  <2>2. N!TakesEffect(k) => applied'[k] > 0 BY <1>1 DEF N!TakesEffect
  <2>3. /\ shown' \in {shown, k} /\ shown' \in Edits \cup {NoMessage}
        /\ shown' # NoMessage => record[shown'].status # "absent"
    BY <1>4, <2>1
  <2>4. /\ applied' \in [Messages -> Nat] /\ applied'[k] \in {applied[k], applied[k] + 1}
        /\ N!Idempotent => applied'[k] <= 1
    BY <1>1, <1>3, <2>1
  <2>5. QED BY <1>2, <2>1, <2>2, <2>3, <2>4
<1>6. CASE N!TakesEffect(k)
  <2>1. /\ applied' \in [Messages -> Nat]
        /\ applied'[k] \in {applied[k], applied[k] + 1} /\ applied'[k] > 0
        /\ \A m \in Messages : m # k => applied'[m] = applied[m]
    BY <1>1, <1>6 DEF N!TakesEffect
  <2>2. N!Idempotent => applied'[k] <= 1 BY <1>1, <1>3, <1>6 DEF N!TakesEffect
  <2>3. /\ shown' \in {shown, k} /\ shown' \in Edits \cup {NoMessage}
        /\ shown' # NoMessage => record[shown'].status # "absent"
    <3>1. shown' = (IF k \in Edits THEN k ELSE shown) BY <1>6 DEF N!TakesEffect
    <3>2. CASE k \in Edits BY <1>4, <3>1, <3>2
    <3>3. CASE k \notin Edits BY <1>4, <3>1, <3>3
    <3>4. QED BY <3>2, <3>3
  <2>4. N!NoEffect => applied'[k] = applied[k] BY DEF N!NoEffect
  <2>5. QED BY <1>2, <2>1, <2>2, <2>3, <2>4
<1>7. QED BY <1>5, <1>6

\* An answer of the provider whose unexplained effect is not to be repeated.
LEMMA AnswerKeeps ==
    ASSUME JInv, UNCHANGED provider, NEW k \in Messages, NEW result \in N!Results,
           N!Invoked(k), N!Answer(result),
           N!NoEffect \/ N!TakesEffect(k),
           hidden' \in {hidden, [hidden EXCEPT ![k] = @ + 1]},
           result = "delivered" => N!TakesEffect(k),
           result = "retryable_failure" =>
              \/ N!Idempotent \/ N!NoEffect
              \/ hidden' = [hidden EXCEPT ![k] = @ + 1]
    PROVE  JInv'
<1> USE DEF JInv
<1>1. /\ call.step = "invoke" /\ call.key = k /\ record' = record
      /\ generation' = generation /\ phase' = phase /\ todo' = todo /\ closed' = closed
      /\ call' = [call EXCEPT !.step = "settle", !.result = result]
  BY DEF N!Invoked, N!Answer
<1>2. /\ call'.step = "settle" /\ call'.key = k /\ call'.result = result
      /\ call' \in [key : Messages \cup {NoMessage},
                    step : {"none", "claim", "invoke", "settle"},
                    result : N!Results, again : BOOLEAN]
  BY <1>1 DEF N!TypeOK
<1>3. /\ applied' \in [Messages -> Nat] /\ hidden' \in [Messages -> Nat]
      /\ \A m \in Messages : m # k => applied'[m] = applied[m] /\ hidden'[m] = hidden[m]
      /\ applied'[k] \in {applied[k], applied[k] + 1}
      /\ hidden'[k] \in {hidden[k], hidden[k] + 1}
      /\ N!Idempotent => applied'[k] <= 1
      /\ N!NoEffect => applied'[k] = applied[k]
      /\ N!TakesEffect(k) => applied'[k] > 0
      /\ shown' \in Edits \cup {NoMessage}
      /\ shown' # NoMessage => record[shown'].status # "absent"
  BY <1>1, EffectOf
<1>4. /\ record[k].status = "in_flight" /\ Accounted(k) /\ record[k].attempts > 0
      /\ applied[k] \in Nat /\ hidden[k] \in Nat
  BY <1>1, Types DEF N!IntentFirst, CallInv, RecordInv
<1>5. N!TypeOK' BY <1>1, <1>2, <1>3, Types DEF N!TypeOK
<1>6. N!IntentFirst'
  <2>1. \A m \in Messages : applied'[m] > 0 => record[m].attempts > 0
    BY <1>3, <1>4 DEF N!IntentFirst
  <2>2. \A m \in Messages : record[m].status = "delivered" => applied'[m] > 0
    BY <1>3, <1>4 DEF N!IntentFirst
  <2>3. QED BY <1>1, <1>2, <1>4, <2>1, <2>2 DEF N!IntentFirst
<1>7. DaemonInv' BY <1>1, <1>2 DEF DaemonInv, N!NoCall
<1>8. RecordInv'
  <2>1. ASSUME NEW m \in Messages, m # k
        PROVE  applied'[m] = applied[m] /\ hidden'[m] = hidden[m]
    BY <1>3, <2>1
  <2>2. applied'[k] <= 1 + hidden'[k]
    BY <1>3, <1>4 DEF Accounted
  <2>3. QED BY <1>1, <1>3, <1>4, <2>1, <2>2 DEF RecordInv, Accounted
<1>9. CallInv'
  <2>1. result = "retryable_failure" => Accounted(k)'
    <3>1. hidden' = [hidden EXCEPT ![k] = @ + 1] => hidden'[k] = hidden[k] + 1
      BY DEF N!TypeOK
    <3>2. QED BY <1>3, <1>4, <3>1 DEF Accounted
  <2>2. QED BY <1>2, <1>3, <2>1 DEF CallInv
<1>10. EditInv' BY <1>1, <1>2, <1>3 DEF EditInv
<1>11. QED BY <1>5, <1>6, <1>7, <1>8, <1>9, <1>10

\* The provider answers, in any of its ways.
LEMMA ProviderKeeps ==
    ASSUME JInv, UNCHANGED provider, NEW k \in Messages,
           \/ N!ProviderDelivers(k)
           \/ \E retryable, ambiguous \in BOOLEAN : N!ProviderRefuses(k, retryable, ambiguous)
           \/ N!ProviderErrs(k)
           \/ N!ProviderUnsure(k)
           \/ N!ProviderFindsNothing(k)
           \/ N!ProviderBreaks(k)
    PROVE  JInv'
<1>0. /\ "terminal_failure" \in N!Results /\ "delivered" \in N!Results
      /\ "retryable_failure" \in N!Results
  BY DEF N!Results
<1>1. CASE N!ProviderDelivers(k)
  BY <1>0, <1>1, AnswerKeeps DEF N!ProviderDelivers
<1>2. ASSUME NEW retryable \in BOOLEAN, NEW ambiguous \in BOOLEAN,
             N!ProviderRefuses(k, retryable, ambiguous)
      PROVE  JInv'
  <2>1. /\ N!Invoked(k) /\ hidden' = hidden
        /\ N!NoEffect \/ (ambiguous /\ N!TakesEffect(k))
    BY <1>2 DEF N!ProviderRefuses
  <2>2. PICK result \in {"terminal_failure", "retryable_failure"} :
          /\ N!Answer(result)
          /\ result = "retryable_failure" => ~(ambiguous /\ ~N!Idempotent)
    BY <1>2 DEF N!ProviderRefuses, N!FailureIf
  <2>3. QED BY <1>0, <2>1, <2>2, AnswerKeeps
<1>3. CASE N!ProviderErrs(k)
  <2>1. /\ N!Invoked(k)
        /\ \/ N!NoEffect /\ hidden' = hidden
           \/ N!TakesEffect(k) /\ hidden' = [hidden EXCEPT ![k] = @ + 1]
    BY <1>3 DEF N!ProviderErrs
  <2>2. PICK result \in {"terminal_failure", "retryable_failure"} : N!Answer(result)
    BY <1>3 DEF N!ProviderErrs, N!FailureIf
  <2>3. QED BY <1>0, <2>1, <2>2, AnswerKeeps
<1>4. CASE N!ProviderUnsure(k)
  <2>1. /\ N!Invoked(k) /\ hidden' = hidden
        /\ N!NoEffect \/ N!TakesEffect(k)
    BY <1>4 DEF N!ProviderUnsure
  <2>2. PICK result \in {"terminal_failure", "retryable_failure"} :
          /\ N!Answer(result)
          /\ result = "retryable_failure" => N!Idempotent
    BY <1>4 DEF N!ProviderUnsure, N!FailureIf
  <2>3. QED BY <1>0, <2>1, <2>2, AnswerKeeps
<1>5. CASE N!ProviderFindsNothing(k)
  BY <1>0, <1>5, AnswerKeeps DEF N!ProviderFindsNothing
<1>6. CASE N!ProviderBreaks(k)
  <2> USE DEF JInv
  <2>1. /\ call.step = "invoke" /\ call.key = k /\ call' = N!NoCall /\ hidden' = hidden
        /\ N!NoEffect \/ N!TakesEffect(k)
        /\ record' = record /\ generation' = generation /\ phase' = phase
        /\ todo' = todo /\ closed' = closed
    BY <1>6 DEF N!ProviderBreaks
  <2>2. /\ applied' \in [Messages -> Nat]
        /\ \A m \in Messages : m # k => applied'[m] = applied[m]
        /\ applied'[k] \in {applied[k], applied[k] + 1}
        /\ N!Idempotent => applied'[k] <= 1
        /\ shown' \in Edits \cup {NoMessage}
        /\ shown' # NoMessage => record[shown'].status # "absent"
    BY <2>1, EffectOf
  <2>3. /\ record[k].status = "in_flight" /\ Accounted(k) /\ record[k].attempts > 0
        /\ applied[k] \in Nat /\ hidden[k] \in Nat
    BY <2>1, Types DEF N!IntentFirst, CallInv, RecordInv
  <2>4. N!TypeOK' BY <2>1, <2>2 DEF N!TypeOK, N!NoCall, N!Results
  <2>5. N!IntentFirst'
    <3>1. \A m \in Messages : applied'[m] > 0 => record[m].attempts > 0
      BY <2>2, <2>3 DEF N!IntentFirst
    <3>2. \A m \in Messages : record[m].status = "delivered" => applied'[m] > 0
      BY <2>2, <2>3 DEF N!IntentFirst
    <3>3. QED BY <2>1, <3>1, <3>2 DEF N!IntentFirst, N!NoCall
  <2>6. DaemonInv' BY <2>1, Types DEF DaemonInv, N!NoCall, N!TypeOK
  <2>7. RecordInv'
    <3>1. applied'[k] <= 1 + hidden[k] BY <2>2, <2>3 DEF Accounted
    <3>2. QED BY <2>1, <2>2, <2>3, <3>1 DEF RecordInv, Accounted
  <2>8. CallInv' BY <2>1 DEF CallInv, N!NoCall
  <2>9. EditInv' BY <2>1, <2>2 DEF EditInv, N!NoCall
  <2>10. QED BY <2>4, <2>5, <2>6, <2>7, <2>8, <2>9
<1>7. QED BY <1>1, <1>2, <1>3, <1>4, <1>5, <1>6

\* The answer is written to the record.
LEMMA SettleKeeps ==
    ASSUME JInv, UNCHANGED provider, N!Settle
    PROVE  JInv'
<1> USE DEF JInv
<1> DEFINE k == call.key
           s == call.result
           claimAgain == call.again /\ s = "retryable_failure"
<1>1. /\ call.step = "settle" /\ k \in Messages /\ s \in N!Results /\ s \in N!Statuses
      /\ N!SetStatus(k, s)
      /\ generation' = generation /\ phase' = phase /\ todo' = todo /\ closed' = closed
      /\ applied' = applied /\ hidden' = hidden /\ shown' = shown
      /\ call' = IF claimAgain
                 THEN [key |-> k, step |-> "claim", result |-> "delivered", again |-> FALSE]
                 ELSE N!NoCall
  BY Types DEF N!Settle, N!chat, N!TypeOK, N!Results, N!Statuses, N!CallAt
<1>2. /\ call'.key = (IF claimAgain THEN k ELSE NoMessage)
      /\ call'.step = (IF claimAgain THEN "claim" ELSE "none")
      /\ call' \in [key : Messages \cup {NoMessage},
                    step : {"none", "claim", "invoke", "settle"},
                    result : N!Results, again : BOOLEAN]
  BY <1>1 DEF N!NoCall, N!Results
<1>3. /\ record' \in [Messages -> Record]
      /\ record'[k].status = s /\ record'[k].attempts = record[k].attempts
      /\ \A m \in Messages : m # k => record'[m] = record[m]
  BY <1>1, Types, StatusSet
<1>4. /\ record[k].status = "in_flight" /\ record[k].attempts > 0
      /\ s = "delivered" => applied[k] > 0
      /\ s = "retryable_failure" => Accounted(k)
  BY <1>1 DEF N!IntentFirst, CallInv, RecordInv
<1>5. phase \notin {"down", "starting"} /\ k \notin todo
  BY <1>1 DEF DaemonInv, N!NoCall
<1>6. closed /\ phase = "serving" /\ k \in Tracked => k \in Terminal
  BY <1>1 DEF EditInv
<1> HIDE DEF k, s
<1>7. N!TypeOK' BY <1>1, <1>2, <1>3, Types DEF N!TypeOK, Record
<1>8. N!IntentFirst' BY <1>1, <1>2, <1>3, <1>4, Types DEF N!IntentFirst
<1>9. DaemonInv' BY <1>1, <1>2, <1>3, <1>5, Types DEF DaemonInv, N!TypeOK
<1>10. RecordInv' BY <1>1, <1>3, <1>4, Types DEF RecordInv, Accounted, N!Results
<1>11. CallInv' BY <1>1, <1>2, <1>3, <1>4 DEF CallInv, Accounted
<1>12. EditInv' BY <1>1, <1>2, <1>3, <1>4, <1>6, Types DEF EditInv, N!TypeOK, N!Results
<1>13. QED BY <1>7, <1>8, <1>9, <1>10, <1>11, <1>12

journal == <<part, vars, journalVars>>

\* Every step of the journal keeps the invariant; a step of the queue leaves the
\* journal alone.
LEMMA JournalKeeps == JInv /\ [MCNext]_journal => JInv'
<1> SUFFICES ASSUME JInv, [MCNext]_journal PROVE JInv'
  OBVIOUS
<1>1. CASE UNCHANGED journalVars
  BY <1>1 DEF journalVars, JInv, N!TypeOK, N!IntentFirst, DaemonInv, RecordInv, CallInv,
              EditInv, Accounted
<1>2. CASE N!Next
  <2>1. UNCHANGED provider BY <1>2 DEF N!Next
  <2>2. CASE N!Start \/ N!Crash BY <2>1, <2>2, ProcessKeeps
  <2>3. CASE N!DaemonStep
    BY <2>1, <2>3, ProcessKeeps, RecoverKeeps, ClaimKeeps, SettleKeeps, ProviderKeeps
       DEF N!DaemonStep
  <2>4. CASE N!CallerStep BY <2>1, <2>4, CallerKeeps DEF N!CallerStep
  <2>5. QED BY <1>2, <2>2, <2>3, <2>4 DEF N!Next
<1>3. QED BY <1>1, <1>2 DEF MCNext, journal

\* At first no message was sent.
LEMMA JournalInit == MCInit => JInv
<1> SUFFICES ASSUME MCInit PROVE JInv
  OBVIOUS
<1>1. N!Init BY DEF MCInit
<1>2. N!TypeOK
  BY <1>1, MessagesAssumption DEF N!Init, N!TypeOK, N!NoCall, N!Results, N!Statuses
<1>3. N!IntentFirst BY <1>1 DEF N!Init, N!IntentFirst, N!NoCall
<1>4. DaemonInv /\ CallInv BY <1>1 DEF N!Init, DaemonInv, CallInv, N!NoCall
<1>5. RecordInv BY <1>1 DEF N!Init, RecordInv
<1>6. EditInv BY <1>1, MessagesAssumption DEF N!Init, EditInv, N!NoCall
<1>7. QED BY <1>2, <1>3, <1>4, <1>5, <1>6 DEF JInv

-----------------------------------------------------------------------------
(* What one step may do to a delivery.                                     *)

NotRepeated ==
    \A k \in Messages :
       (/\ record[k].status = "in_flight"
        /\ record[k].owner < generation
        /\ ~N!Idempotent
        /\ applied[k] > 0 \/ ~N!Reconcilable) =>
           record'[k].attempts = record[k].attempts

LeftAlone ==
    \A k \in Messages :
       record[k].status \in {"delivered", "terminal_failure"} =>
           /\ record'[k] = record[k]
           /\ applied'[k] = applied[k]

StaysTerminal == (shown \in Terminal \cap Tracked /\ phase = "serving") => shown' \in Terminal

DeliveryStep == NotRepeated /\ LeftAlone /\ StaysTerminal

\* A write of one record whose delivery is not over, and which counts no attempt.
LEMMA WriteIsFaithful ==
    ASSUME JInv, NEW k \in Messages, NEW s \in N!Statuses, N!SetStatus(k, s),
           record[k].status \notin {"delivered", "terminal_failure"},
           applied' = applied, shown' = shown
    PROVE  DeliveryStep
<1>1. /\ record'[k].attempts = record[k].attempts
      /\ \A m \in Messages : m # k => record'[m] = record[m]
  BY Types, StatusSet DEF JInv
<1>2. NotRepeated /\ LeftAlone BY <1>1 DEF NotRepeated, LeftAlone
<1>3. StaysTerminal BY DEF StaysTerminal
<1>4. QED BY <1>2, <1>3 DEF DeliveryStep

\* A step that touches neither the journal nor the chat.
LEMMA QuietIsFaithful ==
    ASSUME record' = record, applied' = applied, shown' = shown
    PROVE  DeliveryStep
  BY DEF DeliveryStep, NotRepeated, LeftAlone, StaysTerminal

\* Recovery repeats no effect and reopens nothing.
LEMMA RecoveryIsFaithful ==
    ASSUME JInv, NEW k \in Messages, NEW again, record[k].status = "in_flight",
           N!RecoverInFlight(k, again)
    PROVE  DeliveryStep
<1>1. /\ "terminal_failure" \in N!Statuses /\ "delivered" \in N!Statuses
      /\ "retryable_failure" \in N!Statuses
  BY DEF N!Statuses
<1>2. ASSUME NEW s \in N!Statuses, N!SetStatus(k, s), UNCHANGED N!chat
      PROVE  DeliveryStep
  BY <1>2, WriteIsFaithful DEF N!chat
<1>3. ASSUME NEW s \in N!Statuses, N!Settled(k, s) PROVE DeliveryStep
  BY <1>2, <1>3 DEF N!Settled
<1>4. ASSUME N!Replay(k, again) PROVE DeliveryStep
  BY <1>4, QuietIsFaithful DEF N!Replay, N!chat
<1>5. QED
  BY <1>1, <1>2, <1>3, <1>4
     DEF N!RecoverInFlight, N!ReconcileFound, N!ReconcileAbsent, N!ReconcileFails,
         N!ReconcileUnknown, N!ReplayOrExhaust, N!FailClosed

\* A provider call, whatever comes of it.
LEMMA EffectIsFaithful ==
    ASSUME JInv, NEW k \in Messages, call.step = "invoke", call.key = k,
           N!NoEffect \/ N!TakesEffect(k), record' = record
    PROVE  DeliveryStep
<1>1. applied \in [Messages -> Nat] /\ record[k].status = "in_flight"
  BY DEF JInv, N!TypeOK, N!IntentFirst
<1>2. /\ \A m \in Messages : m # k => applied'[m] = applied[m]
      /\ shown' = shown \/ (shown' = k /\ k \in Edits)
  <2>1. CASE N!NoEffect BY <2>1 DEF N!NoEffect
  <2>2. CASE N!TakesEffect(k) BY <1>1, <2>2 DEF N!TakesEffect
  <2>3. QED BY <2>1, <2>2
<1>3. NotRepeated /\ LeftAlone BY <1>1, <1>2 DEF NotRepeated, LeftAlone
<1>4. ASSUME shown \in Terminal \cap Tracked, phase = "serving", k \in Edits
      PROVE  k \in Terminal
  <2>1. closed
    <3>1. shown \in Messages BY <1>4, Types DEF JInv
    <3>2. shown # NoMessage BY <3>1, MessagesAssumption
    <3>3. QED BY <1>4, <3>2 DEF JInv, EditInv
  <2>2. CASE k \in Tracked BY <1>4, <2>1, <2>2 DEF JInv, EditInv
  <2>3. CASE k \notin Tracked BY <1>4, <2>3, MessagesAssumption
  <2>4. QED BY <2>2, <2>3
<1>5. StaysTerminal BY <1>2, <1>4 DEF StaysTerminal
<1>6. QED BY <1>3, <1>5 DEF DeliveryStep

\* Claiming a delivery repeats no effect.
LEMMA ClaimIsFaithful ==
    ASSUME JInv, N!Claim
    PROVE  DeliveryStep
<1> DEFINE k == call.key
<1>1. /\ call.step = "claim" /\ k \in Messages /\ applied' = applied /\ shown' = shown
      /\ \A m \in Messages : m # k => record'[m] = record[m]
  BY Types DEF JInv, N!Claim, N!chat
<1>2. record[k].status \in N!Unsettled BY <1>1 DEF JInv, N!IntentFirst
<1>3. record[k].status = "in_flight" =>
         N!Idempotent \/ (N!Reconcilable /\ applied[k] = 0)
  BY <1>1 DEF JInv, CallInv
<1> HIDE DEF k
<1>4. NotRepeated BY <1>1, <1>3 DEF NotRepeated
<1>5. LeftAlone BY <1>1, <1>2 DEF LeftAlone
<1>6. StaysTerminal BY <1>1 DEF StaysTerminal
<1>7. QED BY <1>4, <1>5, <1>6 DEF DeliveryStep

\* No step repeats an effect, gives up a settled record, or shows less than before.
LEMMA JournalIsFaithful == JInv /\ [MCNext]_journal => DeliveryStep
<1> SUFFICES ASSUME JInv, [MCNext]_journal PROVE DeliveryStep
  OBVIOUS
<1>1. CASE UNCHANGED journalVars
  BY <1>1, QuietIsFaithful DEF journalVars
<1>2. CASE N!Start \/ N!Crash \/ N!BeginRecovery \/ N!EndRecovery
  BY <1>2, QuietIsFaithful DEF N!Start, N!Crash, N!BeginRecovery, N!EndRecovery, N!chat
<1>3. ASSUME NEW k \in Messages, N!Recover(k) PROVE DeliveryStep
  <2>1. CASE record[k].status = "in_flight"
    BY <1>3, <2>1, RecoveryIsFaithful DEF N!Recover
  <2>2. CASE record[k].status # "in_flight"
    BY <1>3, <2>2, QuietIsFaithful DEF N!Recover, N!Replay, N!chat
  <2>3. QED BY <2>1, <2>2
<1>4. ASSUME NEW k \in Messages, N!PersistIntent(k) PROVE DeliveryStep
  <2>1. "pending" \in N!Statuses BY DEF N!Statuses
  <2>2. QED BY <1>4, <2>1, WriteIsFaithful DEF N!PersistIntent, N!chat
<1>5. ASSUME NEW k \in Messages, N!DeliverAgain(k) PROVE DeliveryStep
  BY <1>5, RecoveryIsFaithful, QuietIsFaithful DEF N!DeliverAgain, N!Replay, N!chat
<1>6. CASE N!Claim BY <1>6, ClaimIsFaithful
<1>7. CASE N!Settle
  <2>1. /\ call.key \in Messages /\ call.result \in N!Statuses /\ call.step = "settle"
    BY <1>7, Types DEF JInv, N!Settle, N!TypeOK, N!Results, N!Statuses
  <2>2. record[call.key].status = "in_flight" BY <2>1 DEF JInv, N!IntentFirst
  <2>3. QED BY <1>7, <2>1, <2>2, WriteIsFaithful DEF N!Settle, N!chat
<1>8. ASSUME NEW k \in Messages,
             \/ N!ProviderDelivers(k)
             \/ \E retryable, ambiguous \in BOOLEAN :
                   N!ProviderRefuses(k, retryable, ambiguous)
             \/ N!ProviderErrs(k)
             \/ N!ProviderUnsure(k)
             \/ N!ProviderFindsNothing(k)
             \/ N!ProviderBreaks(k)
      PROVE  DeliveryStep
  <2>1. /\ call.step = "invoke" /\ call.key = k /\ record' = record
        /\ N!NoEffect \/ N!TakesEffect(k)
    BY <1>8 DEF N!ProviderDelivers, N!ProviderRefuses, N!ProviderErrs, N!ProviderUnsure,
                N!ProviderFindsNothing, N!ProviderBreaks, N!Invoked
  <2>2. QED BY <2>1, EffectIsFaithful
<1>9. N!Next \/ UNCHANGED journalVars BY DEF MCNext, journal
<1>10. QED
  BY <1>1, <1>2, <1>3, <1>4, <1>5, <1>6, <1>7, <1>8, <1>9
     DEF N!Next, N!DaemonStep, N!CallerStep

-----------------------------------------------------------------------------
(* The theorems.                                                           *)

\* A delivery is in the journal before the provider is called, nothing is called
\* delivered that did not reach the chat, and a message is doubled only when its
\* provider reported failure although the message went out: whatever the
\* provider, and wherever daemons crash.
THEOREM JournalTellsTheTruth == MCSpec => []JournalIsHonest
<1>1. JInv => JournalIsHonest
  BY Types DEF JInv, JournalIsHonest, N!NoUnexplainedDuplicate, RecordInv
<1>2. QED BY <1>1, JournalInit, JournalKeeps, PTL DEF MCSpec, journal

\* An ambiguous delivery is not repeated, a settled one never changes, and a
\* terminal status is not replaced by late progress of the worker.
THEOREM SettledDeliveriesStay == MCSpec => DeliveriesStaySettled
<1> HIDE DEF N!Idempotent, N!Reconcilable
<1>1. JInv /\ [MCNext]_<<part, vars, journalVars>> =>
        /\ [\A k \in Messages :
              (/\ record[k].status = "in_flight"
               /\ record[k].owner < generation
               /\ ~N!Idempotent
               /\ applied[k] > 0 \/ ~N!Reconcilable) =>
                  record'[k].attempts = record[k].attempts]_(N!vars)
        /\ [\A k \in Messages :
              record[k].status \in {"delivered", "terminal_failure"} =>
                  /\ record'[k] = record[k]
                  /\ applied'[k] = applied[k]]_(N!vars)
        /\ [(shown \in Terminal \cap Tracked /\ phase = "serving") => shown' \in Terminal]_(N!vars)
  BY JournalIsFaithful DEF DeliveryStep, NotRepeated, LeftAlone, StaysTerminal, journal
<1>2. QED
  BY <1>1, JournalInit, JournalKeeps, PTL
     DEF MCSpec, journal, DeliveriesStaySettled, N!AmbiguityFailsClosed, N!SettledForGood,
         N!LateProgressIsDropped
=============================================================================
