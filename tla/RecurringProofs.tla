--------------------------- MODULE RecurringProofs ---------------------------
(***************************************************************************)
(* What is proved of the work that comes back or waits (MCRecurring), for  *)
(* any schedules, receipts, zones, intervals and bounds:                   *)
(*   OccurrencesStaySound   occurrences do not overlap and are owed        *)
(*   PausesFence            nothing is admitted behind a pause             *)
(*   WorkStaysKept          no claim, request or item is lost              *)
(*   TargetsStayKept        a daily schedule aims at the next occurrence   *)
(*                          of its time, an interval stays on its grid     *)
(*                                                                         *)
(* Claims are numbered in the order they are issued, so that everything a  *)
(* schedule has let go of is below its present claim.  The invariant says  *)
(* of each schedule which of its tasks may be live (the last one it knows  *)
(* and the one of its claim, never both), what is still owed to it, and    *)
(* of each sweep what it may rely on although it looks at the schedule     *)
(* only once.                                                              *)
(***************************************************************************)
EXTENDS MCRecurring, FiniteSetTheorems, Sequences, WellFoundedInduction, TLAPS

-----------------------------------------------------------------------------
(* The invariant of the cron schedules.                                    *)

\* Claims of a schedule so far.
Issued(c) == claims[c]["scheduled"] + claims[c]["run-now"]

\* The present claim is the newest one.  Only the last task of the schedule and that of its
\* claim can be live, and the claim gets its task after the last one has ended.
ClaimInv ==
    \A c \in Crons :
       /\ cron[c].last <= Issued(c)
       /\ cron[c].claim # 0 => cron[c].claim = Issued(c) /\ cron[c].last < cron[c].claim
       /\ \A n \in Claims : /\ task[c][n] # "none" => n <= Issued(c)
                            /\ task[c][n] = "live" => n \in {cron[c].last, cron[c].claim}
       /\ cron[c].claim # 0 /\ cron[c].last # 0 /\ task[c][cron[c].claim] # "none" =>
             task[c][cron[c].last] # "live"

\* Claims answer target times and requests, and there is one left for what is due or wanted.
OwedInv ==
    \A c \in Crons :
       /\ claims[c]["scheduled"] <= targets[c]
       /\ claims[c]["run-now"] <= Cardinality(cron[c].history)
       /\ cron[c].due /\ cron[c].kind # "scheduled" => claims[c]["scheduled"] < targets[c]
       /\ cron[c].runNow /\ cron[c].kind # "run-now" =>
             claims[c]["run-now"] < Cardinality(cron[c].history)

\* A sweep that is about to record a task has it in the queue.
SweepInv ==
    \A t \in Threads : sweep[t].step = "ack" =>
       /\ sweep[t].cron \in Crons /\ sweep[t].claim \in Claims
       /\ task[sweep[t].cron][sweep[t].claim] # "none"

\* The inductive invariant of Cron.
CronInv == TypeOK /\ ClaimInv /\ OwedInv /\ SweepInv

-----------------------------------------------------------------------------
(* The invariant of the schedules of extensions.                           *)

DIssued(s) == dClaims[s]["scheduled"] + dClaims[s]["run-now"]

\* As ClaimInv, except that a task whose claim was refused may be live too; and every
\* claim that was given up has its task or was refused.
DClaimInv ==
    \A s \in Declared :
       /\ declared[s].last <= DIssued(s)
       /\ declared[s].claim # 0 => /\ declared[s].claim = DIssued(s)
                                   /\ declared[s].last < declared[s].claim
       /\ declared[s].last # 0 => dTask[s][declared[s].last] # "none"
       /\ \A n \in D!Claims :
             /\ dTask[s][n] # "none" => n <= DIssued(s)
             /\ dTask[s][n] = "live" =>
                   n \in {declared[s].last, declared[s].claim} \/ <<s, n>> \in refused
             /\ n <= DIssued(s) /\ n # declared[s].claim =>
                   dTask[s][n] # "none" \/ <<s, n>> \in refused
       /\ declared[s].claim # 0 /\ declared[s].last # 0 /\ dTask[s][declared[s].claim] # "none" =>
             dTask[s][declared[s].last] = "ended"

\* As OwedInv.
DOwedInv ==
    \A s \in Declared :
       /\ dClaims[s]["scheduled"] <= dTargets[s]
       /\ dClaims[s]["run-now"] <= Cardinality(declared[s].history)
       /\ declared[s].due /\ declared[s].kind # "scheduled" => dClaims[s]["scheduled"] < dTargets[s]
       /\ declared[s].runNow /\ declared[s].kind # "run-now" =>
             dClaims[s]["run-now"] < Cardinality(declared[s].history)

\* What a sweep knows of its occurrences: those of a claim that stands, as the claim reads,
\* and before one gets its task, that the last one of its schedule has ended.
Informed(w) ==
    /\ \A o \in w.todo \cup w.now :
          /\ o.claim <= DIssued(o.of)
          /\ o.claim = declared[o.of].claim => o.last = declared[o.of].last
          /\ o.last # 0 => dTask[o.of][o.last] # "none"
    /\ w.step \in {"enqueue", "record"} =>
          \A o \in w.now : o.last # 0 => dTask[o.of][o.last] = "ended"
    /\ w.step = "record" => \A o \in w.now : dTask[o.of][o.claim] # "none"
    /\ \A o, p \in w.now : o = p

DSweepInv == \A t \in Threads : Informed(dSweep[t])

\* The types: those of TypeOK, which also counts what a sweep has in hand.
DType == [state : {"absent", "active", "paused", "disabled"}, due : BOOLEAN, runNow : BOOLEAN,
          history : SUBSET DeclaredKeys, claim : D!Claims \cup {0},
          kind : {"scheduled", "run-now", "none"}, last : D!Claims \cup {0}]
DSweepType == [step : {"rest", "claim", "look", "enqueue", "record"},
               todo : SUBSET D!Occurrences, now : SUBSET D!Occurrences]

DTypes ==
    /\ declared \in [Declared -> DType] /\ dSweep \in [Threads -> DSweepType]
    /\ \A s \in Declared : declared[s].claim = 0 <=> declared[s].kind = "none"
    /\ dTask \in [Declared -> [D!Claims -> {"none", "live", "ended"}]]
    /\ dTargets \in [Declared -> 0..MaxDeclaredTargets]
    /\ dClaims \in [Declared -> [{"scheduled", "run-now"} -> Nat]]
    /\ refused \subseteq Declared \X D!Claims /\ dFailures \in 0..MaxDeclaredFailures

\* The inductive invariant of ExtensionSchedules.
DeclaredInv == DTypes /\ DClaimInv /\ DOwedInv /\ DSweepInv

\* The inductive invariant of Backlog: an item that counts as promoted has its task.
BacklogInv ==
    /\ B!TypeOK
    /\ \A i \in DOMAIN item : item[i].status = "promoted" => iTask[i] # "none"
    /\ DOMAIN item \subseteq B!Items

-----------------------------------------------------------------------------
(* Cron schedules.                                                         *)

CronType == [status : {"absent", "active", "paused", "cancelled"}, due : BOOLEAN, runNow : BOOLEAN,
             history : SUBSET Keys, claim : Claims \cup {0}, kind : Kinds \cup {"none"},
             last : Claims \cup {0}]
SweepType == [step : {"rest", "claim", "admit", "ack"}, todo : SUBSET (Crons \X Claims),
              cron : Crons \cup {0}, claim : Claims \cup {0}]

\* The types, one by one, and how many receipts a schedule has.
LEMMA CronFacts ==
    ASSUME TypeOK
    PROVE  /\ cron \in [Crons -> CronType] /\ sweep \in [Threads -> SweepType]
           /\ task \in [Crons -> [Claims -> {"none", "live", "ended"}]]
           /\ targets \in [Crons -> 0..MaxTargets] /\ failures \in 0..MaxFailures
           /\ claims \in [Crons -> [Kinds -> Nat]]
           /\ \A c \in Crons : /\ claims[c]["scheduled"] \in Nat /\ claims[c]["run-now"] \in Nat
                               /\ cron[c].claim = 0 <=> cron[c].kind = "none"
BY DEF TypeOK, CronType, SweepType, Kinds

LEMMA Receipts ==
    /\ MaxTargets \in Nat /\ MaxFailures \in Nat /\ Cardinality(Keys) \in Nat
    /\ Claims = 1..(MaxTargets + Cardinality(Keys))
    /\ \A h \in SUBSET Keys : Cardinality(h) \in Nat /\ Cardinality(h) <= Cardinality(Keys)
    /\ \A h \in SUBSET Keys, k \in Keys : k \notin h => Cardinality(h \cup {k}) = Cardinality(h) + 1
<1>1. Cardinality(Keys) \in Nat
  BY KeysAssumption, FS_CardinalityType
<1>2. \A h \in SUBSET Keys : IsFiniteSet(h) /\ Cardinality(h) <= Cardinality(Keys)
  BY KeysAssumption, FS_Subset
<1>3. \A h \in SUBSET Keys : Cardinality(h) \in Nat
  BY <1>2, FS_CardinalityType
<1>4. \A h \in SUBSET Keys, k \in Keys : k \notin h => Cardinality(h \cup {k}) = Cardinality(h) + 1
  BY <1>2, FS_AddElement
<1> QED
  BY <1>1, <1>2, <1>3, <1>4, BoundAssumption DEF Claims

\* What a step never does: see PauseFences and NothingIsLost.
Fenced == \A c \in Crons, n \in Claims :
             task[c][n] = "none" /\ task'[c][n] # "none" => Active(c) /\ cron[c].claim = n
Kept == \A c \in Crons :
           /\ cron[c].claim # 0 /\ cron'[c].claim # cron[c].claim => task[c][cron[c].claim] # "none"
           /\ cron[c].runNow /\ ~cron'[c].runNow
                 => \/ cron[c].claim # 0 /\ task[c][cron[c].claim] # "none"
                    \/ cron'[c].status = "paused"

\* What is owed to a schedule that becomes j when its target times are count.
Owed(c, j, count) ==
    /\ claims[c]["scheduled"] <= count
    /\ claims[c]["run-now"] <= Cardinality(j.history)
    /\ j.due /\ j.kind # "scheduled" => claims[c]["scheduled"] < count
    /\ j.runNow /\ j.kind # "run-now" => claims[c]["run-now"] < Cardinality(j.history)

\* A command or a target time changes one schedule and leaves its claim alone.
LEMMA ChangesKeep ==
    ASSUME CronInv, NEW c \in Crons, NEW j \in CronType, NEW count \in 0..MaxTargets,
           cron' = [cron EXCEPT ![c] = j], targets' = [targets EXCEPT ![c] = count],
           UNCHANGED <<task, sweep, claims, failures>>,
           j.claim = cron[c].claim, j.kind = cron[c].kind, j.last = cron[c].last, Owed(c, j, count),
           cron[c].runNow /\ ~j.runNow => j.status = "paused"
    PROVE  CronInv' /\ Fenced /\ Kept
<1> USE CronFacts
<1>1. TypeOK /\ ClaimInv /\ OwedInv /\ SweepInv
  BY DEF CronInv
<1>2. /\ cron'[c] = j /\ \A d \in Crons \ {c} : cron'[d] = cron[d]
      /\ targets'[c] = count /\ \A d \in Crons \ {c} : targets'[d] = targets[d]
  BY <1>1
<1>3. /\ cron' \in [Crons -> CronType] /\ targets' \in [Crons -> 0..MaxTargets]
      /\ \A d \in Crons : cron'[d].claim = 0 <=> cron'[d].kind = "none"
  BY <1>1, <1>2
<1>4. TypeOK'
  BY <1>1, <1>3 DEF TypeOK, CronType, SweepType
<1>5. \A d \in Crons : cron'[d].claim = cron[d].claim /\ cron'[d].last = cron[d].last
  BY <1>2
<1>6. ClaimInv'
  BY <1>1, <1>5 DEF ClaimInv, Issued
<1>7. OwedInv'
  BY <1>1, <1>2 DEF OwedInv, Owed
<1>8. SweepInv'
  BY <1>1 DEF SweepInv
<1>9. Fenced /\ Kept
  BY <1>2, <1>5 DEF Fenced, Kept
<1> QED
  BY <1>4, <1>6, <1>7, <1>8, <1>9 DEF CronInv

\* The commands of the chat, and a target time that comes.
LEMMA HumansKeep ==
    ASSUME CronInv, NEW c \in Crons,
           \/ Add(c) \/ Pause(c) \/ Resume(c) \/ Cancel(c) \/ Target(c)
           \/ \E k \in Keys : RunNow(c, k)
    PROVE  CronInv' /\ Fenced /\ Kept
<1> USE CronFacts, Receipts
<1>1. TypeOK /\ ClaimInv /\ OwedInv /\ SweepInv
  BY DEF CronInv
<1>2. /\ cron[c] \in CronType /\ targets[c] \in 0..MaxTargets
      /\ targets = [targets EXCEPT ![c] = targets[c]] /\ cron \in [Crons -> CronType]
      /\ cron[c].claim = 0 <=> cron[c].kind = "none"
      /\ Owed(c, cron[c], targets[c])
  BY <1>1 DEF OwedInv, Owed
<1>3. ASSUME NEW s \in {"absent", "active", "paused", "cancelled"}, NEW r \in BOOLEAN,
             cron' = [cron EXCEPT ![c].status = s, ![c].runNow = r],
             UNCHANGED <<task, sweep, targets, claims, failures>>,
             r = cron[c].runNow \/ (s = "paused" /\ ~r)
      PROVE  CronInv' /\ Fenced /\ Kept
  <2> DEFINE j == [cron[c] EXCEPT !.status = s, !.runNow = r]
  <2>1. /\ j \in CronType /\ j.status = s /\ j.runNow = r /\ j.due = cron[c].due
        /\ j.history = cron[c].history /\ j.claim = cron[c].claim /\ j.kind = cron[c].kind
        /\ j.last = cron[c].last
    BY <1>2 DEF CronType
  <2>2. cron' = [cron EXCEPT ![c] = j]
    BY <1>2, <1>3
  <2> HIDE DEF j
  <2>3. Owed(c, j, targets[c])
    BY <1>2, <1>3, <2>1 DEF Owed
  <2> QED
    BY <1>2, <1>3, <2>1, <2>2, <2>3, ChangesKeep
<1>4. CASE Add(c) \/ Resume(c) \/ Cancel(c)
  <2>1. PICK s \in {"active", "cancelled"} : cron' = [cron EXCEPT ![c].status = s]
    BY <1>4 DEF Add, Resume, Cancel
  <2>2. /\ cron' = [cron EXCEPT ![c].status = s, ![c].runNow = cron[c].runNow]
        /\ cron[c].runNow \in BOOLEAN
    BY <1>2, <2>1 DEF CronType
  <2> QED
    BY <1>3, <1>4, <2>2 DEF Add, Resume, Cancel
<1>5. CASE Pause(c)
  <2>1. cron[c].runNow \in BOOLEAN
    BY <1>2 DEF CronType
  <2>2. /\ cron' = [cron EXCEPT ![c].status = "paused",
                                 ![c].runNow = cron[c].runNow /\ cron[c].claim # 0]
        /\ UNCHANGED <<task, sweep, targets, claims, failures>>
    BY <1>2, <1>5 DEF Pause
  <2>3. CASE cron[c].claim # 0
    <3>1. (cron[c].runNow /\ cron[c].claim # 0) = cron[c].runNow
      BY <2>1, <2>3
    <3> QED
      BY <1>3, <2>1, <2>2, <3>1
  <2>4. CASE cron[c].claim = 0
    <3>1. (cron[c].runNow /\ cron[c].claim # 0) = FALSE
      BY <2>1, <2>4
    <3> QED
      BY <1>3, <2>2, <3>1
  <2> QED
    BY <2>3, <2>4
<1>6. CASE Target(c)
  <2> DEFINE j == [cron[c] EXCEPT !.due = TRUE]
  <2>1. /\ j \in CronType /\ j.status = cron[c].status /\ j.runNow = cron[c].runNow /\ j.due
        /\ j.history = cron[c].history /\ j.claim = cron[c].claim /\ j.kind = cron[c].kind
        /\ j.last = cron[c].last
    BY <1>2 DEF CronType
  <2>2. cron' = [cron EXCEPT ![c] = j] /\ UNCHANGED <<task, sweep, claims, failures>>
    BY <1>2, <1>6 DEF Target
  <2> HIDE DEF j
  <2> DEFINE count == targets[c] + 1
  <2>3. count \in 0..MaxTargets /\ targets' = [targets EXCEPT ![c] = count] /\ targets[c] \in Nat
    BY <1>2, <1>6 DEF Target
  <2>4. claims[c]["scheduled"] < count /\ claims[c]["scheduled"] <= count
    BY <1>1, <1>2, <2>3 DEF Owed
  <2> HIDE DEF count
  <2>5. Owed(c, j, count)
    BY <1>2, <2>1, <2>4 DEF Owed
  <2> QED
    BY <2>1, <2>2, <2>3, <2>5, ChangesKeep
<1>7. ASSUME NEW k \in Keys, RunNow(c, k) PROVE CronInv' /\ Fenced /\ Kept
  <2> DEFINE wanted == cron[c].runNow \/ cron[c].claim = 0
             j == [cron[c] EXCEPT !.history = @ \cup {k}, !.runNow = wanted]
  <2>1. /\ j \in CronType /\ j.status = cron[c].status /\ j.runNow = wanted /\ j.due = cron[c].due
        /\ j.history = cron[c].history \cup {k} /\ j.claim = cron[c].claim /\ j.kind = cron[c].kind
        /\ j.last = cron[c].last /\ cron[c].history \in SUBSET Keys
    BY <1>2 DEF CronType
  <2>2. cron' = [cron EXCEPT ![c] = j] /\ UNCHANGED <<task, sweep, targets, claims, failures>>
    BY <1>2, <1>7 DEF RunNow
  <2>3. cron[c].runNow => wanted
    OBVIOUS
  <2> HIDE DEF j, wanted
  <2>4. Cardinality(j.history) = Cardinality(cron[c].history) + 1
    BY <1>7, <2>1 DEF RunNow
  <2>5. Owed(c, j, targets[c])
    <3>1. /\ claims[c]["run-now"] <= Cardinality(j.history)
          /\ claims[c]["run-now"] < Cardinality(j.history)
      <4>1. claims[c]["run-now"] \in Nat /\ claims[c]["run-now"] <= Cardinality(cron[c].history)
        BY <1>1, <1>2 DEF Owed
      <4>2. Cardinality(cron[c].history) \in Nat
        BY <2>1
      <4> QED
        BY ONLY <2>4, <4>1, <4>2
    <3> QED
      BY <1>2, <2>1, <3>1 DEF Owed
  <2> QED
    BY <1>2, <2>1, <2>2, <2>3, <2>5, ChangesKeep
<1> QED
  BY <1>4, <1>5, <1>6, <1>7

\* A thread goes on with its sweep or rests.
LEMMA ContinueTyped ==
    ASSUME TypeOK, NEW t \in Threads, NEW left \in SUBSET (Crons \X Claims),
           Continue(t, left) \/ Idle(t)
    PROVE  /\ sweep' \in [Threads -> SweepType] /\ sweep'[t].step # "ack"
           /\ \A v \in Threads \ {t} : sweep'[v] = sweep[v]
<1> DEFINE rest == [step |-> Rest(t), todo |-> {}, cron |-> 0, claim |-> 0]
           on == [step |-> "admit", todo |-> left, cron |-> 0, claim |-> 0]
<1>1. rest \in SweepType /\ rest.step # "ack" /\ on \in SweepType /\ on.step # "ack"
  BY DEF SweepType, Rest
<1>2. sweep \in [Threads -> SweepType]
  BY CronFacts
<1>3. sweep' = [sweep EXCEPT ![t] = rest] \/ sweep' = [sweep EXCEPT ![t] = on]
  BY DEF Continue, Idle
<1> HIDE DEF rest, on
<1> QED
  BY <1>1, <1>2, <1>3

\* A step of a sweep that leaves schedules and queue alone.
LEMMA QuietKeeps ==
    ASSUME CronInv, NEW t \in Threads, UNCHANGED <<cron, task, targets, claims>>,
           sweep' \in [Threads -> SweepType], failures' \in 0..MaxFailures,
           sweep'[t].step # "ack", \A v \in Threads \ {t} : sweep'[v] = sweep[v]
    PROVE  CronInv' /\ Fenced /\ Kept
<1>1. TypeOK /\ ClaimInv /\ OwedInv /\ SweepInv
  BY DEF CronInv
<1>2. TypeOK'
  BY <1>1 DEF TypeOK, SweepType
<1>3. ClaimInv' /\ OwedInv'
  BY <1>1 DEF ClaimInv, OwedInv, Issued
<1>4. SweepInv'
  BY <1>1 DEF SweepInv
<1>5. Fenced /\ Kept
  BY DEF Fenced, Kept
<1> QED
  BY <1>2, <1>3, <1>4, <1>5 DEF CronInv

\* A task of the queue ends.
LEMMA EndsKeep ==
    ASSUME CronInv, NEW c \in Crons, NEW n \in Claims, task[c][n] = "live",
           task' = [task EXCEPT ![c][n] = "ended"], UNCHANGED <<cron, targets, claims, failures>>,
           sweep' \in [Threads -> SweepType],
           \A v \in Threads : sweep'[v].step = "ack" => sweep'[v] = sweep[v]
    PROVE  CronInv' /\ Fenced /\ Kept
<1> USE CronFacts
<1>1. TypeOK /\ ClaimInv /\ OwedInv /\ SweepInv
  BY DEF CronInv
<1>2. /\ task' \in [Crons -> [Claims -> {"none", "live", "ended"}]]
      /\ \A d \in Crons, m \in Claims :
           /\ task'[d][m] = "none" <=> task[d][m] = "none"
           /\ task'[d][m] = "live" => task[d][m] = "live"
  BY <1>1
<1>3. TypeOK'
  BY <1>1, <1>2 DEF TypeOK, SweepType
<1>4. ASSUME NEW d \in Crons
      PROVE cron[d].claim \in Claims \cup {0} /\ cron[d].last \in Claims \cup {0}
  BY <1>1 DEF CronType
<1>5. ClaimInv'
  BY <1>1, <1>2, <1>4 DEF ClaimInv, Issued
<1>6. OwedInv'
  BY <1>1 DEF OwedInv
<1>7. SweepInv'
  BY <1>1, <1>2 DEF SweepInv
<1>8. Fenced /\ Kept
  BY <1>2 DEF Fenced, Kept
<1> QED
  BY <1>3, <1>5, <1>6, <1>7, <1>8 DEF CronInv

\* claim_due_cron_jobs: there are numbers for the new claims, for each is owed.
LEMMA ClaimsKeep ==
    ASSUME CronInv, NEW t \in Threads, Claim(t) PROVE CronInv' /\ Fenced /\ Kept
<1> USE CronFacts, Receipts
<1>1. TypeOK /\ ClaimInv /\ OwedInv /\ SweepInv
  BY DEF CronInv
<1>2. \A c \in Crons : ~Claimable(c) => cron'[c] = cron[c] /\ claims'[c] = claims[c]
  BY DEF Claim
<1>3. UNCHANGED <<task, targets, failures>>
  BY DEF Claim
<1>4. ASSUME NEW c \in Crons, Claimable(c)
      PROVE  /\ cron'[c] \in CronType
             /\ cron'[c].claim = Issued(c) + 1 /\ cron'[c].kind = ClaimKind(c)
             /\ cron'[c].claim \in Claims /\ cron[c].claim = 0 /\ cron'[c].claim # 0
             /\ cron'[c].last = cron[c].last /\ cron'[c].history = cron[c].history
             /\ cron'[c].due = cron[c].due /\ cron'[c].runNow = cron[c].runNow
             /\ Issued(c)' = Issued(c) + 1 /\ Issued(c) \in Nat
             /\ claims'[c] \in [Kinds -> Nat]
             /\ ClaimKind(c) = "scheduled" =>
                  /\ claims'[c]["scheduled"] = claims[c]["scheduled"] + 1
                  /\ claims'[c]["run-now"] = claims[c]["run-now"]
             /\ ClaimKind(c) = "run-now" =>
                  /\ claims'[c]["run-now"] = claims[c]["run-now"] + 1
                  /\ claims'[c]["scheduled"] = claims[c]["scheduled"]
  <2>1. cron[c] \in CronType /\ cron[c].claim = 0 /\ cron[c].kind = "none"
          /\ targets[c] \in 0..MaxTargets
    BY <1>1, <1>4 DEF Claimable
  <2>2. /\ cron'[c] = [cron[c] EXCEPT !.claim = NextClaim(c), !.kind = ClaimKind(c)]
        /\ claims'[c] = [claims[c] EXCEPT ![ClaimKind(c)] = @ + 1]
    BY <1>4 DEF Claim
  <2>3. NextClaim(c) = Issued(c) + 1 /\ Issued(c) \in Nat /\ NextClaim(c) # 0
    BY <1>1 DEF NextClaim, Issued
  <2>4. NextClaim(c) \in Claims
    <3>1. /\ claims[c]["scheduled"] <= targets[c]
          /\ claims[c]["run-now"] <= Cardinality(cron[c].history)
          /\ claims[c]["scheduled"] < targets[c]
               \/ claims[c]["run-now"] < Cardinality(cron[c].history)
      BY <1>1, <1>4, <2>1 DEF OwedInv, Claimable
    <3>2. Cardinality(cron[c].history) \in Nat /\ Cardinality(cron[c].history) <= Cardinality(Keys)
      BY <2>1 DEF CronType
    <3>3. claims[c]["scheduled"] \in Nat /\ claims[c]["run-now"] \in Nat
      BY <1>1
    <3> QED
      BY <2>1, <3>1, <3>2, <3>3, SMTT(30) DEF NextClaim
  <2>5. ClaimKind(c) \in {"scheduled", "run-now"}
    BY DEF ClaimKind
  <2>6. claims[c] \in [Kinds -> Nat]
    BY <1>1
  <2>7. /\ claims'[c] \in [Kinds -> Nat]
        /\ ClaimKind(c) = "scheduled" =>
             /\ claims'[c]["scheduled"] = claims[c]["scheduled"] + 1
             /\ claims'[c]["run-now"] = claims[c]["run-now"]
        /\ ClaimKind(c) = "run-now" =>
             /\ claims'[c]["run-now"] = claims[c]["run-now"] + 1
             /\ claims'[c]["scheduled"] = claims[c]["scheduled"]
    BY ONLY <2>2, <2>5, <2>6 DEF Kinds
  <2>8. Issued(c)' = Issued(c) + 1
    BY <2>5, <2>7, <1>1 DEF Issued
  <2>9. /\ cron'[c] \in CronType /\ cron'[c].claim = NextClaim(c) /\ cron'[c].kind = ClaimKind(c)
        /\ cron'[c].last = cron[c].last /\ cron'[c].history = cron[c].history
        /\ cron'[c].due = cron[c].due /\ cron'[c].runNow = cron[c].runNow
    BY <2>1, <2>2, <2>4, <2>5 DEF CronType, Kinds
  <2> QED
    BY <2>1, <2>3, <2>4, <2>7, <2>8, <2>9
<1>5. ASSUME NEW c \in Crons, ~Claimable(c) PROVE Issued(c)' = Issued(c)
  BY <1>2, <1>5 DEF Issued
<1>6. /\ cron' \in [Crons -> CronType] /\ claims' \in [Crons -> [Kinds -> Nat]]
      /\ \A c \in Crons : cron'[c].claim = 0 <=> cron'[c].kind = "none"
  <2>1. \A c \in Crons : cron'[c] \in CronType /\ claims'[c] \in [Kinds -> Nat]
    BY <1>1, <1>2, <1>4
  <2>2. DOMAIN cron' = Crons /\ DOMAIN claims' = Crons /\ cron' = [c \in Crons |-> cron'[c]]
        /\ claims' = [c \in Crons |-> claims'[c]]
    BY DEF Claim
  <2>3. \A c \in Crons : cron'[c].claim = 0 <=> cron'[c].kind = "none"
    BY <1>1, <1>2, <1>4 DEF ClaimKind
  <2> QED
    BY <2>1, <2>2, <2>3
<1>7. /\ sweep' \in [Threads -> SweepType] /\ sweep'[t].step # "ack"
      /\ \A v \in Threads \ {t} : sweep'[v] = sweep[v]
  <2> DEFINE left == {<<c, cron[c].claim>> : c \in {d \in Crons : Active(d) /\ cron[d].claim # 0}}
                       \cup {<<c, NextClaim(c)>> : c \in {d \in Crons : Claimable(d)}}
  <2>1. \A c \in Crons : Claimable(c) => NextClaim(c) \in Claims
    BY <1>1, <1>4 DEF NextClaim, Issued
  <2>2. \A c \in Crons : cron[c].claim # 0 => cron[c].claim \in Claims
    BY <1>1 DEF CronType
  <2>3. left \in SUBSET (Crons \X Claims)
    BY <2>1, <2>2
  <2>4. Continue(t, left)
    BY DEF Claim
  <2> HIDE DEF left
  <2> QED
    BY <1>1, <2>3, <2>4, ContinueTyped
<1>8. TypeOK'
  BY <1>1, <1>3, <1>6, <1>7 DEF TypeOK, CronType, SweepType
<1>9. ClaimInv'
  <2> SUFFICES ASSUME NEW c \in Crons
               PROVE  /\ cron'[c].last <= Issued(c)'
                      /\ cron'[c].claim # 0 => /\ cron'[c].claim = Issued(c)'
                                               /\ cron'[c].last < cron'[c].claim
                      /\ \A n \in Claims :
                           /\ task'[c][n] # "none" => n <= Issued(c)'
                           /\ task'[c][n] = "live" => n \in {cron'[c].last, cron'[c].claim}
                      /\ cron'[c].claim # 0 /\ cron'[c].last # 0
                         /\ task'[c][cron'[c].claim] # "none"
                           => task'[c][cron'[c].last] # "live"
    BY DEF ClaimInv
  <2>1. /\ cron[c].last <= Issued(c)
        /\ \A n \in Claims : /\ task[c][n] # "none" => n <= Issued(c)
                             /\ task[c][n] = "live" => n \in {cron[c].last, cron[c].claim}
        /\ Issued(c) \in Nat /\ cron[c].last \in Nat
    BY <1>1 DEF ClaimInv, Issued, CronType
  <2>2. CASE ~Claimable(c)
    BY <1>1, <1>2, <1>3, <1>5, <2>2 DEF ClaimInv
  <2>3. CASE Claimable(c)
    <3>1. /\ cron'[c].claim = Issued(c) + 1 /\ Issued(c)' = Issued(c) + 1 /\ cron[c].claim = 0
          /\ cron'[c].last = cron[c].last /\ cron'[c].claim \in Claims
      BY <1>4, <2>3
    <3>2. task[c][cron'[c].claim] = "none"
      BY <2>1, <3>1
    <3>3. \A n \in Claims : n # 0 /\ n \in Nat
      BY Receipts
    <3>4. \A n \in Claims : /\ task'[c][n] # "none" => n <= Issued(c)'
                            /\ task'[c][n] = "live" => n \in {cron'[c].last, cron'[c].claim}
      BY <1>3, <2>1, <3>1, <3>3
    <3>5. cron'[c].last <= Issued(c)' /\ cron'[c].last < cron'[c].claim
      BY <2>1, <3>1
    <3> QED
      BY <1>3, <3>1, <3>2, <3>4, <3>5
  <2> QED
    BY <2>2, <2>3
<1>10. OwedInv'
  <2> SUFFICES ASSUME NEW c \in Crons
               PROVE  /\ claims'[c]["scheduled"] <= targets'[c]
                      /\ claims'[c]["run-now"] <= Cardinality(cron'[c].history)
                      /\ cron'[c].due /\ cron'[c].kind # "scheduled" =>
                           claims'[c]["scheduled"] < targets'[c]
                      /\ cron'[c].runNow /\ cron'[c].kind # "run-now" =>
                           claims'[c]["run-now"] < Cardinality(cron'[c].history)
    BY DEF OwedInv
  <2>1. /\ claims[c]["scheduled"] <= targets[c]
        /\ claims[c]["run-now"] <= Cardinality(cron[c].history)
        /\ cron[c].due /\ cron[c].kind # "scheduled" => claims[c]["scheduled"] < targets[c]
        /\ cron[c].runNow /\ cron[c].kind # "run-now" =>
             claims[c]["run-now"] < Cardinality(cron[c].history)
    BY <1>1 DEF OwedInv
  <2>2. CASE ~Claimable(c)
    BY <1>2, <1>3, <2>1, <2>2
  <2>3. CASE Claimable(c)
    <3>1. cron[c].kind = "none" /\ (cron[c].due \/ cron[c].runNow)
      BY <1>1, <2>3 DEF Claimable
    <3>2. /\ cron'[c].kind = ClaimKind(c) /\ cron'[c].history = cron[c].history
          /\ cron'[c].due = cron[c].due /\ cron'[c].runNow = cron[c].runNow
               /\ targets'[c] = targets[c]
      BY <1>3, <1>4, <2>3
    <3>3. /\ claims[c]["scheduled"] \in Nat /\ claims[c]["run-now"] \in Nat /\ targets[c] \in Nat
          /\ Cardinality(cron[c].history) \in Nat
      BY <1>1 DEF CronType
    <3>4. CASE cron[c].due
      <4>1. ClaimKind(c) = "scheduled" /\ claims[c]["scheduled"] < targets[c]
        BY <2>1, <3>1, <3>4 DEF ClaimKind
      <4>2. /\ claims'[c]["scheduled"] = claims[c]["scheduled"] + 1
            /\ claims'[c]["run-now"] = claims[c]["run-now"]
        BY <1>4, <2>3, <4>1
      <4>3. claims'[c]["scheduled"] <= targets[c]
        BY ONLY <3>3, <4>1, <4>2
      <4> QED
        BY <2>1, <3>1, <3>2, <4>1, <4>2, <4>3
    <3>5. CASE ~cron[c].due
      <4>1. ClaimKind(c) = "run-now" /\ claims[c]["run-now"] < Cardinality(cron[c].history)
        BY <2>1, <3>1, <3>5 DEF ClaimKind
      <4>2. /\ claims'[c]["run-now"] = claims[c]["run-now"] + 1
            /\ claims'[c]["scheduled"] = claims[c]["scheduled"]
        BY <1>4, <2>3, <4>1
      <4>3. claims'[c]["run-now"] <= Cardinality(cron[c].history)
        BY ONLY <3>3, <4>1, <4>2
      <4> QED
        BY <2>1, <3>2, <3>5, <4>1, <4>2, <4>3
    <3> QED
      BY <3>4, <3>5
  <2> QED
    BY <2>2, <2>3
<1>11. SweepInv'
  BY <1>1, <1>3, <1>7 DEF SweepInv
<1>12. Fenced /\ Kept
  BY <1>2, <1>3, <1>4 DEF Fenced, Kept
<1> QED
  BY <1>8, <1>9, <1>10, <1>11, <1>12 DEF CronInv

\* Under the lock of the schedule, a claim gets its task, once.
LEMMA EnqueuesKeep ==
    ASSUME CronInv, NEW t \in Threads, sweep[t].step = "admit", NEW o \in sweep[t].todo,
           Enqueue(t, o), UNCHANGED <<cron, targets, claims>>
    PROVE  CronInv' /\ Fenced /\ Kept
<1> USE CronFacts, Receipts
<1>1. TypeOK /\ ClaimInv /\ OwedInv /\ SweepInv
  BY DEF CronInv
<1>2. sweep[t] \in SweepType /\ o \in Crons \X Claims
  BY <1>1 DEF SweepType
<1>3. PICK c \in Crons, n \in Claims : o = <<c, n>> /\ c = o[1] /\ n = o[2]
  BY <1>2
<1>4. /\ Active(c) /\ cron[c].claim = n /\ ~Outstanding(c) /\ failures' = failures
      /\ task' = [task EXCEPT ![c][n] = IF @ = "none" THEN "live" ELSE @]
      /\ sweep' = [sweep EXCEPT ![t].step = "ack", ![t].todo = @ \ {o},
                                ![t].cron = c, ![t].claim = n]
  BY <1>3 DEF Enqueue, Admitted
<1>5. /\ task' \in [Crons -> [Claims -> {"none", "live", "ended"}]] /\ task'[c][n] # "none"
      /\ \A d \in Crons, m \in Claims : d # c \/ m # n => task'[d][m] = task[d][m]
      /\ task[c][n] # "none" => task'[c][n] = task[c][n]
  BY <1>1, <1>4
<1>6. /\ sweep' \in [Threads -> SweepType]
      /\ \A v \in Threads \ {t} : sweep'[v] = sweep[v]
      /\ sweep'[t].cron = c /\ sweep'[t].claim = n
  <2> DEFINE next == [sweep[t] EXCEPT !.step = "ack", !.todo = @ \ {o}, !.cron = c, !.claim = n]
  <2>1. next \in SweepType /\ next.cron = c /\ next.claim = n
    BY <1>2 DEF SweepType
  <2>2. sweep' = [sweep EXCEPT ![t] = next] /\ sweep \in [Threads -> SweepType]
    BY <1>1, <1>4
  <2> HIDE DEF next
  <2> QED
    BY <2>1, <2>2
<1>7. TypeOK'
  BY <1>1, <1>4, <1>5, <1>6 DEF TypeOK, SweepType
<1>8. ClaimInv'
  <2> SUFFICES ASSUME NEW d \in Crons
               PROVE  /\ cron[d].last <= Issued(d)'
                      /\ cron[d].claim # 0 => cron[d].claim = Issued(d)'
                           /\ cron[d].last < cron[d].claim
                      /\ \A m \in Claims :
                           /\ task'[d][m] # "none" => m <= Issued(d)'
                           /\ task'[d][m] = "live" => m \in {cron[d].last, cron[d].claim}
                      /\ cron[d].claim # 0 /\ cron[d].last # 0 /\ task'[d][cron[d].claim] # "none"
                           => task'[d][cron[d].last] # "live"
    BY DEF ClaimInv
  <2>1. Issued(d)' = Issued(d) /\ Issued(d) \in Nat
    BY <1>1, SMTT(30) DEF Issued
  <2>2. /\ cron[d].last <= Issued(d)
        /\ cron[d].claim # 0 => cron[d].claim = Issued(d) /\ cron[d].last < cron[d].claim
        /\ \A m \in Claims : /\ task[d][m] # "none" => m <= Issued(d)
                             /\ task[d][m] = "live" => m \in {cron[d].last, cron[d].claim}
        /\ cron[d].claim # 0 /\ cron[d].last # 0 /\ task[d][cron[d].claim] # "none" =>
             task[d][cron[d].last] # "live"
        /\ cron[d].last \in Claims \cup {0} /\ cron[d].claim \in Claims \cup {0}
    BY <1>1 DEF ClaimInv, CronType
  <2>3. CASE d # c
    BY <1>5, <2>1, <2>2, <2>3, Zenon
  <2>4. CASE d = c
    <3>1. n # 0 /\ n \in Nat /\ n = Issued(c) /\ cron[c].last < n
      BY <1>4, <2>2, <2>4
    <3>2. cron[c].last # 0 => task'[c][cron[c].last] # "live"
      BY <1>4, <1>5, <2>2, <2>4, <3>1 DEF Outstanding
    <3>3. \A m \in Claims : /\ task'[c][m] # "none" => m <= Issued(c)
                            /\ task'[c][m] = "live" => m \in {cron[c].last, cron[c].claim}
      BY <1>4, <1>5, <2>2, <2>4, <3>1
    <3> QED
      BY <2>1, <2>2, <2>4, <3>2, <3>3
  <2> QED
    BY <2>3, <2>4
<1>9. OwedInv'
  BY <1>1 DEF OwedInv
<1>10. SweepInv'
  <2> SUFFICES ASSUME NEW v \in Threads, sweep'[v].step = "ack"
               PROVE  /\ sweep'[v].cron \in Crons /\ sweep'[v].claim \in Claims
                      /\ task'[sweep'[v].cron][sweep'[v].claim] # "none"
    BY DEF SweepInv
  <2>1. CASE v = t
    BY <1>5, <1>6, <2>1
  <2>2. CASE v # t
    <3>1. /\ sweep'[v] = sweep[v] /\ sweep[v].cron \in Crons /\ sweep[v].claim \in Claims
          /\ task[sweep[v].cron][sweep[v].claim] # "none"
      BY <1>1, <1>6, <2>2 DEF SweepInv
    <3>2. PICK d \in Crons, m \in Claims : d = sweep[v].cron /\ m = sweep[v].claim
      BY <3>1
    <3>3. task'[d][m] # "none"
      BY <1>5, <3>1, <3>2
    <3> QED
      BY <3>1, <3>2, <3>3
  <2> QED
    BY <2>1, <2>2
<1>11. Fenced /\ Kept
  BY <1>4, <1>5 DEF Fenced, Kept
<1> QED
  BY <1>7, <1>8, <1>9, <1>10, <1>11 DEF CronInv

\* record_cron_task: the claim is settled, and its task is the last one now.
LEMMA AcksKeep ==
    ASSUME CronInv, NEW t \in Threads, Ack(t) PROVE CronInv' /\ Fenced /\ Kept
<1> USE CronFacts, Receipts
<1>1. TypeOK /\ ClaimInv /\ OwedInv /\ SweepInv
  BY DEF CronInv
<1>2. PICK c \in Crons, n \in Claims :
             c = sweep[t].cron /\ n = sweep[t].claim /\ task[c][n] # "none"
  BY <1>1 DEF Ack, SweepInv
<1>3. /\ sweep' \in [Threads -> SweepType] /\ sweep'[t].step # "ack"
      /\ \A v \in Threads \ {t} : sweep'[v] = sweep[v]
  <2>1. sweep[t].todo \in SUBSET (Crons \X Claims)
    BY <1>1 DEF SweepType
  <2> QED
    BY <1>1, <2>1, ContinueTyped DEF Ack
<1>4. UNCHANGED <<task, targets, claims, failures>>
  BY DEF Ack
<1>5. CASE ~Recordable(c, n)
  <2>1. cron' = cron
    BY <1>2, <1>5 DEF Ack
  <2> QED
    BY <1>1, <1>3, <1>4, <2>1, QuietKeeps
<1>6. CASE Recordable(c, n)
  <2> DEFINE due == cron[c].due /\ cron[c].kind = "run-now"
             j == [cron[c] EXCEPT !.last = n, !.claim = 0, !.kind = "none", !.runNow = FALSE,
                                  !.due = due]
  <2>1. cron[c] \in CronType /\ cron \in [Crons -> CronType] /\ cron[c].claim = n
        /\ cron[c].status \in {"active", "paused"}
    BY <1>1, <1>6, SMTT(30) DEF Recordable
  <2>2. cron' = [cron EXCEPT ![c] = j]
    BY <1>2, <1>6, <2>1 DEF Ack, Acknowledged
  <2>3. due \in BOOLEAN /\ (due => cron[c].due /\ cron[c].kind = "run-now")
    OBVIOUS
  <2>0. PICK b \in BOOLEAN : b = due
    BY <2>3
  <2>4. /\ j \in CronType /\ j.last = n /\ j.claim = 0 /\ j.kind = "none" /\ j.runNow = FALSE
        /\ j.due = b /\ j.history = cron[c].history /\ j.status = cron[c].status
    <3> HIDE DEF due
    <3> QED
      BY <2>0, <2>1 DEF CronType
  <2> HIDE DEF j, due
  <2>5. cron'[c] = j /\ \A d \in Crons \ {c} : cron'[d] = cron[d]
    BY <2>1, <2>2
  <2>6. /\ cron' \in [Crons -> CronType]
        /\ \A d \in Crons : cron'[d].claim = 0 <=> cron'[d].kind = "none"
    BY <1>1, <2>1, <2>2, <2>4, <2>5
  <2>7. TypeOK'
    BY <1>1, <1>3, <1>4, <2>6 DEF TypeOK, CronType, SweepType
  <2>8. \A d \in Crons : Issued(d)' = Issued(d) /\ Issued(d) \in Nat
    BY <1>1, <1>4, SMTT(30) DEF Issued
  <2>9. ClaimInv'
    <3>1. /\ n = Issued(c) /\ cron[c].last < n /\ n # 0
          /\ \A m \in Claims : /\ task[c][m] # "none" => m <= Issued(c)
                               /\ task[c][m] = "live" => m \in {cron[c].last, n}
          /\ cron[c].last # 0 => task[c][cron[c].last] # "live"
      BY <1>1, <1>2, <2>1 DEF ClaimInv
    <3>2. \A m \in Claims : task[c][m] = "live" => m = n
      BY <3>1
    <3>3. \A d \in Crons \ {c} :
            /\ cron[d].last <= Issued(d)
            /\ cron[d].claim # 0 => cron[d].claim = Issued(d) /\ cron[d].last < cron[d].claim
            /\ \A m \in Claims : /\ task[d][m] # "none" => m <= Issued(d)
                                 /\ task[d][m] = "live" => m \in {cron[d].last, cron[d].claim}
            /\ cron[d].claim # 0 /\ cron[d].last # 0 /\ task[d][cron[d].claim] # "none" =>
                 task[d][cron[d].last] # "live"
      BY <1>1 DEF ClaimInv
    <3>4. n <= Issued(c)
      BY <2>8, <3>1
    <3>5. \A m \in Claims : /\ task[c][m] # "none" => m <= Issued(c)
                            /\ task[c][m] = "live" => m \in {n, 0}
      BY <3>1, <3>2
    <3> QED
      BY ONLY <1>4, <2>4, <2>5, <2>8, <3>3, <3>4, <3>5 DEF ClaimInv
  <2>10. OwedInv'
    <3>1. Owed(c, cron[c], targets[c])
      BY <1>1 DEF OwedInv, Owed
    <3>2. Owed(c, j, targets[c])
      BY <2>0, <2>3, <2>4, <3>1 DEF Owed
    <3> QED
      BY <1>1, <1>4, <2>5, <3>2 DEF OwedInv, Owed
  <2>11. SweepInv'
    BY <1>1, <1>3, <1>4 DEF SweepInv
  <2>12. Fenced /\ Kept
    BY <1>2, <1>4, <2>1, <2>5 DEF Fenced, Kept
  <2> QED
    BY <2>7, <2>9, <2>10, <2>11, <2>12 DEF CronInv
<1> QED
  BY <1>5, <1>6

\* Every step of the cron schedules.
LEMMA CronKeeps ==
    CronInv /\ [Next]_vars => CronInv' /\ (UNCHANGED vars \/ (Fenced /\ Kept))
<1> SUFFICES ASSUME CronInv, [Next]_vars PROVE CronInv' /\ (UNCHANGED vars \/ (Fenced /\ Kept))
  OBVIOUS
<1> USE CronFacts
<1>1. TypeOK
  BY DEF CronInv
<1>2. ASSUME NEW c \in Crons, Human(c) \/ Target(c) PROVE CronInv' /\ Fenced /\ Kept
  <2>1. ASSUME NEW n \in Claims, Drop(c, n) PROVE CronInv' /\ Fenced /\ Kept
    BY <1>1, <2>1, EndsKeep DEF Drop
  <2> QED
    BY <1>2, <2>1, HumansKeep DEF Human
<1>3. ASSUME NEW t \in Threads, Step(t) PROVE CronInv' /\ Fenced /\ Kept
  <2>1. ASSUME NEW o \in sweep[t].todo, Admit(t), Refuse(t, o) \/ EnqueueFails(t, o)
        PROVE  CronInv' /\ Fenced /\ Kept
    <3>1. sweep[t].todo \ {o} \in SUBSET (Crons \X Claims)
      BY <1>1 DEF SweepType
    <3>2. Continue(t, sweep[t].todo \ {o}) /\ UNCHANGED <<cron, task, targets, claims>>
      BY <2>1 DEF Admit, Refuse, EnqueueFails
    <3>3. failures' \in 0..MaxFailures
      BY <1>1, <2>1, Receipts DEF Refuse, EnqueueFails
    <3> QED
      BY <1>1, <3>1, <3>2, <3>3, ContinueTyped, QuietKeeps
  <2>2. CASE Admit(t)
    <3>1. PICK o \in sweep[t].todo : Refuse(t, o) \/ Enqueue(t, o) \/ EnqueueFails(t, o)
      BY <2>2 DEF Admit
    <3> QED
      BY <2>1, <2>2, <3>1, EnqueuesKeep DEF Admit
  <2> QED
    BY <1>3, <2>2, ClaimsKeep, AcksKeep DEF Step
<1>4. ASSUME NEW t \in Threads, Abort(t) PROVE CronInv' /\ Fenced /\ Kept
  <2>1. failures' \in 0..MaxFailures
    BY <1>1, <1>4, Receipts DEF Abort
  <2>2. /\ sweep' \in [Threads -> SweepType] /\ sweep'[t].step # "ack"
        /\ \A v \in Threads \ {t} : sweep'[v] = sweep[v]
    BY <1>1, <1>4, ContinueTyped DEF Abort
  <2> QED
    BY <1>4, <2>1, <2>2, QuietKeeps DEF Abort
<1>5. CASE WorkerFinishes
  <2>1. PICK c \in Crons, n \in Claims : Finish(c, n)
    BY <1>5 DEF WorkerFinishes
  <2>2. /\ sweep' \in [Threads -> SweepType]
        /\ \A v \in Threads : sweep'[v].step = "ack" => sweep'[v] = sweep[v]
    <3> DEFINE next == [sweep[Worker] EXCEPT !.step = "claim"]
    <3>1. sweep \in [Threads -> SweepType] /\ Worker \in Threads /\ sweep[Worker] \in SweepType
      BY <1>1 DEF Threads
    <3>2. next \in SweepType /\ next.step = "claim"
      BY <3>1 DEF SweepType
    <3>3. sweep' = [sweep EXCEPT ![Worker] = next]
      BY <2>1, <3>1 DEF Finish
    <3> HIDE DEF next
    <3> QED
      BY <3>1, <3>2, <3>3
  <2> QED
    BY <2>1, <2>2, EndsKeep DEF Finish
<1>6. CASE UNCHANGED vars
  BY <1>6 DEF vars, CronInv, TypeOK, ClaimInv, OwedInv, SweepInv, Issued
<1> QED
  BY <1>2, <1>3, <1>4, <1>5, <1>6 DEF Next

-----------------------------------------------------------------------------
(* Schedules of extensions.                                                *)

\* How many receipts a schedule has.
LEMMA DReceipts ==
    /\ MaxDeclaredTargets \in Nat /\ MaxDeclaredFailures \in Nat
    /\ Cardinality(DeclaredKeys) \in Nat
    /\ D!Claims = 1..(MaxDeclaredTargets + Cardinality(DeclaredKeys))
    /\ \A h \in SUBSET DeclaredKeys :
          Cardinality(h) \in Nat /\ Cardinality(h) <= Cardinality(DeclaredKeys)
    /\ \A h \in SUBSET DeclaredKeys, k \in DeclaredKeys :
          k \notin h => Cardinality(h \cup {k}) = Cardinality(h) + 1
<1>1. Cardinality(DeclaredKeys) \in Nat
  BY BoundsAssumption, FS_CardinalityType
<1>2. \A h \in SUBSET DeclaredKeys :
        IsFiniteSet(h) /\ Cardinality(h) <= Cardinality(DeclaredKeys)
  BY BoundsAssumption, FS_Subset
<1>3. \A h \in SUBSET DeclaredKeys : Cardinality(h) \in Nat
  BY <1>2, FS_CardinalityType
<1>4. \A h \in SUBSET DeclaredKeys, k \in DeclaredKeys :
        k \notin h => Cardinality(h \cup {k}) = Cardinality(h) + 1
  BY <1>2, FS_AddElement
<1>5. D!Cardinality(DeclaredKeys) = Cardinality(DeclaredKeys)
  BY DEF D!Cardinality, Cardinality
<1> QED
  BY <1>1, <1>2, <1>3, <1>4, <1>5, BoundsAssumption DEF D!Claims

\* Both threads sweep both kinds of schedules.
LEMMA SameThreads == D!Threads = Threads
  BY DEF D!Threads, Threads

\* The records of one schedule.
LEMMA DeclaredFacts ==
    ASSUME DTypes
    PROVE  /\ \A s \in Declared :
                /\ declared[s] \in DType /\ dTargets[s] \in 0..MaxDeclaredTargets
                /\ dClaims[s]["scheduled"] \in Nat /\ dClaims[s]["run-now"] \in Nat
                /\ DIssued(s) \in Nat
                /\ declared[s].claim \in Nat /\ declared[s].last \in Nat
           /\ \A t \in Threads : dSweep[t] \in DSweepType
<1>1. \A s \in Declared : declared[s] \in DType /\ dTargets[s] \in 0..MaxDeclaredTargets
  BY DEF DTypes
<1>2. \A s \in Declared : dClaims[s]["scheduled"] \in Nat /\ dClaims[s]["run-now"] \in Nat
  BY DEF DTypes
<1>3. \A s \in Declared : declared[s].claim \in Nat /\ declared[s].last \in Nat
  BY <1>1, DReceipts DEF DType
<1> QED
  BY <1>1, <1>2, <1>3 DEF DIssued, DTypes

\* What is owed to a schedule that becomes j when its target times are count.
DOwed(s, j, count) ==
    /\ dClaims[s]["scheduled"] <= count
    /\ dClaims[s]["run-now"] <= Cardinality(j.history)
    /\ j.due /\ j.kind # "scheduled" => dClaims[s]["scheduled"] < count
    /\ j.runNow /\ j.kind # "run-now" => dClaims[s]["run-now"] < Cardinality(j.history)

\* A sweep that is left alone stays informed: claims are issued in order, and a task that
\* has ended does not come back.
LEMMA SweepsStay ==
    ASSUME DTypes, NEW w \in DSweepType, Informed(w),
           \A s \in Declared : DIssued(s)' \in Nat /\ DIssued(s) <= DIssued(s)',
           \A s \in Declared, n \in D!Claims :
              /\ n <= DIssued(s) /\ declared'[s].claim = n =>
                   declared[s].claim = n /\ declared'[s].last = declared[s].last
              /\ dTask[s][n] # "none" => dTask'[s][n] # "none"
              /\ dTask[s][n] = "ended" => dTask'[s][n] = "ended"
    PROVE  Informed(w)'
<1>1. \A o \in w.todo \cup w.now :
        o.of \in Declared /\ o.claim \in D!Claims /\ o.last \in D!Claims \cup {0}
  BY DEF DSweepType, D!Occurrences
<1>2. \A o \in w.todo \cup w.now : o.claim <= DIssued(o.of)'
  <2> SUFFICES ASSUME NEW o \in w.todo \cup w.now PROVE o.claim <= DIssued(o.of)'
    OBVIOUS
  <2>1. o.of \in Declared /\ o.claim \in Nat /\ DIssued(o.of) \in Nat /\ o.claim <= DIssued(o.of)
    BY <1>1, DReceipts, DeclaredFacts DEF Informed
  <2> QED
    BY <2>1
<1>3. \A o \in w.todo \cup w.now :
        /\ o.claim = declared'[o.of].claim => o.last = declared'[o.of].last
        /\ o.last # 0 => dTask'[o.of][o.last] # "none"
  BY <1>1 DEF Informed
<1>4. w.step \in {"enqueue", "record"} =>
        \A o \in w.now : o.last # 0 => dTask'[o.of][o.last] = "ended"
  BY <1>1 DEF Informed
<1>5. w.step = "record" => \A o \in w.now : dTask'[o.of][o.claim] # "none"
  BY <1>1 DEF Informed
<1> QED
  BY <1>2, <1>3, <1>4, <1>5 DEF Informed

\* A thread rests or goes on with what is left of its sweep.
LEMMA DContinueTyped ==
    ASSUME DTypes, NEW t \in Threads, NEW left \in SUBSET D!Occurrences, D!Continue(t, left)
    PROVE  /\ dSweep' \in [Threads -> DSweepType]
           /\ dSweep'[t].todo = left /\ dSweep'[t].now = {}
           /\ dSweep'[t].step \in {"rest", "claim", "look"}
           /\ \A v \in Threads \ {t} : dSweep'[v] = dSweep[v]
<1> DEFINE next == IF left = {} THEN D!AtRest(t) ELSE [step |-> "look", todo |-> left, now |-> {}]
<1>1. /\ next \in DSweepType /\ next.todo = left /\ next.now = {}
      /\ next.step \in {"rest", "claim", "look"}
  BY DEF D!AtRest, D!Rest, DSweepType
<1>2. dSweep \in [Threads -> DSweepType] /\ dSweep' = [dSweep EXCEPT ![t] = next]
  BY DEF DTypes, D!Continue
<1> HIDE DEF next
<1> QED
  BY <1>1, <1>2

\* Schedules change, but neither claims nor tasks do: commands of an extension, target
\* times, and the start of a daemon, which ends the sweeps.
LEMMA DChangesKeep ==
    ASSUME DeclaredInv, UNCHANGED <<dTask, dClaims, refused>>,
           declared' \in [Declared -> DType], dTargets' \in [Declared -> 0..MaxDeclaredTargets],
           dFailures' \in 0..MaxDeclaredFailures, dSweep' \in [Threads -> DSweepType],
           \A s \in Declared :
              /\ declared'[s].claim = declared[s].claim /\ declared'[s].kind = declared[s].kind
              /\ declared'[s].last = declared[s].last /\ DOwed(s, declared'[s], dTargets'[s]),
           \A t \in Threads :
             dSweep'[t] = dSweep[t] \/ (dSweep'[t].todo = {} /\ dSweep'[t].now = {})
    PROVE  DeclaredInv'
<1>1. DTypes /\ DClaimInv /\ DOwedInv /\ DSweepInv
  BY DEF DeclaredInv
<1>2. DTypes'
  BY <1>1 DEF DTypes
<1>3. \A s \in Declared : DIssued(s)' = DIssued(s)
  BY DEF DIssued
<1>4. DClaimInv'
  BY <1>1, <1>3 DEF DClaimInv
<1>5. DOwedInv'
  BY DEF DOwedInv, DOwed
<1>6. ASSUME NEW t \in Threads PROVE Informed(dSweep[t])'
  <2>1. CASE dSweep'[t].todo = {} /\ dSweep'[t].now = {}
    BY <2>1 DEF Informed
  <2>2. CASE dSweep'[t] = dSweep[t]
    <3>1. PICK w \in DSweepType : w = dSweep[t] /\ Informed(w)
      BY <1>1, DeclaredFacts DEF DSweepInv
    <3>2. \A s \in Declared : DIssued(s)' \in Nat /\ DIssued(s) <= DIssued(s)'
      BY <1>1, <1>3, DeclaredFacts
    <3>3. \A s \in Declared, n \in D!Claims :
             /\ n <= DIssued(s) /\ declared'[s].claim = n =>
                  declared[s].claim = n /\ declared'[s].last = declared[s].last
             /\ dTask[s][n] # "none" => dTask'[s][n] # "none"
             /\ dTask[s][n] = "ended" => dTask'[s][n] = "ended"
      OBVIOUS
    <3>4. Informed(w)'
      BY <1>1, <3>1, <3>2, <3>3, SweepsStay
    <3> QED
      BY <2>2, <3>1, <3>4
  <2> QED
    BY <2>1, <2>2
<1> QED
  BY <1>2, <1>4, <1>5, <1>6 DEF DeclaredInv, DSweepInv

\* A step of a sweep that leaves schedules and queue alone.
LEMMA DQuietKeeps ==
    ASSUME DeclaredInv, UNCHANGED <<declared, dTask, dTargets, dClaims, refused>>,
           NEW t \in Threads, NEW w \in DSweepType, dSweep' = [dSweep EXCEPT ![t] = w], Informed(w),
           dFailures' \in 0..MaxDeclaredFailures
    PROVE  DeclaredInv'
<1>1. DTypes /\ DClaimInv /\ DOwedInv /\ DSweepInv
  BY DEF DeclaredInv
<1>2. dSweep' \in [Threads -> DSweepType] /\ dSweep'[t] = w
      /\ \A v \in Threads \ {t} : dSweep'[v] = dSweep[v]
  BY <1>1 DEF DTypes
<1>3. DTypes'
  BY <1>1, <1>2 DEF DTypes
<1>4. DClaimInv' /\ DOwedInv'
  BY <1>1 DEF DClaimInv, DOwedInv, DIssued
<1>5. ASSUME NEW v \in Threads PROVE Informed(dSweep[v])'
  <2>1. Informed(dSweep'[v])
    BY <1>1, <1>2 DEF DSweepInv
  <2>2. PICK x : x = dSweep'[v]
    OBVIOUS
  <2>3. Informed(x)
    BY <2>1, <2>2 DEF Informed
  <2>4. Informed(x)'
    BY <2>3 DEF Informed, DIssued
  <2> QED
    BY <2>2, <2>4 DEF Informed
<1> QED
  BY <1>3, <1>4, <1>5 DEF DeclaredInv, DSweepInv

\* A task of the queue ends.
LEMMA DEndsKeep ==
    ASSUME DeclaredInv, D!WorkerFinishes PROVE DeclaredInv'
<1>1. DTypes /\ DClaimInv /\ DOwedInv /\ DSweepInv
  BY DEF DeclaredInv
<1>2. PICK s \in Declared, n \in D!Claims : D!Finish(s, n)
  BY DEF D!WorkerFinishes
<1>3. /\ dTask' \in [Declared -> [D!Claims -> {"none", "live", "ended"}]]
      /\ \A d \in Declared, m \in D!Claims :
           /\ dTask'[d][m] = "none" <=> dTask[d][m] = "none"
           /\ dTask'[d][m] = "live" => dTask[d][m] = "live"
           /\ dTask[d][m] = "ended" => dTask'[d][m] = "ended"
  BY <1>1, <1>2 DEF DTypes, D!Finish
<1>4. UNCHANGED <<declared, dTargets, dClaims, refused, dFailures>>
  BY <1>2 DEF D!Finish
<1>5. PICK w \in DSweepType : w = dSweep[Worker]
  BY <1>1, DeclaredFacts DEF Threads
<1> DEFINE next == [w EXCEPT !.step = "claim"]
<1>6. next \in DSweepType /\ next.todo = w.todo /\ next.now = w.now /\ next.step = "claim"
  BY <1>5 DEF DSweepType
<1>7. dSweep' = [dSweep EXCEPT ![Worker] = next]
  BY <1>2, <1>5 DEF D!Finish
<1>8. Informed(next)
  BY <1>1, <1>5, <1>6 DEF DSweepInv, Informed, Threads
<1> HIDE DEF next
<1>9. dSweep' \in [Threads -> DSweepType] /\ dSweep'[Worker] = next
      /\ \A v \in Threads \ {Worker} : dSweep'[v] = dSweep[v]
  BY <1>1, <1>6, <1>7 DEF DTypes, Threads
<1>10. DTypes'
  BY <1>1, <1>3, <1>4, <1>9 DEF DTypes
<1>11. \A d \in Declared : DIssued(d)' = DIssued(d)
  BY <1>4 DEF DIssued
<1>12. \A d \in Declared :
         declared[d].claim \in D!Claims \cup {0} /\ declared[d].last \in D!Claims \cup {0}
  BY <1>1, DeclaredFacts DEF DType
<1>13. DClaimInv'
  BY <1>1, <1>3, <1>4, <1>11, <1>12 DEF DClaimInv
<1>14. DOwedInv'
  BY <1>1, <1>4 DEF DOwedInv
<1>15. ASSUME NEW v \in Threads PROVE Informed(dSweep[v])'
  <2>1. PICK x \in DSweepType : x = dSweep'[v] /\ Informed(x)
    BY <1>1, <1>6, <1>8, <1>9 DEF DSweepInv, DTypes
  <2>2. /\ \A d \in Declared : DIssued(d)' \in Nat /\ DIssued(d) <= DIssued(d)'
    BY <1>1, <1>11, DeclaredFacts
  <2>3. Informed(x)'
    BY <1>1, <1>3, <1>4, <2>1, <2>2, SweepsStay
  <2> QED
    BY <2>1, <2>3
<1> QED
  BY <1>10, <1>13, <1>14, <1>15 DEF DeclaredInv, DSweepInv

\* An occurrence of a sweep gets its task.
LEMMA DEnqueuesKeep ==
    ASSUME DeclaredInv, NEW t \in Threads, D!Enqueue(t) PROVE DeclaredInv'
<1>1. DTypes /\ DClaimInv /\ DOwedInv /\ DSweepInv
  BY DEF DeclaredInv
<1>2. PICK w \in DSweepType : w = dSweep[t] /\ Informed(w) /\ w.step = "enqueue"
  BY <1>1, DeclaredFacts DEF DSweepInv, D!Enqueue
<1>3. PICK o \in w.now : dTask' = [dTask EXCEPT ![o.of][o.claim] = IF @ = "none" THEN "live" ELSE @]
  BY <1>2 DEF D!Enqueue
<1>4. PICK s \in Declared, n \in D!Claims : s = o.of /\ n = o.claim /\ o.last \in D!Claims \cup {0}
  BY <1>2 DEF DSweepType, D!Occurrences
<1>5. UNCHANGED <<declared, dTargets, dClaims, refused, dFailures>>
  BY DEF D!Enqueue
<1>6. /\ dTask' \in [Declared -> [D!Claims -> {"none", "live", "ended"}]] /\ dTask'[s][n] # "none"
      /\ \A d \in Declared, m \in D!Claims : d # s \/ m # n => dTask'[d][m] = dTask[d][m]
      /\ dTask[s][n] # "none" => dTask'[s][n] = dTask[s][n]
  BY <1>1, <1>3, <1>4 DEF DTypes
<1>7. /\ n <= DIssued(s) /\ n # 0 /\ n \in Nat
      /\ n = declared[s].claim => o.last = declared[s].last
      /\ o.last # 0 => dTask[s][o.last] = "ended"
  BY <1>2, <1>4, DReceipts DEF Informed
<1>8. \A d \in Declared : DIssued(d)' = DIssued(d) /\ DIssued(d) \in Nat
  BY <1>1, <1>5, DeclaredFacts DEF DIssued
<1> DEFINE next == [w EXCEPT !.step = "record"]
<1>9. next \in DSweepType /\ next.todo = w.todo /\ next.now = w.now /\ next.step = "record"
  BY <1>2 DEF DSweepType
<1>10. dSweep' = [dSweep EXCEPT ![t] = next]
  BY <1>2 DEF D!Enqueue
<1> HIDE DEF next
<1>11. dSweep' \in [Threads -> DSweepType] /\ dSweep'[t] = next
       /\ \A v \in Threads \ {t} : dSweep'[v] = dSweep[v]
  BY <1>1, <1>9, <1>10 DEF DTypes
<1>12. DTypes'
  BY <1>1, <1>5, <1>6, <1>11 DEF DTypes
<1>13. DClaimInv'
  <2> SUFFICES ASSUME NEW d \in Declared
               PROVE  /\ declared[d].last <= DIssued(d)
                      /\ declared[d].claim # 0 => /\ declared[d].claim = DIssued(d)
                                                  /\ declared[d].last < declared[d].claim
                      /\ declared[d].last # 0 => dTask'[d][declared[d].last] # "none"
                      /\ \A m \in D!Claims :
                           /\ dTask'[d][m] # "none" => m <= DIssued(d)
                           /\ dTask'[d][m] = "live" =>
                                m \in {declared[d].last, declared[d].claim} \/ <<d, m>> \in refused
                           /\ m <= DIssued(d) /\ m # declared[d].claim =>
                                dTask'[d][m] # "none" \/ <<d, m>> \in refused
                      /\ declared[d].claim # 0 /\ declared[d].last # 0
                         /\ dTask'[d][declared[d].claim] # "none"
                           => dTask'[d][declared[d].last] = "ended"
    BY <1>5, <1>8 DEF DClaimInv
  <2>1. /\ declared[d].last <= DIssued(d)
        /\ declared[d].claim # 0 => /\ declared[d].claim = DIssued(d)
                                    /\ declared[d].last < declared[d].claim
        /\ declared[d].last # 0 => dTask[d][declared[d].last] # "none"
        /\ \A m \in D!Claims :
             /\ dTask[d][m] # "none" => m <= DIssued(d)
             /\ dTask[d][m] = "live" =>
                  m \in {declared[d].last, declared[d].claim} \/ <<d, m>> \in refused
             /\ m <= DIssued(d) /\ m # declared[d].claim =>
                  dTask[d][m] # "none" \/ <<d, m>> \in refused
        /\ declared[d].claim # 0 /\ declared[d].last # 0 /\ dTask[d][declared[d].claim] # "none"
             => dTask[d][declared[d].last] = "ended"
        /\ declared[d].claim \in D!Claims \cup {0} /\ declared[d].last \in D!Claims \cup {0}
    BY <1>1, DeclaredFacts DEF DClaimInv, DType
  <2>2. CASE d # s
    <3>1. \A m \in D!Claims : dTask'[d][m] = dTask[d][m]
      BY <1>6, <2>2
    <3>2. /\ declared[d].last # 0 => dTask'[d][declared[d].last] # "none"
          /\ declared[d].claim # 0 /\ declared[d].last # 0 /\ dTask'[d][declared[d].claim] # "none"
               => dTask'[d][declared[d].last] = "ended"
      BY <2>1, <3>1
    <3>3. \A m \in D!Claims :
             /\ dTask'[d][m] # "none" => m <= DIssued(d)
             /\ dTask'[d][m] = "live" =>
                  m \in {declared[d].last, declared[d].claim} \/ <<d, m>> \in refused
             /\ m <= DIssued(d) /\ m # declared[d].claim =>
                  dTask'[d][m] # "none" \/ <<d, m>> \in refused
      BY <2>1, <3>1
    <3> QED
      BY ONLY <2>1, <3>2, <3>3, Zenon
  <2>3. CASE d = s
    <3>1. \A m \in D!Claims :
             /\ dTask'[s][m] # "none" => m <= DIssued(s)
             /\ dTask'[s][m] = "live" =>
                  m \in {declared[s].last, declared[s].claim} \/ <<s, m>> \in refused
             /\ m <= DIssued(s) /\ m # declared[s].claim =>
                  dTask'[s][m] # "none" \/ <<s, m>> \in refused
      <4>1. \A m \in D!Claims : m # n => dTask'[s][m] = dTask[s][m]
        BY <1>6
      <4>2. dTask'[s][n] = "live" => n \in {declared[s].last, declared[s].claim}
              \/ <<s, n>> \in refused
        BY <1>6, <1>7, <2>1, <2>3
      <4> QED
        BY <1>6, <1>7, <2>1, <2>3, <4>1, <4>2
    <3>2. declared[s].last # 0 => dTask'[s][declared[s].last] # "none"
      BY <1>6, <2>1, <2>3
    <3>3. declared[s].claim # 0 /\ declared[s].last # 0 /\ dTask'[s][declared[s].claim] # "none"
             => dTask'[s][declared[s].last] = "ended"
      BY <1>6, <1>7, <2>1, <2>3
    <3> QED
      BY ONLY <2>1, <2>3, <3>1, <3>2, <3>3, Zenon
  <2> QED
    BY <2>2, <2>3
<1>14. DOwedInv'
  BY <1>1, <1>5 DEF DOwedInv
<1>15. \A d \in Declared, m \in D!Claims :
         /\ dTask[d][m] # "none" => dTask'[d][m] # "none"
         /\ dTask[d][m] = "ended" => dTask'[d][m] = "ended"
  BY <1>6
<1>16. ASSUME NEW v \in Threads PROVE Informed(dSweep[v])'
  <2>1. \A d \in Declared : DIssued(d)' \in Nat /\ DIssued(d) <= DIssued(d)'
    BY <1>8
  <2>2. CASE v # t
    <3>1. PICK x \in DSweepType : x = dSweep'[v] /\ Informed(x)
      BY <1>1, <1>11, <2>2, DeclaredFacts DEF DSweepInv
    <3>2. Informed(x)'
      BY <1>1, <1>5, <1>15, <2>1, <3>1, SweepsStay
    <3> QED
      BY <3>1, <3>2
  <2>3. CASE v = t
    <3>1. Informed(w)'
      BY <1>1, <1>2, <1>5, <1>15, <2>1, SweepsStay
    <3>2. PICK x : x = next
      OBVIOUS
    <3>3. \A p \in w.now : p = o
      BY <1>2 DEF Informed
    <3>4. \A p \in w.now : dTask'[p.of][p.claim] # "none"
      BY <1>4, <1>6, <3>3
    <3>5. \A p \in w.now : p.last # 0 => dTask'[p.of][p.last] = "ended"
      BY <1>2, <3>1 DEF Informed
    <3>6. Informed(x)'
      BY <1>9, <3>1, <3>2, <3>4, <3>5 DEF Informed
    <3> QED
      BY <1>11, <2>3, <3>2, <3>6
  <2> QED
    BY <2>2, <2>3
<1> QED
  BY <1>12, <1>13, <1>14, <1>16 DEF DeclaredInv, DSweepInv

\* A claim is acknowledged: its task is the last one now, or it is refused and the last
\* one stays.
LEMMA AcknowledgesKeep ==
    ASSUME DeclaredInv, NEW t \in Threads, NEW o \in dSweep[t].now, NEW n,
           D!Acknowledge(o, n), D!Continue(t, dSweep[t].todo),
           UNCHANGED <<dTask, dTargets, dClaims>>, dFailures' \in 0..MaxDeclaredFailures,
           \/ n = o.claim /\ dTask[o.of][n] # "none" /\ refused' = refused
           \/ /\ n = declared[o.of].last
              /\ refused' = IF D!Acknowledges(o) THEN refused \cup {<<o.of, o.claim>>} ELSE refused
    PROVE  DeclaredInv'
<1>1. DTypes /\ DClaimInv /\ DOwedInv /\ DSweepInv
  BY DEF DeclaredInv
<1>2. dSweep[t] \in DSweepType /\ Informed(dSweep[t])
  BY <1>1, DeclaredFacts DEF DSweepInv
<1>3. PICK left \in SUBSET D!Occurrences : left = dSweep[t].todo
  BY <1>2 DEF DSweepType
<1>4. /\ dSweep' \in [Threads -> DSweepType]
      /\ dSweep'[t].todo = left /\ dSweep'[t].now = {}
      /\ dSweep'[t].step \in {"rest", "claim", "look"}
      /\ \A v \in Threads \ {t} : dSweep'[v] = dSweep[v]
  BY <1>1, <1>3, DContinueTyped
<1>5. PICK x \in DSweepType : x = dSweep'[t]
  BY <1>4
<1>6. Informed(x)
  BY <1>2, <1>3, <1>4, <1>5 DEF Informed
<1>7. PICK s \in Declared, c \in D!Claims : s = o.of /\ c = o.claim
  BY <1>2 DEF DSweepType, D!Occurrences
<1>8. \A d \in Declared : /\ DIssued(d)' = DIssued(d) /\ DIssued(d) \in Nat
                          /\ DIssued(d)' \in Nat /\ DIssued(d) <= DIssued(d)'
  BY <1>1, DeclaredFacts DEF DIssued
<1>9. CASE ~D!Acknowledges(o)
  <2>1. UNCHANGED <<declared, refused>>
    BY <1>9 DEF D!Acknowledge
  <2>2. dSweep' = [dSweep EXCEPT ![t] = x]
    BY <1>1, <1>4, <1>5 DEF DTypes
  <2> QED
    BY <1>5, <1>6, <2>1, <2>2, DQuietKeeps
<1>10. CASE D!Acknowledges(o)
  <2>1. declared[s].claim = c /\ c # 0 /\ c \in Nat /\ declared[s] \in DType
    BY <1>1, <1>7, <1>10, DReceipts, DeclaredFacts DEF D!Acknowledges
  <2>2. /\ declared[s].last <= DIssued(s) /\ c = DIssued(s) /\ declared[s].last < c
        /\ declared[s].last # 0 => dTask[s][declared[s].last] # "none"
        /\ \A m \in D!Claims :
             /\ dTask[s][m] # "none" => m <= DIssued(s)
             /\ dTask[s][m] = "live" => m \in {declared[s].last, c} \/ <<s, m>> \in refused
             /\ m <= DIssued(s) /\ m # c => dTask[s][m] # "none" \/ <<s, m>> \in refused
        /\ declared[s].last # 0 /\ dTask[s][c] # "none" => dTask[s][declared[s].last] = "ended"
    BY <1>1, <2>1 DEF DClaimInv
  <2>3. \/ n = c /\ dTask[s][c] # "none" /\ refused' = refused
        \/ n = declared[s].last /\ refused' = refused \cup {<<s, c>>}
    BY <1>7, <1>10
  <2>4. /\ n \in D!Claims \cup {0} /\ n \in Nat /\ n <= DIssued(s)
        /\ n # 0 => dTask[s][n] # "none"
    BY <1>1, <1>7, <1>8, <2>1, <2>2, <2>3, DeclaredFacts DEF DType
  <2> DEFINE due == declared[s].due /\ declared[s].kind = "run-now"
             j == [declared[s] EXCEPT !.last = n, !.claim = 0, !.kind = "none", !.runNow = FALSE,
                                      !.due = due]
  <2>5. declared' = [declared EXCEPT ![s] = j]
    BY <1>1, <1>7, <1>10 DEF D!Acknowledge, DTypes
  <2>6. due \in BOOLEAN /\ (due => declared[s].due /\ declared[s].kind = "run-now")
    OBVIOUS
  <2>7. PICK b \in BOOLEAN : b = due
    BY <2>6
  <2>8. /\ j \in DType /\ j.last = n /\ j.claim = 0 /\ j.kind = "none" /\ j.runNow = FALSE
        /\ j.due = b /\ j.history = declared[s].history /\ j.state = declared[s].state
    <3> HIDE DEF due
    <3> QED
      BY <2>1, <2>4, <2>7 DEF DType
  <2> HIDE DEF j, due
  <2>9. /\ declared'[s] = j /\ \A d \in Declared \ {s} : declared'[d] = declared[d]
        /\ declared' \in [Declared -> DType]
        /\ \A d \in Declared : declared'[d].claim = 0 <=> declared'[d].kind = "none"
    BY <1>1, <2>5, <2>8 DEF DTypes
  <2>10. refused' \subseteq Declared \X D!Claims /\ refused \subseteq refused'
    BY <1>1, <2>3 DEF DTypes
  <2>11. DTypes'
    BY <1>1, <1>4, <2>9, <2>10 DEF DTypes
  <2>12. \A m \in D!Claims :
           /\ dTask[s][m] = "live" => m = n \/ <<s, m>> \in refused'
           /\ m <= DIssued(s) => dTask[s][m] # "none" \/ <<s, m>> \in refused'
    <3>1. CASE n = c /\ dTask[s][c] # "none" /\ refused' = refused
      <4>1. \A m \in D!Claims : m # 0
        BY DReceipts
      <4>2. \A m \in D!Claims : m = declared[s].last => dTask[s][m] # "live"
        BY <2>2, <3>1, <4>1
      <4> QED
        BY <2>2, <3>1, <4>2
    <3>2. CASE n = declared[s].last /\ refused' = refused \cup {<<s, c>>}
      BY <2>2, <3>2
    <3> QED
      BY <2>3, <3>1, <3>2
  <2>13. DClaimInv'
    <3>1. ASSUME NEW d \in Declared \ {s}
          PROVE  \A m \in D!Claims : <<d, m>> \in refused' <=> <<d, m>> \in refused
      BY <2>3
    <3> QED
      BY <1>1, <1>8, <2>2, <2>4, <2>8, <2>9, <2>12, <3>1 DEF DClaimInv
  <2>14. DOwedInv'
    <3>1. DOwed(s, declared[s], dTargets[s])
      BY <1>1 DEF DOwedInv, DOwed
    <3>2. DOwed(s, j, dTargets[s])
      BY <2>6, <2>7, <2>8, <3>1 DEF DOwed
    <3> QED
      BY <1>1, <2>9, <3>2 DEF DOwedInv, DOwed
  <2>15. \A d \in Declared, m \in D!Claims :
           /\ m <= DIssued(d) /\ declared'[d].claim = m =>
                declared[d].claim = m /\ declared'[d].last = declared[d].last
           /\ dTask[d][m] # "none" => dTask'[d][m] # "none"
           /\ dTask[d][m] = "ended" => dTask'[d][m] = "ended"
    BY <2>8, <2>9, DReceipts
  <2>16. ASSUME NEW v \in Threads PROVE Informed(dSweep[v])'
    <3>1. PICK y \in DSweepType : y = dSweep'[v] /\ Informed(y)
      BY <1>1, <1>4, <1>5, <1>6, DeclaredFacts DEF DSweepInv
    <3>2. Informed(y)'
      BY <1>1, <1>8, <2>15, <3>1, SweepsStay
    <3> QED
      BY <3>1, <3>2
  <2> QED
    BY <2>11, <2>13, <2>14, <2>16 DEF DeclaredInv, DSweepInv
<1> QED
  BY <1>9, <1>10

\* claim_due_extension_schedules: there are numbers for the new claims, for each is owed.
LEMMA DClaimsKeep ==
    ASSUME DeclaredInv, NEW t \in Threads, D!Claim(t) PROVE DeclaredInv'
<1> USE DReceipts
<1>1. DTypes /\ DClaimInv /\ DOwedInv /\ DSweepInv
  BY DEF DeclaredInv
<1>2. UNCHANGED <<dTask, dTargets, refused, dFailures>>
  BY DEF D!Claim
<1>3. ASSUME NEW s \in Declared
      PROVE  /\ declared[s] \in DType /\ dTargets[s] \in Nat /\ dTargets[s] <= MaxDeclaredTargets
             /\ dClaims[s] \in [{"scheduled", "run-now"} -> Nat]
             /\ dClaims[s]["scheduled"] \in Nat /\ dClaims[s]["run-now"] \in Nat
             /\ Cardinality(declared[s].history) \in Nat
             /\ Cardinality(declared[s].history) <= Cardinality(DeclaredKeys)
             /\ DIssued(s) \in Nat
             /\ declared[s].claim \in D!Claims \cup {0} /\ declared[s].last \in D!Claims \cup {0}
             /\ declared[s].claim = 0 <=> declared[s].kind = "none"
  <2>1. declared[s] \in DType /\ dTargets[s] \in 0..MaxDeclaredTargets /\ DIssued(s) \in Nat
    BY <1>1, DeclaredFacts
  <2>2. declared[s].history \in SUBSET DeclaredKeys
    BY <2>1 DEF DType
  <2> QED
    BY <1>1, <2>1, <2>2 DEF DTypes, DType
<1>4. ASSUME NEW s \in Declared, ~D!Claimable(s)
      PROVE  declared'[s] = declared[s] /\ dClaims'[s] = dClaims[s] /\ DIssued(s)' = DIssued(s)
  BY <1>4 DEF D!Claim, DIssued
<1>5. ASSUME NEW s \in Declared, D!Claimable(s)
      PROVE  /\ declared'[s] \in DType /\ declared'[s].claim = DIssued(s) + 1
             /\ declared'[s].kind = D!ClaimKind(s)
             /\ declared'[s].claim \in D!Claims /\ declared[s].claim = 0 /\ declared'[s].claim # 0
             /\ declared'[s].last = declared[s].last /\ declared'[s].history = declared[s].history
             /\ declared'[s].due = declared[s].due /\ declared'[s].runNow = declared[s].runNow
             /\ DIssued(s)' = DIssued(s) + 1
             /\ dClaims'[s] \in [{"scheduled", "run-now"} -> Nat]
             /\ D!ClaimKind(s) = "scheduled" =>
                  /\ dClaims'[s]["scheduled"] = dClaims[s]["scheduled"] + 1
                  /\ dClaims'[s]["run-now"] = dClaims[s]["run-now"]
             /\ D!ClaimKind(s) = "run-now" =>
                  /\ dClaims'[s]["run-now"] = dClaims[s]["run-now"] + 1
                  /\ dClaims'[s]["scheduled"] = dClaims[s]["scheduled"]
  <2>1. declared[s] \in DType /\ declared[s].claim = 0 /\ declared[s].kind = "none"
    BY <1>3, <1>5 DEF D!Claimable
  <2>2. /\ declared'[s] = [declared[s] EXCEPT !.claim = D!NextClaim(s), !.kind = D!ClaimKind(s)]
        /\ dClaims'[s] = [dClaims[s] EXCEPT ![D!ClaimKind(s)] = @ + 1]
    BY <1>5 DEF D!Claim
  <2>3. D!NextClaim(s) = DIssued(s) + 1 /\ DIssued(s) \in Nat /\ D!NextClaim(s) # 0
    BY <1>3 DEF D!NextClaim, DIssued
  <2>4. D!NextClaim(s) \in D!Claims
    <3>1. /\ dClaims[s]["scheduled"] <= dTargets[s]
          /\ dClaims[s]["run-now"] <= Cardinality(declared[s].history)
          /\ \/ dClaims[s]["scheduled"] < dTargets[s]
             \/ dClaims[s]["run-now"] < Cardinality(declared[s].history)
      BY <1>1, <1>5, <2>1 DEF DOwedInv, D!Claimable
    <3> QED
      BY <1>3, <3>1, SMTT(30) DEF D!NextClaim
  <2>5. D!ClaimKind(s) \in {"scheduled", "run-now"}
    BY DEF D!ClaimKind
  <2>6. dClaims[s] \in [{"scheduled", "run-now"} -> Nat]
    BY <1>3
  <2>7. /\ dClaims'[s] \in [{"scheduled", "run-now"} -> Nat]
        /\ D!ClaimKind(s) = "scheduled" =>
             /\ dClaims'[s]["scheduled"] = dClaims[s]["scheduled"] + 1
             /\ dClaims'[s]["run-now"] = dClaims[s]["run-now"]
        /\ D!ClaimKind(s) = "run-now" =>
             /\ dClaims'[s]["run-now"] = dClaims[s]["run-now"] + 1
             /\ dClaims'[s]["scheduled"] = dClaims[s]["scheduled"]
    BY ONLY <2>2, <2>5, <2>6
  <2>8. DIssued(s)' = DIssued(s) + 1
    <3>1. dClaims[s]["scheduled"] \in Nat /\ dClaims[s]["run-now"] \in Nat
      BY <1>3
    <3>2. dClaims'[s]["scheduled"] + dClaims'[s]["run-now"]
            = dClaims[s]["scheduled"] + dClaims[s]["run-now"] + 1
      BY ONLY <2>5, <2>7, <3>1
    <3> QED
      BY ONLY <3>2 DEF DIssued
  <2>9. /\ declared'[s] \in DType /\ declared'[s].claim = D!NextClaim(s)
        /\ declared'[s].kind = D!ClaimKind(s)
        /\ declared'[s].last = declared[s].last /\ declared'[s].history = declared[s].history
        /\ declared'[s].due = declared[s].due /\ declared'[s].runNow = declared[s].runNow
    BY <2>1, <2>2, <2>4, <2>5 DEF DType
  <2> QED
    BY <2>1, <2>3, <2>4, <2>7, <2>8, <2>9
<1>6. /\ declared' \in [Declared -> DType]
      /\ dClaims' \in [Declared -> [{"scheduled", "run-now"} -> Nat]]
      /\ \A s \in Declared : declared'[s].claim = 0 <=> declared'[s].kind = "none"
  <2>1. \A s \in Declared :
          declared'[s] \in DType /\ dClaims'[s] \in [{"scheduled", "run-now"} -> Nat]
    BY <1>3, <1>4, <1>5
  <2>2. /\ declared' = [s \in Declared |-> declared'[s]]
        /\ dClaims' = [s \in Declared |-> dClaims'[s]]
    BY DEF D!Claim
  <2>3. \A s \in Declared : declared'[s].claim = 0 <=> declared'[s].kind = "none"
    BY <1>3, <1>4, <1>5 DEF D!ClaimKind
  <2> QED
    BY <2>1, <2>2, <2>3
<1>7. /\ \A s \in Declared : /\ DIssued(s)' \in Nat /\ DIssued(s) <= DIssued(s)'
                             /\ declared'[s].last = declared[s].last
                             /\ declared'[s].claim # 0 => /\ declared'[s].claim = DIssued(s)'
                                                          /\ declared'[s].claim \in D!Claims
  BY <1>1, <1>3, <1>4, <1>5 DEF DClaimInv
<1> DEFINE new == {s \in Declared : D!Claimable(s)}
           old == {s \in Declared : D!Active(s) /\ declared[s].claim # 0}
           left == {[of |-> s, claim |-> declared'[s].claim, last |-> declared[s].last] :
                       s \in new \cup old}
<1>8. \A s \in new \cup old : s \in Declared /\ declared'[s].claim # 0
  BY <1>4, <1>5 DEF D!Claimable
<1>9. PICK l \in SUBSET D!Occurrences : l = left
  <2>1. \A s \in new \cup old :
          [of |-> s, claim |-> declared'[s].claim, last |-> declared[s].last] \in D!Occurrences
    <3> HIDE DEF new, old
    <3> QED
      BY <1>3, <1>7, <1>8 DEF D!Occurrences
  <2> QED
    BY <2>1
<1>10. \A o \in l : /\ o.of \in Declared /\ o.claim = declared'[o.of].claim
                    /\ o.last = declared'[o.of].last /\ o.claim # 0
  <2> HIDE DEF new, old
  <2> QED
    BY <1>7, <1>8, <1>9
<1>11. D!Continue(t, l)
  BY <1>9 DEF D!Claim
<1> HIDE DEF new, old, left
<1>12. /\ dSweep' \in [Threads -> DSweepType]
       /\ dSweep'[t].todo = l /\ dSweep'[t].now = {}
       /\ dSweep'[t].step \in {"rest", "claim", "look"}
       /\ \A v \in Threads \ {t} : dSweep'[v] = dSweep[v]
  BY <1>1, <1>11, DContinueTyped
<1>13. DTypes'
  BY <1>1, <1>2, <1>6, <1>12 DEF DTypes
<1>14. DClaimInv'
  <2> SUFFICES ASSUME NEW s \in Declared
               PROVE  /\ declared'[s].last <= DIssued(s)'
                      /\ declared'[s].claim # 0 => /\ declared'[s].claim = DIssued(s)'
                                                   /\ declared'[s].last < declared'[s].claim
                      /\ declared'[s].last # 0 => dTask'[s][declared'[s].last] # "none"
                      /\ \A n \in D!Claims :
                           /\ dTask'[s][n] # "none" => n <= DIssued(s)'
                           /\ dTask'[s][n] = "live" =>
                                n \in {declared'[s].last, declared'[s].claim}
                                  \/ <<s, n>> \in refused'
                           /\ n <= DIssued(s)' /\ n # declared'[s].claim =>
                                dTask'[s][n] # "none" \/ <<s, n>> \in refused'
                      /\ declared'[s].claim # 0 /\ declared'[s].last # 0
                         /\ dTask'[s][declared'[s].claim] # "none"
                           => dTask'[s][declared'[s].last] = "ended"
    BY DEF DClaimInv
  <2>1. /\ declared[s].last <= DIssued(s)
        /\ declared[s].last # 0 => dTask[s][declared[s].last] # "none"
        /\ \A n \in D!Claims :
             /\ dTask[s][n] # "none" => n <= DIssued(s)
             /\ dTask[s][n] = "live" =>
                  n \in {declared[s].last, declared[s].claim} \/ <<s, n>> \in refused
             /\ n <= DIssued(s) /\ n # declared[s].claim =>
                  dTask[s][n] # "none" \/ <<s, n>> \in refused
    BY <1>1 DEF DClaimInv
  <2>2. CASE ~D!Claimable(s)
    BY <1>1, <1>2, <1>4, <2>2 DEF DClaimInv
  <2>3. CASE D!Claimable(s)
    <3>1. /\ declared'[s].claim = DIssued(s) + 1 /\ DIssued(s)' = DIssued(s) + 1
          /\ declared[s].claim = 0 /\ declared'[s].last = declared[s].last
          /\ declared'[s].claim \in D!Claims /\ DIssued(s) \in Nat /\ declared[s].last \in Nat
      BY <1>3, <1>5, <2>3
    <3>3. \A n \in D!Claims : n # 0 /\ n \in Nat
      OBVIOUS
    <3>2. dTask[s][declared'[s].claim] = "none"
      <4>1. PICK n \in D!Claims : n = declared'[s].claim
        BY <3>1
      <4>2. ~(n <= DIssued(s))
        BY ONLY <3>1, <3>3, <4>1
      <4> QED
        BY <2>1, <4>1, <4>2
    <3>4. \A n \in D!Claims :
             /\ dTask[s][n] # "none" => n <= DIssued(s) + 1
             /\ dTask[s][n] = "live" =>
                  n \in {declared[s].last, declared'[s].claim} \/ <<s, n>> \in refused
             /\ n <= DIssued(s) + 1 /\ n # declared'[s].claim =>
                  dTask[s][n] # "none" \/ <<s, n>> \in refused
      BY <2>1, <3>1, <3>3
    <3>5. declared'[s].last <= DIssued(s)' /\ declared'[s].last < declared'[s].claim
      BY <2>1, <3>1
    <3> QED
      BY <1>2, <2>1, <3>1, <3>2, <3>4, <3>5
  <2> QED
    BY <2>2, <2>3
<1>15. DOwedInv'
  <2> SUFFICES ASSUME NEW s \in Declared
               PROVE  /\ dClaims'[s]["scheduled"] <= dTargets'[s]
                      /\ dClaims'[s]["run-now"] <= Cardinality(declared'[s].history)
                      /\ declared'[s].due /\ declared'[s].kind # "scheduled" =>
                           dClaims'[s]["scheduled"] < dTargets'[s]
                      /\ declared'[s].runNow /\ declared'[s].kind # "run-now" =>
                           dClaims'[s]["run-now"] < Cardinality(declared'[s].history)
    BY DEF DOwedInv
  <2>1. /\ dClaims[s]["scheduled"] <= dTargets[s]
        /\ dClaims[s]["run-now"] <= Cardinality(declared[s].history)
        /\ declared[s].due /\ declared[s].kind # "scheduled" =>
             dClaims[s]["scheduled"] < dTargets[s]
        /\ declared[s].runNow /\ declared[s].kind # "run-now" =>
             dClaims[s]["run-now"] < Cardinality(declared[s].history)
    BY <1>1 DEF DOwedInv
  <2>2. CASE ~D!Claimable(s)
    BY <1>2, <1>4, <2>1, <2>2
  <2>3. CASE D!Claimable(s)
    <3>1. declared[s].kind = "none" /\ (declared[s].due \/ declared[s].runNow)
      BY <1>3, <2>3 DEF D!Claimable
    <3>2. /\ declared'[s].kind = D!ClaimKind(s) /\ declared'[s].history = declared[s].history
          /\ declared'[s].due = declared[s].due /\ declared'[s].runNow = declared[s].runNow
          /\ dTargets'[s] = dTargets[s]
      BY <1>2, <1>5, <2>3
    <3>3. /\ dClaims[s]["scheduled"] \in Nat /\ dClaims[s]["run-now"] \in Nat /\ dTargets[s] \in Nat
          /\ Cardinality(declared[s].history) \in Nat
      BY <1>3
    <3>4. CASE declared[s].due
      <4>1. D!ClaimKind(s) = "scheduled" /\ dClaims[s]["scheduled"] < dTargets[s]
        BY <2>1, <3>1, <3>4 DEF D!ClaimKind
      <4>2. /\ dClaims'[s]["scheduled"] = dClaims[s]["scheduled"] + 1
            /\ dClaims'[s]["run-now"] = dClaims[s]["run-now"]
        BY <1>5, <2>3, <4>1
      <4>3. dClaims'[s]["scheduled"] <= dTargets[s]
        BY ONLY <3>3, <4>1, <4>2
      <4> QED
        BY <2>1, <3>1, <3>2, <4>1, <4>2, <4>3
    <3>5. CASE ~declared[s].due
      <4>1. /\ D!ClaimKind(s) = "run-now"
            /\ dClaims[s]["run-now"] < Cardinality(declared[s].history)
        BY <2>1, <3>1, <3>5 DEF D!ClaimKind
      <4>2. /\ dClaims'[s]["run-now"] = dClaims[s]["run-now"] + 1
            /\ dClaims'[s]["scheduled"] = dClaims[s]["scheduled"]
        BY <1>5, <2>3, <4>1
      <4>3. dClaims'[s]["run-now"] <= Cardinality(declared[s].history)
        BY ONLY <3>3, <4>1, <4>2
      <4> QED
        BY <2>1, <3>2, <3>5, <4>1, <4>2, <4>3
    <3> QED
      BY <3>4, <3>5
  <2> QED
    BY <2>2, <2>3
<1>16. ASSUME NEW v \in Threads PROVE Informed(dSweep[v])'
  <2>1. CASE v # t
    <3>1. PICK y \in DSweepType : y = dSweep'[v] /\ Informed(y)
      BY <1>1, <1>12, <2>1, DeclaredFacts DEF DSweepInv
    <3>2. \A d \in Declared, m \in D!Claims :
             /\ m <= DIssued(d) /\ declared'[d].claim = m =>
                  declared[d].claim = m /\ declared'[d].last = declared[d].last
             /\ dTask[d][m] # "none" => dTask'[d][m] # "none"
             /\ dTask[d][m] = "ended" => dTask'[d][m] = "ended"
      <4>1. ASSUME NEW d \in Declared, NEW m \in D!Claims, m <= DIssued(d), declared'[d].claim = m
            PROVE  declared[d].claim = m /\ declared'[d].last = declared[d].last
        <5>1. ~D!Claimable(d)
          BY <1>3, <1>5, <4>1
        <5> QED
          BY <1>4, <4>1, <5>1
      <4> QED
        BY <1>2, <4>1
    <3>3. Informed(y)'
      BY <1>1, <1>7, <3>1, <3>2, SweepsStay
    <3> QED
      BY <3>1, <3>3
  <2>2. CASE v = t
    <3>1. PICK y : y = dSweep'[t]
      OBVIOUS
    <3>2. \A o \in l : /\ o.claim <= DIssued(o.of)' /\ o.last = declared'[o.of].last
                       /\ o.last # 0 => dTask'[o.of][o.last] # "none"
      <4>1. \A s \in Declared : declared[s].last # 0 => dTask[s][declared[s].last] # "none"
        BY <1>1 DEF DClaimInv
      <4> QED
        BY <1>2, <1>7, <1>10, <4>1
    <3>3. Informed(y)'
      BY <1>12, <3>1, <3>2 DEF Informed
    <3> QED
      BY <2>2, <3>1, <3>3
  <2> QED
    BY <2>1, <2>2
<1> QED
  BY <1>13, <1>14, <1>15, <1>16 DEF DeclaredInv, DSweepInv

\* A declaration changes the state of a schedule, and may drop what is due or requested.
LEMMA Reconciles ==
    ASSUME NEW i \in DType, NEW change \in D!Changes
    PROVE  LET r == D!Reconciled(i, change) IN
           /\ r \in DType /\ r.claim = i.claim /\ r.kind = i.kind /\ r.last = i.last
           /\ r.history = i.history /\ (r.due => i.due) /\ (r.runNow => i.runNow)
<1>2. PICK r : r = D!Reconciled(i, change)
  OBVIOUS
<1>3. \E s \in {"absent", "active", "paused", "disabled"}, b, c \in BOOLEAN :
        (b => i.due) /\ (c => i.runNow) /\ r = [i EXCEPT !.state = s, !.due = b, !.runNow = c]
  <2>1. /\ i.state \in {"absent", "active", "paused", "disabled"}
        /\ i.due \in BOOLEAN /\ i.runNow \in BOOLEAN
        /\ i = [i EXCEPT !.state = i.state, !.due = i.due, !.runNow = i.runNow]
    BY DEF DType
  <2>2. PICK claimed \in BOOLEAN : claimed = (i.runNow /\ i.claim # 0)
    OBVIOUS
  <2>3. PICK scheduled \in BOOLEAN : scheduled = (i.due /\ i.kind = "scheduled")
    OBVIOUS
  <2>4. \/ r = i
        \/ r = [i EXCEPT !.state = "disabled", !.due = i.due, !.runNow = claimed]
        \/ r = [i EXCEPT !.state = "active", !.due = i.due, !.runNow = i.runNow]
        \/ r = [i EXCEPT !.state = IF i.state = "disabled" THEN "active" ELSE i.state,
                         !.due = scheduled, !.runNow = claimed]
        \/ r = [i EXCEPT !.state = i.state, !.due = i.due, !.runNow = claimed]
    <3>1. change \in {"gone", "same", "edited", "moved"}
      BY DEF D!Changes
    <3>2. CASE change = "gone"
      <4>1. r = IF i.state \in {"absent", "disabled"} THEN i
                ELSE [i EXCEPT !.state = "disabled", !.runNow = i.runNow /\ i.claim # 0]
        BY <1>2, <3>2 DEF D!Reconciled, DType
      <4>2. [i EXCEPT !.state = "disabled", !.runNow = claimed]
              = [i EXCEPT !.state = "disabled", !.due = i.due, !.runNow = claimed]
        BY DEF DType
      <4> QED
        BY <2>2, <4>1, <4>2
    <3>3. CASE change # "gone" /\ i.state = "absent"
      <4>1. r = [i EXCEPT !.state = "active"]
        BY <1>2, <3>1, <3>3 DEF D!Reconciled
      <4> QED
        BY <4>1 DEF DType
    <3>4. CASE /\ i.state # "absent"
               /\ change = "moved" \/ (change # "gone" /\ i.state = "disabled")
      <4>1. r = [i EXCEPT !.state = IF i.state = "disabled" THEN "active" ELSE i.state,
                          !.due = i.due /\ i.kind = "scheduled",
                          !.runNow = i.runNow /\ i.claim # 0]
        BY <1>2, <3>1, <3>4 DEF D!Reconciled, DType
      <4> QED
        BY <2>2, <2>3, <4>1
    <3>5. CASE change = "edited" /\ i.state \notin {"absent", "disabled"}
      <4>1. r = [i EXCEPT !.runNow = i.runNow /\ i.claim # 0]
        BY <1>2, <3>5 DEF D!Reconciled, DType
      <4> QED
        BY <2>2, <4>1 DEF DType
    <3>6. CASE change = "same" /\ i.state \notin {"absent", "disabled"}
      BY <1>2, <3>6 DEF D!Reconciled
    <3> QED
      BY <3>1, <3>2, <3>3, <3>4, <3>5, <3>6
  <2> QED
    BY <2>1, <2>2, <2>3, <2>4
<1>4. PICK s \in {"absent", "active", "paused", "disabled"}, b \in BOOLEAN, c \in BOOLEAN :
         (b => i.due) /\ (c => i.runNow) /\ r = [i EXCEPT !.state = s, !.due = b, !.runNow = c]
  BY <1>3
<1>5. /\ r \in DType /\ r.claim = i.claim /\ r.kind = i.kind /\ r.last = i.last
      /\ r.history = i.history /\ (r.due => i.due) /\ (r.runNow => i.runNow)
  BY <1>4 DEF DType
<1> QED
  BY <1>2, <1>5

\* The start of a daemon.
LEMMA StartsKeep ==
    ASSUME DeclaredInv, NEW change \in [Declared -> D!Changes], D!StartDaemon(change)
    PROVE  DeclaredInv'
<1>1. DTypes /\ DOwedInv
  BY DEF DeclaredInv
<1>2. dFailures' \in 0..MaxDeclaredFailures
  BY <1>1, DReceipts DEF D!StartDaemon, DTypes
<1>3. \A s \in Declared :
        /\ declared'[s] \in DType /\ declared'[s].claim = declared[s].claim
        /\ declared'[s].kind = declared[s].kind /\ declared'[s].last = declared[s].last
        /\ declared'[s].history = declared[s].history
        /\ (declared'[s].due => declared[s].due) /\ (declared'[s].runNow => declared[s].runNow)
  <2> TAKE s \in Declared
  <2>1. declared[s] \in DType /\ change[s] \in D!Changes
    BY <1>1, DeclaredFacts
  <2>2. declared'[s] = D!Reconciled(declared[s], change[s])
    BY DEF D!StartDaemon
  <2> QED
    BY <2>1, <2>2, Reconciles
<1>4. declared' = [s \in Declared |-> declared'[s]]
  BY DEF D!StartDaemon
<1>5. \A t \in Threads : dSweep'[t].todo = {} /\ dSweep'[t].now = {}
  BY SameThreads DEF D!StartDaemon, D!AtRest
<1>6. dSweep' \in [Threads -> DSweepType]
  BY SameThreads DEF D!StartDaemon, D!AtRest, D!Rest, DSweepType
<1>7. /\ UNCHANGED <<dTask, dTargets, dClaims, refused>>
      /\ dTargets' \in [Declared -> 0..MaxDeclaredTargets]
  BY <1>1 DEF D!StartDaemon, DTypes
<1>8. \A s \in Declared : DOwed(s, declared'[s], dTargets'[s])
  BY <1>1, <1>3, <1>7 DEF DOwedInv, DOwed
<1> QED
  BY <1>2, <1>3, <1>4, <1>5, <1>6, <1>7, <1>8, DChangesKeep

\* One schedule changes.
LEMMA OneChanges ==
    ASSUME DeclaredInv, NEW s \in Declared, NEW j \in DType, NEW count \in 0..MaxDeclaredTargets,
           declared' = [declared EXCEPT ![s] = j], dTargets' = [dTargets EXCEPT ![s] = count],
           UNCHANGED <<dTask, dSweep, dClaims, refused, dFailures>>,
           j.claim = declared[s].claim, j.kind = declared[s].kind, j.last = declared[s].last,
           DOwed(s, j, count)
    PROVE  DeclaredInv'
<1>1. DTypes /\ DOwedInv
  BY DEF DeclaredInv
<1>2. /\ declared'[s] = j /\ \A d \in Declared \ {s} : declared'[d] = declared[d]
      /\ dTargets'[s] = count /\ \A d \in Declared \ {s} : dTargets'[d] = dTargets[d]
      /\ declared' \in [Declared -> DType] /\ dTargets' \in [Declared -> 0..MaxDeclaredTargets]
      /\ dFailures' \in 0..MaxDeclaredFailures /\ dSweep' \in [Threads -> DSweepType]
  BY <1>1 DEF DTypes
<1>3. \A d \in Declared : DOwed(d, declared[d], dTargets[d])
  BY <1>1 DEF DOwedInv, DOwed
<1>4. \A d \in Declared :
        /\ declared'[d].claim = declared[d].claim /\ declared'[d].kind = declared[d].kind
        /\ declared'[d].last = declared[d].last /\ DOwed(d, declared'[d], dTargets'[d])
  BY <1>2, <1>3
<1> QED
  BY <1>2, <1>4, DChangesKeep

\* What an extension does with a schedule, and a target time that comes.
LEMMA ExtensionsKeep ==
    ASSUME DeclaredInv, NEW s \in Declared, D!Extension(s) \/ D!Target(s)
    PROVE  DeclaredInv'
<1> USE DReceipts
<1>1. DTypes /\ DOwedInv
  BY DEF DeclaredInv
<1>2. /\ declared[s] \in DType /\ dTargets[s] \in 0..MaxDeclaredTargets
      /\ dTargets = [dTargets EXCEPT ![s] = dTargets[s]] /\ declared \in [Declared -> DType]
      /\ dTargets \in [Declared -> 0..MaxDeclaredTargets]
      /\ dClaims[s]["scheduled"] \in Nat /\ dClaims[s]["run-now"] \in Nat
      /\ DOwed(s, declared[s], dTargets[s])
  BY <1>1, DeclaredFacts DEF DTypes, DOwedInv, DOwed
<1>3. ASSUME NEW a \in {"active", "paused"}, NEW r \in BOOLEAN,
             declared' = [declared EXCEPT ![s].state = a, ![s].runNow = r],
             UNCHANGED <<dTask, dSweep, dTargets, dClaims, refused, dFailures>>,
             r => declared[s].runNow
      PROVE  DeclaredInv'
  <2> DEFINE j == [declared[s] EXCEPT !.state = a, !.runNow = r]
  <2>1. /\ j \in DType /\ j.runNow = r /\ j.due = declared[s].due
        /\ j.history = declared[s].history /\ j.claim = declared[s].claim
        /\ j.kind = declared[s].kind /\ j.last = declared[s].last
    BY <1>2 DEF DType
  <2>2. declared' = [declared EXCEPT ![s] = j]
    BY <1>2, <1>3
  <2> HIDE DEF j
  <2>3. DOwed(s, j, dTargets[s])
    BY <1>2, <1>3, <2>1 DEF DOwed
  <2> QED
    BY <1>2, <1>3, <2>1, <2>2, <2>3, OneChanges
<1>4. CASE D!Pause(s)
  <2>1. PICK r \in BOOLEAN : r = (declared[s].runNow /\ declared[s].claim # 0)
    OBVIOUS
  <2>2. /\ declared' = [declared EXCEPT ![s].state = "paused", ![s].runNow = r]
        /\ UNCHANGED <<dTask, dSweep, dTargets, dClaims, refused, dFailures>>
    BY <1>2, <1>4, <2>1 DEF D!Pause
  <2> QED
    BY <1>3, <2>1, <2>2
<1>5. CASE D!Resume(s)
  <2>1. declared[s].runNow \in BOOLEAN
    BY <1>2 DEF DType
  <2>2. /\ declared' = [declared EXCEPT ![s].state = "active", ![s].runNow = declared[s].runNow]
        /\ UNCHANGED <<dTask, dSweep, dTargets, dClaims, refused, dFailures>>
    BY <1>2, <1>5, <2>1 DEF D!Resume, DType
  <2> QED
    BY <1>3, <2>1, <2>2
<1>6. ASSUME NEW k \in DeclaredKeys, D!RunNow(s, k) PROVE DeclaredInv'
  <2>1. PICK wanted \in BOOLEAN : wanted = (declared[s].runNow \/ declared[s].claim = 0)
    OBVIOUS
  <2> DEFINE j == [declared[s] EXCEPT !.history = @ \cup {k}, !.runNow = wanted]
  <2>2. /\ j \in DType /\ j.runNow = wanted /\ j.due = declared[s].due
        /\ j.history = declared[s].history \cup {k} /\ j.claim = declared[s].claim
        /\ j.kind = declared[s].kind /\ j.last = declared[s].last
        /\ declared[s].history \in SUBSET DeclaredKeys
    BY <1>2, <2>1 DEF DType
  <2>3. /\ declared' = [declared EXCEPT ![s] = j]
        /\ UNCHANGED <<dTask, dSweep, dTargets, dClaims, refused, dFailures>>
    BY <1>2, <1>6, <2>1 DEF D!RunNow
  <2> HIDE DEF j
  <2>4. Cardinality(j.history) = Cardinality(declared[s].history) + 1
    BY <1>6, <2>2 DEF D!RunNow
  <2>5. /\ dClaims[s]["run-now"] <= Cardinality(j.history)
        /\ dClaims[s]["run-now"] < Cardinality(j.history)
    <3>1. /\ dClaims[s]["run-now"] \in Nat
          /\ dClaims[s]["run-now"] <= Cardinality(declared[s].history)
          /\ Cardinality(declared[s].history) \in Nat
      BY <1>2, <2>2 DEF DOwed
    <3> QED
      BY ONLY <2>4, <3>1
  <2>6. DOwed(s, j, dTargets[s])
    BY <1>2, <2>2, <2>5 DEF DOwed
  <2> QED
    BY <1>2, <2>2, <2>3, <2>6, OneChanges
<1>7. CASE D!Target(s)
  <2> DEFINE j == [declared[s] EXCEPT !.due = TRUE]
             count == dTargets[s] + 1
  <2>1. /\ j \in DType /\ j.runNow = declared[s].runNow /\ j.due
        /\ j.history = declared[s].history /\ j.claim = declared[s].claim
        /\ j.kind = declared[s].kind /\ j.last = declared[s].last
    BY <1>2 DEF DType
  <2>2. /\ declared' = [declared EXCEPT ![s] = j]
        /\ UNCHANGED <<dTask, dSweep, dClaims, refused, dFailures>>
    BY <1>2, <1>7 DEF D!Target
  <2> HIDE DEF j
  <2>3. /\ count \in 0..MaxDeclaredTargets /\ dTargets' = [dTargets EXCEPT ![s] = count]
        /\ dTargets[s] \in Nat
    BY <1>2, <1>7 DEF D!Target
  <2>4. dClaims[s]["scheduled"] < count /\ dClaims[s]["scheduled"] <= count
    BY <1>2, <2>3 DEF DOwed
  <2> HIDE DEF count
  <2>5. DOwed(s, j, count)
    BY <1>2, <2>1, <2>4 DEF DOwed
  <2> QED
    BY <2>1, <2>2, <2>3, <2>5, OneChanges
<1> QED
  BY <1>4, <1>5, <1>6, <1>7 DEF D!Extension

\* Every step of the schedules of extensions.
LEMMA DeclaredKeeps == DeclaredInv /\ [D!Next]_(D!vars) => DeclaredInv'
<1> SUFFICES ASSUME DeclaredInv, [D!Next]_(D!vars) PROVE DeclaredInv'
  OBVIOUS
<1> USE DReceipts
<1>1. DTypes /\ DSweepInv
  BY DEF DeclaredInv
<1>2. ASSUME NEW t \in Threads, D!Look(t) PROVE DeclaredInv'
  <2>1. PICK w \in DSweepType : w = dSweep[t] /\ Informed(w) /\ w.step = "look"
    BY <1>1, <1>2, DeclaredFacts DEF DSweepInv, D!Look
  <2>2. PICK o \in w.todo :
          IF D!Outstanding(o)
          THEN D!Continue(t, w.todo \ {o})
          ELSE dSweep' = [dSweep EXCEPT ![t].step = "enqueue", ![t].todo = @ \ {o}, ![t].now = {o}]
    BY <1>2, <2>1 DEF D!Look
  <2>3. UNCHANGED <<declared, dTask, dTargets, dClaims, refused>>
        /\ dFailures' \in 0..MaxDeclaredFailures
    BY <1>1, <1>2 DEF D!Look, DTypes
  <2>4. PICK left \in SUBSET D!Occurrences : left = w.todo \ {o} /\ o \in D!Occurrences
    BY <2>1 DEF DSweepType
  <2>5. CASE D!Outstanding(o)
    <3>1. /\ dSweep' \in [Threads -> DSweepType]
          /\ dSweep'[t].todo = left /\ dSweep'[t].now = {}
          /\ dSweep'[t].step \in {"rest", "claim", "look"}
          /\ \A v \in Threads \ {t} : dSweep'[v] = dSweep[v]
      BY <1>1, <2>2, <2>4, <2>5, DContinueTyped
    <3>2. PICK next \in DSweepType : next = dSweep'[t]
      BY <3>1
    <3>3. Informed(next)
      BY <2>1, <2>4, <3>1, <3>2 DEF Informed
    <3>4. dSweep' = [dSweep EXCEPT ![t] = next]
      BY <1>1, <3>1, <3>2 DEF DTypes
    <3> QED
      BY <2>3, <3>2, <3>3, <3>4, DQuietKeeps
  <2>6. CASE ~D!Outstanding(o)
    <3> DEFINE next == [w EXCEPT !.step = "enqueue", !.todo = left, !.now = {o}]
    <3>1. next \in DSweepType /\ next.step = "enqueue" /\ next.todo = left /\ next.now = {o}
      BY <2>1, <2>4 DEF DSweepType
    <3>2. dSweep' = [dSweep EXCEPT ![t] = next]
      BY <1>1, <2>1, <2>2, <2>4, <2>6 DEF DTypes
    <3> HIDE DEF next
    <3>3. o.last # 0 => dTask[o.of][o.last] = "ended"
      <4>1. o.of \in Declared /\ o.last \in D!Claims \cup {0}
        BY <2>4 DEF D!Occurrences
      <4>2. o.last # 0 => dTask[o.of][o.last] \in {"none", "live", "ended"}
        BY <1>1, <4>1 DEF DTypes
      <4> QED
        BY <2>1, <2>6, <4>2 DEF Informed, D!Outstanding
    <3>4. Informed(next)
      BY <2>1, <2>4, <3>1, <3>3 DEF Informed
    <3> QED
      BY <2>3, <3>1, <3>2, <3>4, DQuietKeeps
  <2> QED
    BY <2>5, <2>6
<1>3. ASSUME NEW t \in Threads, D!Refuse(t) PROVE DeclaredInv'
  <2>1. dFailures' \in 0..MaxDeclaredFailures
    BY <1>1, <1>3 DEF D!Refuse, DTypes
  <2> QED
    BY <1>3, <2>1, AcknowledgesKeep DEF D!Refuse
<1>4. ASSUME NEW t \in Threads, D!Record(t) PROVE DeclaredInv'
  <2>1. dFailures' \in 0..MaxDeclaredFailures
    BY <1>1, <1>4 DEF D!Record, DTypes
  <2>2. PICK o \in dSweep[t].now : D!Acknowledge(o, o.claim)
    BY <1>4 DEF D!Record
  <2>3. dTask[o.of][o.claim] # "none"
    BY <1>1, <1>4, <2>2 DEF D!Record, DSweepInv, Informed
  <2> QED
    BY <1>4, <2>1, <2>2, <2>3, AcknowledgesKeep DEF D!Record
<1>5. ASSUME NEW t \in Threads, D!Abort(t) PROVE DeclaredInv'
  <2> DEFINE next == D!AtRest(t)
  <2>1. /\ next \in DSweepType /\ next.todo = {} /\ next.now = {}
        /\ next.step \notin {"enqueue", "record"}
    BY DEF D!AtRest, D!Rest, DSweepType
  <2>2. dSweep' = [dSweep EXCEPT ![t] = next]
    BY <1>5 DEF D!Abort
  <2> HIDE DEF next
  <2>3. Informed(next)
    BY <2>1 DEF Informed
  <2>4. dFailures' \in 0..MaxDeclaredFailures
    BY <1>1, <1>5 DEF D!Abort, DTypes
  <2> QED
    BY <1>5, <2>1, <2>2, <2>3, <2>4, DQuietKeeps DEF D!Abort
<1>6. CASE UNCHANGED D!vars
  BY <1>6, Zenon DEF D!vars, DeclaredInv, DTypes, DClaimInv, DOwedInv, DSweepInv, Informed, DIssued
<1> QED
  BY <1>2, <1>3, <1>4, <1>5, <1>6, SameThreads, StartsKeep, ExtensionsKeep, DClaimsKeep,
     DEnqueuesKeep, DEndsKeep
  DEF D!Next, D!Step

\* What is known of the extension schedules includes their types and their properties.
LEMMA DeclaredSound ==
    ASSUME DeclaredInv
    PROVE  D!TypeOK /\ D!OverlapNeedsRefusal /\ D!OccurrencesAreJustified
<1>1. DTypes /\ DClaimInv /\ DOwedInv /\ DSweepInv
  BY DEF DeclaredInv
<1>2. \A t \in Threads : D!Cardinality(dSweep[t].now) <= 1
  <2> TAKE t \in Threads
  <2>1. PICK w \in DSweepType : w = dSweep[t] /\ Informed(w)
    BY <1>1, DeclaredFacts DEF DSweepInv
  <2>2. \A o, p \in w.now : o = p
    BY <2>1 DEF Informed
  <2>3. Cardinality(w.now) <= 1
    <3>1. CASE w.now = {}
      BY <3>1, FS_EmptySet
    <3>2. ASSUME NEW o \in w.now PROVE Cardinality(w.now) <= 1
      <4>1. w.now = {o}
        BY <2>2, <3>2
      <4>2. Cardinality({o}) = 1
        BY FS_Singleton
      <4> QED
        BY <4>1, <4>2
    <3> QED
      BY <3>1, <3>2
  <2>4. D!Cardinality(w.now) = Cardinality(w.now)
    BY DEF D!Cardinality, Cardinality
  <2> QED
    BY <2>1, <2>3, <2>4
<1>3. D!TypeOK
  BY <1>1, <1>2, SameThreads DEF D!TypeOK, D!Kinds, DTypes, DType, DSweepType
<1>4. D!OverlapNeedsRefusal
  <2> SUFFICES ASSUME NEW s \in Declared, NEW m \in D!Claims, NEW n \in D!Claims,
                      dTask[s][m] = "live", dTask[s][n] = "live", m # n
               PROVE  <<s, m>> \in refused \/ <<s, n>> \in refused
    BY DEF D!OverlapNeedsRefusal
  <2>1. /\ m \in {declared[s].last, declared[s].claim} \/ <<s, m>> \in refused
        /\ n \in {declared[s].last, declared[s].claim} \/ <<s, n>> \in refused
        /\ declared[s].claim # 0 /\ declared[s].last # 0 /\ dTask[s][declared[s].claim] # "none"
             => dTask[s][declared[s].last] = "ended"
    BY <1>1 DEF DClaimInv
  <2>2. m # 0 /\ n # 0
    BY DReceipts
  <2> QED
    BY <2>1, <2>2
<1>5. D!OccurrencesAreJustified
  <2>1. \A s \in Declared : D!Cardinality(declared[s].history) = Cardinality(declared[s].history)
    BY DEF D!Cardinality, Cardinality
  <2> QED
    BY <1>1, <2>1 DEF D!OccurrencesAreJustified, DOwedInv
<1> QED
  BY <1>3, <1>4, <1>5

\* What is known of cron schedules includes their types and their properties.
LEMMA CronSound ==
    ASSUME CronInv PROVE OccurrencesDoNotOverlap /\ OccurrencesAreJustified
<1>1. TypeOK /\ ClaimInv /\ OwedInv
  BY DEF CronInv
<1>2. OccurrencesDoNotOverlap
  <2> SUFFICES ASSUME NEW c \in Crons, NEW m \in Claims, NEW n \in Claims,
                      task[c][m] = "live", task[c][n] = "live"
               PROVE  m = n
    BY DEF OccurrencesDoNotOverlap
  <2>1. /\ m \in {cron[c].last, cron[c].claim} /\ n \in {cron[c].last, cron[c].claim}
        /\ cron[c].claim # 0 /\ cron[c].last # 0 /\ task[c][cron[c].claim] # "none" =>
             task[c][cron[c].last] # "live"
    BY <1>1 DEF ClaimInv
  <2>2. m # 0 /\ n # 0
    BY Receipts
  <2> QED
    BY <2>1, <2>2
<1>3. OccurrencesAreJustified
  BY <1>1 DEF OccurrencesAreJustified, OwedInv
<1> QED
  BY <1>2, <1>3

\* A new installation.
LEMMA CronStarts == Init => CronInv
<1> SUFFICES ASSUME Init PROVE CronInv
  OBVIOUS
<1> USE Receipts
<1>1. TypeOK
  BY DEF Init, TypeOK, Absent, Kinds, Rest
<1>2. ClaimInv /\ SweepInv
  BY DEF Init, ClaimInv, SweepInv, Issued, Absent, Kinds, Rest
<1>3. OwedInv
  <2>1. Cardinality({}) = 0
    BY FS_EmptySet
  <2> QED
    BY <2>1 DEF Init, OwedInv, Absent, Kinds
<1> QED
  BY <1>1, <1>2, <1>3 DEF CronInv

\* A new installation.
LEMMA DeclaredStarts == D!Init => DeclaredInv
<1> SUFFICES ASSUME D!Init PROVE DeclaredInv
  OBVIOUS
<1> USE DReceipts, SameThreads
<1>1. DTypes
  BY DEF D!Init, DTypes, DType, DSweepType, D!Absent, D!Kinds, D!Rest, D!AtRest
<1>2. DClaimInv
  BY DEF D!Init, DClaimInv, DIssued, D!Absent, D!Kinds
<1>3. DSweepInv
  BY DEF D!Init, DSweepInv, Informed, D!AtRest, D!Rest
<1>4. DOwedInv
  <2>1. Cardinality({}) = 0
    BY FS_EmptySet
  <2> QED
    BY <2>1 DEF D!Init, DOwedInv, D!Absent, D!Kinds
<1> QED
  BY <1>1, <1>2, <1>3, <1>4 DEF DeclaredInv

-----------------------------------------------------------------------------
(* The backlog.                                                            *)

BacklogItem == [status : {"pending", "promoted", "removed"}, priority : B!Priorities]
Promotion == [step : {"rest", "next", "enqueue", "promote"}, item : B!Items \cup {0}]

\* What a step of the backlog never does: see PromotedOnce.
Once == \A i \in DOMAIN item :
           /\ iTask[i] = "ended" => iTask'[i] = "ended"
           /\ item'[i].status = "promoted" => iTask'[i] # "none"
           /\ item[i].status # "pending" => item'[i] = item[i]

\* The types, one by one, and where items and promotions are.
LEMMA BacklogFacts ==
    ASSUME BacklogInv
    PROVE  /\ item \in Seq(BacklogItem) /\ actor \in [B!Actors -> Promotion]
           /\ iTask \in [B!Items -> {"none", "live", "ended"}]
           /\ other \in [live : BOOLEAN, count : 0..MaxOthers] /\ faults \in 0..MaxFaults
           /\ \A a \in B!Actors :
                /\ actor[a] \in Promotion
                /\ actor[a].step \in {"enqueue", "promote"} <=> actor[a].item # 0
                /\ actor[a].step = "promote" => iTask[actor[a].item] # "none"
           /\ \A i \in DOMAIN item : /\ item[i] \in BacklogItem /\ i \in B!Items
                                     /\ item[i].status = "promoted" => iTask[i] # "none"
           /\ Len(item) \in Nat /\ DOMAIN item = 1..Len(item)
           /\ MaxItems \in Nat /\ MaxOthers \in Nat /\ MaxFaults \in Nat /\ 0 \notin B!Items
<1>1. item \in Seq(BacklogItem) /\ actor \in [B!Actors -> Promotion]
  BY DEF BacklogInv, B!TypeOK, BacklogItem, Promotion
<1>2. \A i \in DOMAIN item : item[i] \in BacklogItem
  BY <1>1
<1> QED
  BY <1>1, <1>2, BoundsAssumption DEF BacklogInv, B!TypeOK, B!Items

\* A command changes an item that is pending.
LEMMA ItemsKeep ==
    ASSUME BacklogInv, NEW i \in B!Pending, NEW next \in BacklogItem,
           item' = [item EXCEPT ![i] = next], next.status = "promoted" => iTask[i] # "none",
           NEW moves \in [B!Actors -> Promotion], actor' = moves,
           \A a \in B!Actors :
              /\ moves[a].step \in {"enqueue", "promote"} <=> moves[a].item # 0
              /\ moves[a].step = "promote" => iTask[moves[a].item] # "none",
           UNCHANGED <<iTask, other, faults>>
    PROVE  BacklogInv' /\ Once
<1> USE BacklogFacts
<1>1. i \in DOMAIN item /\ item[i].status = "pending"
  BY DEF B!Pending
<1>2. item' \in Seq(BacklogItem) /\ Len(item') = Len(item)
  BY <1>1
<1>3. item'[i] = next /\ \A j \in DOMAIN item \ {i} : item'[j] = item[j]
  BY <1>1
<1>4. DOMAIN item' = DOMAIN item
  BY <1>1
<1>5. B!TypeOK'
  BY <1>2 DEF B!TypeOK, BacklogItem, Promotion
<1>6. \A j \in DOMAIN item' : item'[j].status = "promoted" => iTask'[j] # "none"
  BY <1>3, <1>4
<1>7. DOMAIN item' \subseteq B!Items
  BY <1>4
<1>8. Once
  BY <1>1, <1>3, <1>4, <1>6 DEF Once
<1> QED
  BY <1>5, <1>6, <1>7, <1>8 DEF BacklogInv

\* A step of a promotion, or of the queue, leaves the items alone.
LEMMA TasksKeep ==
    ASSUME BacklogInv, item' = item,
           NEW moves \in [B!Actors -> Promotion], actor' = moves,
           NEW tasks \in [B!Items -> {"none", "live", "ended"}], iTask' = tasks,
           \A i \in B!Items : /\ iTask[i] # "none" => tasks[i] # "none"
                              /\ iTask[i] = "ended" => tasks[i] = "ended",
           \A a \in B!Actors :
              /\ moves[a].step \in {"enqueue", "promote"} <=> moves[a].item # 0
              /\ moves[a].step = "promote" => tasks[moves[a].item] # "none",
           other' \in [live : BOOLEAN, count : 0..MaxOthers], faults' \in 0..MaxFaults
    PROVE  BacklogInv' /\ Once
<1> USE BacklogFacts
<1>1. B!TypeOK'
  BY DEF B!TypeOK, BacklogItem, Promotion
<1>2. \A i \in DOMAIN item : item'[i].status = "promoted" => iTask'[i] # "none"
  OBVIOUS
<1>3. DOMAIN item' \subseteq B!Items
  OBVIOUS
<1>4. Once
  BY <1>2 DEF Once
<1> QED
  BY <1>1, <1>2, <1>3, <1>4 DEF BacklogInv

\* Where an actor goes.
LEMMA Moves ==
    ASSUME BacklogInv, NEW a \in B!Actors, NEW step \in {"rest", "next", "enqueue", "promote"},
           NEW i \in B!Items \cup {0}, B!Go(a, step, i),
           step \in {"enqueue", "promote"} <=> i # 0,
           NEW tasks \in [B!Items -> {"none", "live", "ended"}],
           \A j \in B!Items : iTask[j] # "none" => tasks[j] # "none",
           step = "promote" => tasks[i] # "none"
    PROVE  /\ actor' \in [B!Actors -> Promotion]
           /\ \A b \in B!Actors :
                /\ actor'[b].step \in {"enqueue", "promote"} <=> actor'[b].item # 0
                /\ actor'[b].step = "promote" => tasks[actor'[b].item] # "none"
<1> USE BacklogFacts
<1> DEFINE next == [step |-> step, item |-> i]
<1>1. next \in Promotion /\ next.step = step /\ next.item = i
  BY DEF Promotion
<1>2. actor' = [actor EXCEPT ![a] = next]
  BY DEF B!Go
<1> HIDE DEF next
<1>3. /\ actor' \in [B!Actors -> Promotion] /\ actor'[a] = next
      /\ \A b \in B!Actors \ {a} : actor'[b] = actor[b]
  BY <1>1, <1>2
<1>4. ASSUME NEW b \in B!Actors \ {a}
      PROVE  /\ actor'[b].step \in {"enqueue", "promote"} <=> actor'[b].item # 0
             /\ actor'[b].step = "promote" => tasks[actor'[b].item] # "none"
  <2>1. actor[b].step = "promote" => actor[b].item \in B!Items /\ iTask[actor[b].item] # "none"
    BY DEF Promotion
  <2> QED
    BY <1>3, <2>1
<1> QED
  BY <1>1, <1>3, <1>4

\* A promotion moves on, and neither items nor tasks change.
LEMMA MovesKeep ==
    ASSUME BacklogInv, NEW a \in B!Actors, NEW step \in {"rest", "next", "enqueue"},
           NEW i \in B!Items \cup {0}, B!Go(a, step, i), step = "enqueue" <=> i # 0,
           UNCHANGED <<item, iTask, other>>, faults' \in 0..MaxFaults
    PROVE  BacklogInv' /\ Once
<1> USE BacklogFacts
<1>1. PICK moves : moves = actor'
  OBVIOUS
<1>2. PICK tasks \in [B!Items -> {"none", "live", "ended"}] : tasks = iTask
  OBVIOUS
<1>3. /\ moves \in [B!Actors -> Promotion]
      /\ \A b \in B!Actors :
           /\ moves[b].step \in {"enqueue", "promote"} <=> moves[b].item # 0
           /\ moves[b].step = "promote" => tasks[moves[b].item] # "none"
  BY <1>1, <1>2, Moves
<1> QED
  BY <1>1, <1>2, <1>3, TasksKeep

\* Every step of the backlog.
LEMMA BacklogKeeps ==
    BacklogInv /\ [B!Next]_(B!vars) => BacklogInv' /\ (UNCHANGED B!vars \/ Once)
<1> SUFFICES ASSUME BacklogInv, [B!Next]_(B!vars) PROVE BacklogInv' /\ (UNCHANGED B!vars \/ Once)
  OBVIOUS
<1> USE BacklogFacts
<1>1. \A i \in B!Pending : i \in DOMAIN item /\ item[i].status = "pending" /\ i \in B!Items /\ i # 0
  BY DEF B!Pending
<1>2. PICK here \in [B!Actors -> Promotion] : here = actor
  OBVIOUS
<1>3. "worker" \in B!Actors /\ "owner" \in B!Actors
  BY DEF B!Actors
<1>4. ASSUME NEW p \in B!Priorities, B!Add(p) PROVE BacklogInv' /\ Once
  <2> DEFINE new == [status |-> "pending", priority |-> p]
  <2>1. new \in BacklogItem /\ new.status = "pending"
    BY <1>4 DEF BacklogItem
  <2>2. item' = Append(item, new) /\ UNCHANGED <<iTask, actor, other, faults>>
          /\ Len(item) < MaxItems
    BY <1>4 DEF B!Add
  <2> HIDE DEF new
  <2>3. /\ item' \in Seq(BacklogItem) /\ Len(item') = Len(item) + 1
        /\ DOMAIN item' = 1..(Len(item) + 1)
    BY <2>1, <2>2
  <2>4. \A i \in DOMAIN item : item'[i] = item[i]
    BY <2>1, <2>2
  <2>5. item'[Len(item) + 1] = new
    BY <2>1, <2>2
  <2>6. B!TypeOK'
    BY <2>2, <2>3 DEF B!TypeOK, BacklogItem, Promotion
  <2>7. \A i \in DOMAIN item' : item'[i].status = "promoted" => iTask'[i] # "none"
    <3> TAKE i \in DOMAIN item'
    <3>1. i \in DOMAIN item \/ i = Len(item) + 1
      BY <2>3
    <3> QED
      BY <2>1, <2>2, <2>4, <2>5, <3>1
  <2>8. DOMAIN item' \subseteq B!Items
    BY <2>2, <2>3 DEF B!Items
  <2>9. Once
    BY <2>2, <2>4 DEF Once
  <2> QED
    BY <2>6, <2>7, <2>8, <2>9 DEF BacklogInv
<1>5. ASSUME NEW i \in B!Pending, NEW next \in BacklogItem, item' = [item EXCEPT ![i] = next],
             next.status # "promoted", UNCHANGED <<iTask, actor, other, faults>>
      PROVE  BacklogInv' /\ Once
  BY <1>2, <1>5, ItemsKeep
<1>6. ASSUME NEW i, B!Remove(i) PROVE BacklogInv' /\ Once
  <2> DEFINE next == [item[i] EXCEPT !.status = "removed"]
  <2>1. i \in B!Pending /\ item[i] \in BacklogItem
    BY <1>1, <1>6 DEF B!Remove
  <2>2. next \in BacklogItem /\ next.status # "promoted"
    BY <2>1 DEF BacklogItem
  <2>3. item' = [item EXCEPT ![i] = next] /\ UNCHANGED <<iTask, actor, other, faults>>
    BY <1>6 DEF B!Remove
  <2> HIDE DEF next
  <2> QED
    BY <1>5, <2>1, <2>2, <2>3
<1>7. ASSUME NEW i, NEW p \in B!Priorities, B!Reprioritize(i, p) PROVE BacklogInv' /\ Once
  <2> DEFINE next == [item[i] EXCEPT !.priority = p]
  <2>1. i \in B!Pending /\ item[i] \in BacklogItem /\ item[i].status = "pending"
    BY <1>1, <1>7 DEF B!Reprioritize
  <2>2. next \in BacklogItem /\ next.status # "promoted"
    BY <2>1 DEF BacklogItem
  <2>3. item' = [item EXCEPT ![i] = next] /\ UNCHANGED <<iTask, actor, other, faults>>
    BY <1>7 DEF B!Reprioritize
  <2> HIDE DEF next
  <2> QED
    BY <1>5, <2>1, <2>2, <2>3
<1>8. ASSUME NEW a \in B!Actors, B!Enqueue(a) PROVE BacklogInv' /\ Once
  <2>1. actor[a].item \in B!Items
    BY <1>8 DEF B!Enqueue, B!At, Promotion
  <2>2. PICK i \in B!Items : i = actor[a].item
    BY <2>1
  <2>3. PICK tasks : tasks = iTask'
    OBVIOUS
  <2>4. /\ tasks \in [B!Items -> {"none", "live", "ended"}] /\ tasks[i] # "none"
        /\ \A j \in B!Items : /\ iTask[j] # "none" => tasks[j] # "none"
                              /\ iTask[j] = "ended" => tasks[j] = "ended"
    BY <1>8, <2>2, <2>3 DEF B!Enqueue, B!Enqueued
  <2>5. B!Go(a, "promote", i) /\ UNCHANGED <<item, other, faults>>
    BY <1>8, <2>2 DEF B!Enqueue
  <2>6. PICK moves : moves = actor'
    OBVIOUS
  <2>7. /\ moves \in [B!Actors -> Promotion]
        /\ \A b \in B!Actors :
             /\ moves[b].step \in {"enqueue", "promote"} <=> moves[b].item # 0
             /\ moves[b].step = "promote" => tasks[moves[b].item] # "none"
    BY <2>4, <2>5, <2>6, Moves
  <2> QED
    BY <2>3, <2>4, <2>5, <2>6, <2>7, TasksKeep
<1>9. ASSUME NEW a \in B!Actors, B!Promote(a) PROVE BacklogInv' /\ Once
  <2>1. B!Go(a, "rest", 0) /\ UNCHANGED <<iTask, other, faults>> /\ iTask[actor[a].item] # "none"
    BY <1>9 DEF B!Promote, B!At
  <2>2. CASE actor[a].item \notin B!Pending
    <3>1. item' = item
      BY <1>9, <2>2 DEF B!Promote
    <3> QED
      BY <2>1, <3>1, MovesKeep
  <2>3. CASE actor[a].item \in B!Pending
    <3>1. PICK i \in B!Pending : i = actor[a].item
      BY <2>3
    <3> DEFINE next == [item[i] EXCEPT !.status = "promoted"]
    <3>2. item' = [item EXCEPT ![i] = next]
      BY <1>9, <3>1 DEF B!Promote
    <3>3. next \in BacklogItem
      BY <1>1 DEF BacklogItem
    <3> HIDE DEF next
    <3>4. PICK moves : moves = actor'
      OBVIOUS
    <3>5. PICK tasks \in [B!Items -> {"none", "live", "ended"}] : tasks = iTask
      OBVIOUS
    <3>6. /\ moves \in [B!Actors -> Promotion]
          /\ \A b \in B!Actors :
               /\ moves[b].step \in {"enqueue", "promote"} <=> moves[b].item # 0
               /\ moves[b].step = "promote" => tasks[moves[b].item] # "none"
      BY <2>1, <3>4, <3>5, Moves
    <3> QED
      BY <2>1, <3>1, <3>2, <3>3, <3>4, <3>5, <3>6, ItemsKeep, Zenon
  <2> QED
    BY <2>2, <2>3
<1>10. ASSUME NEW i \in DOMAIN item, B!ChooseById(i) PROVE BacklogInv' /\ Once
  BY <1>1, <1>3, <1>10, MovesKeep DEF B!ChooseById
<1>11. CASE B!FindIdle \/ B!ChooseNext
  <2>1. CASE B!FindIdle
    BY <1>3, <2>1, MovesKeep DEF B!FindIdle
  <2>2. CASE B!ChooseNext
    BY <1>1, <1>3, <2>2, MovesKeep DEF B!ChooseNext
  <2> QED
    BY <1>11, <2>1, <2>2
<1>12. ASSUME NEW a \in B!Actors, B!Break(a) PROVE BacklogInv' /\ Once
  BY <1>12, MovesKeep DEF B!Break
<1>13. CASE B!Crash
  <2>1. PICK moves : moves = [a \in B!Actors |-> B!AtRest]
    OBVIOUS
  <2>2. /\ moves \in [B!Actors -> Promotion]
        /\ \A a \in B!Actors : moves[a].step = "rest" /\ moves[a].item = 0
    BY <2>1 DEF B!AtRest, Promotion
  <2>3. /\ actor' = moves /\ faults' \in 0..MaxFaults /\ UNCHANGED <<item, iTask, other>>
    BY <1>13, <2>1 DEF B!Crash
  <2>4. PICK tasks \in [B!Items -> {"none", "live", "ended"}] : tasks = iTask
    OBVIOUS
  <2> QED
    BY <2>2, <2>3, <2>4, TasksKeep
<1>14. ASSUME NEW i \in B!Items, B!TaskEnds(i) PROVE BacklogInv' /\ Once
  <2>1. PICK tasks : tasks = iTask'
    OBVIOUS
  <2>2. /\ tasks \in [B!Items -> {"none", "live", "ended"}]
        /\ \A j \in B!Items : /\ iTask[j] # "none" => tasks[j] # "none"
                              /\ iTask[j] = "ended" => tasks[j] = "ended"
    BY <1>14, <2>1 DEF B!TaskEnds
  <2>3. UNCHANGED <<item, actor, other, faults>>
    BY <1>14 DEF B!TaskEnds
  <2>4. \A a \in B!Actors : here[a].step = "promote" => tasks[here[a].item] # "none"
    BY <1>2, <2>2 DEF Promotion
  <2> QED
    BY <1>2, <2>1, <2>2, <2>3, <2>4, TasksKeep
<1>15. CASE B!OtherArrives \/ B!OtherEnds
  <2>1. UNCHANGED <<item, iTask, actor, faults>>
    BY <1>15 DEF B!OtherArrives, B!OtherEnds
  <2>2. other' \in [live : BOOLEAN, count : 0..MaxOthers]
    <3>1. PICK o : o = other /\ o \in [live : BOOLEAN, count : 0..MaxOthers]
      OBVIOUS
    <3>2. CASE B!OtherArrives
      <4>1. other' = [live |-> TRUE, count |-> o.count + 1] /\ o.count < MaxOthers
        BY <3>1, <3>2 DEF B!OtherArrives
      <4>2. o.count + 1 \in 0..MaxOthers
        BY <3>1, <4>1
      <4> QED
        BY <4>1, <4>2
    <3>3. CASE B!OtherEnds
      BY <3>1, <3>3 DEF B!OtherEnds
    <3> QED
      BY <1>15, <3>2, <3>3
  <2>3. PICK tasks \in [B!Items -> {"none", "live", "ended"}] : tasks = iTask
    OBVIOUS
  <2> QED
    BY <1>2, <2>1, <2>2, <2>3, TasksKeep
<1>16. CASE UNCHANGED B!vars
  BY <1>16 DEF B!vars, BacklogInv, B!TypeOK
<1> QED
  BY <1>3, <1>4, <1>6, <1>7, <1>8, <1>9, <1>10, <1>11, <1>12, <1>13, <1>14, <1>15, <1>16
  DEF B!Next, B!Command, B!WorkerStep, B!QueueStep

\* An empty backlog.
LEMMA BacklogStarts == B!Init => BacklogInv
<1> SUFFICES ASSUME B!Init PROVE BacklogInv
  OBVIOUS
<1>1. B!TypeOK
  BY BoundsAssumption DEF B!Init, B!TypeOK, B!AtRest, B!Actors, B!Items
<1>2. DOMAIN item = {}
  BY DEF B!Init
<1> QED
  BY <1>1, <1>2 DEF BacklogInv

-----------------------------------------------------------------------------
(* The components together.                                                *)

\* The inductive invariant of MCRecurring.
MCInv == CronInv /\ DeclaredInv /\ BacklogInv

\* Every component starts in its invariant.
LEMMA Starts == MCInit => MCInv
BY CronStarts, DeclaredStarts, BacklogStarts DEF MCInit, MCInv

\* A step of one component leaves the others alone.
LEMMA Steps ==
    MCInv /\ [MCNext]_allVars =>
        /\ MCInv'
        /\ UNCHANGED vars \/ (Fenced /\ Kept)
        /\ UNCHANGED B!vars \/ Once
<1> SUFFICES ASSUME MCInv, [MCNext]_allVars
             PROVE  /\ MCInv'
                    /\ UNCHANGED vars \/ (Fenced /\ Kept)
                    /\ UNCHANGED B!vars \/ Once
  OBVIOUS
<1>1. [Next]_vars
  BY DEF MCNext, InCron, InTargets, InDeclared, InBacklog, allVars
<1>2. [D!Next]_(D!vars)
  BY DEF MCNext, InCron, InTargets, InDeclared, InBacklog, allVars, declaredVars, D!vars
<1>3. [B!Next]_(B!vars)
  BY DEF MCNext, InCron, InTargets, InDeclared, InBacklog, allVars, backlogVars, B!vars
<1> QED
  BY <1>1, <1>2, <1>3, CronKeeps, DeclaredKeeps, BacklogKeeps DEF MCInv

\* The invariant holds throughout.
LEMMA Always == MCSpec => []MCInv
<1>1. MCInv /\ [MCNext]_allVars => MCInv'
  BY Steps
<1> QED
  BY <1>1, Starts, PTL DEF MCSpec

\* Two occurrences of one cron schedule are never in the queue together, and two of an
\* extension schedule only if one of them was refused before (claim_due_cron_jobs and
\* claim_due_extension_schedules swept by two threads, with pauses, failed writes and
\* restarts between any two steps); every claim answers a target time or a request of its
\* own; and cron.json, extension_schedules.json and backlog.json are well formed.
THEOREM OccurrencesStaySound == MCSpec => []OccurrencesAreSound
<1>1. MCInv => OccurrencesAreSound
  BY CronSound, DeclaredSound
  DEF MCInv, CronInv, BacklogInv, OccurrencesAreSound, StatesAreTyped
<1> QED
  BY <1>1, Always, PTL

\* Nothing is admitted to the queue for a cron schedule that is paused or cancelled by
\* then, nor for a claim that is not its present one (_enqueue_due_cron_jobs looks again
\* under the lock of the schedule).
THEOREM PausesFence == MCSpec => PauseFences
<1>1. MCInv /\ [MCNext]_allVars =>
        [\A c \in Crons, n \in Claims :
            task[c][n] = "none" /\ task'[c][n] # "none" => Active(c) /\ cron[c].claim = n]_vars
  BY Steps DEF Fenced
<1> QED
  BY <1>1, Always, PTL DEF MCSpec, PauseFences

\* A cron claim or request is given up only for a task that the queue has, or a request by
\* a pause (record_cron_task, pause_cron_job); a backlog item is promoted with its task,
\* once, and never after it was removed (_promote_next_backlog_if_idle and /backlog promote).
THEOREM WorkStaysKept == MCSpec => WorkIsKept
<1>1. MCInv /\ [MCNext]_allVars =>
        [\A c \in Crons :
            /\ cron[c].claim # 0 /\ cron'[c].claim # cron[c].claim
                  => task[c][cron[c].claim] # "none"
            /\ cron[c].runNow /\ ~cron'[c].runNow
                  => \/ cron[c].claim # 0 /\ task[c][cron[c].claim] # "none"
                     \/ cron'[c].status = "paused"]_vars
  BY Steps DEF Kept
<1>2. MCInv /\ [MCNext]_allVars =>
        [\A i \in DOMAIN item :
            /\ iTask[i] = "ended" => iTask'[i] = "ended"
            /\ item'[i].status = "promoted" => iTask'[i] # "none"
            /\ item[i].status # "pending" => item'[i] = item[i]]_(B!vars)
  BY Steps DEF Once
<1>3. MCSpec => NothingIsLost
  BY <1>1, Always, PTL DEF MCSpec, NothingIsLost
<1>4. MCSpec => B!PromotedOnce
  BY <1>2, Always, PTL DEF MCSpec, B!PromotedOnce
<1> QED
  BY <1>3, <1>4 DEF WorkIsKept

-----------------------------------------------------------------------------
(* Interval schedules.                                                     *)

\* The target is a whole number of intervals after the first one, and one ahead at most.
IntervalInv ==
    timetable.cadence = "interval" =>
        /\ timetable.seconds \in Intervals
        /\ clock \in Nat /\ asked \in Nat /\ asked <= clock
        /\ first \in Int /\ target \in Int /\ target > asked /\ target <= asked + timetable.seconds
        /\ \E k \in Nat : target - first = k * timetable.seconds
        /\ claim.kind = "scheduled" => claim.for = target /\ target <= clock

\* Division by an interval, and the multiples of one.
LEMMA Division ==
    ASSUME NEW x \in Nat, NEW s \in Nat \ {0}
    PROVE  /\ x \div s \in Nat /\ (x \div s) * s <= x /\ x < (x \div s) * s + s
OBVIOUS

LEMMA Multiple ==
    ASSUME NEW k \in Nat, NEW s \in Nat \ {0}
    PROVE  (k * s) % s = 0
OBVIOUS

\* The next target of an interval schedule is the first one on its grid that is still to come.
LEMMA NextIntervalRunIsNext ==
    ASSUME NEW current \in Nat, NEW scheduled \in Int, NEW s \in Nat \ {0}, scheduled <= current
    PROVE  LET next == NextIntervalRun(scheduled, s, current) IN
           /\ next \in Int /\ next > current /\ next <= current + s
           /\ \E k \in Nat : next - scheduled = k * s
<1> DEFINE candidate == scheduled + s
           late == (current - candidate) \div s
<1>1. CASE candidate > current
  <2>1. candidate - scheduled = 1 * s
    OBVIOUS
  <2> QED
    BY <1>1, <2>1 DEF NextIntervalRun
<1>2. CASE candidate <= current
  <2>1. PICK x \in Nat : x = current - candidate
    BY <1>2
  <2>2. PICK d \in Nat : d = late /\ d * s <= x /\ x < d * s + s
    BY <2>1, Division
  <2>3. NextIntervalRun(scheduled, s, current) = scheduled + s + (d + 1) * s
    BY <1>2, <2>2 DEF NextIntervalRun
  <2>4. PICK m \in Nat : m = d * s
    OBVIOUS
  <2>5. (d + 1) * s = m + s /\ (d + 2) * s = m + s + s
    BY ONLY <2>2, <2>4, s \in Nat \ {0}
  <2>6. PICK next : next = NextIntervalRun(scheduled, s, current)
    OBVIOUS
  <2>7. next = scheduled + s + m + s
    BY <2>3, <2>5, <2>6
  <2>8. next \in Int /\ next > current /\ next <= current + s
    BY <2>1, <2>2, <2>4, <2>7
  <2>9. next - scheduled = (d + 2) * s /\ d + 2 \in Nat
    BY <2>5, <2>7
  <2> QED
    BY <2>6, <2>8, <2>9
<1> QED
  BY <1>1, <1>2

\* The target of an interval schedule stays on the grid of its first one, in the future and
\* at most an interval ahead of the last run, however late runs were (next_interval_run).
THEOREM IntervalsStayAnchored == MCSpec => []T!IntervalStaysAnchored
<1>1. MCInit => IntervalInv
  <2> SUFFICES ASSUME MCInit, timetable.cadence = "interval" PROVE IntervalInv
    BY DEF IntervalInv
  <2>1. timetable.seconds \in Intervals
    BY DEF MCInit, T!Init, T!Schedules
  <2>2. /\ clock = 0 /\ asked = 0 /\ target = timetable.seconds /\ first = target
        /\ claim.kind = "none"
    BY DEF MCInit, T!Init, T!NoClaim
  <2>3. timetable.seconds \in Nat \ {0}
    BY <2>1, IntervalAssumption
  <2>4. target - first = 0 * timetable.seconds
    BY <2>2, <2>3
  <2> QED
    BY <2>1, <2>2, <2>3, <2>4 DEF IntervalInv
<1>2. IntervalInv /\ [MCNext]_allVars => IntervalInv'
  <2> SUFFICES ASSUME IntervalInv, [T!Next]_(T!vars), timetable'.cadence = "interval"
               PROVE  IntervalInv'
    BY DEF IntervalInv, MCNext, InCron, InTargets, InDeclared, InBacklog, allVars, targetVars,
      T!vars
  <2>1. timetable' = timetable
    BY DEF T!Next, T!Tick, T!Claim, T!Record, T!RecordScheduled, T!RecordRunNow, T!Acknowledged, T!vars
  <2>2. PICK s \in Nat \ {0} :
          /\ s = timetable.seconds /\ s \in Intervals /\ clock \in Nat /\ asked \in Nat
          /\ asked <= clock /\ first \in Int /\ target \in Int
          /\ claim.kind = "scheduled" => claim.for = target /\ target <= clock
    BY <2>1, IntervalAssumption DEF IntervalInv
  <2>3. CASE T!RecordScheduled
    <3>1. /\ target <= clock /\ target' = NextIntervalRun(target, s, clock) /\ asked' = clock
          /\ clock' = clock /\ first' = first /\ claim'.kind = "none"
      BY <2>1, <2>2, <2>3 DEF T!RecordScheduled, T!Acknowledged, T!NoClaim, T!NextRun,
        T!NextIntervalRun, NextIntervalRun
    <3>2. /\ target' \in Int /\ target' > clock /\ target' <= clock + s
          /\ \E k \in Nat : target' - target = k * s
      BY <2>2, <3>1, NextIntervalRunIsNext, Zenon
    <3>3. PICK k \in Nat : target - first = k * s
      BY <2>1, <2>2 DEF IntervalInv
    <3>4. PICK l \in Nat : target' - target = l * s
      BY <3>2
    <3>5. target' - first = k * s + l * s
      BY <2>2, <3>2, <3>3, <3>4
    <3>6. k * s + l * s = (k + l) * s /\ k + l \in Nat
      OBVIOUS
    <3> QED
      BY <2>1, <2>2, <3>1, <3>2, <3>5, <3>6 DEF IntervalInv
  <2>4. CASE T!Tick \/ T!Claim \/ T!RecordRunNow \/ UNCHANGED T!vars
    <3>1. /\ clock' \in Nat /\ clock <= clock' /\ UNCHANGED <<timetable, target, asked, first>>
      BY <2>2, <2>4 DEF T!Tick, T!Claim, T!RecordRunNow, T!Acknowledged, T!vars
    <3>2. claim'.kind = "scheduled" => claim'.for = target' /\ target' <= clock'
      BY <2>2, <2>4, <3>1 DEF T!Tick, T!Claim, T!RecordRunNow, T!Acknowledged, T!NoClaim, T!vars
    <3> QED
      BY <2>2, <3>1, <3>2 DEF IntervalInv
  <2> QED
    BY <2>3, <2>4 DEF T!Next, T!Record
<1>3. IntervalInv => T!IntervalStaysAnchored
  <2> SUFFICES ASSUME IntervalInv, timetable.cadence = "interval"
               PROVE  /\ (target - first) % timetable.seconds = 0
                      /\ target > asked /\ target <= asked + timetable.seconds
    BY DEF T!IntervalStaysAnchored
  <2>1. timetable.seconds \in Nat \ {0}
    BY IntervalAssumption DEF IntervalInv
  <2>2. PICK k \in Nat : target - first = k * timetable.seconds
    BY DEF IntervalInv
  <2> QED
    BY <2>1, <2>2, Multiple DEF IntervalInv
<1> QED
  BY <1>1, <1>2, <1>3, PTL DEF MCSpec

-----------------------------------------------------------------------------
(* Daily schedules.  The instant of a run is the first at which the clocks *)
(* show the local time or a later one: where the clocks fall back, the     *)
(* first of two; where they jump, that of the jump, which the bisection    *)
(* finds.  So runs are in the order of their local times, and a first one  *)
(* after the present is that of the local date or of the next one.         *)

\* Some member of a set of naturals is the least one.
LEMMA LeastOf ==
    ASSUME NEW S \in SUBSET Nat, S # {}
    PROVE  \E n \in S : \A m \in S : n <= m
<1> DEFINE less == OpToRel(<, Nat)
<1>1. IsWellFoundedOn(less, Nat)
  BY NatLessThanWellFounded
<1>2. \A x, y \in Nat : x < y => <<x, y>> \in less
  BY DEF OpToRel
<1> HIDE DEF less
<1>3. PICK x \in S : \A y \in S : ~ (<<y, x>> \in less)
  BY <1>1, WFMin
<1>4. ASSUME NEW m \in S PROVE x <= m
  <2>1. x \in Nat /\ m \in Nat /\ ~(m < x)
    BY <1>2, <1>3
  <2> QED
    BY <2>1
<1> QED
  BY <1>4

\* What the arithmetic relies on: the zones are typed.
LEMMA ZonesTyped ==
    ASSUME NEW z \in Zones
    PROVE  z.at \in Nat /\ z.before \in Int /\ z.after \in Int
BY ZoneAssumption

\* A span of more than a second has a half that is one too, and shorter.
LEMMA HalvesAreSpans ==
    ASSUME NEW z \in Zones, z.before # z.after, NEW p \in Spans(z, z.before)
    PROVE  /\ p[1] \in Int /\ p[2] \in Int
           /\ p[1] < z.at * Ticks /\ z.at * Ticks <= p[2]
           /\ p[2] - p[1] <= Ticks => p[2] \div Ticks = z.at
           /\ p[2] - p[1] > Ticks =>
                  LET q == Half(z, z.before, p) IN
                  /\ q \in Spans(z, z.before)
                  /\ q[2] - q[1] < p[2] - p[1]
<1>0. z.at \in Nat /\ z.before \in Int /\ z.after \in Int
  BY ZonesTyped
<1>1. PICK a, b \in Int : p = <<a, b>>
  BY DEF Spans
<1>2. a \div 8 < z.at /\ z.at <= b \div 8
  BY <1>0, <1>1 DEF Spans, Offset, Ticks
<1>3. a < z.at * 8 /\ z.at * 8 <= b
  BY <1>0, <1>2
<1>4. ASSUME b - a <= 8 PROVE b \div 8 = z.at
  BY <1>0, <1>3, <1>4
<1>5. ASSUME b - a > 8
      PROVE  /\ Half(z, z.before, p) \in Spans(z, z.before)
             /\ Half(z, z.before, p)[2] - Half(z, z.before, p)[1] < b - a
  <2>1. PICK m \in Int : m = (a + b) \div 2
    OBVIOUS
  <2>2. a < m /\ m < b
    BY <1>5, <2>1
  <2>3. CASE m \div 8 < z.at
    <3>1. Half(z, z.before, p) = <<m, b>>
      BY <1>0, <1>1, <2>1, <2>3 DEF Half, Offset, Ticks
    <3>2. <<m, b>> \in Spans(z, z.before)
      BY <1>0, <1>2, <2>3 DEF Spans, Offset, Ticks
    <3> QED
      BY <2>2, <3>1, <3>2
  <2>4. CASE ~(m \div 8 < z.at)
    <3>1. Half(z, z.before, p) = <<a, m>>
      BY <1>0, <1>1, <2>1, <2>4 DEF Half, Offset, Ticks
    <3>2. <<a, m>> \in Spans(z, z.before)
      BY <1>0, <1>2, <2>4 DEF Spans, Offset, Ticks
    <3> QED
      BY <2>2, <3>1, <3>2
  <2> QED
    BY <2>3, <2>4
<1> QED
  BY <1>1, <1>3, <1>4, <1>5 DEF Ticks

\* The bisection returns the instant of the jump (_offset_change_instant).
LEMMA BisectionFindsTheJump ==
    ASSUME NEW z \in Zones, z.before # z.after,
           NEW b \in Int, NEW a \in Int, b < z.at, z.at <= a
    PROVE  OffsetChangeInstant(z, b, a) = z.at
<1> DEFINE S == Spans(z, z.before)
           Eq(f) == f = [p \in S |-> IF p[2] - p[1] <= Ticks
                                     THEN p[2] \div Ticks ELSE f[Half(z, z.before, p)]]
           bisect == CHOOSE f : Eq(f)
<1>0. z.at \in Nat /\ z.before \in Int /\ z.after \in Int
  BY ZonesTyped
<1>1. Offset(z, b) = z.before
  BY <1>0 DEF Offset
<1>2. OffsetChangeInstant(z, b, a) = bisect[<<b * Ticks, a * Ticks>>]
  BY <1>1 DEF OffsetChangeInstant
<1>3. Eq(bisect)
  <2> DEFINE jump == [p \in S |-> z.at]
  <2>1. ASSUME NEW p \in S
        PROVE  z.at = IF p[2] - p[1] <= Ticks
                      THEN p[2] \div Ticks ELSE jump[Half(z, z.before, p)]
    <3>1. p[2] - p[1] <= Ticks => p[2] \div Ticks = z.at
      BY HalvesAreSpans
    <3>2. ~(p[2] - p[1] <= Ticks) => Half(z, z.before, p) \in S
      BY HalvesAreSpans DEF Ticks
    <3> QED
      BY <3>1, <3>2
  <2>2. Eq(jump)
    BY <2>1
  <2> HIDE DEF jump, Eq
  <2> QED
    BY <2>2
<1>4. \A p \in S : bisect[p] = IF p[2] - p[1] <= Ticks
                               THEN p[2] \div Ticks ELSE bisect[Half(z, z.before, p)]
  <2> HIDE DEF bisect
  <2> QED
    BY <1>3
<1> HIDE DEF bisect
<1>5. ASSUME NEW p \in S, bisect[p] # z.at PROVE FALSE
  <2> DEFINE Length(q) == q[2] - q[1]
             wrong == {q \in S : bisect[q] # z.at}
             lengths == {Length(q) : q \in wrong}
  <2>1. \A q \in wrong : Length(q) \in Nat
    <3> SUFFICES ASSUME NEW q \in wrong PROVE Length(q) \in Nat
      OBVIOUS
    <3>1. q[1] \in Int /\ q[2] \in Int /\ q[1] < z.at * Ticks /\ z.at * Ticks <= q[2]
      BY HalvesAreSpans
    <3> QED
      BY <1>0, <3>1 DEF Ticks
  <2>2. lengths \in SUBSET Nat /\ lengths # {}
    BY <1>5, <2>1
  <2>3. PICK n \in lengths : \A m \in lengths : n <= m
    BY <2>2, LeastOf
  <2>4. PICK q \in wrong : Length(q) = n
    BY <2>3
  <2>5. CASE Length(q) <= Ticks
    <3>1. q \in S /\ bisect[q] = q[2] \div Ticks
      BY <1>4, <2>5
    <3>2. q[2] \div Ticks = z.at
      BY <2>5, HalvesAreSpans
    <3> QED
      BY <3>1, <3>2
  <2>6. CASE ~(Length(q) <= Ticks)
    <3> DEFINE h == Half(z, z.before, q)
    <3>1. bisect[q] = bisect[h]
      BY <1>4, <2>6
    <3>2. h \in S /\ Length(h) < Length(q)
      <4>1. q \in S /\ q[2] - q[1] > Ticks
        BY <2>1, <2>6 DEF Ticks
      <4> HIDE DEF S
      <4> QED
        BY <4>1, HalvesAreSpans DEF S
    <3>3. h \in wrong
      BY <3>1, <3>2
    <3>4. Length(h) \in lengths
      BY <3>3
    <3>5. Length(q) \in Nat /\ Length(h) \in Nat /\ Length(q) <= Length(h)
      BY <2>1, <2>3, <2>4, <3>3, <3>4
    <3> HIDE DEF Length, h
    <3> QED
      BY <3>2, <3>5
  <2> QED
    BY <2>5, <2>6
<1>6. <<b * Ticks, a * Ticks>> \in S
  BY <1>0 DEF Spans, Offset, Ticks
<1> QED
  BY <1>2, <1>5, <1>6

\* The first instant at which the clocks of a zone show a local time, or a later one.
FirstAt(z, x) ==
    IF x < z.at + z.before THEN x - z.before
    ELSE IF x - z.after >= z.at THEN x - z.after ELSE z.at

\* That is where a daily schedule runs: once if the time happens twice, and where the clocks
\* jump if they jump over it (_local_daily_instant).
LEMMA RunsAtFirst ==
    ASSUME NEW z \in Zones, NEW date \in Int, NEW w \in Int
    PROVE  LocalDailyInstant(z, date, w) = FirstAt(z, date * Day + w)
<1>0. z.at \in Nat /\ z.before \in Int /\ z.after \in Int /\ Day \in Nat
  BY ZonesTyped, DayAssumption
<1>1. PICK x \in Int : x = date * Day + w
  BY <1>0
<1> DEFINE i == Instant(z, x, 0)
           l == Instant(z, x, 1)
<1>2. LocalDailyInstant(z, date, w) = IF Local(z, i) = x THEN i ELSE OffsetChangeInstant(z, l, i)
  BY <1>1 DEF LocalDailyInstant
<1> HIDE DEF i, l
<1>3. CASE x < z.at + z.before \/ x - z.after >= z.at
  <2>1. Local(z, i) = x /\ i = FirstAt(z, x)
    BY <1>0, <1>3 DEF i, Instant, FoldOffset, Latest, Local, Offset, FirstAt
  <2> QED
    BY <1>1, <1>2, <2>1
<1>4. CASE ~(x < z.at + z.before \/ x - z.after >= z.at)
  <2>1. z.before < z.after /\ i = x - z.before /\ l = x - z.after
    BY <1>0, <1>4 DEF i, l, Instant, FoldOffset, Latest, Earliest
  <2>2. l \in Int /\ i \in Int /\ l < z.at /\ z.at <= i /\ Local(z, i) # x
    BY <1>0, <1>4, <2>1 DEF Local, Offset
  <2>3. OffsetChangeInstant(z, l, i) = z.at
    BY <1>0, <2>1, <2>2, BisectionFindsTheJump
  <2> QED
    BY <1>0, <1>1, <1>2, <1>4, <2>2, <2>3 DEF FirstAt
<1> QED
  BY <1>3, <1>4

LEMMA FirstIsFirst ==
    ASSUME NEW z \in Zones, NEW x \in Int
    PROVE  /\ FirstAt(z, x) \in Int
           /\ Local(z, FirstAt(z, x)) >= x
           /\ \A t \in Int : Local(z, t) >= x => FirstAt(z, x) <= t
           /\ \A y \in Int : x <= y => FirstAt(z, x) <= FirstAt(z, y)
BY ZonesTyped DEF FirstAt, Local, Offset
\* The local date of an instant, and the multiples of a day.
LEMMA LocalDates ==
    ASSUME NEW n \in Int
    PROVE  /\ n \div Day \in Int
           /\ (n \div Day) * Day <= n /\ n < (n \div Day) * Day + Day
BY DayAssumption

\* The next run is the first of any local date, its own and the next one are looked at:
\* neither does an earlier date come later, for runs are in the order of their local times,
\* nor is the one of the next date past, for no local date begins twice (next_daily_run).
LEMMA NextDailyRunIsNext ==
    ASSUME NEW z \in Zones, NEW w \in 0..(Day - 1), NEW current \in Int
    PROVE  \E d \in Int :
              /\ d = Local(z, current) \div Day \/ d = Local(z, current) \div Day + 1
              /\ NextDailyRun(z, w, current) = FirstAt(z, d * Day + w)
              /\ NextDailyRun(z, w, current) > current
              /\ \A e \in Int : FirstAt(z, e * Day + w) > current =>
                                    NextDailyRun(z, w, current) <= FirstAt(z, e * Day + w)
<1>0. z.at \in Nat /\ z.before \in Int /\ z.after \in Int /\ Day \in Nat \ {0} /\ w \in Int
  BY ZonesTyped, DayAssumption
<1>1. PICK l \in Int : l = Local(z, current)
  BY <1>0 DEF Local, Offset
<1>2. PICK d \in Int : d = l \div Day /\ d * Day <= l /\ l < d * Day + Day
  BY <1>1, LocalDates
<1> DEFINE Run(e) == FirstAt(z, e * Day + w)
<1>3. \A e \in Int : e * Day \in Int /\ (e + 1) * Day = e * Day + Day
  BY <1>0
<1>4. \A e, f \in Int : e <= f => e * Day <= f * Day
  <2> TAKE e, f \in Int
  <2> HAVE e <= f
  <2>1. PICK n \in Nat : n = f - e
    OBVIOUS
  <2>2. f * Day = e * Day + n * Day /\ n * Day \in Nat
    BY <1>0, <2>1
  <2> QED
    BY <1>3, <2>2
<1>5. \A e \in Int : e * Day + w \in Int /\ Run(e) \in Int
  BY <1>0, <1>3, FirstIsFirst
<1>6. \A e, f \in Int : e <= f => Run(e) <= Run(f)
  <2> TAKE e, f \in Int
  <2> HAVE e <= f
  <2>1. PICK x \in Int, y \in Int : x = e * Day + w /\ y = f * Day + w /\ x <= y
    BY <1>0, <1>3, <1>4
  <2> QED
    BY <2>1, FirstIsFirst
<1>7. NextDailyRun(z, w, current) = IF Run(d) <= current THEN Run(d + 1) ELSE Run(d)
  <2>1. LocalDailyInstant(z, d, w) = Run(d) /\ LocalDailyInstant(z, d + 1, w) = Run(d + 1)
    BY <1>0, <1>2, RunsAtFirst
  <2> QED
    BY <1>1, <1>2, <2>1 DEF NextDailyRun
<1>8. Run(d - 1) <= current
  <2>1. PICK x \in Int : x = (d - 1) * Day + w
    BY <1>5
  <2>2. x <= l
    BY <1>0, <1>2, <1>3, <2>1
  <2> QED
    BY <1>1, <2>1, <2>2, FirstIsFirst
<1>9. Run(d + 1) > current
  <2> SUFFICES ASSUME Run(d + 1) <= current PROVE FALSE
    BY <1>5
  <2>1. PICK m \in Int : m = (d + 1) * Day
    BY <1>3
  <2>2. m % Day = 0
    BY <1>0, <2>1
  <2>3. l < m
    BY <1>2, <1>3, <2>1
  <2>4. FirstAt(z, m + w) <= current /\ Local(z, FirstAt(z, m + w)) >= m + w /\ m + w \in Int
    BY <1>0, <2>1, FirstIsFirst
  <2>5. z.at + z.after < m /\ m < z.at + z.before
    BY <1>0, <1>1, <2>3, <2>4 DEF FirstAt, Local, Offset
  <2>6. m \in (z.at + z.after + 1)..(z.at + z.before - 1)
    BY <1>0, <2>5
  <2> QED
    BY <2>2, <2>6, ZoneAssumption
<1> HIDE DEF Run
<1>10. CASE Run(d) <= current
  <2>1. \A e \in Int : Run(e) > current => Run(d + 1) <= Run(e)
    <3> SUFFICES ASSUME NEW e \in Int, Run(e) > current PROVE Run(d + 1) <= Run(e)
      OBVIOUS
    <3>1. ~(e <= d)
      BY <1>5, <1>6, <1>10
    <3> QED
      BY <1>6, <3>1
  <2> QED
    BY <1>1, <1>2, <1>7, <1>9, <1>10, <2>1 DEF Run
<1>11. CASE ~(Run(d) <= current)
  <2>1. \A e \in Int : Run(e) > current => Run(d) <= Run(e)
    <3> SUFFICES ASSUME NEW e \in Int, Run(e) > current PROVE Run(d) <= Run(e)
      OBVIOUS
    <3>1. ~(e <= d - 1)
      BY <1>5, <1>6, <1>8
    <3> QED
      BY <1>6, <3>1
  <2>2. Run(d) > current
    BY <1>5, <1>11
  <2> QED
    BY <1>1, <1>2, <1>7, <1>11, <2>1, <2>2 DEF Run
<1> QED
  BY <1>10, <1>11

\* The minimum of a set that has a least member.
LEMMA MinIsLeast ==
    ASSUME NEW S \in SUBSET Int, NEW m \in S, \A t \in S : m <= t
    PROVE  T!Min(S) = m
<1> DEFINE Least(x) == \A t \in S : x <= t
           least == CHOOSE x \in S : Least(x)
<1>1. T!Min(S) = least
  BY DEF T!Min
<1>2. \E x \in S : Least(x)
  OBVIOUS
<1> HIDE DEF Least
<1>3. least \in S /\ Least(least)
  BY <1>2
<1> HIDE DEF least
<1>4. least <= m /\ m <= least /\ least \in Int /\ m \in Int
  BY <1>3 DEF Least
<1> QED
  BY <1>1, <1>4

\* The occurrence of a date that a run can aim at is found among the instants that are
\* looked at, for an offset is less than a day.
LEMMA OccurrencesAreFirst ==
    ASSUME NEW z \in Zones, NEW w \in 0..(Day - 1), NEW d \in -1..(Horizon \div Day + 3)
    PROVE  T!Occurrence(z, w, d) = FirstAt(z, d * Day + w)
<1>0. /\ z.at \in Nat /\ z.before \in Int /\ z.after \in Int /\ Day \in Nat \ {0} /\ w \in Int
      /\ Horizon \in Nat
      /\ -Day < z.before /\ z.before < Day /\ -Day < z.after /\ z.after < Day
  BY ZonesTyped, DayAssumption, OffsetAssumption, BoundsAssumption
<1>1. PICK h \in Int : h = Horizon \div Day /\ h * Day <= Horizon
  BY <1>0, LocalDates
<1>2. PICK x \in Int : x = d * Day + w
  BY <1>0, <1>1
<1>3. -Day <= x /\ x < Horizon + 4 * Day
  <2>1. d \in Int /\ -1 <= d /\ d <= h + 3
    BY <1>1
  <2>2. PICK m \in Nat, n \in Nat : m = d + 1 /\ n = h + 3 - d
    BY <2>1
  <2>3. m * Day \in Nat /\ n * Day \in Nat
    BY <1>0
  <2>4. m * Day = d * Day + Day /\ n * Day = h * Day + 3 * Day - d * Day
    BY <1>0, <2>1, <2>2
  <2>5. d * Day \in Int /\ h * Day \in Int
    BY <1>0, <2>1
  <2> QED
    BY <1>0, <1>1, <1>2, <2>3, <2>4, <2>5
<1> DEFINE f == FirstAt(z, x)
           instants == {t \in (-2 * Day)..(Horizon + 5 * Day) : Local(z, t) >= x}
<1>4. f \in (-2 * Day)..(Horizon + 5 * Day)
  BY <1>0, <1>3 DEF FirstAt
<1>5. f \in instants /\ \A t \in instants : f <= t
  BY <1>0, <1>4, FirstIsFirst
<1>6. instants \subseteq Int
  BY <1>0
<1>7. T!Occurrence(z, w, d) = T!Min(instants)
  BY <1>2 DEF T!Occurrence, T!Local, T!Offset, Local, Offset
<1> HIDE DEF f, instants
<1>8. T!Min(instants) = f
  BY <1>5, <1>6, MinIsLeast
<1> QED
  BY <1>2, <1>7, <1>8 DEF f

\* The daily arithmetic of the instance.
LEMMA SameDailyRun ==
    ASSUME NEW z, NEW w, NEW current
    PROVE  T!NextDailyRun(z, w, current) = NextDailyRun(z, w, current)
BY DEF T!NextDailyRun, NextDailyRun, T!LocalDailyInstant, LocalDailyInstant, T!Local, Local,
       T!Offset, Offset, T!Instant, Instant, T!FoldOffset, FoldOffset, T!Latest, Latest,
       T!Earliest, Earliest, T!OffsetChangeInstant, OffsetChangeInstant, T!Spans, Spans,
       T!Half, Half, T!Ticks, Ticks

\* The target of a daily schedule is what was calculated when it was asked for.
DailyInv ==
    timetable.cadence = "daily" =>
        /\ timetable.zone \in Zones /\ timetable.wall \in 0..(Day - 1)
        /\ clock \in 0..Horizon /\ asked \in 0..clock
        /\ target = NextDailyRun(timetable.zone, timetable.wall, asked)

LEMMA DailyStarts == MCInit => DailyInv
<1> SUFFICES ASSUME MCInit, timetable.cadence = "daily" PROVE DailyInv
  BY DEF DailyInv
<1>1. timetable.zone \in Zones /\ timetable.wall \in 0..(Day - 1)
  BY DEF MCInit, T!Init, T!Schedules
<1>2. clock = 0 /\ asked = 0 /\ target = NextDailyRun(timetable.zone, timetable.wall, 0)
  BY SameDailyRun DEF MCInit, T!Init
<1> QED
  BY <1>1, <1>2, BoundsAssumption DEF DailyInv

LEMMA DailyKeeps == DailyInv /\ [MCNext]_allVars => DailyInv'
<1> SUFFICES ASSUME DailyInv, [T!Next]_(T!vars), timetable'.cadence = "daily"
             PROVE  DailyInv'
  BY DEF DailyInv, MCNext, InCron, InTargets, InDeclared, InBacklog, allVars, targetVars, T!vars
<1>1. timetable' = timetable
  BY DEF T!Next, T!Tick, T!Claim, T!Record, T!RecordScheduled, T!RecordRunNow, T!Acknowledged, T!vars
<1>2. /\ timetable.zone \in Zones /\ timetable.wall \in 0..(Day - 1)
      /\ clock \in 0..Horizon /\ asked \in 0..clock /\ Horizon \in Nat
      /\ target = NextDailyRun(timetable.zone, timetable.wall, asked)
  BY <1>1, BoundsAssumption DEF DailyInv
<1>3. CASE T!RecordScheduled
  <2>1. /\ target' = NextDailyRun(timetable.zone, timetable.wall, clock) /\ asked' = clock
        /\ clock' = clock
    BY <1>1, <1>3, SameDailyRun DEF T!RecordScheduled, T!Acknowledged, T!NextRun
  <2> QED
    BY <1>1, <1>2, <2>1 DEF DailyInv
<1>4. CASE T!Tick \/ T!Claim \/ T!RecordRunNow \/ UNCHANGED T!vars
  <2>1. clock' \in 0..Horizon /\ clock <= clock' /\ UNCHANGED <<target, asked>>
    BY <1>2, <1>4 DEF T!Tick, T!Claim, T!RecordRunNow, T!Acknowledged, T!vars
  <2> QED
    BY <1>1, <1>2, <2>1 DEF DailyInv
<1> QED
  BY <1>3, <1>4 DEF T!Next, T!Record

LEMMA DailyIsNext == DailyInv => T!DailyIsNextOccurrence
<1> SUFFICES ASSUME DailyInv, timetable.cadence = "daily" PROVE T!DailyIsNextOccurrence
  BY DEF T!DailyIsNextOccurrence
<1>1. PICK z \in Zones, w \in 0..(Day - 1) : z = timetable.zone /\ w = timetable.wall
  BY DEF DailyInv
<1>2. /\ asked \in Nat /\ asked <= Horizon /\ target = NextDailyRun(z, w, asked)
      /\ Horizon \in Nat /\ Day \in Nat \ {0}
  BY <1>1, BoundsAssumption, DayAssumption DEF DailyInv
<1> DEFINE Dates == -1..(Horizon \div Day + 3)
           Run(d) == FirstAt(z, d * Day + w)
           coming == {t \in {T!Occurrence(z, w, d) : d \in Dates} : t > asked}
<1>3. PICK d \in Int :
        /\ d = Local(z, asked) \div Day \/ d = Local(z, asked) \div Day + 1
        /\ target = Run(d) /\ target > asked
        /\ \A e \in Int : Run(e) > asked => target <= Run(e)
  <2>1. asked \in Int
    BY <1>2
  <2>2. PICK d \in Int :
          /\ d = Local(z, asked) \div Day \/ d = Local(z, asked) \div Day + 1
          /\ NextDailyRun(z, w, asked) = FirstAt(z, d * Day + w)
          /\ NextDailyRun(z, w, asked) > asked
          /\ \A e \in Int : FirstAt(z, e * Day + w) > asked =>
                                NextDailyRun(z, w, asked) <= FirstAt(z, e * Day + w)
    BY <2>1, NextDailyRunIsNext, Zenon
  <2> QED
    BY <1>2, <2>2
<1>4. d \in Dates
  <2>1. PICK l \in Int : l = Local(z, asked) /\ -Day < l /\ l < Horizon + Day
    BY <1>2, ZonesTyped, OffsetAssumption DEF Local, Offset
  <2>2. PICK q \in Int : q = l \div Day /\ q * Day <= l /\ l < q * Day + Day
    BY <2>1, LocalDates
  <2>3. PICK h \in Int : h = Horizon \div Day /\ h * Day <= Horizon /\ Horizon < h * Day + Day
    BY <1>2, LocalDates
  <2>4. -1 <= q
    <3> SUFFICES ASSUME q <= -2 PROVE FALSE
      OBVIOUS
    <3>1. PICK n \in Nat : n = -2 - q
      OBVIOUS
    <3>2. n * Day = -2 * Day - q * Day /\ n * Day \in Nat
      BY <1>2, <3>1
    <3>3. q * Day \in Int
      BY <1>2
    <3> QED
      BY <1>2, <2>1, <2>2, <3>2, <3>3
  <2>5. q <= h + 1
    <3> SUFFICES ASSUME q >= h + 2 PROVE FALSE
      OBVIOUS
    <3>1. PICK n \in Nat : n = q - h - 2
      OBVIOUS
    <3>2. n * Day = q * Day - h * Day - 2 * Day /\ n * Day \in Nat
      BY <1>2, <3>1
    <3>3. q * Day \in Int /\ h * Day \in Int
      BY <1>2
    <3> QED
      BY <1>2, <2>1, <2>2, <2>3, <3>2, <3>3
  <2>6. d = q \/ d = q + 1
    BY <1>3, <2>1, <2>2
  <2> QED
    BY <2>3, <2>4, <2>5, <2>6
<1> HIDE DEF Run
<1>5. \A e \in Dates : e \in Int /\ T!Occurrence(z, w, e) = Run(e) /\ Run(e) \in Int
  <2> SUFFICES ASSUME NEW e \in Dates PROVE e \in Int /\ T!Occurrence(z, w, e) = Run(e) /\ Run(e) \in Int
    OBVIOUS
  <2>1. e \in Int /\ e * Day + w \in Int
    BY <1>2
  <2> QED
    BY <2>1, OccurrencesAreFirst, FirstIsFirst DEF Run
<1> HIDE DEF Dates
<1>6. target \in coming /\ \A t \in coming : target <= t
  BY <1>3, <1>4, <1>5
<1>7. coming \subseteq Int
  BY <1>5
<1> HIDE DEF coming
<1>8. target = T!Min(coming)
  BY <1>6, <1>7, MinIsLeast
<1> QED
  BY <1>1, <1>8 DEF T!DailyIsNextOccurrence, coming, Dates

\* The target of a daily schedule is the first occurrence of any local date that was still
\* to come when it was calculated, whichever way the offset of the zone changes and however
\* late the last run was acknowledged (next_daily_run); with the above, targets are kept.
THEOREM TargetsStayKept == MCSpec => []TargetsAreKept
<1>1. MCSpec => []DailyInv
  BY DailyStarts, DailyKeeps, PTL DEF MCSpec
<1>2. DailyInv /\ T!IntervalStaysAnchored => TargetsAreKept
  BY DailyIsNext DEF TargetsAreKept
<1> QED
  BY <1>1, <1>2, IntervalsStayAnchored, PTL
==============================================================================
