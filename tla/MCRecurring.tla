----------------------------- MODULE MCRecurring -----------------------------
(***************************************************************************)
(* Work that comes back or waits: four components which share no state, of *)
(* which a behaviour runs one (part).  The others keep their first state.  *)
(***************************************************************************)
EXTENDS Calendar, Cron

CONSTANTS Parts,          \* the components that are checked
          Horizon,        \* of Schedules
          Declared, DeclaredKeys,                             \* of ExtensionSchedules
          MaxDeclaredTargets, MaxDeclaredFailures,
          MaxItems, MaxOthers, MaxFaults                      \* of Backlog

ASSUME BoundsAssumption ==
    /\ Horizon \in Nat
    /\ IsFiniteSet(DeclaredKeys) /\ MaxDeclaredTargets \in Nat /\ MaxDeclaredFailures \in Nat
    /\ MaxItems \in Nat /\ MaxOthers \in Nat /\ MaxFaults \in Nat

VARIABLES part,
          timetable, clock, target, claim, asked, first,
          declared, dTask, dSweep, dTargets, dClaims, refused, dFailures,
          item, iTask, actor, other, faults

targetVars == <<timetable, clock, target, claim, asked, first>>
declaredVars == <<declared, dTask, dSweep, dTargets, dClaims, refused, dFailures>>
backlogVars == <<item, iTask, actor, other, faults>>
allVars == <<part, vars, targetVars, declaredVars, backlogVars>>

T == INSTANCE Schedules WITH schedule <- timetable
D == INSTANCE ExtensionSchedules WITH
        Schedules <- Declared, Keys <- DeclaredKeys,
        MaxTargets <- MaxDeclaredTargets, MaxFailures <- MaxDeclaredFailures,
        schedule <- declared, task <- dTask, sweep <- dSweep, targets <- dTargets,
        claims <- dClaims, failures <- dFailures
B == INSTANCE Backlog WITH task <- iTask

\* Jumps of up to half a day, forward and back, at every instant of a day.
JumpInstants == 8..15
Offsets == {-2, 1}

MCZones ==
    {z \in [at : JumpInstants, before : Offsets, after : Offsets] :
        z.before # z.after /\ \A m \in (z.at + z.after + 1)..(z.at + z.before - 1) : m % Day # 0}

MCInit ==
    /\ part \in Parts
    /\ Init /\ T!Init /\ D!Init /\ B!Init
    /\ part # "targets" => timetable = CHOOSE s \in T!Schedules : TRUE

InCron(A) == part = "cron" /\ A /\ UNCHANGED <<part, targetVars, declaredVars, backlogVars>>
InTargets(A) == part = "targets" /\ A /\ UNCHANGED <<part, vars, declaredVars, backlogVars>>
InDeclared(A) == part = "declared" /\ A /\ UNCHANGED <<part, vars, targetVars, backlogVars>>
InBacklog(A) == part = "backlog" /\ A /\ UNCHANGED <<part, vars, targetVars, declaredVars>>

MCNext == InCron(Next) \/ InTargets(T!Next) \/ InDeclared(D!Next) \/ InBacklog(B!Next)

\* The fairness of the components; they are fair one at a time.
MCSpec ==
    /\ MCInit /\ [][MCNext]_allVars
    /\ \A t \in Threads : WF_allVars(InCron(Step(t)) \/ InDeclared(D!Step(t)))
    /\ WF_allVars(InCron(WorkerFinishes) \/ InDeclared(D!WorkerFinishes) \/ InBacklog(B!QueueStep))
    /\ WF_allVars(InBacklog(B!WorkerStep))

-----------------------------------------------------------------------------

\* The state of each component is well formed.
StatesAreTyped == TypeOK /\ D!TypeOK /\ B!TypeOK

\* Occurrences of cron and extension schedules: two of one cron are never in the queue
\* together, two of an extension schedule only after a refusal, and every one is owed to
\* a target time or a request of its own.
OccurrencesAreSound ==
    /\ StatesAreTyped
    /\ OccurrencesDoNotOverlap /\ D!OverlapNeedsRefusal
    /\ OccurrencesAreJustified /\ D!OccurrencesAreJustified

\* What the documentation says of extension schedules, see there.
OutstandingPreventsOverlap == D!OutstandingPreventsOverlap

\* A daily schedule aims at the next occurrence of its time, an interval stays on its
\* grid: see Schedules.
TargetsAreKept == T!DailyIsNextOccurrence /\ T!IntervalStaysAnchored

\* Claims, requests and backlog items are given up only for a task that exists, and an
\* item is worked on once: see Cron and Backlog.
WorkIsKept == NothingIsLost /\ B!PromotedOnce

\* What is due is served in spite of failures, and the backlog drains: see Cron,
\* ExtensionSchedules and Backlog.
DueWorkIsDone == DueIsServed /\ D!DueIsServed /\ B!BacklogDrains
=============================================================================
