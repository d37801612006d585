----------------------------- MODULE Schedules -----------------------------
(***************************************************************************)
(* The target of one schedule of src/src/enoch/cron.py.  When it has come, *)
(* at any time after, a sweep claims the occurrence; when its task is      *)
(* durable, again at any time after, the claim is acknowledged and the     *)
(* schedule gets its next target, by the arithmetic of Calendar.  A claim  *)
(* of a run-now request leaves the target as it is, even when it came      *)
(* meanwhile.  What sweeps do with their claims is modelled in Cron.       *)
(***************************************************************************)
EXTENDS Calendar, FiniteSetsExt

CONSTANTS Horizon     \* bound: the last instant of the clock

VARIABLES schedule,   \* its cadence, with the zone and local time or the interval
          clock,
          target,     \* next_run_at
          claim,      \* the kind of the claim, none without one, and its claim_scheduled_for
          asked,      \* ghost: when the target was calculated
          first       \* ghost: the first target

vars == <<schedule, clock, target, claim, asked, first>>

-----------------------------------------------------------------------------

Schedules ==
    [cadence : {"daily"}, zone : Zones, wall : 0..(Day - 1)]
        \cup [cadence : {"interval"}, seconds : Intervals]

NoClaim == [kind |-> "none", for |-> 0]

\* _next_run: the target after now, on the grid of the claimed one if it is an interval's.
NextRun(current) ==
    IF schedule.cadence = "daily"
    THEN NextDailyRun(schedule.zone, schedule.wall, current)
    ELSE NextIntervalRun(claim.for, schedule.seconds, current)

\* add_cron_job, at the start of the clock.
Init ==
    /\ schedule \in Schedules
    /\ clock = 0 /\ asked = 0
    /\ target = IF schedule.cadence = "daily"
                THEN NextDailyRun(schedule.zone, schedule.wall, 0)
                ELSE schedule.seconds
    /\ first = target
    /\ claim = NoClaim

Tick ==
    /\ clock < Horizon
    /\ clock' = clock + 1
    /\ UNCHANGED <<schedule, target, claim, asked, first>>

\* claim_due_cron_jobs: what is due is claimed for its target, else a request to run now,
\* which may be there at any time (the time of such a claim is only reported).
Claim ==
    /\ claim = NoClaim
    /\ claim' = IF target <= clock THEN [kind |-> "scheduled", for |-> target]
                                  ELSE [kind |-> "run-now", for |-> 0]
    /\ UNCHANGED <<schedule, clock, target, asked, first>>

Acknowledged ==
    /\ claim # NoClaim
    /\ claim' = NoClaim
    /\ UNCHANGED <<schedule, clock, first>>

\* record_cron_task, for each kind of claim.
RecordScheduled ==
    /\ claim.kind = "scheduled"
    /\ Acknowledged
    /\ target' = NextRun(clock)
    /\ asked' = clock

RecordRunNow ==
    /\ claim.kind = "run-now"
    /\ Acknowledged
    /\ UNCHANGED <<target, asked>>

Record == RecordScheduled \/ RecordRunNow

Next == Tick \/ Claim \/ Record

Spec == Init /\ [][Next]_vars

-----------------------------------------------------------------------------
(* Properties.                                                             *)

\* When the occurrence that local date d intends runs: as soon as the local
\* time has come or been jumped over.
Occurrence(z, w, d) == Min({t \in (-2 * Day)..(Horizon + 5 * Day) : Local(z, t) >= d * Day + w})

\* The target of a daily schedule is the first occurrence of any local date
\* that was still to come when it was calculated: none is skipped, repeated or
\* moved, across both kinds of offset change (next_daily_run, which looks at
\* two dates only, and is asked when the claim of the last one is acknowledged).
DailyIsNextOccurrence ==
    schedule.cadence = "daily" =>
        target = Min({t \in {Occurrence(schedule.zone, schedule.wall, d) :
                                 d \in -1..(Horizon \div Day + 3)} : t > asked})

\* An interval schedule stays on its grid and never aims further than one
\* interval ahead, nor at the past, however late its runs were
\* claimed and acknowledged.
IntervalStaysAnchored ==
    schedule.cadence = "interval" =>
        /\ (target - first) % schedule.seconds = 0
        /\ target > asked /\ target <= asked + schedule.seconds
=============================================================================
