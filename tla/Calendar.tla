------------------------------ MODULE Calendar ------------------------------
(***************************************************************************)
(* Occurrence arithmetic of src/src/enoch/schedules.py: the next target of *)
(* an interval schedule, and of a daily one in a zone whose offset to UTC  *)
(* changes once.                                                           *)
(*                                                                         *)
(* Instants are seconds of UTC and a day has Day of them.  A local time is *)
(* one number too, the seconds since the start of local date 0.            *)
(***************************************************************************)
EXTENDS Integers

CONSTANTS Day,        \* length of a local day
          Zones,      \* zones: the instant at of the jump, the offsets before and after
          Intervals

ASSUME DayAssumption == Day \in Nat \ {0}
ASSUME IntervalAssumption == Intervals \subseteq Nat \ {0}

\* The calendar is assumed to fall back from midnight at the latest: no local
\* date begins twice.  (Zones that fell back across midnight are history.)
ASSUME ZoneAssumption ==
    \A z \in Zones :
        /\ z.at \in Nat /\ z.before \in Int /\ z.after \in Int
        /\ \A m \in (z.at + z.after + 1)..(z.at + z.before - 1) : m % Day # 0

\* An offset is less than a day either way, as datetime demands of utcoffset.
ASSUME OffsetAssumption ==
    \A z \in Zones : -Day < z.before /\ z.before < Day /\ -Day < z.after /\ z.after < Day

-----------------------------------------------------------------------------
(* zoneinfo: local times of instants and instants of local times.          *)

Offset(z, t) == IF t < z.at THEN z.before ELSE z.after

Local(z, t) == t + Offset(z, t)

Latest(a, b) == IF a > b THEN a ELSE b
Earliest(a, b) == IF a < b THEN a ELSE b

\* A local time that happens twice or never is read with one of two offsets.
FoldOffset(z, local, fold) ==
    LET threshold == IF fold = 0 THEN Latest(z.before, z.after) ELSE Earliest(z.before, z.after)
    IN  IF local < z.at + threshold THEN z.before ELSE z.after

Instant(z, local, fold) == local - FoldOffset(z, local, fold)

-----------------------------------------------------------------------------
(* schedules.py.                                                           *)

\* Fractions of a second, which the bisection meets.
Ticks == 8

\* The spans that bisection is about: they begin with the offset and end with another.
Spans(z, offset) ==
    {p \in Int \X Int : Offset(z, p[1] \div Ticks) = offset /\ Offset(z, p[2] \div Ticks) # offset}

\* The half in which the offset changes.
Half(z, offset, p) ==
    LET middle == (p[1] + p[2]) \div 2
    IN  IF Offset(z, middle \div Ticks) = offset THEN <<middle, p[2]>> ELSE <<p[1], middle>>

\* _offset_change_instant, in ticks: the end of a span of a second at most.
OffsetChangeInstant(z, before, after) ==
    LET offset == Offset(z, before)
        bisect[p \in Spans(z, offset)] ==
            IF p[2] - p[1] <= Ticks THEN p[2] \div Ticks ELSE bisect[Half(z, offset, p)]
    IN  bisect[<<before * Ticks, after * Ticks>>]

LocalDailyInstant(z, date, w) ==
    LET local == date * Day + w
        instant == Instant(z, local, 0)
    IN  IF Local(z, instant) = local
        THEN instant
        ELSE OffsetChangeInstant(z, Instant(z, local, 1), instant)

NextDailyRun(z, w, current) ==
    LET date == Local(z, current) \div Day
        today == LocalDailyInstant(z, date, w)
    IN  IF today <= current THEN LocalDailyInstant(z, date + 1, w) ELSE today

\* Fault: the next target is reckoned from now on.
NextIntervalRun_Drifting(scheduled, seconds, current) == current + seconds

\* The first target on the anchored grid after current, missed ones skipped.
NextIntervalRun(scheduled, seconds, current) ==
    LET candidate == scheduled + seconds
    IN  IF candidate > current
        THEN candidate
        ELSE candidate + ((current - candidate) \div seconds + 1) * seconds
=============================================================================
