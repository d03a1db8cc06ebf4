----------------------------- MODULE LocalHours -----------------------------
(***************************************************************************)
(* The hours and days traffic is accounted by are those of the local clock *)
(* (monitor.rs hourly_bucket_local, daily_bucket_local), and so are the    *)
(* periods it is asked for (api.rs period_range_ms).  A zone with daylight *)
(* saving puts the local clock forward and back.                           *)
(*                                                                         *)
(* A zone gives each instant the offset of local time.  The conversion of  *)
(* an instant to local time always succeeds; the way back, which the       *)
(* functions take with unwrap(), has no result where the local clock was   *)
(* put forward and two where it was put back, and unwrap() panics then.    *)
(***************************************************************************)
EXTENDS Integers, FiniteSets

CONSTANTS
  HourLength,  \* clock units in an hour
  DayHours,    \* hours in a day, 24
  WeekDays,    \* days in a week, 7
  Instants,    \* the instants zones are defined on
  Clock,       \* those the service sees, a week away from the first and the last
  Zones        \* the zones considered: functions from Instants to offsets

ASSUME LocalHoursConstants ==
  /\ HourLength \in Nat \ {0} /\ DayHours \in Nat \ {0} /\ WeekDays \in Nat \ {0}
  /\ Instants \subseteq Int /\ IsFiniteSet(Instants) /\ Clock \subseteq Instants
  /\ Zones \subseteq [Instants -> Int]

DayLength  == DayHours * HourLength
WeekLength == WeekDays * DayLength

VARIABLE zone  \* the time zone of the host

-----------------------------------------------------------------------------
(* Local.timestamp_millis_opt, and Local.from_local_datetime.              *)
LocalTime(t) == t + zone[t]

FromLocal(local) == {t \in Instants : LocalTime(t) = local}

Converts(local) == Cardinality(FromLocal(local)) = 1

Instant(local) == CHOOSE t \in FromLocal(local) : TRUE

(* The first and the last unit of the local period of a length around t.   *)
PeriodStart(t, length) == LocalTime(t) - (LocalTime(t) % length)

(* Mutation of PeriodEnd: the first unit of the next period.               *)
PeriodEndOpen(t, length) == PeriodStart(t, length) + length

PeriodEnd(t, length) == PeriodStart(t, length) + length - 1

Panics(t, length) == ~ (Converts(PeriodStart(t, length)) /\ Converts(PeriodEnd(t, length)))

BucketOf(t, length) ==
  [start |-> Instant(PeriodStart(t, length)), end |-> Instant(PeriodEnd(t, length))]

HourlyBucket(t) == BucketOf(t, HourLength)
DailyBucket(t)  == BucketOf(t, DayLength)

(* The start of the day, the week or, likewise, the month and the year.     *)
ScopeStart(t, length) == Instant(PeriodStart(t, length))

-----------------------------------------------------------------------------
(* Kinds of zones, for the properties that depend on the zone.             *)

(* The local clock is never put back.                                      *)
NeverBack(z) == \A t, u \in Instants : t < u => t + z[t] < u + z[u]

(* The offset changes at the full hour of the local clock only.             *)
WholeHours(z) ==
  \A t \in Clock, k \in 0 .. HourLength - 1 :
    LET u == t - ((t + z[t]) % HourLength) + k IN u \in Instants /\ z[u] = z[t]

(* No midnight is skipped: days have a first and a last unit, weeks a first. *)
WholeDays(z) ==
  \A t \in Clock :
    LET Begins(length) == (t + z[t]) - ((t + z[t]) % length)
    IN  \A local \in {Begins(DayLength), Begins(DayLength) + DayLength - 1, Begins(WeekLength)} :
          \E u \in Instants : u + z[u] = local
=============================================================================
