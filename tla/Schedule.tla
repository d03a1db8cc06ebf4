------------------------------ MODULE Schedule ------------------------------
(***************************************************************************)
(* When a scheduled rule is in force: is_rule_active (policy.rs 713-737)   *)
(* on the local wall clock, with the slots parse_time_slot accepts.        *)
(***************************************************************************)
EXTENDS Integers

CONSTANT Day  \* minutes in a day, 1440

ASSUME DayIsPositive == Day \in Nat \ {0}

Weekdays == 1 .. 7
Minutes  == 0 .. (Day - 1)
Week     == 7 * Day

(* parse_time_slot: both ends within a day, at least one weekday; a slot    *)
(* whose start is after its end runs over midnight.                         *)
Slot == [start : Minutes, end : Minutes, days : SUBSET Weekdays \ {{}}]

(* Mutation of PreviousDay: the week does not wrap.                        *)
PreviousDayUnwrapped(d) == d - 1

PreviousDay(d) == IF d = 1 THEN 7 ELSE d - 1
NextDay(d)     == IF d = 7 THEN 1 ELSE d + 1

(* Mutation of RuleActive: past midnight it asks for the new day.          *)
RuleActiveToday(slot, weekday, minute) ==
  /\ weekday \in slot.days
  /\ IF slot.start <= slot.end THEN slot.start <= minute /\ minute <= slot.end
                              ELSE slot.start <= minute \/ minute <= slot.end

(* Past midnight the slot still belongs to the day it began on.            *)
RuleActive(slot, weekday, minute) ==
  IF slot.start <= slot.end
    THEN weekday \in slot.days /\ slot.start <= minute /\ minute <= slot.end
    ELSE \/ slot.start <= minute /\ weekday \in slot.days
         \/ minute < slot.start /\ minute <= slot.end /\ PreviousDay(weekday) \in slot.days

-----------------------------------------------------------------------------
(* What a slot means, stated on the cycle of the week: on each of its days  *)
(* an occurrence begins, and lasts up to and including the end minute.      *)

Span(slot) == IF slot.start <= slot.end THEN slot.end - slot.start
                                        ELSE Day - slot.start + slot.end

Instant(weekday, minute) == (weekday - 1) * Day + minute

Elapsed(from, to) == IF to >= from THEN to - from ELSE Week + to - from

InOccurrence(slot, weekday, minute) ==
  \E d \in slot.days :
    Elapsed(Instant(d, slot.start), Instant(weekday, minute)) <= Span(slot)

-----------------------------------------------------------------------------
(* The clock of the collector, which evaluates every rule once a second.    *)

VARIABLES slot, weekday, minute

scheduleVars == <<slot, weekday, minute>>

(* Types, for the proofs.                                                  *)
ScheduleTypeOK == slot \in Slot /\ weekday \in Weekdays /\ minute \in Minutes

ScheduleInit == slot \in Slot /\ weekday \in Weekdays /\ minute \in Minutes

Tick ==
  /\ IF minute = Day - 1 THEN minute' = 0 /\ weekday' = NextDay(weekday)
                         ELSE minute' = minute + 1 /\ UNCHANGED weekday
  /\ UNCHANGED slot

(* The rule is edited (update_scheduled_rule).                             *)
Edit == slot' \in Slot /\ UNCHANGED <<weekday, minute>>

ScheduleNext == Tick \/ Edit

ScheduleSpec == ScheduleInit /\ [][ScheduleNext]_scheduleVars

(* A rule is in force exactly during its occurrences, the Sunday night one  *)
(* that ends on Monday included.                                            *)
ActiveInOccurrences == RuleActive(slot, weekday, minute) <=> InOccurrence(slot, weekday, minute)

(* While nobody edits it, a rule comes into force only at its start minute  *)
(* on one of its days, and goes out of force only just after its end.       *)
SwitchesAtItsEnds ==
  [][ slot' = slot =>
      /\ ~ RuleActive(slot, weekday, minute) /\ RuleActive(slot, weekday', minute')
           => minute' = slot.start /\ weekday' \in slot.days
      /\ RuleActive(slot, weekday, minute) /\ ~ RuleActive(slot, weekday', minute')
           => minute = slot.end ]_scheduleVars
=============================================================================
