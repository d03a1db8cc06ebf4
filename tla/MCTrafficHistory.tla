-------------------------- MODULE MCTrafficHistory --------------------------
(* Small instances of TrafficHistory for TLC: hours of two units, days of    *)
(* four hours, weeks of two days.                                          *)
EXTENDS TrafficHistory

MCInstants == -3 .. 30
MCClock    == 11 .. 22

Fixed(offset) == [t \in MCInstants |-> offset]

\* The offset changes at the given instant.
Shift(at, before, after) == [t \in MCInstants |-> IF t < at THEN before ELSE after]

\* An hour and a half east and west of Greenwich; an hour put forward at the
\* full hour, as in spring, but not over midnight.
PlainZones  == {Fixed(3), Fixed(-3), Shift(18, 0, 2), Shift(17, 1, 3)}

ASSUME PlainAreWhole == \A z \in PlainZones : NeverBack(z) /\ WholeHours(z) /\ WholeDays(z)

\* An hour put back at the full hour, as in autumn.
RepeatZones == {Shift(18, 2, 0)}

DeviceSymmetry == Permutations(Devices)
=============================================================================
