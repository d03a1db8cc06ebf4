---------------------------- MODULE TrafficProofs ----------------------------
(***************************************************************************)
(* Proofs about the traffic counters (Counters) and the traffic history    *)
(* (TrafficHistory), for any number of CPUs and devices, every window of    *)
(* recent points and every zone.                                           *)
(***************************************************************************)
EXTENDS TrafficHistory, Counters, FiniteSetTheorems, TLAPS

-----------------------------------------------------------------------------
(* Remainders, as the local hours and days are made of them.               *)

LEMMA Quotient ==
  ASSUME NEW x \in Int, NEW m \in Nat \ {0}
  PROVE  x \div m \in Int /\ x % m \in Nat /\ x % m < m /\ x = m * (x \div m) + (x % m)
  BY SMT

LEMMA Multiples ==
  ASSUME NEW a \in Int, NEW m \in Nat \ {0}
  PROVE  m * a \in Int /\ (a >= 1 => m * a >= m) /\ (a <= -1 => m * a <= -m)
  BY SMT

LEMMA RemainderIs ==
  ASSUME NEW q \in Int, NEW m \in Nat \ {0}, NEW r \in Nat, r < m
  PROVE  (m * q + r) % m = r
<1> DEFINE x == m * q + r
           p == x \div m
           n == x % m
           d == q - p
<1>1. m * q \in Int /\ x \in Int
  BY Multiples
<1>2. p \in Int /\ n \in Nat /\ n < m /\ x = m * p + n
  <2> HIDE DEF x
  <2> QED BY <1>1, Quotient
<1>3. m * d = m * q - m * p /\ d \in Int
  <2> HIDE DEF x, n
  <2>1. p \in Int
    BY <1>2
  <2> HIDE DEF p
  <2> QED BY <2>1, SMT
<1>4. m * d = n - r /\ m * p \in Int
  <2>1. m * p \in Int
    <3> HIDE DEF p
    <3> QED BY <1>2, Multiples
  <2>2. x = m * q + r
    OBVIOUS
  <2> HIDE DEF x, p, n, d
  <2> QED BY <1>1, <1>2, <1>3, <2>1, <2>2
<1>5. d = 0
  <2> HIDE DEF x, p, n, d
  <2>1. ~ d >= 1 /\ ~ d <= -1
    BY <1>2, <1>3, <1>4, Multiples
  <2> QED BY <1>3, <2>1
<1>6. n = r
  <2> HIDE DEF x, p, n, d
  <2>1. m * d = 0
    BY <1>5
  <2> QED BY <1>2, <1>4, <2>1
<1> QED BY <1>6

LEMMA Remainder ==
  ASSUME NEW x \in Int, NEW m \in Nat \ {0}
  PROVE  /\ x % m \in Nat /\ x % m < m
         /\ x - (x % m) \in Int /\ (x - (x % m)) % m = 0
<1> DEFINE q == x \div m
           r == x % m
           y == m * q
<1>1. q \in Int /\ r \in Nat /\ r < m /\ x = y + r
  BY Quotient
<1> HIDE DEF q
<1>2. y \in Int /\ (y + 0) % m = 0
  BY <1>1, Multiples, RemainderIs
<1> HIDE DEF y, r
<1>3. x - r = y + 0 /\ x - r \in Int
  BY <1>1, <1>2
<1>4. (x - r) % m = 0
  BY <1>2, <1>3, Zenon
<1> QED BY <1>1, <1>3, <1>4 DEF r

LEMMA RemainderWithin ==
  ASSUME NEW x \in Int, NEW m \in Nat \ {0}, NEW k \in Nat, k < m, x % m = 0
  PROVE  (x + k) % m = k
<1>1. x \div m \in Int /\ x = m * (x \div m) + 0
  BY Quotient
<1>2. (m * (x \div m) + k) % m = k
  BY <1>1, RemainderIs
<1>3. m * (x \div m) \in Int
  BY <1>1, Multiples
<1>4. x + k = m * (x \div m) + k
  BY <1>1, <1>3
<1> QED BY <1>2, <1>4

(* Two multiples are a length apart.                                       *)
LEMMA Apart ==
  ASSUME NEW x \in Int, NEW y \in Int, NEW m \in Nat \ {0}, x % m = 0, y % m = 0, x < y
  PROVE  x + m <= y
<1> DEFINE p == x \div m
           q == y \div m
           d == q - p
<1>1. p \in Int /\ q \in Int /\ x = m * p /\ y = m * q
  BY Quotient, Multiples
<1> HIDE DEF p, q
<1>2. d \in Int /\ m * d = m * q - m * p /\ m * p \in Int /\ m * q \in Int
  BY <1>1, Multiples, SMT
<1> HIDE DEF d
<1>3. m * d = y - x
  BY <1>1, <1>2
<1>4. d >= 1
  <2>1. d # 0 /\ ~ d <= -1
    <3>1. d = 0 => m * d = 0
      BY SMT
    <3>2. d <= -1 => m * d <= -m
      BY <1>2, Multiples
    <3> QED BY <1>2, <1>3, <3>1, <3>2
  <2> QED BY <1>2, <2>1
<1>5. m * d >= m
  BY <1>2, <1>4, Multiples
<1> QED BY <1>2, <1>3, <1>5

(* A multiple of a multiple.                                               *)
LEMMA Coarser ==
  ASSUME NEW x \in Int, NEW m \in Nat \ {0}, NEW k \in Nat \ {0}, x % (k * m) = 0
  PROVE  x % m = 0
<1> DEFINE q == x \div (k * m)
<1>1. k * m \in Nat \ {0}
  BY SMT
<1>2. q \in Int /\ x = (k * m) * q
  <2>1. q \in Int /\ x = (k * m) * q + 0
    BY <1>1, Quotient
  <2> HIDE DEF q
  <2>2. (k * m) * q \in Int
    BY <1>1, <2>1, Multiples
  <2> QED BY <2>1, <2>2
<1> HIDE DEF q
<1> DEFINE p == k * q
<1>3. x = m * p /\ p \in Int
  BY <1>2, SMT
<1> HIDE DEF p
<1>4. (m * p + 0) % m = 0 /\ m * p \in Int
  BY <1>3, Multiples, RemainderIs
<1>5. x = m * p + 0
  BY <1>3, <1>4
<1> QED BY <1>4, <1>5, Zenon

-----------------------------------------------------------------------------
(* The local clock.                                                        *)

LEMMA LocalTypes ==
  ASSUME zone \in Zones
  PROVE  /\ HourLength \in Nat \ {0} /\ DayLength \in Nat \ {0} /\ WeekLength \in Nat \ {0}
         /\ Instants \subseteq Int /\ Clock \subseteq Instants /\ zone \in [Instants -> Int]
         /\ \A t \in Instants : LocalTime(t) \in Int /\ LocalTime(t) = t + zone[t]
<1>1. DayLength \in Nat \ {0}
  BY LocalHoursConstants, SMT DEF DayLength
<1>2. WeekLength \in Nat \ {0}
  BY LocalHoursConstants, <1>1, SMT DEF WeekLength
<1> QED BY LocalHoursConstants, <1>1, <1>2 DEF LocalTime

(* The period around an instant.                                           *)
LEMMA PeriodAround ==
  ASSUME zone \in Zones, NEW t \in Instants, NEW m \in Nat \ {0}
  PROVE  /\ PeriodStart(t, m) \in Int /\ PeriodStart(t, m) % m = 0
         /\ PeriodEnd(t, m) = PeriodStart(t, m) + m - 1
         /\ PeriodStart(t, m) <= LocalTime(t) /\ LocalTime(t) <= PeriodEnd(t, m)
<1>1. LocalTime(t) \in Int
  BY LocalTypes
<1>2. /\ LocalTime(t) % m \in Nat /\ LocalTime(t) % m < m
      /\ PeriodStart(t, m) \in Int /\ PeriodStart(t, m) % m = 0
  BY <1>1, Remainder DEF PeriodStart
<1>3. PeriodEnd(t, m) = PeriodStart(t, m) + m - 1
  BY DEF PeriodEnd, PeriodStart
<1> DEFINE r == LocalTime(t) % m
<1>4. PeriodStart(t, m) = LocalTime(t) - r
  BY DEF PeriodStart
<1> HIDE DEF r
<1>5. r \in Nat /\ r < m
  BY <1>2 DEF r
<1> QED BY <1>1, <1>2, <1>3, <1>4, <1>5

(* It is the only one: a multiple of the length that is not later, with the *)
(* instant less than a length away.                                        *)
LEMMA PeriodIs ==
  ASSUME zone \in Zones, NEW t \in Instants, NEW m \in Nat \ {0}, NEW l \in Int, l % m = 0,
         l <= LocalTime(t), LocalTime(t) <= l + m - 1
  PROVE  PeriodStart(t, m) = l
<1> DEFINE p == PeriodStart(t, m)
<1>1. p \in Int /\ p % m = 0 /\ p <= LocalTime(t) /\ LocalTime(t) <= p + m - 1
  BY PeriodAround
<1> HIDE DEF p
<1>2. LocalTime(t) \in Int
  BY LocalTypes
<1>3. p < l => p + m <= l
  BY <1>1, Apart
<1>4. l < p => l + m <= p
  BY <1>1, Apart
<1>5. p = l
  BY <1>1, <1>2, <1>3, <1>4
<1> QED BY <1>5 DEF p

(* Earlier periods start earlier.                                          *)
LEMMA PeriodsInOrder ==
  ASSUME zone \in Zones, NEW t \in Instants, NEW u \in Instants, NEW m \in Nat \ {0},
         LocalTime(t) <= LocalTime(u)
  PROVE  PeriodStart(t, m) <= PeriodStart(u, m)
<1>1. /\ PeriodStart(t, m) \in Int /\ PeriodStart(u, m) \in Int
      /\ PeriodStart(t, m) <= LocalTime(t) /\ LocalTime(u) <= PeriodStart(u, m) + m - 1
      /\ PeriodStart(t, m) % m = 0 /\ PeriodStart(u, m) % m = 0
  BY PeriodAround
<1>2. LocalTime(t) \in Int /\ LocalTime(u) \in Int
  BY LocalTypes
<1>3. PeriodStart(u, m) < PeriodStart(t, m) => PeriodStart(u, m) + m <= PeriodStart(t, m)
  BY <1>1, Apart
<1> QED BY <1>1, <1>2, <1>3

(* A local time that converts is shown at one instant.                     *)
LEMMA Conversion ==
  ASSUME zone \in Zones, NEW local, Converts(local)
  PROVE  /\ Instant(local) \in Instants /\ LocalTime(Instant(local)) = local
         /\ \A t \in Instants : LocalTime(t) = local => t = Instant(local)
<1>1. FromLocal(local) \subseteq Instants /\ IsFiniteSet(FromLocal(local))
  <2>1. FromLocal(local) \in SUBSET Instants
    BY DEF FromLocal
  <2> QED BY <2>1, FS_Subset, LocalHoursConstants
<1>2. PICK x : FromLocal(local) = {x}
  BY <1>1, FS_Singleton DEF Converts
<1>3. Instant(local) = x
  BY <1>2 DEF Instant
<1> QED BY <1>1, <1>2, <1>3 DEF FromLocal

(* When the clock is never put back, a local time that is shown converts.  *)
LEMMA ShownConverts ==
  ASSUME zone \in Zones, NeverBack(zone), NEW u \in Instants
  PROVE  Converts(LocalTime(u)) /\ Instant(LocalTime(u)) = u
<1>1. \A t \in Instants : LocalTime(t) = LocalTime(u) => t = u
  <2> SUFFICES ASSUME NEW t \in Instants, t # u PROVE LocalTime(t) # LocalTime(u)
    OBVIOUS
  <2>1. t \in Int /\ u \in Int /\ LocalTime(t) \in Int /\ LocalTime(u) \in Int
    BY LocalTypes
  <2>2. t < u => LocalTime(t) < LocalTime(u)
    BY DEF NeverBack, LocalTime
  <2>3. u < t => LocalTime(u) < LocalTime(t)
    BY DEF NeverBack, LocalTime
  <2> QED BY <2>1, <2>2, <2>3
<1>2. FromLocal(LocalTime(u)) = {u}
  BY <1>1 DEF FromLocal
<1>3. Converts(LocalTime(u))
  BY <1>2, FS_Singleton DEF Converts
<1> QED BY <1>2, <1>3 DEF Instant

(* Instants are in the order of what the clock shows.                      *)
LEMMA ClockOrder ==
  ASSUME zone \in Zones, NeverBack(zone), NEW t \in Instants, NEW u \in Instants
  PROVE  (t < u <=> LocalTime(t) < LocalTime(u)) /\ (t <= u <=> LocalTime(t) <= LocalTime(u))
<1>1. t \in Int /\ u \in Int /\ LocalTime(t) \in Int /\ LocalTime(u) \in Int
  BY LocalTypes
<1>2. t < u => LocalTime(t) < LocalTime(u)
  BY DEF NeverBack, LocalTime
<1>3. u < t => LocalTime(u) < LocalTime(t)
  BY DEF NeverBack, LocalTime
<1> QED BY <1>1, <1>2, <1>3

-----------------------------------------------------------------------------
(* Hours.                                                                  *)

EndOf(start) == Instant(LocalTime(start) + HourLength - 1)

(* An hour of the local clock that converts both ways starts here.          *)
IsHour(start) ==
  /\ start \in Instants /\ LocalTime(start) % HourLength = 0
  /\ Converts(LocalTime(start)) /\ Converts(LocalTime(start) + HourLength - 1)

LEMMA HourItself ==
  ASSUME zone \in Zones, NEW h, IsHour(h)
  PROVE  /\ HourlyBucket(h) = [start |-> h, end |-> EndOf(h)]
         /\ PeriodStart(h, HourLength) = LocalTime(h)
         /\ EndOf(h) \in Instants /\ LocalTime(EndOf(h)) = LocalTime(h) + HourLength - 1
<1>1. h \in Instants /\ HourLength \in Nat \ {0} /\ LocalTime(h) \in Int
  BY LocalTypes DEF IsHour
<1>2. PeriodStart(h, HourLength) = LocalTime(h)
  <2>1. LocalTime(h) <= LocalTime(h) + HourLength - 1 /\ LocalTime(h) <= LocalTime(h)
    BY <1>1
  <2> QED BY <1>1, <2>1, PeriodIs DEF IsHour
<1>3. PeriodEnd(h, HourLength) = LocalTime(h) + HourLength - 1
  BY <1>1, <1>2, PeriodAround
<1>4. Instant(LocalTime(h)) = h
  BY <1>1, Conversion DEF IsHour
<1>5. EndOf(h) \in Instants /\ LocalTime(EndOf(h)) = LocalTime(h) + HourLength - 1
  BY Conversion DEF IsHour, EndOf
<1> QED BY <1>2, <1>3, <1>4, <1>5 DEF HourlyBucket, BucketOf, EndOf

LEMMA HourAround ==
  ASSUME zone \in Zones, NEW t \in Instants, ~ Panics(t, HourLength)
  PROVE  LET h == HourlyBucket(t).start
         IN  IsHour(h) /\ LocalTime(h) = PeriodStart(t, HourLength)
<1> DEFINE l == PeriodStart(t, HourLength)
           h == HourlyBucket(t).start
<1>1. /\ HourLength \in Nat \ {0} /\ l \in Int /\ l % HourLength = 0
      /\ PeriodEnd(t, HourLength) = l + HourLength - 1
  BY LocalTypes, PeriodAround
<1>2. Converts(l) /\ Converts(l + HourLength - 1)
  BY <1>1 DEF Panics
<1>3. h = Instant(l)
  BY DEF HourlyBucket, BucketOf
<1>4. h \in Instants /\ LocalTime(h) = l
  BY <1>2, <1>3, Conversion
<1> QED BY <1>1, <1>2, <1>4 DEF IsHour

(* The hour being filled is the hour of a sample if they start together.    *)
LEMMA SameHourIs ==
  ASSUME zone \in Zones, NEW hour, IsHour(hour.start), NEW t
  PROVE  SameHour(hour, t) <=> hour.start = HourlyBucket(t).start
<1>1. HourlyBucket(hour.start) = [start |-> hour.start, end |-> EndOf(hour.start)]
  BY HourItself
<1> QED BY <1>1 DEF SameHour

(* The zone stays what it is.                                              *)
LEMMA SameZone ==
  ASSUME zone' = zone
  PROVE  /\ \A x : IsHour(x)' = IsHour(x) /\ EndOf(x)' = EndOf(x)
         /\ \A x : HourlyBucket(x)' = HourlyBucket(x)
         /\ \A x, m : Panics(x, m)' = Panics(x, m)
  BY DEF IsHour, EndOf, HourlyBucket, BucketOf, Panics, Converts, FromLocal, Instant, LocalTime,
         PeriodStart, PeriodEnd

-----------------------------------------------------------------------------
(* The histogram: every sample of a series is in the hour it was taken in,  *)
(* and in no other bucket.                                                 *)

Has(bucket, i) == \E p \in bucket.points : p.sample = i

HoursOf(s) == completed[s] \cup (IF current[s] = NoHour THEN {} ELSE {PointsToBucket(current[s])})

InHour(s, b) ==
  /\ IsHour(b.start) /\ b.end = EndOf(b.start) /\ b.points # {}
  /\ \A p \in b.points :
       p.sample \in Recorded(s) /\ ~ Panics(At(p), HourLength) /\ HourlyBucket(At(p)).start = b.start

Found(s) == \A i \in Recorded(s) : \E b \in HoursOf(s) : Has(b, i)

Apiece(s) ==
  /\ \A b, c \in completed[s] : \A i \in 1 .. MaxSamples : Has(b, i) /\ Has(c, i) => b = c
  /\ current[s] # NoHour =>
       \A b \in completed[s] : \A i \in 1 .. MaxSamples : Has(b, i) => ~ Has(current[s], i)

Histogram ==
  \A s \in Series :
    /\ \A b \in HoursOf(s) : InHour(s, b)
    /\ alive => Found(s)
    /\ Apiece(s)

LEMMA PointsToBucketIs ==
  ASSUME NEW hour
  PROVE  /\ PointsToBucket(hour).start = hour.start /\ PointsToBucket(hour).points = hour.points
         /\ PointsToBucket(hour).end = HourlyBucket(hour.start).end
         /\ \A i : Has(PointsToBucket(hour), i) <=> Has(hour, i)
  BY DEF PointsToBucket, Has

(* What a tick appends to the log.                                         *)
LEMMA TickLog ==
  ASSUME TypeOK, NEW t \in Clock, NEW online \in SUBSET Devices, Tick(t, online)
  PROVE  LET i      == Len(log) + 1
             listed == registry \cup online \cup {Whole}
         IN  /\ i \in 1 .. MaxSamples /\ i \in Nat /\ t \in Instants /\ zone \in Zones /\ zone' = zone
             /\ DOMAIN log = 1 .. Len(log) /\ i \notin DOMAIN log /\ Len(log) \in Nat
             /\ DOMAIN log \subseteq 1 .. MaxSamples
             /\ DOMAIN log' = DOMAIN log \cup {i} /\ Len(log') = i
             /\ \A j \in DOMAIN log : log'[j] = log[j]
             /\ log'[i].at = t /\ log'[i].listed = listed
             /\ log' \in Seq([at : Clock, listed : SUBSET Series]) /\ Len(log') <= MaxSamples
             /\ \A s \in Series :
                  Recorded(s)' = Recorded(s) \cup (IF s \in listed THEN {i} ELSE {})
<1> DEFINE i == Len(log) + 1
           listed == registry \cup online \cup {Whole}
           new == [at |-> t, listed |-> listed]
<1>1. log' = Append(log, new) /\ zone' = zone /\ i <= MaxSamples
  BY DEF Tick
<1>2. new \in [at : Clock, listed : SUBSET Series]
  BY DEF TypeOK, Series
<1>3. log \in Seq([at : Clock, listed : SUBSET Series]) /\ MaxSamples \in Nat
  BY TrafficHistoryConstants DEF TypeOK
<1> HIDE DEF new
<1>4. /\ Len(log) \in Nat /\ DOMAIN log = 1 .. Len(log)
      /\ log' \in Seq([at : Clock, listed : SUBSET Series]) /\ Len(log') = i
      /\ DOMAIN log' = 1 .. i /\ log'[i] = new
      /\ \A j \in 1 .. Len(log) : log'[j] = log[j]
  BY <1>1, <1>2, <1>3
<1>5. i \in 1 .. MaxSamples /\ i \in Nat /\ i \notin DOMAIN log /\ 1 .. i = 1 .. Len(log) \cup {i}
      /\ 1 .. Len(log) \subseteq 1 .. MaxSamples
  BY <1>1, <1>3, <1>4
<1>6. log'[i].at = t /\ log'[i].listed = listed
  BY <1>4 DEF new
<1>7. ASSUME NEW s \in Series
      PROVE  Recorded(s)' = Recorded(s) \cup (IF s \in listed THEN {i} ELSE {})
  <2> HIDE DEF i, listed
  <2>1. \A j : j \in Recorded(s)' <=> j \in DOMAIN log' /\ s \in log'[j].listed
    BY DEF Recorded
  <2>2. \A j : j \in Recorded(s) <=> j \in DOMAIN log /\ s \in log[j].listed
    BY DEF Recorded
  <2>3. DOMAIN log' = DOMAIN log \cup {i} /\ \A j \in DOMAIN log : log'[j] = log[j]
    BY <1>4, <1>5
  <2> QED BY <1>5, <1>6, <2>1, <2>2, <2>3
<1>8. t \in Instants /\ zone \in Zones
  BY LocalHoursConstants DEF TypeOK
<1> QED BY <1>1, <1>4, <1>5, <1>6, <1>7, <1>8

(* What is in its hour stays there, and a bucket of the hour of the tick     *)
(* may have the new sample.                                                *)
LEMMA InHourStays ==
  ASSUME TypeOK, NEW t \in Clock, NEW online \in SUBSET Devices, Tick(t, online), NEW s \in Series,
         NEW b, IsHour(b.start), b.end = EndOf(b.start), b.points # {},
         \A p \in b.points :
           \/ /\ p.sample \in Recorded(s) /\ ~ Panics(At(p), HourLength)
              /\ HourlyBucket(At(p)).start = b.start
           \/ /\ p.sample = Len(log) + 1 /\ s \in registry \cup online \cup {Whole}
              /\ ~ Panics(t, HourLength) /\ HourlyBucket(t).start = b.start
  PROVE  InHour(s, b)'
<1> DEFINE i == Len(log) + 1
           listed == registry \cup online \cup {Whole}
<1>1. /\ zone' = zone /\ \A j \in DOMAIN log : log'[j] = log[j]
      /\ log'[i].at = t
      /\ Recorded(s)' = Recorded(s) \cup (IF s \in listed THEN {i} ELSE {})
  BY TickLog
<1>2. Recorded(s) \subseteq DOMAIN log
  BY DEF Recorded
<1>3. IsHour(b.start)' /\ b.end = EndOf(b.start)'
  BY <1>1, SameZone
<1>4. ASSUME NEW p \in b.points
      PROVE  p.sample \in Recorded(s)' /\ ~ Panics(At(p), HourLength)'
             /\ HourlyBucket(At(p))'.start = b.start
  <2>1. CASE /\ p.sample \in Recorded(s) /\ ~ Panics(At(p), HourLength)
             /\ HourlyBucket(At(p)).start = b.start
    <3>1. At(p)' = At(p)
      BY <1>1, <1>2, <2>1 DEF At
    <3>2. Panics(At(p), HourLength)' = Panics(At(p), HourLength)
          /\ HourlyBucket(At(p))' = HourlyBucket(At(p))
      BY <1>1, <3>1 DEF HourlyBucket, BucketOf, Panics, Converts, FromLocal, Instant, LocalTime,
                        PeriodStart, PeriodEnd
    <3> QED BY <1>1, <2>1, <3>2
  <2>2. CASE /\ p.sample = i /\ s \in listed
             /\ ~ Panics(t, HourLength) /\ HourlyBucket(t).start = b.start
    <3>1. At(p)' = t
      BY <1>1, <2>2 DEF At
    <3>2. Panics(At(p), HourLength)' = Panics(t, HourLength)
          /\ HourlyBucket(At(p))' = HourlyBucket(t)
      BY <1>1, <3>1 DEF HourlyBucket, BucketOf, Panics, Converts, FromLocal, Instant, LocalTime,
                        PeriodStart, PeriodEnd
    <3> QED BY <1>1, <2>2, <3>2
  <2> QED BY <2>1, <2>2
<1> QED BY <1>3, <1>4 DEF InHour

HourType == [start : Instants, points : SUBSET Point]

LEMMA TickHistogram ==
  ASSUME TypeOK, Histogram, NEW t \in Clock, NEW online \in SUBSET Devices, Tick(t, online),
         NEW s \in Series
  PROVE  /\ current'[s] \in HourType \cup {NoHour} /\ completed'[s] \subseteq Bucket
         /\ \A b \in HoursOf(s)' : InHour(s, b)'
         /\ alive' => Found(s)'
         /\ Apiece(s)'
<1> DEFINE i == Len(log) + 1
           listed == registry \cup online \cup {Whole}
           h == HourlyBucket(t).start
           hour == current[s]
           Point0 == [sample |-> i, again |-> FALSE]
           Point1 == [sample |-> i, again |-> TRUE]
<1>1. /\ i \in 1 .. MaxSamples /\ i \notin DOMAIN log /\ t \in Instants /\ zone \in Zones /\ zone' = zone
      /\ Recorded(s)' = Recorded(s) \cup (IF s \in listed THEN {i} ELSE {})
  BY TickLog
<1>2. /\ Recorded(s) \subseteq DOMAIN log /\ i \notin Recorded(s)
      /\ Recorded(s) \subseteq 1 .. MaxSamples
  <2>1. DOMAIN log \subseteq 1 .. MaxSamples
    BY TickLog
  <2> QED BY <1>1, <2>1 DEF Recorded
<1>3. hour \in HourType \cup {NoHour} /\ completed[s] \subseteq Bucket /\ NoHour \notin HourType
  BY TrafficHistoryConstants DEF TypeOK, HourType
<1>4. /\ \A b \in HoursOf(s) : InHour(s, b)
      /\ alive => Found(s)
      /\ Apiece(s)
  BY DEF Histogram
<1>5. /\ \A x : PointsToBucket(x)' = PointsToBucket(x)
      /\ HoursOf(s)' = completed'[s] \cup (IF current'[s] = NoHour THEN {} ELSE {PointsToBucket(current'[s])})
  <2>1. \A x : HourlyBucket(x)' = HourlyBucket(x)
    BY <1>1, SameZone
  <2>2. \A x : PointsToBucket(x)' = PointsToBucket(x)
    BY <2>1 DEF PointsToBucket
  <2>3. PointsToBucket(current[s])' = PointsToBucket(current'[s])
    BY <1>1 DEF PointsToBucket, HourlyBucket, BucketOf, Instant, FromLocal, LocalTime, PeriodStart, PeriodEnd
  <2> QED BY <2>2, <2>3 DEF HoursOf
<1>6. /\ HoursOf(s) = completed[s] \cup (IF hour = NoHour THEN {} ELSE {PointsToBucket(hour)})
      /\ \A b \in completed[s] : \A j : Has(b, j) => j \in Recorded(s)
      /\ hour # NoHour => \A j : Has(hour, j) => j \in Recorded(s)
  <2>1. HoursOf(s) = completed[s] \cup (IF hour = NoHour THEN {} ELSE {PointsToBucket(hour)})
    BY DEF HoursOf
  <2>2. \A b \in HoursOf(s) : \A j : Has(b, j) => j \in Recorded(s)
    BY <1>4 DEF InHour, Has
  <2>3. \A j : Has(PointsToBucket(hour), j) <=> Has(hour, j)
    BY PointsToBucketIs
  <2> QED BY <2>1, <2>2, <2>3
<1> HIDE DEF hour
<1>7. ASSUME NEW b \in HoursOf(s) PROVE InHour(s, b)'
  <2>1. InHour(s, b)
    BY <1>4
  <2> QED BY <2>1, InHourStays DEF InHour
<1>8. CASE current'[s] = current[s] /\ completed'[s] = completed[s] /\ (alive' => s \notin listed)
  <2>1. HoursOf(s)' = HoursOf(s)
    BY <1>5, <1>6, <1>8 DEF hour
  <2>2. \A b \in HoursOf(s)' : InHour(s, b)'
    BY <1>7, <2>1
  <2>3. alive' => Found(s)'
    <3> SUFFICES ASSUME alive' PROVE Found(s)'
      OBVIOUS
    <3>1. alive /\ Recorded(s)' = Recorded(s)
      BY <1>1, <1>8 DEF Tick
    <3>2. \A j \in Recorded(s)' : \E b \in HoursOf(s)' : Has(b, j)
      BY <1>4, <2>1, <3>1 DEF Found
    <3> QED BY <3>2 DEF Found, Has
  <2>4. Apiece(s)'
    BY <1>4, <1>8 DEF Apiece, Has
  <2> QED BY <1>3, <1>8, <2>2, <2>3, <2>4 DEF hour
<1>9. CASE s \in listed /\ ~ Panics(t, HourLength)
  <2>1. /\ alive /\ alive' = alive
        /\ current'[s] = Filled(hour, i, t) /\ completed'[s] = completed[s] \cup Closed(hour, t)
    <3> HIDE DEF i
    <3> USE <1>9 DEF Tick, hour
    <3> QED BY DEF i
  <2>2. IsHour(h) /\ h \in Instants
    BY <1>1, <1>9, HourAround DEF IsHour
  <2>3. Begun(i, t) = [start |-> h, points |-> {Point0}]
    BY DEF Begun
  <2>4. Point0 \in Point /\ Point1 \in Point /\ Point0.sample = i /\ Point1.sample = i
    BY <1>1 DEF Point
  <2> HIDE DEF h, i, Point0, Point1
  \* It is enough to look at the hour being filled, and at those closed.
  <2>5. ASSUME NEW new \in HourType, current'[s] = new, new.start = h,
               \A p \in new.points :
                 p.sample = i \/ (hour # NoHour /\ hour.start = h /\ p \in hour.points),
               Has(new, i), completed'[s] \subseteq HoursOf(s), completed[s] \subseteq completed'[s],
               \A b \in completed'[s], j \in Recorded(s) : Has(b, j) => ~ Has(new, j),
               hour # NoHour => \/ PointsToBucket(hour) \in completed'[s]
                                \/ (hour.points \subseteq new.points /\ completed'[s] = completed[s])
        PROVE  /\ current'[s] \in HourType \cup {NoHour} /\ completed'[s] \subseteq Bucket
               /\ \A b \in HoursOf(s)' : InHour(s, b)'
               /\ alive' => Found(s)'
               /\ Apiece(s)'
    <3>0. PICK b0 : b0 = PointsToBucket(new)
      OBVIOUS
    <3>1. new # NoHour /\ HoursOf(s)' = completed'[s] \cup {b0}
      BY <1>3, <1>5, <2>5, <3>0
    <3>2. /\ b0.start = h /\ b0.points = new.points /\ b0.end = EndOf(h)
          /\ \A j : Has(b0, j) <=> Has(new, j)
      BY <1>1, <2>2, <2>5, <3>0, PointsToBucketIs, HourItself
    <3>3. InHour(s, b0)'
      <4>1. ASSUME NEW p \in b0.points, p.sample # i
            PROVE  p.sample \in Recorded(s) /\ ~ Panics(At(p), HourLength)
                   /\ HourlyBucket(At(p)).start = b0.start
        <5>1. hour # NoHour /\ hour.start = h /\ p \in hour.points
          BY <2>5, <3>2, <4>1
        <5>2. InHour(s, PointsToBucket(hour)) /\ p \in PointsToBucket(hour).points
              /\ PointsToBucket(hour).start = h
          BY <1>4, <1>6, <5>1, PointsToBucketIs
        <5> QED BY <3>2, <5>2 DEF InHour
      <4>2. h = HourlyBucket(t).start /\ i = Len(log) + 1
        BY DEF h, i
      <4>3. b0.points # {}
        BY <2>5, <3>2 DEF Has
      <4> QED BY <1>9, <2>2, <3>2, <4>1, <4>2, <4>3, InHourStays
    <3>4. ASSUME NEW b \in HoursOf(s)' PROVE InHour(s, b)'
      BY <1>7, <2>5, <3>1, <3>3, <3>4
    <3>5. completed'[s] \subseteq Bucket
      <4>1. ASSUME hour # NoHour PROVE PointsToBucket(hour) \in Bucket
        <5>1. hour \in HourType /\ InHour(s, PointsToBucket(hour)) /\ PointsToBucket(hour).start = hour.start
          BY <1>3, <1>4, <1>6, <4>1, PointsToBucketIs
        <5>2. IsHour(hour.start) /\ HourlyBucket(hour.start).end \in Instants
          BY <1>1, <5>1, HourItself DEF InHour
        <5> QED BY <5>1, <5>2 DEF PointsToBucket, Bucket, HourType
      <4> QED BY <1>3, <1>6, <2>5, <4>1
    <3>6. Found(s)'
      <4>1. ASSUME NEW j \in Recorded(s)' PROVE \E b \in HoursOf(s)' : Has(b, j)
        <5>1. CASE j = i
          BY <2>5, <3>1, <3>2, <5>1
        <5>2. CASE j \in Recorded(s)
          <6>1. PICK b \in HoursOf(s) : Has(b, j)
            BY <1>4, <2>1, <5>2 DEF Found
          <6>2. CASE b \in completed[s]
            BY <2>5, <3>1, <6>1, <6>2
          <6>3. CASE hour # NoHour /\ b = PointsToBucket(hour)
            <7>1. CASE PointsToBucket(hour) \in completed'[s]
              BY <3>1, <6>1, <6>3, <7>1
            <7>2. CASE hour.points \subseteq new.points
              <8>1. Has(hour, j)
                BY <6>1, <6>3, PointsToBucketIs
              <8>2. Has(b0, j)
                BY <3>2, <7>2, <8>1 DEF Has
              <8> QED BY <3>1, <8>2
            <7> QED BY <2>5, <6>3, <7>1, <7>2
          <6> QED BY <1>6, <6>1, <6>2, <6>3
        <5> QED BY <1>1, <5>1, <5>2
      <4> QED BY <4>1 DEF Found, Has
    <3>7. Apiece(s)'
      <4>1. ASSUME NEW b \in completed'[s], NEW c \in completed'[s], NEW j \in 1 .. MaxSamples,
                   Has(b, j), Has(c, j)
            PROVE  b = c
        <5>1. CASE b \in completed[s] /\ c \in completed[s]
          BY <1>4, <4>1, <5>1 DEF Apiece
        <5>2. CASE b \notin completed[s] /\ c \in completed[s]
          <6>1. hour # NoHour /\ Has(hour, j)
            BY <1>6, <2>5, <4>1, <5>2, PointsToBucketIs
          <6> QED BY <1>4, <4>1, <5>2, <6>1 DEF Apiece, hour
        <5>3. CASE b \in completed[s] /\ c \notin completed[s]
          <6>1. hour # NoHour /\ Has(hour, j)
            BY <1>6, <2>5, <4>1, <5>3, PointsToBucketIs
          <6> QED BY <1>4, <4>1, <5>3, <6>1 DEF Apiece, hour
        <5>4. CASE b \notin completed[s] /\ c \notin completed[s]
          BY <1>6, <2>5, <4>1, <5>4
        <5> QED BY <5>1, <5>2, <5>3, <5>4
      <4>2. ASSUME NEW b \in completed'[s], NEW j \in 1 .. MaxSamples, Has(b, j)
            PROVE  ~ Has(new, j)
        <5>1. j \in Recorded(s)
          <6>1. b \in HoursOf(s)
            BY <2>5, <4>2
          <6> QED BY <1>4, <4>2, <6>1 DEF InHour, Has
        <5> QED BY <2>5, <4>2, <5>1
      <4> QED BY <2>5, <4>1, <4>2 DEF Apiece, Has
    <3> QED BY <2>5, <3>4, <3>5, <3>6, <3>7
  <2>6. CASE hour = NoHour
    <3>0. PICK new : new = [start |-> h, points |-> {Point0, Point1}]
      OBVIOUS
    <3>1. current'[s] = new /\ completed'[s] = completed[s]
      <4>1. Filled(hour, i, t) = [Begun(i, t) EXCEPT !.points = @ \cup {Point1}]
        BY <2>6, Zenon DEF Filled, Point1
      <4>2. Filled(hour, i, t) = [start |-> h, points |-> {Point0} \cup {Point1}]
        BY <2>3, <4>1
      <4>3. {Point0} \cup {Point1} = {Point0, Point1} /\ Closed(hour, t) = {}
        BY <2>6 DEF Closed
      <4> QED BY <2>1, <3>0, <4>2, <4>3
    <3>2. new \in HourType /\ new.start = h /\ \A p \in new.points : p.sample = i
      BY <2>2, <2>4, <3>0 DEF HourType
    <3>3. Has(new, i) /\ \A j \in Recorded(s) : ~ Has(new, j)
      BY <1>2, <2>4, <3>0, <3>2 DEF Has, i
    <3> QED BY <1>6, <2>5, <2>6, <3>1, <3>2, <3>3
  <2>7. CASE hour # NoHour /\ SameHour(hour, t)
    <3>0. PICK new : new = [hour EXCEPT !.points = @ \cup {Point0}]
      OBVIOUS
    <3>1. current'[s] = new /\ completed'[s] = completed[s]
      BY <2>1, <2>7, <3>0 DEF Filled, Closed, Point0
    <3>2. hour \in HourType /\ IsHour(hour.start)
      <4>1. InHour(s, PointsToBucket(hour))
        BY <1>4, <1>6, <2>7
      <4> QED BY <1>3, <2>7, <4>1, PointsToBucketIs DEF InHour
    <3>3. hour.start = h
      BY <1>1, <2>7, <3>2, SameHourIs DEF h
    <3>4. new \in HourType /\ new.start = h /\ new.points = hour.points \cup {Point0}
      BY <2>4, <3>0, <3>2, <3>3 DEF HourType
    <3>5. /\ Has(new, i) /\ \A p \in new.points : p.sample = i \/ p \in hour.points
          /\ \A j \in Recorded(s) : Has(new, j) => Has(hour, j)
      BY <1>2, <2>4, <3>4 DEF Has, i
    <3>6. \A b \in completed[s], j \in Recorded(s) : Has(b, j) => ~ Has(new, j)
      <4>1. \A b \in completed[s] : \A j \in 1 .. MaxSamples : Has(b, j) => ~ Has(hour, j)
        BY <1>4, <2>7 DEF Apiece, hour
      <4> QED BY <1>2, <3>5, <4>1
    <3> QED BY <1>6, <2>5, <2>7, <3>1, <3>3, <3>4, <3>5, <3>6
  <2>8. CASE hour # NoHour /\ ~ SameHour(hour, t)
    <3>0. PICK new : new = [start |-> h, points |-> {Point0}]
      OBVIOUS
    <3>1. current'[s] = new /\ completed'[s] = completed[s] \cup {PointsToBucket(hour)}
      BY <2>1, <2>3, <2>8, <3>0 DEF Filled, Closed
    <3>2. new \in HourType /\ new.start = h /\ \A p \in new.points : p.sample = i
      BY <2>2, <2>4, <3>0 DEF HourType
    <3>3. Has(new, i) /\ \A j \in Recorded(s) : ~ Has(new, j)
      BY <1>2, <2>4, <3>0, <3>2 DEF Has, i
    <3> QED BY <1>6, <2>5, <2>8, <3>1, <3>2, <3>3
  <2> QED BY <2>6, <2>7, <2>8
<1>10. \/ (current'[s] = current[s] /\ completed'[s] = completed[s] /\ (alive' => s \notin listed))
       \/ (s \in listed /\ ~ Panics(t, HourLength))
  <2>1. CASE Panics(t, HourLength)
    BY <2>1 DEF Tick
  <2>2. CASE ~ Panics(t, HourLength) /\ s \notin listed
    <3>1. current'[s] = current[s] /\ completed'[s] = completed[s] \cup {}
      BY <2>2 DEF Tick
    <3> QED BY <2>2, <3>1
  <2> QED BY <2>1, <2>2
<1> QED BY <1>8, <1>9, <1>10

-----------------------------------------------------------------------------
(* The recent points of a series are its latest samples, in order, and none *)
(* has been dropped before the window was full.                            *)
Latest(s) ==
  /\ \A j, k \in DOMAIN recent[s] : j < k => recent[s][j] < recent[s][k]
  /\ \A k \in DOMAIN recent[s] : recent[s][k] \in Recorded(s)
  /\ \A i \in Recorded(s) :
       \/ \E k \in DOMAIN recent[s] : recent[s][k] = i
       \/ Len(recent[s]) = Capacity /\ \A k \in DOMAIN recent[s] : i < recent[s][k]

LEMMA CapacityType == Capacity \in Nat /\ Capacity >= 1
  BY TrafficHistoryConstants DEF Capacity

(* A queue after one more: longer by it, or without its oldest.             *)
Pushed(S, q, i, r) ==
  /\ r \in Seq(S) /\ Len(r) <= Capacity /\ Len(r) >= 1 /\ r[Len(r)] = i
  /\ \/ Len(r) = Len(q) + 1 /\ \A k \in 1 .. Len(q) : r[k] = q[k]
     \/ /\ Len(r) = Capacity /\ Len(q) = Capacity
        /\ \A k \in 1 .. Len(q) - 1 : r[k] = q[k + 1]

LEMMA TrimmedIs ==
  ASSUME NEW S, NEW q \in Seq(S), Len(q) <= Capacity, NEW i \in S
  PROVE  Pushed(S, q, i, Trimmed(Append(q, i)))
<1> DEFINE a == Append(q, i)
<1>1. /\ a \in Seq(S) /\ Len(a) = Len(q) + 1 /\ a[Len(q) + 1] = i
      /\ \A k \in 1 .. Len(q) : a[k] = q[k]
      /\ Len(q) \in Nat
  OBVIOUS
<1> HIDE DEF a
<1>2. CASE Len(a) <= Capacity
  <2>1. Trimmed(a) = a
    BY <1>1, <1>2, CapacityType DEF Trimmed
  <2> QED BY <1>1, <1>2, <2>1 DEF a, Pushed
<1>3. CASE Len(a) > Capacity
  <2>1. Trimmed(a) = Tail(a) /\ Len(q) = Capacity
    BY <1>1, <1>3, CapacityType DEF Trimmed
  <2>2. /\ Tail(a) \in Seq(S) /\ Len(Tail(a)) = Len(q)
        /\ \A k \in 1 .. Len(q) : Tail(a)[k] = a[k + 1]
    BY <1>1, <2>1, CapacityType
  <2> QED BY <1>1, <2>1, <2>2, CapacityType DEF a, Pushed
<1> QED BY <1>1, <1>2, <1>3, CapacityType

LEMMA TickRecent ==
  ASSUME TypeOK, NEW t \in Clock, NEW online \in SUBSET Devices, Tick(t, online),
         NEW s \in Series, Latest(s)
  PROVE  /\ recent'[s] \in Seq(DOMAIN log') /\ Len(recent'[s]) <= Capacity
         /\ Latest(s)'
<1> DEFINE i == Len(log) + 1
           listed == registry \cup online \cup {Whole}
           q == recent[s]
           r == recent'[s]
<1>1. /\ i \in Nat /\ i \notin DOMAIN log /\ DOMAIN log = 1 .. Len(log) /\ Len(log) \in Nat
      /\ DOMAIN log' = DOMAIN log \cup {i}
      /\ Recorded(s)' = Recorded(s) \cup (IF s \in listed THEN {i} ELSE {})
  BY TickLog
<1>2. q \in Seq(DOMAIN log) /\ Len(q) <= Capacity /\ Len(q) \in Nat /\ DOMAIN q = 1 .. Len(q)
  BY DEF TypeOK
<1>3. Recorded(s) \subseteq DOMAIN log
  BY DEF Recorded
<1>4. q \in Seq(DOMAIN log')
  BY <1>1, <1>2
<1>5. r = IF s \in listed THEN Trimmed(Append(q, i)) ELSE q
  BY DEF Tick
<1>6. /\ \A j, k \in DOMAIN q : j < k => q[j] < q[k]
      /\ \A k \in DOMAIN q : q[k] \in Recorded(s)
      /\ \A x \in Recorded(s) :
           \/ \E k \in DOMAIN q : q[k] = x
           \/ Len(q) = Capacity /\ \A k \in DOMAIN q : x < q[k]
  BY DEF Latest
<1>7. Latest(s)' <=> /\ \A j, k \in DOMAIN r : j < k => r[j] < r[k]
                     /\ \A k \in DOMAIN r : r[k] \in Recorded(s)'
                     /\ \A x \in Recorded(s)' :
                          \/ \E k \in DOMAIN r : r[k] = x
                          \/ Len(r) = Capacity /\ \A k \in DOMAIN r : x < r[k]
  BY CapacityType DEF Latest
<1> HIDE DEF i, listed, q, r
<1>8. CASE s \notin listed
  BY <1>1, <1>2, <1>4, <1>5, <1>6, <1>7, <1>8 DEF r
<1>9. CASE s \in listed
  <2>1. r \in Seq(DOMAIN log') /\ Len(r) <= Capacity /\ Len(r) >= 1 /\ r[Len(r)] = i
        /\ \/ Len(r) = Len(q) + 1 /\ \A k \in 1 .. Len(q) : r[k] = q[k]
           \/ /\ Len(r) = Capacity /\ Len(q) = Capacity
              /\ \A k \in 1 .. Len(q) - 1 : r[k] = q[k + 1]
    <3>1. i \in DOMAIN log' /\ r = Trimmed(Append(q, i))
      BY <1>1, <1>5, <1>9
    <3>2. q \in Seq(DOMAIN log') /\ Len(q) <= Capacity
      BY <1>2, <1>4
    <3>3. Pushed(DOMAIN log', q, i, r)
      BY <3>1, <3>2, TrimmedIs
    <3> QED BY <3>3, Zenon DEF Pushed
  <2>2. /\ DOMAIN r = 1 .. Len(r) /\ Len(r) \in Nat
        /\ Len(r) \in DOMAIN r /\ r[Len(r)] = i /\ Len(r) <= Capacity
    BY <2>1
  <2>3. \A k \in DOMAIN q : q[k] \in Recorded(s) /\ q[k] < i /\ q[k] \in Nat
    BY <1>1, <1>3, <1>6 DEF i
  <2>4. \A x \in Recorded(s) : x \in Nat /\ x < i
    BY <1>1, <1>3 DEF i
  <2>5. CASE Len(r) = Len(q) + 1 /\ \A k \in 1 .. Len(q) : r[k] = q[k]
    <3>1. \A j, k \in DOMAIN r : j < k => r[j] < r[k]
      <4>1. ASSUME NEW j \in DOMAIN r, NEW k \in DOMAIN r, j < k PROVE r[j] < r[k]
        <5>1. j \in 1 .. Len(q) /\ r[j] = q[j]
          BY <1>2, <2>2, <2>5, <4>1
        <5>2. k \in 1 .. Len(q) \/ k = Len(r)
          BY <1>2, <2>2, <2>5, <4>1
        <5> QED BY <1>2, <1>6, <2>1, <2>3, <2>5, <4>1, <5>1, <5>2
      <4> QED BY <4>1
    <3>2. \A k \in DOMAIN r : r[k] \in Recorded(s)'
      <4>1. ASSUME NEW k \in DOMAIN r PROVE r[k] \in Recorded(s)'
        <5>1. k \in 1 .. Len(q) \/ k = Len(r)
          BY <1>2, <2>2, <2>5
        <5> QED BY <1>1, <1>2, <1>9, <2>1, <2>3, <2>5, <5>1
      <4> QED BY <4>1
    <3>3. ASSUME NEW x \in Recorded(s)' PROVE \E k \in DOMAIN r : r[k] = x
      <4>1. CASE x = i
        BY <2>2, <4>1
      <4>2. CASE x \in Recorded(s)
        <5>1. Len(q) < Capacity
          BY <1>2, <2>2, <2>5, CapacityType
        <5>2. (\E k \in DOMAIN q : q[k] = x) \/ Len(q) = Capacity
          BY <1>6, <4>2, Zenon
        <5>3. Len(q) # Capacity
          <6>1. Len(q) \in Nat
            BY <1>2
          <6> QED BY <5>1, <6>1, CapacityType
        <5>4. PICK k \in DOMAIN q : q[k] = x
          BY <5>2, <5>3, Zenon
        <5> QED BY <1>2, <2>2, <2>5, <5>4
      <4> QED BY <1>1, <1>9, <4>1, <4>2
    <3> QED BY <1>7, <2>1, <3>1, <3>2, <3>3 DEF r
  <2>6. CASE /\ Len(r) = Capacity /\ Len(q) = Capacity
             /\ \A k \in 1 .. Len(q) - 1 : r[k] = q[k + 1]
    <3>0. ASSUME NEW k \in DOMAIN r
          PROVE  \/ k = Len(r) /\ r[k] = i
                 \/ k < Len(r) /\ k + 1 \in DOMAIN q /\ r[k] = q[k + 1]
      BY <1>2, <2>1, <2>2, <2>6
    <3>1. \A j, k \in DOMAIN r : j < k => r[j] < r[k]
      <4>1. ASSUME NEW j \in DOMAIN r, NEW k \in DOMAIN r, j < k PROVE r[j] < r[k]
        <5>1. j < Len(r) /\ j + 1 \in DOMAIN q /\ r[j] = q[j + 1]
          BY <2>2, <3>0, <4>1
        <5>2. CASE k = Len(r) /\ r[k] = i
          BY <2>3, <5>1, <5>2
        <5>3. CASE k < Len(r) /\ k + 1 \in DOMAIN q /\ r[k] = q[k + 1]
          BY <1>6, <2>2, <4>1, <5>1, <5>3
        <5> QED BY <3>0, <5>2, <5>3
      <4> QED BY <4>1
    <3>2. \A k \in DOMAIN r : r[k] \in Recorded(s)'
      BY <1>1, <1>9, <2>3, <3>0
    <3>3. ASSUME NEW x \in Recorded(s)'
          PROVE  (\E k \in DOMAIN r : r[k] = x) \/ \A k \in DOMAIN r : x < r[k]
      <4>1. CASE x = i
        BY <2>2, <4>1
      <4>2. CASE x \in Recorded(s) /\ \A k \in DOMAIN q : x < q[k]
        BY <2>4, <3>0, <4>2
      <4>3. CASE x \in Recorded(s) /\ \E k \in DOMAIN q : q[k] = x
        <5>1. PICK k \in DOMAIN q : q[k] = x
          BY <4>3
        <5>2. CASE k = 1
          \* The oldest is dropped, and all that stay are later.
          <6>1. ASSUME NEW m \in DOMAIN r PROVE x < r[m]
            <7>1. CASE r[m] = i
              BY <2>4, <4>3, <7>1
            <7>2. CASE m + 1 \in DOMAIN q /\ r[m] = q[m + 1]
              <8>1. k < m + 1
                BY <2>2, <5>2
              <8> QED BY <1>6, <5>1, <7>2, <8>1
            <7> QED BY <3>0, <7>1, <7>2
          <6> QED BY <6>1
        <5>3. CASE k > 1
          <6>1. k - 1 \in 1 .. Len(q) - 1 /\ k - 1 \in DOMAIN r /\ (k - 1) + 1 = k
            BY <1>2, <2>2, <2>6, <5>3
          <6> QED BY <2>6, <5>1, <6>1
        <5> QED BY <1>2, <5>2, <5>3
      <4> QED BY <1>1, <1>6, <1>9, <4>1, <4>2, <4>3
    <3> QED BY <1>7, <2>1, <2>6, <3>1, <3>2, <3>3 DEF r
  <2> QED BY <2>1, <2>5, <2>6
<1> QED BY <1>8, <1>9

-----------------------------------------------------------------------------
(* The inductive invariant of the history.                                 *)
HistoryInv == TypeOK /\ Histogram /\ \A s \in Series : Latest(s)

Empty ==
  /\ log = <<>> /\ current = [s \in Series |-> NoHour] /\ completed = [s \in Series |-> {}]
  /\ recent = [s \in Series |-> <<>>]
  /\ zone \in Zones /\ alive \in BOOLEAN /\ registry \subseteq Devices

LEMMA EmptyHistory == Empty => HistoryInv
<1> SUFFICES ASSUME Empty PROVE HistoryInv
  OBVIOUS
<1> USE DEF Empty
<1>1. MaxSamples \in Nat /\ Capacity \in Nat
  BY TrafficHistoryConstants, CapacityType
<1>2. \A s \in Series : recent[s] = <<>> /\ current[s] = NoHour /\ completed[s] = {}
  OBVIOUS
<1>3. \A s : Recorded(s) = {}
  BY DEF Recorded
<1>4. Histogram
  BY <1>2, <1>3 DEF Histogram, HoursOf, Found, Apiece
<1>5. \A s \in Series : Latest(s)
  BY <1>2, <1>3 DEF Latest
<1>6. TypeOK
  BY <1>1, <1>2 DEF TypeOK
<1> QED BY <1>4, <1>5, <1>6 DEF HistoryInv

LEMMA HistoryInit == Init => HistoryInv
  BY EmptyHistory DEF Init, Empty

LEMMA HistoryStep == HistoryInv /\ [Next]_vars => HistoryInv'
<1> SUFFICES ASSUME HistoryInv, [Next]_vars PROVE HistoryInv'
  OBVIOUS
<1>1. TypeOK /\ Histogram /\ \A s \in Series : Latest(s)
  BY DEF HistoryInv
<1>2. ASSUME NEW t \in Clock, NEW online \in SUBSET Devices, Tick(t, online) PROVE HistoryInv'
  <2>1. /\ zone' \in Zones /\ alive' \in BOOLEAN /\ registry' \subseteq Devices
        /\ log' \in Seq([at : Clock, listed : SUBSET Series]) /\ Len(log') <= MaxSamples
    <3>1. zone' = zone /\ log' \in Seq([at : Clock, listed : SUBSET Series]) /\ Len(log') <= MaxSamples
      BY <1>1, <1>2, TickLog
    <3> QED BY <1>1, <1>2, <3>1 DEF Tick, TypeOK
  <2>2. /\ current' \in [Series -> HourType \cup {NoHour}]
        /\ completed' \in [Series -> SUBSET Bucket]
    <3>1. \A s \in Series : current'[s] \in HourType \cup {NoHour} /\ completed'[s] \subseteq Bucket
      BY <1>1, <1>2, TickHistogram
    <3>2. /\ current' = [s \in Series |-> current'[s]]
          /\ completed' = [s \in Series |-> completed'[s]]
      <4>1. CASE Panics(t, HourLength)
        BY <1>1, <1>2, <4>1 DEF Tick, TypeOK
      <4>2. CASE ~ Panics(t, HourLength)
        BY <1>2, <4>2 DEF Tick
      <4> QED BY <4>1, <4>2
    <3> QED BY <3>1, <3>2
  <2>3. /\ recent' \in [Series -> Seq(DOMAIN log')] /\ \A s \in Series : Len(recent'[s]) <= Capacity
        /\ \A s \in Series : Latest(s)'
    <3>1. \A s \in Series : /\ recent'[s] \in Seq(DOMAIN log') /\ Len(recent'[s]) <= Capacity
                            /\ Latest(s)'
      BY <1>1, <1>2, TickRecent
    <3>2. recent' = [s \in Series |-> recent'[s]]
      BY <1>2 DEF Tick
    <3> QED BY <3>1, <3>2
  <2>4. TypeOK'
    BY <2>1, <2>2, <2>3 DEF TypeOK, HourType, Capacity
  <2>5. Histogram'
    BY <1>1, <1>2, TickHistogram DEF Histogram
  <2> QED BY <2>3, <2>4, <2>5 DEF HistoryInv
<1>3. CASE Restart
  <2>1. Empty'
    BY <1>1, <1>3 DEF Restart, TypeOK, Empty
  <2> QED BY <2>1, EmptyHistory, PTL
<1>4. CASE UNCHANGED vars
  <2>1. /\ zone' = zone /\ alive' = alive /\ registry' = registry /\ log' = log
        /\ current' = current /\ completed' = completed /\ recent' = recent
    BY <1>4 DEF vars
  <2>2. TypeOK' /\ \A s \in Series : Latest(s)'
    BY <1>1, <2>1 DEF TypeOK, Latest, Recorded
  <2>3. ASSUME NEW s \in Series
        PROVE  /\ \A b \in HoursOf(s)' : InHour(s, b)'
               /\ alive' => Found(s)'
               /\ Apiece(s)'
    <3>1. HoursOf(s)' = HoursOf(s) /\ Recorded(s)' = Recorded(s)
      BY <2>1 DEF HoursOf, Recorded, PointsToBucket, HourlyBucket, BucketOf, Instant, FromLocal,
                  LocalTime, PeriodStart, PeriodEnd
    <3>2. \A b : InHour(s, b)' <=> InHour(s, b)
      BY <2>1, <3>1 DEF InHour, At, IsHour, EndOf, HourlyBucket, BucketOf, Panics, Converts,
                        FromLocal, Instant, LocalTime, PeriodStart, PeriodEnd
    <3>3. (Found(s)' <=> Found(s)) /\ (Apiece(s)' <=> Apiece(s))
      BY <2>1, <3>1 DEF Found, Apiece, Has
    <3> QED BY <1>1, <2>1, <3>1, <3>2, <3>3 DEF Histogram
  <2> QED BY <2>2, <2>3 DEF HistoryInv, Histogram
<1> QED BY <1>2, <1>3, <1>4 DEF Next

LEMMA HistoryInvariant == Spec => []HistoryInv
  BY HistoryInit, HistoryStep, PTL DEF Spec

(* Types of the history, for every zone and any number of devices: every    *)
(* hour that was begun has an end that converts (ingest_iface,             *)
(* points_to_bucket).                                                      *)
THEOREM HistoryTypes == Spec => []TypeOK
<1>1. HistoryInv => TypeOK
  BY DEF HistoryInv
<1> QED BY <1>1, HistoryInvariant, PTL

-----------------------------------------------------------------------------
(* The recent points.                                                      *)

LEMMA LatestFew ==
  ASSUME TypeOK, NEW s \in Series, Latest(s), NEW i \in Recorded(s)
  PROVE  i \in ToSet(recent[s]) <=> Cardinality({j \in Recorded(s) : j > i}) < Capacity
<1> DEFINE q == recent[s]
           later == {j \in Recorded(s) : j > i}
<1>1. /\ q \in Seq(DOMAIN log) /\ Len(q) <= Capacity /\ Len(q) \in Nat
      /\ log \in Seq([at : Clock, listed : SUBSET Series])
  BY DEF TypeOK
<1>2. DOMAIN log = 1 .. Len(log) /\ Len(log) \in Nat /\ DOMAIN q = 1 .. Len(q)
  BY <1>1
<1>3. Recorded(s) \subseteq 1 .. Len(log) /\ Recorded(s) \subseteq Nat
  BY <1>2 DEF Recorded
<1>4. IsFiniteSet(later) /\ Cardinality(later) \in Nat
  <2>1. IsFiniteSet(1 .. Len(log))
    <3>1. 1 \in Int /\ Len(log) \in Int
      BY <1>2
    <3> QED BY <3>1, FS_Interval, Zenon
  <2>2. later \in SUBSET (1 .. Len(log))
    BY <1>3
  <2>3. IsFiniteSet(later)
    BY <2>1, <2>2, FS_Subset
  <2> QED BY <2>3, FS_CardinalityType
<1>5. /\ \A j, k \in 1 .. Len(q) : j < k => q[j] < q[k]
      /\ \A k \in 1 .. Len(q) : q[k] \in Recorded(s)
      /\ \A x \in Recorded(s) :
           \/ \E k \in 1 .. Len(q) : q[k] = x
           \/ Len(q) = Capacity /\ \A k \in 1 .. Len(q) : x < q[k]
  BY <1>2 DEF Latest
<1>6. i \in ToSet(q) <=> \E k \in 1 .. Len(q) : q[k] = i
  BY <1>2 DEF ToSet
<1>7. Len(q) \in Nat /\ Len(q) <= Capacity /\ i \in Nat /\ Capacity \in Nat
  BY <1>1, <1>3, CapacityType
<1> HIDE DEF q
<1>8. ASSUME NEW k \in 1 .. Len(q), q[k] = i PROVE Cardinality(later) < Capacity
  <2> DEFINE rest == k + 1 .. Len(q)
             f == [m \in rest |-> q[m]]
  <2>1. k \in Nat /\ k >= 1 /\ k <= Len(q)
    BY <1>7
  <2>2. IsFiniteSet(rest) /\ Cardinality(rest) <= Len(q) - k /\ Cardinality(rest) \in Nat
    <3>1. k + 1 \in Int /\ Len(q) \in Int
      BY <1>7, <2>1
    <3>2. IsFiniteSet(rest) /\ Cardinality(rest) = IF k + 1 > Len(q) THEN 0 ELSE Len(q) - (k + 1) + 1
      BY <3>1, FS_Interval, Zenon
    <3>3. Cardinality(rest) \in Nat
      BY <3>2, FS_CardinalityType
    <3> HIDE DEF rest
    <3> QED BY <1>7, <2>1, <3>2, <3>3
  <2>3. f \in Surjection(rest, later)
    <3>1. ASSUME NEW m \in rest PROVE q[m] \in later
      <4>1. m \in 1 .. Len(q) /\ k < m
        BY <1>7, <2>1
      <4>2. q[m] \in Recorded(s) /\ q[k] < q[m]
        BY <1>5, <4>1
      <4> QED BY <1>3, <1>7, <1>8, <4>2
    <3>2. ASSUME NEW x \in later PROVE \E m \in rest : q[m] = x
      <4>1. x \in Recorded(s) /\ x > i /\ x \in Nat
        BY <1>3
      <4>2. ~ x < q[k]
        BY <1>7, <1>8, <4>1
      <4>3. PICK m \in 1 .. Len(q) : q[m] = x
        BY <1>5, <4>1, <4>2
      <4>4. ~ m < k
        <5>1. m < k => x < i
          BY <1>5, <1>8, <4>3
        <5> QED BY <1>7, <4>1, <5>1
      <4>5. m # k
        BY <1>7, <1>8, <4>1, <4>3
      <4>6. m \in rest
        BY <1>7, <2>1, <4>4, <4>5
      <4> QED BY <4>3, <4>6
    <3>3. f \in [rest -> later]
      BY <3>1
    <3>4. \A x \in later : \E m \in rest : f[m] = x
      BY <3>2
    <3> QED BY <3>3, <3>4 DEF Surjection
  <2>4. Cardinality(later) <= Cardinality(rest)
    <3> HIDE DEF f, rest, later
    <3> QED BY <2>2, <2>3, FS_Surjection
  <2> HIDE DEF rest, later
  <2> QED BY <1>4, <1>7, <2>1, <2>2, <2>4
<1>9. ASSUME Len(q) = Capacity, \A k \in 1 .. Len(q) : i < q[k]
      PROVE  ~ Cardinality(later) < Capacity
  <2> DEFINE all == 1 .. Len(q)
             f == [m \in all |-> q[m]]
  <2>1. f \in [all -> later]
    <3>1. \A m \in all : q[m] \in later
      BY <1>3, <1>5, <1>7, <1>9
    <3> QED BY <3>1
  <2>2. ASSUME NEW j \in all, NEW k \in all, f[j] = f[k] PROVE j = k
    <3>1. q[j] = q[k] /\ q[j] \in Nat /\ q[k] \in Nat
      BY <1>3, <1>5, <2>2
    <3>2. ~ j < k /\ ~ k < j
      <4>1. (j < k => q[j] < q[k]) /\ (k < j => q[k] < q[j])
        BY <1>5
      <4> QED BY <3>1, <4>1
    <3> QED BY <1>7, <3>2
  <2>3. f \in Injection(all, later)
    BY <2>1, <2>2 DEF Injection, IsInjective
  <2>4. Cardinality(all) <= Cardinality(later)
    <3> HIDE DEF f, all, later
    <3> QED BY <1>4, <2>3, FS_Injection
  <2>5. Cardinality(all) = Len(q)
    <3>1. 1 \in Int /\ Len(q) \in Int
      BY <1>7
    <3>2. Cardinality(all) = IF 1 > Len(q) THEN 0 ELSE Len(q) - 1 + 1
      BY <3>1, FS_Interval, Zenon
    <3> HIDE DEF all
    <3> QED BY <1>7, <3>2
  <2> HIDE DEF all, later
  <2> QED BY <1>4, <1>7, <1>9, <2>4, <2>5
<1>10. CASE \E k \in 1 .. Len(q) : q[k] = i
  BY <1>6, <1>8, <1>10 DEF q
<1>11. CASE Len(q) = Capacity /\ \A k \in 1 .. Len(q) : i < q[k]
  <2>1. ~ \E k \in 1 .. Len(q) : q[k] = i
    <3>1. ASSUME NEW k \in 1 .. Len(q), q[k] = i PROVE FALSE
      <4>1. i < q[k]
        BY <1>11
      <4> QED BY <1>7, <3>1, <4>1
    <3> QED BY <3>1
  <2> QED BY <1>6, <1>9, <1>11, <2>1 DEF q
<1> QED BY <1>5, <1>10, <1>11

(* The history handler has the latest samples of every series, as many as    *)
(* the window holds, for every window (TrafficHistory::ingest_snapshot,     *)
(* query_device): a point that was dropped is older than all that stayed.   *)
THEOREM RecentPointsAreLatest == Spec => []RecentWindow
<1>1. HistoryInv => RecentWindow
  <2> SUFFICES ASSUME HistoryInv, NEW s \in Series
               PROVE  UNION {a.samples : a \in QueryRecent(s)} =
                        {i \in Recorded(s) : Cardinality({j \in Recorded(s) : j > i}) < Capacity}
    BY DEF RecentWindow
  <2>1. TypeOK /\ Latest(s)
    BY DEF HistoryInv
  <2>2. UNION {a.samples : a \in QueryRecent(s)} = ToSet(recent[s])
    <3>1. ASSUME NEW a \in QueryRecent(s) PROVE a.samples \subseteq ToSet(recent[s])
      BY DEF QueryRecent
    <3>2. ASSUME NEW i \in ToSet(recent[s]) PROVE \E a \in QueryRecent(s) : i \in a.samples
      <4> DEFINE a == [at |-> log[i].at,
                       samples |-> IF s = Whole THEN {i}
                                   ELSE {j \in ToSet(recent[s]) : log[j].at = log[i].at}]
      <4>1. a \in QueryRecent(s)
        BY DEF QueryRecent
      <4>2. i \in a.samples
        OBVIOUS
      <4> QED BY <4>1, <4>2
    <3> QED BY <3>1, <3>2
  <2>3. ToSet(recent[s]) \subseteq Recorded(s)
    BY <2>1 DEF Latest, ToSet
  <2> QED BY <2>1, <2>2, <2>3, LatestFew
<1> QED BY <1>1, HistoryInvariant, PTL

-----------------------------------------------------------------------------
(* Zones.  Nothing more can be said of every zone: where the local clock is *)
(* put back, an hour that is shown twice does not convert, and the          *)
(* collector panics (run MCTrafficHistory_repeat).                         *)

(* Two hours of a clock that is never put back are the same or apart.       *)
LEMMA HoursApart ==
  ASSUME zone \in Zones, NeverBack(zone), NEW g, NEW h, IsHour(g), IsHour(h)
  PROVE  g = h \/ EndOf(g) < h \/ EndOf(h) < g
<1>1. /\ g \in Instants /\ h \in Instants /\ LocalTime(g) \in Int /\ LocalTime(h) \in Int
      /\ LocalTime(g) % HourLength = 0 /\ LocalTime(h) % HourLength = 0 /\ HourLength \in Nat \ {0}
  BY LocalTypes DEF IsHour
<1>2. /\ EndOf(g) \in Instants /\ LocalTime(EndOf(g)) = LocalTime(g) + HourLength - 1
      /\ EndOf(h) \in Instants /\ LocalTime(EndOf(h)) = LocalTime(h) + HourLength - 1
  BY HourItself
<1>3. CASE LocalTime(g) < LocalTime(h)
  <2>1. LocalTime(g) + HourLength <= LocalTime(h)
    BY <1>1, <1>3, Apart
  <2>2. LocalTime(EndOf(g)) < LocalTime(h)
    BY <1>1, <1>2, <2>1
  <2> QED BY <1>1, <1>2, <2>2, ClockOrder
<1>4. CASE LocalTime(h) < LocalTime(g)
  <2>1. LocalTime(h) + HourLength <= LocalTime(g)
    BY <1>1, <1>4, Apart
  <2>2. LocalTime(EndOf(h)) < LocalTime(g)
    BY <1>1, <1>2, <2>1
  <2> QED BY <1>1, <1>2, <2>2, ClockOrder
<1>5. CASE LocalTime(g) = LocalTime(h)
  <2>1. Instant(LocalTime(g)) = g /\ Instant(LocalTime(h)) = h
    BY <1>1, Conversion DEF IsHour
  <2> QED BY <1>5, <2>1
<1> QED BY <1>1, <1>3, <1>4, <1>5

(* Where the local clock is never put back, the hours of the interface and   *)
(* of its devices are the same or do not overlap, whatever jumps the clock   *)
(* of the host makes and wherever the local clock is put forward            *)
(* (hourly_bucket_local, ingest_iface, ingest_device).                     *)
THEOREM HoursStayApart == Spec => [](NeverBack(zone) => HoursDisjoint)
<1>1. HistoryInv => (NeverBack(zone) => HoursDisjoint)
  <2> SUFFICES ASSUME HistoryInv, NeverBack(zone), NEW b \in Hours, NEW c \in Hours
               PROVE  \/ b.start = c.start /\ b.end = c.end
                      \/ b.end < c.start \/ c.end < b.start
    BY DEF HoursDisjoint
  <2>1. zone \in Zones
    BY DEF HistoryInv, TypeOK
  <2>2. /\ IsHour(b.start) /\ b.end = EndOf(b.start)
        /\ IsHour(c.start) /\ c.end = EndOf(c.start)
    BY DEF Hours, HistoryInv, Histogram, HoursOf, InHour
  <2> QED BY <2>1, <2>2, HoursApart
<1> QED BY <1>1, HistoryInvariant, PTL

LEMMA WholeHoursConvert ==
  ASSUME zone \in Zones, NeverBack(zone), WholeHours(zone), NEW t \in Clock
  PROVE  ~ Panics(t, HourLength)
<1> DEFINE r == LocalTime(t) % HourLength
           u == t - r
           v == t - r + (HourLength - 1)
<1>1. /\ t \in Instants /\ t \in Int /\ HourLength \in Nat \ {0} /\ LocalTime(t) \in Int
      /\ LocalTime(t) = t + zone[t] /\ zone[t] \in Int /\ r \in Nat
  BY LocalTypes, Remainder
<1>2. ASSUME NEW k \in 0 .. HourLength - 1
      PROVE  t - r + k \in Instants /\ zone[t - r + k] = zone[t]
  BY <1>1 DEF WholeHours
<1>3. u \in Instants /\ LocalTime(u) = PeriodStart(t, HourLength)
  <2>1. 0 \in 0 .. HourLength - 1 /\ t - r + 0 = u
    BY <1>1
  <2>2. u \in Instants /\ zone[u] = zone[t]
    BY <1>2, <2>1
  <2>3. LocalTime(u) = u + zone[u] /\ PeriodStart(t, HourLength) = LocalTime(t) - r
    BY DEF LocalTime, PeriodStart
  <2> HIDE DEF r
  <2> QED BY <1>1, <2>2, <2>3
<1>4. v \in Instants /\ LocalTime(v) = PeriodEnd(t, HourLength)
  <2>1. HourLength - 1 \in 0 .. HourLength - 1
    BY <1>1
  <2>2. v \in Instants /\ zone[v] = zone[t]
    BY <1>2, <2>1
  <2>3. LocalTime(v) = v + zone[v] /\ PeriodStart(t, HourLength) = LocalTime(t) - r
    BY DEF LocalTime, PeriodStart
  <2>4. PeriodEnd(t, HourLength) = PeriodStart(t, HourLength) + HourLength - 1
    BY <1>1, PeriodAround
  <2> HIDE DEF r
  <2> QED BY <1>1, <2>2, <2>3, <2>4
<1> HIDE DEF u, v
<1> QED BY <1>3, <1>4, ShownConverts DEF Panics

(* Where the local clock is never put back and changes at the full hour      *)
(* only, the collector never panics, whatever the clock of the host does     *)
(* (monitor.rs 295, 296).                                                  *)
THEOREM CollectorSurvives == Spec => [](NeverBack(zone) /\ WholeHours(zone) => CollectorAlive)
<1> DEFINE Lives == zone \in Zones /\ (NeverBack(zone) /\ WholeHours(zone) => alive)
<1>1. Init => Lives
  BY DEF Init
<1>2. Lives /\ [Next]_vars => Lives'
  <2> SUFFICES ASSUME Lives, [Next]_vars PROVE Lives'
    OBVIOUS
  <2>1. zone' = zone
    BY DEF Next, Tick, Restart, vars
  <2>2. ASSUME NeverBack(zone), WholeHours(zone) PROVE alive'
    <3>1. ASSUME NEW t \in Clock, NEW online \in SUBSET Devices, Tick(t, online) PROVE alive'
      <4>1. ~ Panics(t, HourLength)
        BY <2>2, WholeHoursConvert
      <4> QED BY <2>2, <3>1, <4>1 DEF Tick
    <3>2. CASE Restart
      BY <3>2 DEF Restart
    <3>3. CASE UNCHANGED vars
      BY <2>2, <3>3 DEF vars
    <3> QED BY <3>1, <3>2, <3>3 DEF Next
  <2> QED BY <2>1, <2>2 DEF NeverBack, WholeHours
<1>3. Lives => (NeverBack(zone) /\ WholeHours(zone) => CollectorAlive)
  BY DEF CollectorAlive
<1> QED BY <1>1, <1>2, <1>3, PTL DEF Spec

-----------------------------------------------------------------------------
(* The three readers of a range.                                           *)

(* Days only gather hours.                                                 *)
LEMMA DaysHaveTheHours ==
  ASSUME NEW hours
  PROVE  Points(MergeDaily(hours)) = Points(hours)
<1>1. ASSUME NEW p \in Points(MergeDaily(hours)) PROVE p \in Points(hours)
  <2>1. PICK m \in MergeDaily(hours) : p \in m.points
    BY DEF Points
  <2>2. PICK day \in {DailyBucket(b.start) : b \in hours} :
          m = [start |-> day.start, end |-> day.end,
               points |-> Points({b \in hours : DailyBucket(b.start).start = day.start})]
    BY <2>1 DEF MergeDaily
  <2>3. p \in Points({b \in hours : DailyBucket(b.start).start = day.start})
    BY <2>1, <2>2
  <2> QED BY <2>3 DEF Points
<1>2. ASSUME NEW p \in Points(hours) PROVE p \in Points(MergeDaily(hours))
  <2>1. PICK b \in hours : p \in b.points
    BY DEF Points
  <2> DEFINE day == DailyBucket(b.start)
             m == [start |-> day.start, end |-> day.end,
                   points |-> Points({c \in hours : DailyBucket(c.start).start = day.start})]
  <2>2. m \in MergeDaily(hours)
    BY DEF MergeDaily
  <2>3. p \in m.points
    BY <2>1 DEF Points
  <2> QED BY <2>2, <2>3 DEF Points
<1> QED BY <1>1, <1>2

(* The windows of the answers for all devices have the traffic of each.     *)
LEMMA WindowsHaveTheTraffic ==
  ASSUME NEW from, NEW to, NEW kind
  PROVE  UNION {w.traffic : w \in AggregateAll(from, to, kind)} =
           UNION {{<<d, p>> : p \in Points(QueryAggregate(d, from, to, kind))} : d \in registry}
<1> DEFINE answers == Answers(from, to, kind)
           In(w) == {a \in answers : WindowOf(a) = w}
           Of(w) == [window |-> w, traffic |-> UNION {TrafficOf(a) : a \in In(w)}]
<1>1. AggregateAll(from, to, kind) = {Of(w) : w \in {WindowOf(a) : a \in answers}}
  BY DEF AggregateAll
<1>2. UNION {w.traffic : w \in AggregateAll(from, to, kind)} = UNION {TrafficOf(a) : a \in answers}
  <2>1. ASSUME NEW x, x \in UNION {w.traffic : w \in AggregateAll(from, to, kind)}
        PROVE  x \in UNION {TrafficOf(a) : a \in answers}
    BY <1>1, <2>1
  <2>2. ASSUME NEW a \in answers, NEW x \in TrafficOf(a)
        PROVE  x \in UNION {w.traffic : w \in AggregateAll(from, to, kind)}
    <3>1. Of(WindowOf(a)) \in AggregateAll(from, to, kind)
      BY <1>1
    <3>2. x \in Of(WindowOf(a)).traffic
      OBVIOUS
    <3> QED BY <3>1, <3>2
  <2> HIDE DEF answers
  <2> QED BY <2>1, <2>2
<1>3. \A x : x \in UNION {TrafficOf(a) : a \in answers}
               <=> \E d \in registry : \E b \in QueryAggregate(d, from, to, kind) : \E p \in b.points : x = <<d, p>>
  <2>1. \A a : a \in answers
                 <=> \E d \in registry : \E b \in QueryAggregate(d, from, to, kind) : a = [device |-> d, bucket |-> b]
    BY DEF Answers
  <2>2. \A a, x : x \in TrafficOf(a) <=> \E p \in a.bucket.points : x = <<a.device, p>>
    BY DEF TrafficOf
  <2> HIDE DEF answers
  <2>3. ASSUME NEW x, NEW a \in answers, x \in TrafficOf(a)
        PROVE  \E d \in registry : \E b \in QueryAggregate(d, from, to, kind) : \E p \in b.points : x = <<d, p>>
    BY <2>1, <2>2, <2>3
  <2>4. ASSUME NEW d \in registry, NEW b \in QueryAggregate(d, from, to, kind), NEW p \in b.points
        PROVE  \E a \in answers : <<d, p>> \in TrafficOf(a)
    <3>1. [device |-> d, bucket |-> b] \in answers
      BY <2>1
    <3>2. <<d, p>> \in TrafficOf([device |-> d, bucket |-> b])
      BY <2>2
    <3> QED BY <3>1, <3>2
  <2> QED BY <2>3, <2>4
<1>4. \A x : x \in UNION {{<<d, p>> : p \in Points(QueryAggregate(d, from, to, kind))} : d \in registry}
               <=> \E d \in registry : \E b \in QueryAggregate(d, from, to, kind) : \E p \in b.points : x = <<d, p>>
  BY DEF Points
<1> HIDE DEF answers
<1> QED BY <1>2, <1>3, <1>4

(* The traffic of all devices by hours, by days, and as they are ranked, is  *)
(* the same in every state, whatever the zone and the clock did (aggregate, *)
(* usage_ranking, merge_hourly_to_daily).                                  *)
THEOREM ReadersOfARangeAgree == Spec => []ReadersAgree
<1>1. ReadersAgree
  <2> SUFFICES ASSUME NEW from \in Times, NEW to \in {t \in Times : from <= t}
               PROVE  LET Traffic(kind) == UNION {w.traffic : w \in AggregateAll(from, to, kind)}
                          ranked        == Usage(from, to)
                      IN  /\ Traffic("hourly") = Traffic("daily")
                          /\ Traffic("daily") = UNION {{<<d, p>> : p \in ranked[d]} : d \in registry}
    BY DEF ReadersAgree
  <2> DEFINE Traffic(kind) == UNION {w.traffic : w \in AggregateAll(from, to, kind)}
             Hourly(d) == Points(QueryAggregate(d, from, to, "hourly"))
             Daily(d) == Points(QueryAggregate(d, from, to, "daily"))
             ranked == Usage(from, to)
  <2>1. \A d : Daily(d) = Hourly(d)
    BY DaysHaveTheHours DEF QueryAggregate
  <2>2. Traffic("hourly") = UNION {{<<d, p>> : p \in Hourly(d)} : d \in registry}
    BY WindowsHaveTheTraffic
  <2>3. Traffic("daily") = UNION {{<<d, p>> : p \in Daily(d)} : d \in registry}
    BY WindowsHaveTheTraffic
  <2>4. \A d \in registry : ranked[d] = Daily(d)
    BY DEF Usage
  <2> HIDE DEF Traffic, Hourly, Daily, ranked
  <2>5. Traffic("hourly") = Traffic("daily")
    BY <2>1, <2>2, <2>3
  <2>6. Traffic("daily") = UNION {{<<d, p>> : p \in ranked[d]} : d \in registry}
    BY <2>3, <2>4
  <2> QED BY <2>5, <2>6 DEF Traffic, ranked
<1> QED BY <1>1, PTL

-----------------------------------------------------------------------------
(* Queries, where every hour and day that is met converts.                 *)

LEMMA LengthsNest ==
  ASSUME NEW x \in Int, x % DayLength = 0 \/ x % WeekLength = 0
  PROVE  x % HourLength = 0
<1>1. /\ HourLength \in Nat \ {0} /\ DayHours \in Nat \ {0} /\ WeekDays \in Nat \ {0}
      /\ DayLength = DayHours * HourLength /\ WeekLength = WeekDays * DayLength
  BY LocalHoursConstants DEF DayLength, WeekLength
<1>2. DayLength \in Nat \ {0}
  BY <1>1, SMT
<1>3. x % WeekLength = 0 => x % DayLength = 0
  BY <1>1, <1>2, Coarser
<1>4. x % DayLength = 0 => x % HourLength = 0
  BY <1>1, Coarser
<1> QED BY <1>3, <1>4

(* An hour is of the day and the week that its instants are of.            *)
LEMMA PeriodOfHour ==
  ASSUME zone \in Zones, NEW t \in Instants, NEW h \in Instants,
         LocalTime(h) = PeriodStart(t, HourLength), NEW m \in {DayLength, WeekLength}
  PROVE  PeriodStart(h, m) = PeriodStart(t, m)
<1> DEFINE p == PeriodStart(t, m)
           l == PeriodStart(t, HourLength)
<1>1. HourLength \in Nat \ {0} /\ m \in Nat \ {0} /\ LocalTime(t) \in Int
  BY LocalTypes
<1>2. p \in Int /\ p % m = 0 /\ p <= LocalTime(t) /\ LocalTime(t) <= p + m - 1
  BY <1>1, PeriodAround
<1>3. l \in Int /\ l % HourLength = 0 /\ l <= LocalTime(t) /\ LocalTime(t) <= l + HourLength - 1
  BY <1>1, PeriodAround
<1> HIDE DEF p, l
<1>4. p % HourLength = 0
  BY <1>2, LengthsNest
<1>5. l < p => l + HourLength <= p
  BY <1>1, <1>2, <1>3, <1>4, Apart
<1>6. p <= l /\ l <= p + m - 1
  BY <1>1, <1>2, <1>3, <1>5
<1>7. PeriodStart(h, m) = p
  BY <1>1, <1>2, <1>6, PeriodIs DEF l
<1> QED BY <1>7 DEF p

LEMMA DaysConvert ==
  ASSUME zone \in Zones, NeverBack(zone), WholeDays(zone), NEW t \in Clock
  PROVE  /\ Converts(PeriodStart(t, DayLength)) /\ Converts(PeriodEnd(t, DayLength))
         /\ Converts(PeriodStart(t, WeekLength))
<1>1. t \in Instants /\ DayLength \in Nat \ {0} /\ WeekLength \in Nat \ {0}
  BY LocalTypes
<1>2. \A m : PeriodStart(t, m) = (t + zone[t]) - ((t + zone[t]) % m)
  BY Zenon DEF PeriodStart, LocalTime
<1>3. PeriodEnd(t, DayLength) = PeriodStart(t, DayLength) + DayLength - 1
  BY <1>1, PeriodAround
<1>4. ASSUME NEW local \in {PeriodStart(t, DayLength), PeriodEnd(t, DayLength), PeriodStart(t, WeekLength)}
      PROVE  Converts(local)
  <2>1. PICK u \in Instants : u + zone[u] = local
    BY <1>2, <1>3, Zenon DEF WholeDays
  <2>2. LocalTime(u) = local
    BY <2>1 DEF LocalTime
  <2> QED BY <2>2, ShownConverts
<1> QED BY <1>4

LEMMA LogTypes ==
  ASSUME TypeOK
  PROVE  /\ DOMAIN log = 1 .. Len(log) /\ Len(log) \in Nat
         /\ \A j \in DOMAIN log : log[j].at \in Clock
<1> DEFINE R == [at : Clock, listed : SUBSET Series]
<1>1. log \in Seq(R)
  BY DEF TypeOK
<1>2. \A r \in R : r.at \in Clock
  OBVIOUS
<1> HIDE DEF R
<1>3. DOMAIN log = 1 .. Len(log) /\ Len(log) \in Nat
  BY <1>1
<1>4. \A j \in 1 .. Len(log) : log[j] \in R
  BY <1>1
<1> QED BY <1>2, <1>3, <1>4

(* The hour a sample is in spans its time.                                 *)
LEMMA HourSpans ==
  ASSUME HistoryInv, NeverBack(zone), NEW s \in Series, NEW b \in HoursOf(s), NEW p \in b.points
  PROVE  /\ p.sample \in Recorded(s) /\ At(p) \in Clock /\ At(p) \in Instants
         /\ b.start \in Instants /\ b.end \in Instants
         /\ LocalTime(b.start) = PeriodStart(At(p), HourLength)
         /\ LocalTime(b.end) = LocalTime(b.start) + HourLength - 1
         /\ b.start <= At(p) /\ At(p) <= b.end
<1>1. TypeOK /\ Histogram /\ zone \in Zones
  BY DEF HistoryInv, TypeOK
<1>2. /\ IsHour(b.start) /\ b.end = EndOf(b.start) /\ p.sample \in Recorded(s)
      /\ ~ Panics(At(p), HourLength) /\ HourlyBucket(At(p)).start = b.start
  BY <1>1 DEF Histogram, InHour
<1>3. At(p) \in Clock
  <2>1. p.sample \in DOMAIN log
    BY <1>2 DEF Recorded
  <2> QED BY <1>1, <2>1, LogTypes DEF At
<1>4. At(p) \in Instants /\ HourLength \in Nat \ {0}
  BY <1>1, <1>3, LocalTypes
<1>5. LocalTime(b.start) = PeriodStart(At(p), HourLength)
  BY <1>1, <1>2, <1>4, HourAround
<1>6. b.start \in Instants /\ b.end \in Instants /\ LocalTime(b.end) = LocalTime(b.start) + HourLength - 1
  BY <1>1, <1>2, HourItself DEF IsHour
<1>7. LocalTime(b.start) <= LocalTime(At(p)) /\ LocalTime(At(p)) <= LocalTime(b.end)
  <2>1. /\ PeriodStart(At(p), HourLength) <= LocalTime(At(p))
        /\ LocalTime(At(p)) <= PeriodStart(At(p), HourLength) + HourLength - 1
    BY <1>1, <1>4, PeriodAround
  <2> QED BY <1>5, <1>6, <2>1
<1>8. b.start <= At(p) /\ At(p) <= b.end
  BY <1>1, <1>4, <1>6, <1>7, ClockOrder
<1> QED BY <1>2, <1>3, <1>4, <1>5, <1>6, <1>8

(* A sample is in one hour only.                                           *)
LEMMA OneHour ==
  ASSUME HistoryInv, NEW s \in Series, NEW b \in HoursOf(s), NEW c \in HoursOf(s),
         NEW i \in Recorded(s), Has(b, i), Has(c, i)
  PROVE  b = c
<1>1. Apiece(s) /\ i \in 1 .. MaxSamples
  <2>1. Len(log) <= MaxSamples /\ log \in Seq([at : Clock, listed : SUBSET Series])
        /\ MaxSamples \in Nat
    BY TrafficHistoryConstants DEF HistoryInv, TypeOK
  <2>2. DOMAIN log = 1 .. Len(log) /\ Len(log) \in Nat
    BY <2>1
  <2>3. i \in DOMAIN log
    BY DEF Recorded
  <2>4. i \in 1 .. MaxSamples
    BY <2>1, <2>2, <2>3
  <2> QED BY <2>4 DEF HistoryInv, Histogram
<1>2. \A x : x \in HoursOf(s) =>
               x \in completed[s] \/ (current[s] # NoHour /\ x = PointsToBucket(current[s]))
  BY DEF HoursOf
<1>3. Has(PointsToBucket(current[s]), i) <=> Has(current[s], i)
  BY PointsToBucketIs
<1> QED BY <1>1, <1>2, <1>3 DEF Apiece

(* A query by hours has every sample of its range.                         *)
LEMMA HourlyFinds ==
  ASSUME HistoryInv, alive, NeverBack(zone), NEW s \in Series, NEW from \in Int, NEW to \in Int,
         NEW i \in Recorded(s), from <= log[i].at, log[i].at <= to
  PROVE  \E b \in QueryHourly(s, from, to) : Has(b, i)
<1>1. PICK b \in HoursOf(s) : Has(b, i)
  BY DEF HistoryInv, Histogram, Found
<1>2. PICK p \in b.points : p.sample = i
  BY <1>1 DEF Has
<1>3. At(p) = log[i].at
  BY <1>2 DEF At
<1>4. /\ At(p) \in Instants /\ b.start \in Instants /\ b.end \in Instants
      /\ b.start <= At(p) /\ At(p) <= b.end
  BY HourSpans
<1>5. At(p) \in Int /\ b.start \in Int /\ b.end \in Int
  BY <1>4, LocalHoursConstants
<1>6. b.start <= to /\ b.end >= from
  BY <1>3, <1>4, <1>5
<1>7. QueryHourly(s, from, to) = Overlapping(HoursOf(s), from, to)
  BY DEF QueryHourly, HoursOf
<1> QED BY <1>1, <1>6, <1>7 DEF Overlapping

(* The day of an hour, by any sample of it.                                *)
LEMMA DayOfHour ==
  ASSUME HistoryInv, NeverBack(zone), WholeDays(zone),
         NEW s \in Series, NEW b \in HoursOf(s), NEW p \in b.points
  PROVE  LET day == DailyBucket(b.start)
         IN  /\ day = [start |-> day.start, end |-> day.end]
             /\ day.start \in Instants /\ day.end \in Instants
             /\ LocalTime(day.start) = PeriodStart(At(p), DayLength)
             /\ day.end = Instant(LocalTime(day.start) + DayLength - 1)
             /\ day.start <= At(p) /\ At(p) <= day.end
<1> DEFINE day == DailyBucket(b.start)
           t == At(p)
           l == PeriodStart(t, DayLength)
<1>1. zone \in Zones /\ t \in Clock /\ t \in Instants /\ b.start \in Instants
      /\ LocalTime(b.start) = PeriodStart(t, HourLength)
  BY HourSpans DEF HistoryInv, TypeOK
<1>2. DayLength \in Nat \ {0} /\ LocalTime(t) \in Int
  BY <1>1, LocalTypes
<1>3. PeriodStart(b.start, DayLength) = l
  BY <1>1, PeriodOfHour
<1>4. /\ PeriodEnd(b.start, DayLength) = l + DayLength - 1
      /\ PeriodEnd(t, DayLength) = l + DayLength - 1
      /\ l \in Int /\ l <= LocalTime(t) /\ LocalTime(t) <= l + DayLength - 1
  BY <1>1, <1>2, <1>3, PeriodAround
<1>5. Converts(l) /\ Converts(l + DayLength - 1)
  BY <1>1, <1>4, DaysConvert
<1>6. day = [start |-> Instant(l), end |-> Instant(l + DayLength - 1)]
  BY <1>3, <1>4 DEF DailyBucket, BucketOf
<1>7. /\ day.start \in Instants /\ LocalTime(day.start) = l
      /\ day.end \in Instants /\ LocalTime(day.end) = l + DayLength - 1
  BY <1>1, <1>5, <1>6, Conversion
<1>8. day.start <= t /\ t <= day.end
  BY <1>1, <1>4, <1>7, ClockOrder
<1> QED BY <1>6, <1>7, <1>8

(* Where the local clock is never put back and no midnight is skipped, a     *)
(* query by hours or by days has every sample of its range in one bucket,   *)
(* which spans it, wherever the clock of the host jumped in between         *)
(* (query_aggregate, merge_hourly_to_daily).                               *)
THEOREM QueriesFindOnce == Spec => [](NeverBack(zone) /\ WholeDays(zone) => QueriesFind)
<1>1. HistoryInv => (NeverBack(zone) /\ WholeDays(zone) => QueriesFind)
  <2> SUFFICES ASSUME HistoryInv, NeverBack(zone), WholeDays(zone), alive,
                      NEW s \in Series, NEW kind \in Kinds, NEW from \in Times,
                      NEW to \in {t \in Times : from <= t}
               PROVE  LET answer == QueryAggregate(s, from, to, kind)
                      IN  /\ \A i \in Recorded(s) :
                               from <= log[i].at /\ log[i].at <= to =>
                                 Cardinality({b \in answer : \E p \in b.points : p.sample = i}) = 1
                          /\ \A b \in answer : \A p \in b.points : b.start <= At(p) /\ At(p) <= b.end
    BY DEF QueriesFind
  <2> DEFINE hours == QueryHourly(s, from, to)
             answer == QueryAggregate(s, from, to, kind)
  <2>1. hours \subseteq HoursOf(s)
    BY DEF QueryHourly, HoursOf, Overlapping
  <2>2. from \in Int /\ to \in Int
    <3>1. TypeOK
      BY DEF HistoryInv
    <3>2. \A j \in DOMAIN log : log[j].at \in Int
      BY <3>1, LogTypes, LocalHoursConstants
    <3> QED BY <3>2 DEF Times
  <2>3. ASSUME NEW i \in Recorded(s), from <= log[i].at, log[i].at <= to
        PROVE  \E b \in hours : Has(b, i) /\ \A c \in hours : Has(c, i) => c = b
    <3>1. PICK b \in hours : Has(b, i)
      BY <2>2, <2>3, HourlyFinds
    <3>2. ASSUME NEW c \in hours, Has(c, i) PROVE c = b
      BY <2>1, <3>1, <3>2, OneHour
    <3> QED BY <3>1, <3>2
  <2>4. ASSUME NEW i, NEW b \in answer, Has(b, i), \A c \in answer : Has(c, i) => c = b
        PROVE  Cardinality({c \in answer : \E p \in c.points : p.sample = i}) = 1
    <3>1. {c \in answer : \E p \in c.points : p.sample = i} = {b}
      BY <2>4 DEF Has
    <3> QED BY <3>1, FS_Singleton
  <2> HIDE DEF hours
  <2>5. CASE kind = "hourly"
    <3>1. answer = hours
      BY <2>5 DEF QueryAggregate, hours
    <3> HIDE DEF answer
    <3>2. ASSUME NEW i \in Recorded(s), from <= log[i].at, log[i].at <= to
          PROVE  Cardinality({b \in answer : \E p \in b.points : p.sample = i}) = 1
      BY <2>3, <2>4, <3>1, <3>2
    <3>3. \A b \in answer : \A p \in b.points : b.start <= At(p) /\ At(p) <= b.end
      BY <2>1, <3>1, HourSpans
    <3> QED BY <3>2, <3>3 DEF answer
  <2>6. CASE kind = "daily"
    <3> DEFINE Day(b) == DailyBucket(b.start)
               Of(day) == [start |-> day.start, end |-> day.end,
                           points |-> Points({b \in hours : DailyBucket(b.start).start = day.start})]
    <3>1. answer = {Of(day) : day \in {Day(b) : b \in hours}}
      BY <2>6 DEF QueryAggregate, MergeDaily, hours
    <3>2. ASSUME NEW b \in hours, NEW c \in hours, Day(b).start = Day(c).start PROVE Day(b) = Day(c)
      <4>1. PICK p \in b.points, q \in c.points : TRUE
        BY <2>1 DEF HistoryInv, Histogram, InHour
      <4>2. /\ Day(b) = [start |-> Day(b).start, end |-> Day(b).end]
            /\ Day(b).end = Instant(LocalTime(Day(b).start) + DayLength - 1)
        BY <2>1, <4>1, DayOfHour
      <4>3. /\ Day(c) = [start |-> Day(c).start, end |-> Day(c).end]
            /\ Day(c).end = Instant(LocalTime(Day(c).start) + DayLength - 1)
        BY <2>1, <4>1, DayOfHour
      <4> QED BY <3>2, <4>2, <4>3
    <3>3. \A b \in hours : Of(Day(b)) \in answer
      BY <3>1
    <3>4. ASSUME NEW m \in answer, NEW p \in m.points
          PROVE  \E c \in hours : p \in c.points /\ m = Of(Day(c))
      <4>1. PICK b \in hours : m = Of(Day(b))
        BY <3>1
      <4>2. PICK c \in hours : Day(c).start = Day(b).start /\ p \in c.points
        BY <3>4, <4>1 DEF Points
      <4>3. Day(c) = Day(b)
        BY <3>2, <4>2
      <4> QED BY <4>1, <4>2, <4>3
    <3>5. \A b \in hours : \A p \in b.points : p \in Of(Day(b)).points
      BY DEF Points
    <3>6. \A b \in hours : Of(Day(b)).start = Day(b).start /\ Of(Day(b)).end = Day(b).end
      OBVIOUS
    <3> HIDE DEF answer, Of
    <3>7. ASSUME NEW i \in Recorded(s), from <= log[i].at, log[i].at <= to
          PROVE  Cardinality({b \in answer : \E p \in b.points : p.sample = i}) = 1
      <4>1. PICK b \in hours : Has(b, i) /\ \A c \in hours : Has(c, i) => c = b
        BY <2>3, <3>7
      <4>2. Of(Day(b)) \in answer /\ Has(Of(Day(b)), i)
        BY <3>3, <3>5, <4>1 DEF Has
      <4>3. ASSUME NEW m \in answer, Has(m, i) PROVE m = Of(Day(b))
        <5>1. PICK p \in m.points : p.sample = i
          BY <4>3 DEF Has
        <5>2. PICK c \in hours : p \in c.points /\ m = Of(Day(c))
          BY <3>4, <5>1
        <5>3. c = b
          BY <4>1, <5>1, <5>2 DEF Has
        <5> QED BY <5>2, <5>3
      <4> QED BY <2>4, <4>2, <4>3
    <3>8. ASSUME NEW m \in answer, NEW p \in m.points PROVE m.start <= At(p) /\ At(p) <= m.end
      <4>1. PICK c \in hours : p \in c.points /\ m = Of(Day(c))
        BY <3>4, <3>8
      <4>2. Day(c).start <= At(p) /\ At(p) <= Day(c).end
        BY <2>1, <4>1, DayOfHour
      <4> QED BY <3>6, <4>1, <4>2
    <3> QED BY <3>7, <3>8 DEF answer
  <2> QED BY <2>5, <2>6 DEF Kinds
<1> QED BY <1>1, HistoryInvariant, PTL

(* Where a period of the last sample's begins, in the past.                *)
LEMMA ScopeBegins ==
  ASSUME zone \in Zones, NeverBack(zone), WholeDays(zone), NEW t \in Clock,
         NEW length \in {DayLength, WeekLength}
  PROVE  /\ ScopeStart(t, length) \in Instants
         /\ LocalTime(ScopeStart(t, length)) = PeriodStart(t, length)
         /\ \A u \in Instants : LocalTime(u) >= PeriodStart(t, length) <=> u >= ScopeStart(t, length)
<1> DEFINE from == ScopeStart(t, length)
<1>1. Converts(PeriodStart(t, length))
  BY DaysConvert
<1>2. from \in Instants /\ LocalTime(from) = PeriodStart(t, length)
  BY <1>1, Conversion DEF ScopeStart
<1> HIDE DEF from
<1>3. \A u \in Instants : LocalTime(u) >= LocalTime(from) <=> u >= from
  <2> SUFFICES ASSUME NEW u \in Instants PROVE LocalTime(u) >= LocalTime(from) <=> u >= from
    OBVIOUS
  <2>1. from <= u <=> LocalTime(from) <= LocalTime(u)
    BY <1>2, ClockOrder
  <2>2. u \in Int /\ from \in Int /\ LocalTime(u) \in Int /\ LocalTime(from) \in Int
    BY <1>2, LocalTypes
  <2> QED BY <2>1, <2>2
<1> QED BY <1>2, <1>3 DEF from

(* What a series has counted, in whatever hours.                           *)
Stored(s) ==
  Points(completed[s]) \cup (IF current[s] = NoHour THEN {} ELSE current[s].points)

(* The hours have every sample once, and the first one of a series twice.   *)
Filed(s) ==
  /\ current[s] = NoHour => completed[s] = {}
  /\ alive => Stored(s) = Counted(s)

LEMMA StoredInHours == ASSUME NEW s PROVE Points(HoursOf(s)) = Stored(s)
<1>1. PointsToBucket(current[s]).points = current[s].points
  BY PointsToBucketIs
<1> QED BY <1>1 DEF Points, HoursOf, Stored

(* May a point be among those counted of some samples?                      *)
May(p, S) == p.sample \in S /\ (p.again => \A j \in S : p.sample <= j)

LEMMA CountedIs == ASSUME NEW s PROVE Counted(s) = {p \in Point : May(p, Recorded(s))}
BY Zenon DEF Counted, May

LEMMA PointIs ==
  ASSUME NEW p \in Point, NEW i, p.sample = i
  PROVE  /\ ~ p.again => p = [sample |-> i, again |-> FALSE]
         /\ p.again => p = [sample |-> i, again |-> TRUE]
BY DEF Point

(* The first sample counts twice, a later one once.                        *)
LEMMA CountedNext ==
  ASSUME NEW S \in SUBSET Nat, NEW i \in 1 .. MaxSamples, \A j \in S : j < i
  PROVE  {p \in Point : May(p, S \cup {i})} =
           {p \in Point : May(p, S)} \cup {[sample |-> i, again |-> FALSE]}
             \cup (IF S = {} THEN {[sample |-> i, again |-> TRUE]} ELSE {})
<1> DEFINE Once  == [sample |-> i, again |-> FALSE]
           Twice == [sample |-> i, again |-> TRUE]
<1>1. i \in Nat
  BY TrafficHistoryConstants
<1>2. /\ Once \in Point /\ Once.sample = i /\ ~ Once.again
      /\ Twice \in Point /\ Twice.sample = i /\ Twice.again
  BY DEF Point
<1>3. ASSUME NEW p \in Point, p.sample = i
      PROVE  (~ p.again => p = Once) /\ (p.again => p = Twice)
  BY <1>3, PointIs
<1> HIDE DEF Once, Twice
<1>4. i \notin S /\ i <= i /\ \A j \in S : j <= i /\ ~ (i <= j)
  BY <1>1
<1>5. ASSUME NEW p \in Point, p.sample \in S PROVE May(p, S \cup {i}) <=> May(p, S)
  BY <1>4, <1>5, Zenon DEF May
<1>6. ASSUME NEW p \in Point, p.sample = i PROVE ~ May(p, S)
  BY <1>4, <1>6, Zenon DEF May
<1>7. ASSUME NEW p \in Point, p.sample = i, S = {} PROVE May(p, S \cup {i})
  BY <1>4, <1>7, Zenon DEF May
<1>8. ASSUME NEW p \in Point, p.sample = i, S # {} PROVE May(p, S \cup {i}) <=> ~ p.again
  BY <1>4, <1>8, Zenon DEF May
<1>9. \A p \in Point : (May(p, S) => p.sample \in S) /\ (May(p, S \cup {i}) => p.sample \in S \cup {i})
  BY DEF May
<1>10. ASSUME NEW p \in Point
       PROVE  May(p, S \cup {i}) <=> May(p, S) \/ p = Once \/ (S = {} /\ p = Twice)
  <2>1. CASE p.sample \in S
    BY <1>2, <1>4, <1>5, <2>1
  <2>2. CASE p.sample = i
    <3>1. (p = Once => ~ p.again) /\ (p = Twice => p.again) /\ (p = Once \/ p = Twice)
      BY <1>2, <1>3, <2>2, Zenon
    <3>2. CASE S = {}
      BY <1>7, <2>2, <3>1, <3>2, Zenon
    <3>3. CASE S # {}
      BY <1>6, <1>8, <1>3, <2>2, <3>1, <3>3, Zenon
    <3> QED BY <3>2, <3>3
  <2>3. CASE p.sample \notin S \cup {i}
    BY <1>2, <1>9, <2>3
  <2> QED BY <2>1, <2>2, <2>3
<1> QED BY <1>2, <1>10 DEF Once, Twice

LEMMA TickFiled ==
  ASSUME HistoryInv, NEW t \in Clock, NEW online \in SUBSET Devices, Tick(t, online),
         NEW s \in Series, Filed(s)
  PROVE  Filed(s)'
<1> DEFINE i == Len(log) + 1
           listed == registry \cup online \cup {Whole}
           h == HourlyBucket(t).start
<1>1. /\ TypeOK /\ Histogram /\ i \in 1 .. MaxSamples
      /\ Recorded(s)' = Recorded(s) \cup (IF s \in listed THEN {i} ELSE {})
  BY TickLog DEF HistoryInv
<1>2. Recorded(s) \in SUBSET Nat /\ \A j \in Recorded(s) : j < i
  <2>1. DOMAIN log = 1 .. Len(log) /\ Len(log) \in Nat
    BY <1>1, LogTypes
  <2> QED BY <2>1 DEF Recorded
<1>3. alive /\ Stored(s) = Counted(s)
  BY DEF Filed, Tick
<1>4. current[s] # NoHour => current[s] \in HourType
  BY <1>1 DEF TypeOK, HourType
<1>5. current[s] = NoHour <=> Recorded(s) = {}
  <2>1. ASSUME current[s] = NoHour, NEW j \in Recorded(s) PROVE FALSE
    <3>1. [sample |-> j, again |-> FALSE] \in Counted(s)
      <4>1. j \in 1 .. MaxSamples
        <5>1. j \in DOMAIN log /\ DOMAIN log \subseteq 1 .. MaxSamples
          BY <1>1, TickLog DEF Recorded
        <5> QED BY <5>1
      <4> QED BY <4>1 DEF Counted, Point
    <3>2. Stored(s) = {}
      BY <2>1 DEF Filed, Stored, Points
    <3> QED BY <1>3, <3>1, <3>2
  <2>2. ASSUME current[s] # NoHour PROVE Recorded(s) # {}
    <3>1. PointsToBucket(current[s]) \in HoursOf(s)
      BY <2>2 DEF HoursOf
    <3>2. InHour(s, PointsToBucket(current[s]))
      BY <1>1, <3>1 DEF Histogram
    <3> QED BY <3>2 DEF InHour
  <2> QED BY <2>1, <2>2
<1>9. ASSUME NEW points \in SUBSET Point, ~ Panics(t, HourLength)
      PROVE  [start |-> h, points |-> points] # NoHour
  <2>1. h \in Instants
    <3>1. t \in Instants /\ zone \in Zones
      BY <1>1, TickLog
    <3> QED BY <1>9, <3>1, HourAround DEF IsHour
  <2> QED BY <1>9, <2>1, TrafficHistoryConstants
<1>6. CASE Panics(t, HourLength)
  BY <1>3, <1>6 DEF Tick, Filed
<1>7. CASE ~ Panics(t, HourLength) /\ s \notin listed
  <2>1. current'[s] = current[s] /\ completed'[s] = completed[s] /\ Recorded(s)' = Recorded(s)
    BY <1>1, <1>7 DEF Tick
  <2> QED BY <1>3, <2>1 DEF Filed, Stored, Counted, Points
<1>8. CASE ~ Panics(t, HourLength) /\ s \in listed
  <2>1. /\ current'[s] = Filled(current[s], i, t)
        /\ completed'[s] = completed[s] \cup Closed(current[s], t)
    <3> HIDE DEF i
    <3> USE <1>8 DEF Tick
    <3> QED BY DEF i
  <2>2. Recorded(s)' = Recorded(s) \cup {i}
    BY <1>1, <1>8
  <2> DEFINE Once  == [sample |-> i, again |-> FALSE]
             Twice == [sample |-> i, again |-> TRUE]
  <2>3. Counted(s)' = Counted(s) \cup {Once} \cup (IF Recorded(s) = {} THEN {Twice} ELSE {})
    <3>1. Counted(s)' = {p \in Point : May(p, Recorded(s) \cup {i})}
      BY <2>2, Zenon DEF Counted, May
    <3>2. Counted(s) = {p \in Point : May(p, Recorded(s))}
      BY CountedIs
    <3>3. PICK S : S = Recorded(s)
      OBVIOUS
    <3>4. {p \in Point : May(p, S \cup {i})} =
            {p \in Point : May(p, S)} \cup {Once} \cup (IF S = {} THEN {Twice} ELSE {})
      <4> HIDE DEF i
      <4>1. S \in SUBSET Nat /\ i \in 1 .. MaxSamples /\ \A j \in S : j < i
        BY <1>1, <1>2, <3>3
      <4> QED BY <4>1, CountedNext, Zenon
    <3> QED BY <3>1, <3>2, <3>3, <3>4
  <2>4. Begun(i, t) = [start |-> h, points |-> {Once}]
    BY DEF Begun
  <2> HIDE DEF i, h, Once, Twice
  <2>5. CASE current[s] = NoHour
    <3>1. current'[s] = [start |-> h, points |-> {Once, Twice}]
      <4>1. Filled(current[s], i, t) = [Begun(i, t) EXCEPT !.points = @ \cup {Twice}]
        BY <2>5, Zenon DEF Filled, Twice
      <4>2. Filled(current[s], i, t) = [start |-> h, points |-> {Once} \cup {Twice}]
        BY <2>4, <4>1
      <4>3. {Once} \cup {Twice} = {Once, Twice}
        OBVIOUS
      <4> QED BY <2>1, <4>2, <4>3
    <3>2. completed'[s] = {}
      BY <2>1, <2>5 DEF Filed, Closed
    <3>3. current'[s] # NoHour
      <4>1. {Once, Twice} \in SUBSET Point
        BY <1>1 DEF Once, Twice, Point, i
      <4> QED BY <1>8, <1>9, <3>1, <4>1
    <3>4. Stored(s)' = {Once, Twice}
      BY <3>1, <3>2, <3>3 DEF Stored, Points
    <3>5. Counted(s) = {} /\ Recorded(s) = {}
      BY <1>5, <2>5 DEF Counted
    <3> QED BY <2>3, <3>3, <3>4, <3>5 DEF Filed
  <2>6. CASE current[s] # NoHour
    <3>1. Recorded(s) # {} /\ Stored(s) = Points(completed[s]) \cup current[s].points
      BY <1>5, <2>6 DEF Stored
    <3>2. CASE SameHour(current[s], t)
      <4>1. current'[s] = [current[s] EXCEPT !.points = @ \cup {Once}] /\ completed'[s] = completed[s]
        BY <2>1, <2>6, <3>2 DEF Filled, Closed, Once
      <4>2. current[s] \in HourType /\ Once \in Point
        BY <1>1, <1>4, <2>6 DEF Once, Point, i
      <4>3. current'[s] \in HourType /\ current'[s].points = current[s].points \cup {Once}
        BY <4>1, <4>2 DEF HourType
      <4>4. current'[s] # NoHour
        BY <4>3, TrafficHistoryConstants DEF HourType
      <4>5. Stored(s)' = Stored(s) \cup {Once}
        BY <3>1, <4>1, <4>3, <4>4 DEF Stored, Points
      <4> QED BY <1>3, <2>3, <3>1, <4>4, <4>5 DEF Filed
    <3>3. CASE ~ SameHour(current[s], t)
      <4>1. /\ current'[s] = [start |-> h, points |-> {Once}]
            /\ completed'[s] = completed[s] \cup {PointsToBucket(current[s])}
        BY <2>1, <2>4, <2>6, <3>3 DEF Filled, Closed
      <4>2. Once \in Point
        BY <1>1 DEF Once, Point, i
      <4>3. current'[s] # NoHour
        BY <1>8, <1>9, <4>1, <4>2
      <4>4. PointsToBucket(current[s]).points = current[s].points
        BY PointsToBucketIs
      <4>5. Stored(s)' = Stored(s) \cup {Once}
        BY <3>1, <4>1, <4>3, <4>4 DEF Stored, Points
      <4> QED BY <1>3, <2>3, <3>1, <4>3, <4>5 DEF Filed
    <3> QED BY <3>2, <3>3
  <2> QED BY <2>5, <2>6
<1> QED BY <1>6, <1>7, <1>8

LEMMA FiledStep ==
  HistoryInv /\ HistoryInv' /\ (\A s \in Series : Filed(s)) /\ [Next]_vars => (\A s \in Series : Filed(s))'
<1> SUFFICES ASSUME HistoryInv, HistoryInv', \A s \in Series : Filed(s), [Next]_vars, NEW s \in Series
             PROVE  Filed(s)'
  OBVIOUS
<1>1. ASSUME NEW t \in Clock, NEW online \in SUBSET Devices, Tick(t, online) PROVE Filed(s)'
  BY <1>1, TickFiled
<1>2. CASE Restart
  <2>1. current'[s] = NoHour /\ completed'[s] = {} /\ log' = <<>>
    BY <1>2 DEF Restart
  <2>2. Stored(s)' = {} /\ Counted(s)' = {}
    BY <2>1 DEF Stored, Points, Counted, Recorded
  <2> QED BY <2>1, <2>2 DEF Filed
<1>3. CASE UNCHANGED vars
  BY <1>3 DEF vars, Filed, Stored, Points, Counted, Recorded
<1> QED BY <1>1, <1>2, <1>3 DEF Next

LEMMA FiledAlways == Spec => [](\A s \in Series : Filed(s))
<1>1. Init => \A s \in Series : Filed(s)
  <2> SUFFICES ASSUME Init, NEW s \in Series PROVE Filed(s)
    OBVIOUS
  <2>1. current[s] = NoHour /\ completed[s] = {} /\ log = <<>>
    BY DEF Init
  <2>2. Stored(s) = {} /\ Counted(s) = {}
    BY <2>1 DEF Stored, Points, Counted, Recorded
  <2> QED BY <2>1, <2>2 DEF Filed
<1> QED BY <1>1, FiledStep, HistoryInvariant, PTL DEF Spec

(* Where the local clock is never put back and no midnight is skipped, the   *)
(* total of today or of this week has the points since the local day or week *)
(* began, each once, and no other, for a clock that was not set back         *)
(* (period_range_ms, cumulative_from_buckets): the traffic of every sample   *)
(* of the period, that of the first sample of a series twice.               *)
THEOREM PeriodsInFull == Spec => [](NeverBack(zone) /\ WholeDays(zone) => PeriodTotals)
<1>1. HistoryInv /\ (\A s \in Series : Filed(s)) => (NeverBack(zone) /\ WholeDays(zone) => PeriodTotals)
  <2> SUFFICES ASSUME HistoryInv, \A s \in Series : Filed(s),
                      NeverBack(zone), WholeDays(zone), alive, InOrder, log # <<>>,
                      NEW s \in Series, NEW length \in {DayLength, WeekLength}
               PROVE  PeriodTotal(s, Last(log).at, length) =
                        {p \in Counted(s) :
                           PeriodStart(At(p), length) = PeriodStart(Last(log).at, length)}
    BY DEF PeriodTotals
  <2> DEFINE request == Last(log).at
             P == PeriodStart(request, length)
             from == ScopeStart(request, length)
             hours == QueryHourly(s, from, request)
  <2>1. /\ zone \in Zones /\ DOMAIN log = 1 .. Len(log) /\ Len(log) \in Nat
        /\ \A j \in DOMAIN log : log[j].at \in Clock
    BY LogTypes DEF HistoryInv, TypeOK
  <2>2. Len(log) \in DOMAIN log
    <3>1. Len(log) # 0
      BY DEF HistoryInv, TypeOK
    <3> QED BY <2>1, <3>1
  <2>3. request = log[Len(log)].at
    BY DEF Last
  <2>4. request \in Clock /\ request \in Instants
    BY <2>1, <2>2, <2>3, LocalTypes
  <2>5. \A i \in DOMAIN log : log[i].at \in Instants /\ log[i].at <= request
    BY <2>1, <2>2, <2>3, LocalTypes DEF InOrder
  <2>6. /\ from \in Instants /\ \A u \in Instants : LocalTime(u) >= P <=> u >= from
    BY <2>1, <2>4, ScopeBegins
  <2>7. /\ HourLength \in Nat \ {0} /\ length \in Nat \ {0} /\ Instants \subseteq Int
        /\ \A u \in Instants : LocalTime(u) \in Int
    BY <2>1, LocalTypes
  <2>8. P \in Int /\ P % length = 0 /\ P <= LocalTime(request) /\ LocalTime(request) <= P + length - 1
    BY <2>1, <2>4, <2>7, PeriodAround
  <2>9. P % HourLength = 0
    BY <2>8, LengthsNest
  <2>10. PeriodTotal(s, request, length) = Points(hours)
    BY DEF PeriodTotal, QueryAggregate
  <2> HIDE DEF request, P, from
  <2>11. ASSUME NEW b \in hours, NEW p \in b.points
         PROVE  p.sample \in Recorded(s) /\ PeriodStart(log[p.sample].at, length) = P
    <3>1. b \in HoursOf(s) /\ b.end >= from
      BY DEF QueryHourly, HoursOf, Overlapping
    <3>2. /\ p.sample \in Recorded(s) /\ At(p) \in Instants
          /\ b.start \in Instants /\ b.end \in Instants
          /\ LocalTime(b.start) = PeriodStart(At(p), HourLength)
          /\ LocalTime(b.end) = LocalTime(b.start) + HourLength - 1
          /\ b.start <= At(p)
      BY <3>1, HourSpans
    <3> DEFINE l == LocalTime(b.start)
               t == At(p)
    <3>3. l \in Int /\ l % HourLength = 0 /\ l <= LocalTime(t)
      BY <2>1, <2>7, <3>2, PeriodAround
    <3>4. l + HourLength - 1 >= P
      BY <2>6, <3>1, <3>2
    <3>5. t <= request
      BY <2>5, <3>2 DEF Recorded, At
    <3>6. LocalTime(t) <= LocalTime(request)
      BY <2>1, <2>4, <3>2, <3>5, ClockOrder
    <3>7. t \in Instants /\ t = log[p.sample].at
      BY <3>2 DEF At
    <3> HIDE DEF l, t
    <3>8. l < P => l + HourLength <= P
      BY <2>7, <2>8, <2>9, <3>3, Apart
    <3>9. P <= LocalTime(t) /\ LocalTime(t) <= P + length - 1
      BY <2>4, <2>7, <2>8, <3>3, <3>4, <3>6, <3>7, <3>8
    <3> QED BY <2>1, <2>7, <2>8, <3>2, <3>7, <3>9, PeriodIs
  <2>12. ASSUME NEW p \in Counted(s), PeriodStart(At(p), length) = P
         PROVE  \E b \in hours : p \in b.points
    <3>1. PICK b \in HoursOf(s) : p \in b.points
      <4>1. p \in Points(HoursOf(s))
        BY StoredInHours DEF Filed
      <4> QED BY <4>1 DEF Points
    <3>2. /\ At(p) \in Instants /\ b.start \in Instants /\ b.end \in Instants
          /\ b.start <= At(p) /\ At(p) <= b.end /\ p.sample \in Recorded(s)
      BY <3>1, HourSpans
    <3> DEFINE t == At(p)
    <3>3. t <= request
      BY <2>5, <3>2 DEF Recorded, At
    <3> HIDE DEF t
    <3>4. P <= LocalTime(t)
      BY <2>1, <2>7, <2>12, <3>2, PeriodAround DEF t
    <3>5. from <= t /\ from \in Int /\ request \in Int /\ t \in Int
      BY <2>4, <2>6, <2>7, <2>8, <3>2, <3>4 DEF t
    <3>6. b.start <= request /\ b.end >= from
      <4>1. b.start \in Int /\ b.end \in Int /\ b.start <= t /\ t <= b.end
        BY <2>7, <3>2 DEF t
      <4> QED BY <3>3, <3>5, <4>1
    <3>7. hours = Overlapping(HoursOf(s), from, request)
      BY DEF QueryHourly, HoursOf
    <3> QED BY <3>1, <3>6, <3>7 DEF Overlapping
  <2>13. ASSUME NEW b \in hours, NEW p \in b.points
         PROVE  p \in Counted(s) /\ PeriodStart(At(p), length) = P
    <3>1. b \in HoursOf(s)
      BY DEF QueryHourly, HoursOf, Overlapping
    <3>2. p \in Counted(s)
      BY <3>1, StoredInHours DEF Filed, Points
    <3> QED BY <2>11, <3>2 DEF At
  <2>14. \A p : p \in Points(hours) <=> \E b \in hours : p \in b.points
    BY DEF Points
  <2> HIDE DEF hours
  <2>15. Points(hours) = {p \in Counted(s) : PeriodStart(At(p), length) = P}
    <3> DEFINE Period == {p \in Counted(s) : PeriodStart(At(p), length) = P}
    <3>1. ASSUME NEW p \in Points(hours) PROVE p \in Period
      BY <2>13, <2>14
    <3>2. ASSUME NEW p \in Period PROVE p \in Points(hours)
      BY <2>12, <2>14
    <3> HIDE DEF Period
    <3>3. Points(hours) = Period
      BY <3>1, <3>2
    <3> QED BY <3>3 DEF Period
  <2> QED BY <2>10, <2>15 DEF request, P
<1> QED BY <1>1, HistoryInvariant, FiledAlways, PTL

-----------------------------------------------------------------------------
(* The traffic counters.  On any number of CPUs, and in whatever order they *)
(* run, a counter never holds more than what passed; and while no two of    *)
(* them meet at it, every byte ends up in the total once.                   *)

(* What a CPU has read and has not stored yet is no more than what passed:  *)
(* the traffic only grows, so an update from an old reading stays below it. *)
Behind ==
  /\ CounterTypeOK
  /\ \A c \in CPUs : cpu[c].doing = "store" => entry # Absent /\ cpu[c].loaded <= passed
  /\ NeverOvercounts

LEMMA BehindInit == CounterInit => Behind
<1> SUFFICES ASSUME CounterInit PROVE Behind
  OBVIOUS
<1>1. room \in BOOLEAN /\ raced \in BOOLEAN /\ rewound \in BOOLEAN /\ entry = Absent
  BY DEF CounterInit
<1>2. cpu \in [CPUs -> Work] /\ \A c \in CPUs : cpu[c].doing # "store"
  BY DEF CounterInit, Work, Idle
<1>3. inserted \in Nat /\ prev \in Nat /\ total \in Nat /\ passed \in Nat
  BY DEF CounterInit
<1> QED BY <1>1, <1>2, <1>3 DEF Behind, CounterTypeOK, NeverOvercounts

(* What one CPU may store stays behind while the traffic grows.            *)
LEMMA OthersBehind ==
  ASSUME Behind, NEW work, NEW now \in Nat, passed <= now, work.doing = "store",
         work = Idle \/ \E d \in CPUs : work = cpu[d]
  PROVE  entry # Absent /\ work.loaded <= now
<1>1. PICK d \in CPUs : work = cpu[d]
  BY DEF Idle
<1>2. cpu[d] \in [doing : {"store"}, len : Lengths, from : Nat, loaded : Nat]
  BY <1>1 DEF Behind, CounterTypeOK, Work, Idle
<1>3. cpu[d].loaded <= passed /\ cpu[d].loaded \in Nat
  BY <1>1, <1>2 DEF Behind, CounterTypeOK
<1> QED BY <1>1, <1>3 DEF Behind, CounterTypeOK

LEMMA BehindStep == Behind /\ [CounterNext]_counterVars => Behind'
<1> SUFFICES ASSUME Behind, [CounterNext]_counterVars PROVE Behind'
  OBVIOUS
<1> USE CountersConstants
<1>1. ASSUME NEW c \in CPUs, NEW len \in Lengths, LookUp(c, len) PROVE Behind'
  <2>1. CASE entry = Absent
    BY <1>1, <2>1 DEF LookUp, Does, observed, Behind, CounterTypeOK, NeverOvercounts, Work, Idle
  <2>2. CASE entry # Absent
    BY <1>1, <2>2 DEF LookUp, Does, observed, Behind, CounterTypeOK, NeverOvercounts, Work, Idle
  <2> QED BY <2>1, <2>2
<1>2. ASSUME NEW c \in CPUs, Store(c) PROVE Behind'
  <2>1. cpu[c] \in [doing : {"store"}, len : Lengths, from : Nat, loaded : Nat]
    BY <1>2 DEF Store, Behind, CounterTypeOK, Work, Idle
  <2>2. cpu[c].len \in Nat /\ cpu[c].loaded \in Nat /\ cpu[c].loaded <= passed
    BY <1>2, <2>1 DEF Store, Behind, CounterTypeOK
  <2>3. passed' \in Nat /\ passed <= passed'
    BY <1>2, <2>2 DEF Store, Behind, CounterTypeOK
  <2>4. /\ entry' \in [from : Nat, bytes : Nat] \cup {Absent}
        /\ NeverOvercounts' /\ entry' # Absent
    <3>1. /\ entry # Absent /\ entry \in [from : Nat, bytes : Nat]
          /\ entry.bytes <= passed /\ passed \in Nat
      BY <1>2 DEF Store, Behind, CounterTypeOK, NeverOvercounts
    <3>2. CASE entry' = entry
      BY <2>3, <3>1, <3>2 DEF NeverOvercounts
    <3>3. CASE entry' = [entry EXCEPT !.bytes = cpu[c].loaded + cpu[c].len]
      <4>1. entry' \in [from : Nat, bytes : Nat] /\ entry'.bytes = cpu[c].loaded + cpu[c].len
        BY <2>2, <3>1, <3>3
      <4>2. entry' # Absent
        BY <4>1, CountersConstants
      <4>3. entry'.bytes <= passed'
        BY <1>2, <2>2, <3>1, <4>1 DEF Store
      <4> QED BY <4>1, <4>2, <4>3 DEF NeverOvercounts
    <3> QED BY <1>2, <3>2, <3>3 DEF Store
  <2>5. cpu' \in [CPUs -> Work] /\ \A d \in CPUs : cpu'[d] = IF d = c THEN Idle ELSE cpu[d]
    BY <1>2 DEF Store, Does, Behind, CounterTypeOK, Work
  <2>6. ASSUME NEW d \in CPUs, cpu'[d].doing = "store" PROVE entry' # Absent /\ cpu'[d].loaded <= passed'
    BY <2>3, <2>4, <2>5, <2>6, OthersBehind
  <2>7. CounterTypeOK'
    BY <1>2, <2>3, <2>4, <2>5 DEF Store, Behind, CounterTypeOK
  <2> QED BY <2>4, <2>6, <2>7 DEF Behind
<1>3. ASSUME NEW c \in CPUs, Insert(c) PROVE Behind'
  <2>1. cpu[c] \in [doing : {"insert"}, len : Lengths]
    BY <1>3 DEF Insert, Behind, CounterTypeOK, Work, Idle
  <2>2. cpu[c].len \in Nat
    BY <2>1
  <2>3. passed' \in Nat /\ passed <= passed' /\ cpu[c].len <= passed'
    BY <1>3, <2>2 DEF Insert, Behind, CounterTypeOK
  <2>4. /\ entry' \in [from : Nat, bytes : Nat] \cup {Absent}
        /\ NeverOvercounts' /\ (entry # Absent => entry' # Absent)
    BY <1>3, <2>2, <2>3 DEF Insert, Behind, CounterTypeOK, NeverOvercounts
  <2>5. cpu' \in [CPUs -> Work] /\ \A d \in CPUs : cpu'[d] = IF d = c THEN Idle ELSE cpu[d]
    BY <1>3 DEF Insert, Does, Behind, CounterTypeOK, Work
  <2>6. ASSUME NEW d \in CPUs, cpu'[d].doing = "store" PROVE entry' # Absent /\ cpu'[d].loaded <= passed'
    BY <2>3, <2>4, <2>5, <2>6, OthersBehind
  <2>7. CounterTypeOK'
    BY <1>3, <2>3, <2>4, <2>5 DEF Insert, Behind, CounterTypeOK
  <2> QED BY <2>4, <2>6, <2>7 DEF Behind
<1>4. CASE FillUp
  BY <1>4 DEF FillUp, observed, Behind, CounterTypeOK, NeverOvercounts
<1>5. CASE Read
  BY <1>5 DEF Read, observed, Delta, Behind, CounterTypeOK, NeverOvercounts
<1>6. CASE UNCHANGED counterVars
  BY <1>6 DEF counterVars, observed, Behind, CounterTypeOK, NeverOvercounts
<1> QED BY <1>1, <1>2, <1>3, <1>4, <1>5, <1>6 DEF CounterNext

(* Races between the CPUs that bump one counter, including two insertions   *)
(* of the same key, can lose bytes but never make the map show more than    *)
(* passed (bump_iface_counter, bump_device_counter).                        *)
THEOREM RacesOnlyLose == CounterSpec => []NeverOvercounts
<1>1. Behind => NeverOvercounts BY DEF Behind
<1> QED BY <1>1, BehindInit, BehindStep, PTL DEF CounterSpec

-----------------------------------------------------------------------------
(* The last reading of an entry is part of it while no CPUs meet, and the   *)
(* difference is what the total lacks; before the entry there is no reading. *)
Exact ==
  /\ Behind
  /\ entry = Absent => total = 0 /\ prev = 0
  /\ ~ raced /\ entry = Absent => (passed > 0 => ~ room)
  /\ ~ raced /\ entry # Absent => entry.bytes >= prev /\ total + (entry.bytes - prev) = passed

LEMMA ExactInit == CounterInit => Exact
  BY BehindInit DEF CounterInit, Exact

LEMMA ExactStep == Exact /\ [CounterNext]_counterVars => Exact'
<1> SUFFICES ASSUME Exact, [CounterNext]_counterVars PROVE Exact'
  OBVIOUS
<1> USE CountersConstants
<1>0. Behind'
  BY BehindStep DEF Exact
<1>1. ASSUME NEW c \in CPUs, NEW len \in Lengths, LookUp(c, len) PROVE Exact'
  BY <1>0, <1>1 DEF LookUp, observed, Exact
<1>2. ASSUME NEW c \in CPUs, Store(c) PROVE Exact'
  <2>1. cpu[c] \in [doing : {"store"}, len : Lengths, from : Nat, loaded : Nat]
    BY <1>2 DEF Store, Exact, Behind, CounterTypeOK, Work, Idle
  <2>2. /\ entry # Absent /\ entry \in [from : Nat, bytes : Nat]
        /\ cpu[c].len \in Nat /\ prev \in Nat /\ total \in Nat /\ passed \in Nat
    BY <1>2, <2>1 DEF Store, Exact, Behind, CounterTypeOK
  <2>3. entry' # Absent
    BY <1>2, <2>1, <2>2 DEF Store
  <2>4. ASSUME ~ raced' PROVE entry'.bytes >= prev' /\ total' + (entry'.bytes - prev') = passed'
    <3>0. ~ raced /\ entry = [from |-> cpu[c].from, bytes |-> cpu[c].loaded]
      BY <1>2, <2>4 DEF Store
    <3>1. entry.from = cpu[c].from /\ entry.bytes = cpu[c].loaded
      BY <3>0
    <3>2. entry'.bytes = entry.bytes + cpu[c].len
      BY <1>2, <2>2, <3>1 DEF Store
    <3>3. entry.bytes >= prev /\ total + (entry.bytes - prev) = passed
      BY <2>2, <3>0 DEF Exact
    <3> QED BY <1>2, <2>2, <3>2, <3>3 DEF Store
  <2> QED BY <1>0, <2>3, <2>4 DEF Exact
<1>3. ASSUME NEW c \in CPUs, Insert(c) PROVE Exact'
  <2>1. cpu[c] \in [doing : {"insert"}, len : Lengths]
    BY <1>3 DEF Insert, Exact, Behind, CounterTypeOK, Work, Idle
  <2>2. cpu[c].len \in Nat \ {0} /\ passed \in Nat /\ raced \in BOOLEAN
    BY <2>1 DEF Exact, Behind, CounterTypeOK
  <2>3. CASE entry = Absent /\ room
    <3>1. entry'.bytes = cpu[c].len /\ prev = 0 /\ total = 0 /\ (~ raced => passed = 0)
      BY <1>3, <2>2, <2>3 DEF Insert, Exact
    <3>2. entry' # Absent
      BY <1>3, <2>2, <2>3 DEF Insert, Exact, Behind, CounterTypeOK
    <3> QED BY <1>0, <1>3, <2>2, <3>1, <3>2 DEF Insert, Exact
  <2>4. CASE entry = Absent /\ ~ room
    BY <1>0, <1>3, <2>2, <2>4 DEF Insert, Exact
  <2>5. CASE entry # Absent
    <3>1. raced'
      BY <1>3, <2>5 DEF Insert
    <3>2. entry' # Absent
      BY <1>3, <2>2, <2>5 DEF Insert, Exact, Behind, CounterTypeOK
    <3> QED BY <1>0, <3>1, <3>2 DEF Exact
  <2> QED BY <2>3, <2>4, <2>5
<1>4. CASE FillUp
  BY <1>0, <1>4 DEF FillUp, observed, Exact
<1>5. CASE Read
  BY <1>0, <1>5 DEF Read, Delta, observed, Exact, Behind, CounterTypeOK
<1>6. CASE UNCHANGED counterVars
  BY <1>0, <1>6 DEF counterVars, observed, Exact
<1> QED BY <1>1, <1>2, <1>3, <1>4, <1>5, <1>6 DEF CounterNext

(* While no CPU stores or inserts what another has overtaken, and the map   *)
(* was not full when the key came, what is in the collector's total and     *)
(* what its next reading adds are together all the bytes that passed        *)
(* (collect_snapshot, delta_bytes).                                        *)
THEOREM NoByteLost == CounterSpec => []TotalIsTraffic
<1>1. Exact => TotalIsTraffic
  BY DEF Exact, Behind, CounterTypeOK, TotalIsTraffic, Delta
<1> QED BY <1>1, ExactInit, ExactStep, PTL DEF CounterSpec
-----------------------------------------------------------------------------
(* What the next reading of the entry takes off it; not used without one.   *)
Baseline == IF entry.bytes >= prev THEN prev ELSE 0

(* Until a store takes the counter below the last reading, neither the entry *)
(* nor any store still to come into it brings the total over what passed.    *)
(* An insertion is of its own, so that no store into an older entry counts.  *)
Covered ==
  /\ Behind
  /\ entry = Absent => total = 0
  /\ entry # Absent => entry.from <= inserted
  /\ \A c \in CPUs : cpu[c].doing = "store" => cpu[c].from <= inserted
  /\ ~ rewound /\ entry # Absent => total + entry.bytes <= passed + Baseline
  /\ ~ rewound /\ entry # Absent =>
       \A c \in CPUs : cpu[c].doing = "store" /\ cpu[c].from = entry.from =>
                       total + cpu[c].loaded <= passed + Baseline

LEMMA CoveredInit == CounterInit => Covered
<1> SUFFICES ASSUME CounterInit PROVE Covered
  OBVIOUS
<1>1. entry = Absent /\ total = 0 /\ \A c \in CPUs : cpu[c].doing # "store"
  BY DEF CounterInit, Idle
<1> QED BY <1>1, BehindInit DEF Covered

LEMMA CoveredStep == Covered /\ [CounterNext]_counterVars => Covered'
<1> SUFFICES ASSUME Covered, [CounterNext]_counterVars PROVE Covered'
  OBVIOUS
<1> USE CountersConstants
<1>0. Behind' /\ Behind
  BY BehindStep DEF Covered
<1>t. /\ inserted \in Nat /\ prev \in Nat /\ total \in Nat /\ passed \in Nat
      /\ entry # Absent => entry \in [from : Nat, bytes : Nat]
      /\ cpu \in [CPUs -> Work]
  BY <1>0 DEF Behind, CounterTypeOK
<1>w. \A c \in CPUs : cpu[c].doing = "store" =>
        cpu[c] \in [doing : {"store"}, len : Lengths, from : Nat, loaded : Nat]
  BY <1>t DEF Work, Idle
<1>1. ASSUME NEW c \in CPUs, NEW len \in Lengths, LookUp(c, len) PROVE Covered'
  <2>1. \A d \in CPUs : cpu'[d] = IF d = c THEN cpu'[c] ELSE cpu[d]
    BY <1>1, <1>t DEF LookUp, Does
  <2>2. CASE entry = Absent
    <3>1. cpu'[c].doing = "insert"
      BY <1>1, <1>t, <2>2 DEF LookUp, Does
    <3> QED BY <1>0, <1>1, <2>1, <2>2, <3>1 DEF LookUp, observed, Covered
  <2>3. CASE entry # Absent
    <3>1. cpu'[c].doing = "store" /\ cpu'[c].from = entry.from /\ cpu'[c].loaded = entry.bytes
      BY <1>1, <1>t, <2>3 DEF LookUp, Does
    <3> QED BY <1>0, <1>1, <2>1, <2>3, <3>1 DEF LookUp, observed, Covered, Baseline
  <2> QED BY <2>2, <2>3
<1>2. ASSUME NEW c \in CPUs, Store(c) PROVE Covered'
  <2>1. cpu[c] \in [doing : {"store"}, len : Lengths, from : Nat, loaded : Nat]
    BY <1>2, <1>w DEF Store
  <2>2. /\ entry # Absent /\ entry \in [from : Nat, bytes : Nat]
        /\ cpu[c].len \in Nat /\ cpu[c].loaded \in Nat
    BY <1>0, <1>2, <1>t, <2>1 DEF Store, Behind
  <2>3. \A d \in CPUs : cpu'[d].doing = "store" => d # c /\ cpu'[d] = cpu[d]
    BY <1>2, <1>t DEF Store, Does, Idle
  <2>4. /\ entry' # Absent /\ entry'.from = entry.from /\ inserted' = inserted
        /\ prev' = prev /\ total' = total /\ passed' = passed + cpu[c].len
    BY <1>2, <2>2 DEF Store
  <2>5. ASSUME ~ rewound'
        PROVE  /\ total' + entry'.bytes <= passed' + Baseline'
               /\ \A d \in CPUs : cpu'[d].doing = "store" /\ cpu'[d].from = entry'.from =>
                                total' + cpu'[d].loaded <= passed' + Baseline'
    <3>1. ~ rewound /\ ~ (entry.bytes >= prev /\ prev > entry'.bytes)
      BY <1>2, <2>5 DEF Store
    <3>2. \/ entry'.bytes = entry.bytes
          \/ cpu[c].from = entry.from /\ entry'.bytes = cpu[c].loaded + cpu[c].len
      BY <1>2, <2>2 DEF Store
    <3>3. entry'.bytes \in Nat /\ entry.bytes \in Nat
      BY <2>2, <3>2
    <3>4. Baseline \in Nat /\ Baseline' \in Nat /\ Baseline <= Baseline'
      BY <1>t, <2>4, <3>1, <3>3 DEF Baseline
    <3>5. total + entry.bytes <= passed + Baseline
      BY <2>2, <3>1 DEF Covered
    <3>6. cpu[c].from = entry.from => total + cpu[c].loaded <= passed + Baseline
      BY <1>2, <2>2, <3>1 DEF Covered, Store
    <3>7. total' + entry'.bytes <= passed' + Baseline'
      BY <1>t, <2>2, <2>4, <3>2, <3>3, <3>4, <3>5, <3>6
    <3>8. ASSUME NEW d \in CPUs, cpu'[d].doing = "store", cpu'[d].from = entry'.from
          PROVE  total' + cpu'[d].loaded <= passed' + Baseline'
      <4>1. cpu'[d] = cpu[d] /\ cpu[d].doing = "store" /\ cpu[d].from = entry.from
        BY <2>3, <2>4, <3>8
      <4>2. cpu[d].loaded \in Nat
        BY <1>w, <4>1
      <4>3. total + cpu[d].loaded <= passed + Baseline
        BY <2>2, <3>1, <4>1 DEF Covered
      <4> QED BY <1>t, <2>2, <2>4, <3>4, <4>1, <4>2, <4>3
    <3> QED BY <3>7, <3>8
  <2>6. /\ entry'.from <= inserted'
        /\ \A d \in CPUs : cpu'[d].doing = "store" => cpu'[d].from <= inserted'
    BY <2>2, <2>3, <2>4 DEF Covered
  <2> QED BY <1>0, <2>4, <2>5, <2>6 DEF Covered
<1>3. ASSUME NEW c \in CPUs, Insert(c) PROVE Covered'
  <2>0. cpu[c] \in [doing : {"insert"}, len : Lengths]
    BY <1>3, <1>t DEF Insert, Work, Idle
  <2>1. cpu[c].len \in Nat
    BY <2>0
  <2>2. \A d \in CPUs : cpu'[d].doing = "store" => d # c /\ cpu'[d] = cpu[d]
    BY <1>3, <1>t DEF Insert, Does, Idle
  <2>3. prev' = prev /\ total' = total /\ passed' = passed + cpu[c].len /\ rewound' = rewound
    BY <1>3 DEF Insert
  <2>4. CASE room \/ entry # Absent
    <3>1. entry' = [from |-> inserted + 1, bytes |-> cpu[c].len] /\ inserted' = inserted + 1
      BY <1>3, <2>4 DEF Insert
    <3>2. entry'.from = inserted + 1 /\ entry'.bytes = cpu[c].len /\ entry' # Absent
      BY <1>t, <2>1, <3>1
    <3>3. \A d \in CPUs : cpu'[d].doing = "store" => cpu'[d].from <= inserted
      BY <2>2 DEF Covered
    <3>4. \A d \in CPUs : cpu'[d].doing = "store" => cpu'[d].from \in Nat
      BY <1>w, <2>2
    <3>5. \A d \in CPUs : cpu'[d].doing = "store" => cpu'[d].from # entry'.from /\ cpu'[d].from <= inserted'
      BY <1>t, <3>1, <3>2, <3>3, <3>4
    <3>6. ASSUME ~ rewound' PROVE total' + entry'.bytes <= passed' + Baseline'
      <4>1. total <= passed
        <5>1. CASE entry = Absent
          BY <1>t, <5>1 DEF Covered
        <5>2. CASE entry # Absent
          <6>1. total + entry.bytes <= passed + Baseline /\ entry.bytes \in Nat
            BY <1>t, <2>3, <3>6, <5>2 DEF Covered
          <6>2. Baseline \in Nat /\ Baseline <= entry.bytes
            BY <1>t, <6>1 DEF Baseline
          <6> QED BY <1>t, <6>1, <6>2
        <5> QED BY <5>1, <5>2
      <4>2. Baseline' \in Nat
        BY <1>t, <2>3 DEF Baseline
      <4> QED BY <1>t, <2>1, <2>3, <3>2, <4>1, <4>2
    <3> QED BY <1>0, <1>t, <3>1, <3>2, <3>5, <3>6 DEF Covered
  <2>5. CASE ~ room /\ entry = Absent
    <3>1. entry' = Absent /\ inserted' = inserted
      BY <1>3, <2>5 DEF Insert
    <3> QED BY <1>0, <2>2, <2>3, <2>5, <3>1 DEF Covered
  <2> QED BY <2>4, <2>5
<1>4. CASE FillUp
  BY <1>0, <1>4 DEF FillUp, observed, Covered
<1>5. CASE Read
  <2>1. CASE entry = Absent
    BY <1>0, <1>5, <2>1 DEF Read, observed, Covered
  <2>2. CASE entry # Absent
    <3>1. /\ entry' = entry /\ cpu' = cpu /\ inserted' = inserted /\ passed' = passed
          /\ rewound' = rewound /\ prev' = entry.bytes
          /\ total' = total + Delta(entry.bytes, prev)
      BY <1>5, <2>2 DEF Read, observed
    <3>2. entry.bytes \in Nat
      BY <1>t, <2>2
    <3>3. Baseline \in Nat /\ total' + Baseline = total + entry.bytes /\ Baseline' = entry.bytes
      BY <1>t, <3>1, <3>2 DEF Delta, Baseline
    <3>4. \A d \in CPUs : cpu[d].doing = "store" => cpu[d].loaded \in Nat
      BY <1>w
    <3>5. total' \in Nat
      BY <1>t, <3>1, <3>2 DEF Delta
    <3>6. ASSUME ~ rewound, NEW got \in Nat, total + got <= passed + Baseline
          PROVE  total' + got <= passed' + Baseline'
      BY <1>t, <3>1, <3>2, <3>3, <3>5, <3>6
    <3> QED BY <1>0, <2>2, <3>1, <3>2, <3>4, <3>6 DEF Covered
  <2> QED BY <2>1, <2>2
<1>6. CASE UNCHANGED counterVars
  BY <1>0, <1>6 DEF counterVars, observed, Covered, Baseline
<1> QED BY <1>1, <1>2, <1>3, <1>4, <1>5, <1>6 DEF CounterNext

(* Insertions over one another and updates that overtake one another do not *)
(* make the collector's total exceed what passed: only a store that takes   *)
(* the counter back below what was read since it was loaded can, for        *)
(* delta_bytes then adds the whole counter again.                           *)
THEOREM OnlyRewindingOvercounts == CounterSpec => []RecountOnlyRewound
<1>1. Covered => RecountOnlyRewound
  <2> SUFFICES ASSUME Covered, ~ rewound, entry # Absent
               PROVE  total + Delta(entry.bytes, prev) <= passed
    BY DEF RecountOnlyRewound
  <2>1. /\ prev \in Nat /\ total \in Nat /\ passed \in Nat /\ entry.bytes \in Nat
        /\ total + entry.bytes <= passed + Baseline
    BY DEF Covered, Behind, CounterTypeOK
  <2> QED BY <2>1 DEF Baseline, Delta
<1> QED BY <1>1, CoveredInit, CoveredStep, PTL DEF CounterSpec
=============================================================================
