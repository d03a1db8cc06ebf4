-------------------------- MODULE AccountingProofs --------------------------
(***************************************************************************)
(* The accounting of one traffic series, for any number of samples, hours  *)
(* of any length, any retention and capacity, and crashes, failures and    *)
(* clock jumps anywhere.                                                   *)
(*                                                                         *)
(* The invariant has three layers.  Always: a sample is one sample wherever *)
(* it is found, and lies in the hour of its time (Base, InTheirHours); the *)
(* points a save may replace are in memory or in a bucket (PointsCovered). *)
(* On a clock that has not been set back: instants are samples, and hours  *)
(* past are past (ClockForward).  Without a failure as well: the points    *)
(* keep up with the buckets, so that a start finds either no bucket of     *)
(* their hour or promotes them to the end of the queue, and the queue is   *)
(* the latest hours of the table, in order (Calm).                         *)
(***************************************************************************)
EXTENDS Accounting, FiniteSetTheorems, TLAPS

-----------------------------------------------------------------------------
(* Hours.                                                                  *)

LEMMA HourOfTime ==
  ASSUME NEW t \in Nat
  PROVE  HourOf(t) \in Nat /\ HourOf(t) * HourLength <= t /\ t < (HourOf(t) + 1) * HourLength
  BY AccountingConstants, SMT DEF HourOf

LEMMA HourOfMonotone ==
  ASSUME NEW t \in Nat, NEW u \in Nat, t <= u
  PROVE  HourOf(t) <= HourOf(u)
  BY AccountingConstants, SMT DEF HourOf

(* Two instants less than an hour apart are in the same hour or in two that  *)
(* follow one another.                                                     *)
LEMMA HourOfNear ==
  ASSUME NEW t \in Nat, NEW u \in Nat, t <= u, u - t < PersistInterval
  PROVE  HourOf(u) <= HourOf(t) + 1
<1>1. u < t + HourLength
  BY AccountingConstants
<1>2. /\ HourLength \in Nat \ {0} /\ HourOf(t) \in Nat /\ HourOf(u) \in Nat
      /\ HourOf(u) * HourLength <= u /\ t < (HourOf(t) + 1) * HourLength
  BY HourOfTime, AccountingConstants
<1>3. SUFFICES ASSUME HourOf(t) + 2 <= HourOf(u) PROVE FALSE
  BY <1>2
<1>4. (HourOf(t) + 2) * HourLength <= HourOf(u) * HourLength
  BY <1>2, <1>3
<1>5. (HourOf(t) + 2) * HourLength = (HourOf(t) + 1) * HourLength + HourLength
  BY <1>2
<1> QED
  BY <1>1, <1>2, <1>4, <1>5

LEMMA HoursType ==
  /\ Times \subseteq Nat /\ Hours \subseteq Nat
  /\ \A t \in Times : t > 0 /\ HourOf(t) \in Hours /\ HourOf(t) \in Nat
  BY HourOfTime, AccountingConstants DEF Hours

LEMMA ExpiredMonotone ==
  ASSUME NEW t \in Times, NEW u \in Times, t <= u
  PROVE  Expired(t) \subseteq Expired(u)
<1> SUFFICES ASSUME NEW h \in Expired(t) PROVE h \in Expired(u)
  OBVIOUS
<1>1. h \in Nat /\ h \in Hours /\ t \in Nat /\ u \in Nat
  BY HoursType DEF Expired
<1>2. HourStart(h) + Retention \in Nat
  BY <1>1, AccountingConstants, SMT DEF HourStart
<1> QED
  BY <1>1, <1>2 DEF Expired

LEMMA HoursFinite == IsFiniteSet(Hours)
<1> DEFINE f == [t \in Times |-> HourOf(t)]
<1>1. f \in Surjection(Times, Hours)
  BY DEF Surjection, Hours
<1> QED
  BY <1>1, FS_Surjection, AccountingConstants

-----------------------------------------------------------------------------
(* Types.                                                                  *)

LEMMA NoneIsNoHour == None \notin Hour
<1> SUFFICES ASSUME None \in Hour PROVE FALSE
  OBVIOUS
<1>1. Sample \subseteq [id : Nat, ts : Nat, push : {1, 2}]
  <2>1. 1 .. MaxSamples \subseteq Nat /\ Times \subseteq Nat
    BY AccountingConstants
  <2> QED BY <2>1 DEF Sample
<1>2. None \in [hour : Nat, samples : SUBSET [id : Nat, ts : Nat, push : {1, 2}]]
  BY <1>1, HoursType DEF Hour
<1> QED
  BY <1>2, AccountingConstants

LEMMA TrimSubset == ASSUME NEW S PROVE Trim(S) \subseteq S
  BY DEF Trim

LEMMA RowType ==
  ASSUME NEW h \in Hours, NEW S \in SUBSET Sample
  PROVE  /\ Row(h, S) \in Hour /\ Row(h, S).hour = h /\ Row(h, S).samples = S
         /\ \A n \in 0 .. MaxSamples :
              /\ Queued(Row(h, S), n) \in Completed
              /\ Queued(Row(h, S), n) = [hour |-> h, samples |-> S, place |-> n]
  BY DEF Row, Hour, Queued, Completed

LEMMA SavedType ==
  ASSUME NEW hour \in Hour \cup {None}
  PROVE  /\ Saved(hour) \in Hour \cup {None}
         /\ SamplesOf(Saved(hour)) \subseteq SamplesOf(hour)
         /\ Saved(hour) = None <=> hour = None
         /\ hour # None => Saved(hour).hour = hour.hour
<1>1. CASE hour = None
  BY <1>1 DEF Saved, SamplesOf
<1>2. CASE hour # None
  <2>1. hour.hour \in Hours /\ hour.samples \in SUBSET Sample
    BY <1>2 DEF Hour
  <2>2. Saved(hour).samples \subseteq hour.samples /\ Saved(hour) \in Hour /\ Saved(hour).hour = hour.hour
    BY <1>2, <2>1 DEF Saved, Row, Hour
  <2> QED
    BY <1>2, <2>2, NoneIsNoHour DEF SamplesOf
<1> QED BY <1>1, <1>2

LEMMA LoadedType ==
  ASSUME NEW table \in [Hours -> SUBSET Sample]
  PROVE  /\ Loaded(table) \subseteq Completed
         /\ \A b \in Loaded(table) :
              /\ b.hour \in Hours /\ b.samples = table[b.hour] /\ b.samples # {} /\ b.place = 0
              /\ b = [hour |-> b.hour, samples |-> table[b.hour], place |-> 0]
<1> DEFINE rows == {Queued(Row(h, table[h]), 0) : h \in {g \in Hours : table[g] # {}}}
<1>1. 0 \in 0 .. MaxSamples
  BY AccountingConstants
<1>2. ASSUME NEW b \in rows
      PROVE  /\ b \in Completed
             /\ b.hour \in Hours /\ b.samples = table[b.hour] /\ b.samples # {} /\ b.place = 0
             /\ b = [hour |-> b.hour, samples |-> table[b.hour], place |-> 0]
  <2> PICK h \in Hours : table[h] # {} /\ b = Queued(Row(h, table[h]), 0)
    OBVIOUS
  <2> QED BY <1>1, RowType
<1> QED
  BY <1>2, TrimSubset DEF Loaded

(* All samples there are, in memory and on disk.                           *)
Everywhere ==
  SamplesOf(current) \cup SamplesOf(pending) \cup SamplesOf(points)
    \cup SamplesIn(completed) \cup UNION {buckets[h] : h \in Hours}

Shape ==
  /\ pc = "append" <=> pending # None
  /\ running \/ (pc = "idle" /\ current = None /\ completed = {})
  /\ current # None => current.hour = HourOf(now)
  /\ pending # None => \E b \in completed : b.hour = pending.hour /\ b.samples = pending.samples
  /\ \A b \in completed : b.place <= count

(* One id is one sample, but for the first of a fresh series.               *)
Identified ==
  /\ \A s \in Everywhere : s.id <= count
  /\ \A p, q \in Everywhere : p.id = q.id => p.ts = q.ts /\ (p = q \/ p.id \in doubled)

(* What a start finds, and the cases it distinguishes.                      *)
Found(t, table, loaded) ==
  /\ table \in [Hours -> SUBSET Sample]
  /\ \A h \in Hours : table[h] = buckets[h] \/ (table[h] = {} /\ h \in Expired(t))
  /\ loaded = {} \/ loaded = Loaded(table)

LEMMA StartFinds ==
  ASSUME TypeOK, NEW t \in Times, NEW failed, Start(t, failed)
  PROVE  \E table, loaded :
           /\ Found(t, table, loaded)
           /\ table = IF "prune" \in failed THEN buckets ELSE Unexpired(t)
           /\ "buckets" \notin failed => loaded = Loaded(table)
           /\ \/ /\ "points" \in failed
                 /\ current' = None /\ completed' = loaded /\ buckets' = table /\ points' = points
              \/ "points" \notin failed /\ LoadCurrentHour(t, table, loaded)
<1> DEFINE table  == IF "prune" \in failed THEN buckets ELSE Unexpired(t)
           loaded == IF "buckets" \in failed THEN {} ELSE Loaded(table)
<1>1. table \in [Hours -> SUBSET Sample]
  BY DEF TypeOK, Unexpired
<1>2. \A h \in Hours : table[h] = buckets[h] \/ (table[h] = {} /\ h \in Expired(t))
  BY DEF Unexpired
<1>3. /\ table = IF "prune" \in failed THEN buckets ELSE Unexpired(t)
      /\ "buckets" \notin failed => loaded = Loaded(table)
      /\ loaded = {} \/ loaded = Loaded(table)
  OBVIOUS
<1>4. \/ /\ "points" \in failed
         /\ current' = None /\ completed' = loaded /\ buckets' = table /\ points' = points
      \/ "points" \notin failed /\ LoadCurrentHour(t, table, loaded)
  BY Zenon DEF Start
<1> HIDE DEF table, loaded
<1> QED
  BY <1>1, <1>2, <1>3, <1>4 DEF Found

(* A completed hour that a start has put together is an hour of the bucket  *)
(* table after it, or the points it has promoted.                          *)
LEMMA FoundType ==
  ASSUME TypeOK, NEW t, NEW table, NEW loaded, Found(t, table, loaded)
  PROVE  /\ loaded \subseteq Completed
         /\ \A b \in loaded : /\ b.hour \in Hours /\ b.samples = table[b.hour] /\ b.samples # {}
                              /\ b.samples = buckets[b.hour] /\ b.place = 0
  BY LoadedType DEF Found

LEMMA IdsOfSubset ==
  /\ \A S, T : S \subseteq T => Ids(S) \subseteq Ids(T)
  /\ \A S, T : Ids(S \cup T) = Ids(S) \cup Ids(T)
  /\ \A S : \A s \in S : s.id \in Ids(S)
  BY DEF Ids

(* The samples of one place are samples of Everywhere.                      *)
LEMMA Places ==
  /\ SamplesOf(current) \subseteq Everywhere /\ SamplesOf(pending) \subseteq Everywhere
  /\ SamplesOf(points) \subseteq Everywhere
  /\ current # None => current.samples \subseteq Everywhere
  /\ pending # None => pending.samples \subseteq Everywhere
  /\ points # None => points.samples \subseteq Everywhere
  /\ \A b \in completed : b.samples \subseteq Everywhere
  /\ \A h \in Hours : buckets[h] \subseteq Everywhere
  BY DEF Everywhere, SamplesOf, SamplesIn

LEMMA KnownIds ==
  ASSUME TypeOK, Identified
  PROVE  /\ \A S \in SUBSET Everywhere : Ids(S) \subseteq 1 .. count
         /\ Ids(SamplesOf(current)) \subseteq 1 .. count
         /\ Ids(SamplesOf(pending)) \subseteq 1 .. count
         /\ Ids(SamplesOf(points)) \subseteq 1 .. count
         /\ \A h \in Hours : Ids(buckets[h]) \subseteq 1 .. count
<1>1. Everywhere \subseteq Sample
  BY DEF Everywhere, SamplesOf, SamplesIn, TypeOK, Hour, Completed
<1>2. ASSUME NEW s \in Everywhere PROVE s.id \in 1 .. count
  <2>1. s.id \in 1 .. MaxSamples /\ s.id <= count
    BY <1>1 DEF Sample, Identified
  <2> QED BY <2>1 DEF TypeOK
<1> QED
  BY <1>2, Places DEF Ids

-----------------------------------------------------------------------------
(* What the steps do.                                                      *)

(* The sample a tick takes, and its second push.                            *)
Taken(t) == [id |-> count + 1, ts |-> t, push |-> 1]
Again(t) == [id |-> count + 1, ts |-> t, push |-> 2]

(* The queue entry of the hour the tick completes.                          *)
Done == [hour |-> current.hour, samples |-> current.samples, place |-> count + 1]

LEMMA CollectDoes ==
  ASSUME TypeOK, NEW t \in Times, Collect(t)
  PROVE  /\ Taken(t) \in Sample /\ Again(t) \in Sample /\ count + 1 \in 1 .. MaxSamples
         /\ HourOf(t) \in Hours
         /\ \/ /\ current = None
               /\ current' = [hour |-> HourOf(t), samples |-> {Taken(t), Again(t)}]
               /\ doubled' = doubled \cup {count + 1}
               /\ completed' = completed /\ pending' = pending
            \/ /\ current # None /\ current.hour = HourOf(t)
               /\ current' = [hour |-> HourOf(t), samples |-> current.samples \cup {Taken(t)}]
               /\ doubled' = doubled /\ completed' = completed /\ pending' = pending
            \/ /\ current # None /\ current.hour # HourOf(t)
               /\ current' = [hour |-> HourOf(t), samples |-> {Taken(t)}]
               /\ doubled' = doubled /\ Done \in Completed
               /\ completed' = Trim(completed \cup {Done}) /\ pending' = current
<1>1. count + 1 \in 1 .. MaxSamples
  BY AccountingConstants DEF TypeOK, Collect
<1>2. Taken(t) \in Sample /\ Again(t) \in Sample /\ HourOf(t) \in Hours
  BY <1>1, HoursType DEF Sample, Taken, Again
<1>3. CASE current = None
  <2>1. /\ current' = Row(HourOf(t), {Taken(t), Again(t)})
        /\ doubled' = doubled \cup {count + 1} /\ completed' = completed /\ pending' = pending
    BY <1>3 DEF Collect, Ingest, Taken, Again
  <2> QED
    BY <1>1, <1>2, <1>3, <2>1 DEF Row
<1>4. CASE current # None /\ current.hour = HourOf(t)
  <2>1. current = [hour |-> current.hour, samples |-> current.samples]
    BY <1>4 DEF TypeOK, Hour
  <2>2. /\ current' = [current EXCEPT !.samples = @ \cup {Taken(t)}]
        /\ doubled' = doubled /\ completed' = completed /\ pending' = pending
    BY <1>4 DEF Collect, Ingest, Taken
  <2> QED
    BY <1>1, <1>2, <1>4, <2>1, <2>2
<1>5. CASE current # None /\ current.hour # HourOf(t)
  <2>1. current \in Hour
    BY <1>5 DEF TypeOK
  <2>2. Queued(current, count + 1) = Done /\ Done \in Completed
    BY <1>1, <2>1 DEF Queued, Hour, Completed, Done
  <2>3. /\ current' = Row(HourOf(t), {Taken(t)})
        /\ completed' = Trim(completed \cup {Queued(current, count + 1)})
        /\ pending' = current /\ doubled' = doubled
    BY <1>5 DEF Collect, Ingest, Taken
  <2> QED
    BY <1>1, <1>2, <1>5, <2>2, <2>3 DEF Row
<1> QED
  BY <1>3, <1>4, <1>5

LEMMA SaveDoes ==
  ASSUME TypeOK, SaveCurrentHour
  PROVE  /\ points' \in Hour \cup {None} /\ SamplesOf(points') \subseteq SamplesOf(current)
         /\ points' = None <=> current = None
         /\ points' # None => points'.hour = current.hour /\ points'.samples \subseteq current.samples
         /\ buckets' = buckets
         /\ stored' = stored \cup Ids(SamplesOf(current))
         /\ excused \subseteq excused' /\ excused' \subseteq excused \cup Ids(SamplesOf(current))
<1>1. points' = Saved(current) /\ current \in Hour \cup {None}
  BY DEF SaveCurrentHour, TypeOK
<1>2. /\ points' \in Hour \cup {None} /\ SamplesOf(points') \subseteq SamplesOf(current)
      /\ points' = None <=> current = None
      /\ current # None => points'.hour = current.hour
  BY <1>1, SavedType
<1> QED
  BY <1>2 DEF SaveCurrentHour, SamplesOf

(* Each step leaves the disk alone, saves the current hour, or does not      *)
(* touch the memory.                                                       *)
LEMMA PersistDoes ==
  ASSUME Persist
  PROVE  /\ running /\ pc = "persist" /\ pc' = "prune"
         /\ UNCHANGED <<now, count, running, current, completed, pending, lastPrune, setBacks, doubled>>
         /\ \/ SaveCurrentHour /\ lastPersist' \in {lastPersist, now}
            \/ UNCHANGED <<points, buckets, stored, excused, lastPersist>>
         /\ faults' \in {faults, faults + 1} /\ (faults' # faults => faults < MaxFaults)
  BY DEF Persist, memory, disk, Fault, NoFault

LEMMA PruneDoes ==
  ASSUME Prune
  PROVE  /\ running /\ pc = "prune" /\ pc' = "idle"
         /\ UNCHANGED <<now, count, running, current, completed, pending, lastPersist, setBacks, doubled,
                        stored, points>>
         /\ lastPrune' \in {lastPrune, now}
         /\ \/ PruneBuckets(now)
            \/ UNCHANGED <<buckets, excused>>
         /\ faults' \in {faults, faults + 1} /\ (faults' # faults => faults < MaxFaults)
  BY DEF Prune, memory, disk, Fault, NoFault, PruneBuckets

LEMMA AppendDoes ==
  ASSUME TypeOK, Shape, AppendBucket
  PROVE  /\ pending \in Hour /\ pending # None /\ pending.hour \in Hours /\ pending.samples \in SUBSET Sample
         /\ \/ buckets' = buckets
            \/ /\ buckets[pending.hour] = {}
               /\ buckets' = [buckets EXCEPT ![pending.hour] = pending.samples]
         /\ \A h \in Hours : buckets'[h] = buckets[h]
                             \/ (h = pending.hour /\ buckets[h] = {} /\ buckets'[h] = pending.samples)
         /\ stored' \subseteq stored \cup Ids(SamplesOf(pending)) /\ stored \subseteq stored'
         /\ excused' \subseteq excused \cup Ids(SamplesOf(pending)) /\ excused \subseteq excused'
         /\ faults' \in {faults, faults + 1} /\ (faults' # faults => faults < MaxFaults)
<1>1. pending \in Hour /\ pending # None
  BY DEF TypeOK, Shape, AppendBucket
<1>2. pending.hour \in Hours /\ pending.samples \in SUBSET Sample /\ SamplesOf(pending) = pending.samples
  BY <1>1 DEF Hour, SamplesOf
<1>3. \/ buckets' = buckets
      \/ /\ buckets[pending.hour] = {}
         /\ buckets' = [buckets EXCEPT ![pending.hour] = pending.samples]
  BY DEF AppendBucket, InsertBucket
<1>4. buckets \in [Hours -> SUBSET Sample]
  BY DEF TypeOK
<1>5. \A h \in Hours : buckets'[h] = buckets[h]
                       \/ (h = pending.hour /\ buckets[h] = {} /\ buckets'[h] = pending.samples)
  BY <1>2, <1>3, <1>4
<1> QED
  BY <1>1, <1>2, <1>3, <1>5 DEF AppendBucket, Fault, NoFault

Base == TypeOK /\ Shape /\ Identified

LEMMA TypeStep == Base /\ [Next]_vars => TypeOK'
<1> SUFFICES ASSUME Base, [Next]_vars PROVE TypeOK'
  OBVIOUS
<1> USE AccountingConstants DEF Base
<1>a. /\ count \in 0 .. MaxSamples /\ faults \in 0 .. MaxFaults /\ setBacks \in 0 .. MaxSetBacks
      /\ doubled \cup stored \cup excused \subseteq 1 .. count
  BY DEF TypeOK
<1>1. ASSUME NEW t \in Times, Collect(t) PROVE TypeOK'
  <2>1. count' = count + 1 /\ count' \in 0 .. MaxSamples
    BY <1>1, <1>a DEF Collect
  <2>2. doubled' \subseteq doubled \cup {count + 1} /\ doubled' \cup stored' \cup excused' \subseteq 1 .. count'
    <3>1. doubled' \subseteq doubled \cup {count + 1}
      BY <1>1, CollectDoes
    <3> QED BY <3>1, <2>1, <1>1, <1>a DEF Collect
  <2>3. current' \in Hour
    <3>1. current # None => current.samples \in SUBSET Sample
      BY DEF TypeOK, Hour
    <3> QED BY <3>1, <1>1, CollectDoes DEF Hour
  <2>4. completed' \subseteq Completed /\ pending' \in Hour \cup {None}
    BY <1>1, CollectDoes, TrimSubset DEF TypeOK
  <2>5. setBacks' \in 0 .. MaxSetBacks
    BY <1>1, <1>a DEF Collect
  <2>6. /\ now' \in Times /\ pc' \in {"idle", "append", "persist", "prune"}
        /\ UNCHANGED <<running, lastPersist, lastPrune, points, buckets, faults>>
    BY <1>1 DEF Collect, timers, disk
  <2> QED
    BY <2>1, <2>2, <2>3, <2>4, <2>5, <2>6 DEF TypeOK
<1>2. CASE AppendBucket
  <2>1. buckets' \in [Hours -> SUBSET Sample]
    BY <1>2, AppendDoes DEF TypeOK
  <2>2. faults' \in 0 .. MaxFaults
    BY <1>2, <1>a, AppendDoes
  <2>3. stored' \cup excused' \subseteq 1 .. count
    BY <1>2, <1>a, AppendDoes, KnownIds
  <2> QED
    BY <1>2, <2>1, <2>2, <2>3 DEF AppendBucket, TypeOK, memory, timers
<1>3. ASSUME SaveCurrentHour
      PROVE  points' \in Hour \cup {None} /\ buckets' = buckets /\ stored' \cup excused' \subseteq 1 .. count
  BY <1>3, <1>a, SaveDoes, KnownIds
<1>4. CASE Persist
  <2>1. faults' \in 0 .. MaxFaults
    BY <1>4, <1>a, PersistDoes
  <2>2. points' \in Hour \cup {None} /\ buckets' = buckets /\ stored' \cup excused' \subseteq 1 .. count
    BY <1>3, <1>4, <1>a, PersistDoes DEF TypeOK
  <2> QED
    BY <1>4, <2>1, <2>2, PersistDoes DEF TypeOK
<1>5. CASE Prune
  <2>1. faults' \in 0 .. MaxFaults
    BY <1>5, <1>a, PruneDoes
  <2>2. buckets' \in [Hours -> SUBSET Sample] /\ excused' \subseteq 1 .. count
    <3>1. Unexpired(now) \in [Hours -> SUBSET Sample]
      BY DEF TypeOK, Unexpired
    <3>2. ExpiredIds(now) \subseteq 1 .. count
      BY KnownIds DEF ExpiredIds, Expired
    <3> QED
      BY <3>1, <3>2, <1>5, <1>a, PruneDoes DEF PruneBuckets, TypeOK
  <2> QED
    BY <1>5, <1>a, <2>1, <2>2, PruneDoes DEF TypeOK
<1>6. CASE HandlerSave
  BY <1>3, <1>6, <1>a DEF HandlerSave, TypeOK, memory, timers
<1>7. CASE Stop
  <2>1. excused' \subseteq 1 .. count
    BY <1>7, <1>a, KnownIds DEF Stop
  <2> QED
    BY <1>7, <2>1 DEF Stop, TypeOK, disk
<1>8. ASSUME NEW t \in Times, NEW failed, Start(t, failed) PROVE TypeOK'
  <2>1. faults' \in 0 .. MaxFaults /\ setBacks' \in 0 .. MaxSetBacks
    BY <1>8, <1>a DEF Start, Fault, NoFault
  <2>2. PICK table, loaded :
           /\ Found(t, table, loaded)
           /\ \/ /\ current' = None /\ completed' = loaded /\ buckets' = table /\ points' = points
              \/ LoadCurrentHour(t, table, loaded)
    BY <1>8, StartFinds
  <2>3. loaded \subseteq Completed /\ table \in [Hours -> SUBSET Sample] /\ points \in Hour \cup {None}
    BY <2>2, FoundType DEF Found, TypeOK
  <2>4. points # None => points.hour \in Hours /\ points.samples \in SUBSET Sample
    BY <2>3 DEF Hour
  <2>5. points # None => Queued(points, count) \in Completed
    BY <2>4, <1>a DEF Queued, Completed
  <2>6. /\ current' \in Hour \cup {None} /\ completed' \subseteq Completed
        /\ points' \in Hour \cup {None} /\ buckets' \in [Hours -> SUBSET Sample]
    BY <2>2, <2>3, <2>4, <2>5, TrimSubset DEF LoadCurrentHour
  <2>7. doubled' \cup excused' \subseteq 1 .. count
    <3>1. ExpiredIds(t) \subseteq 1 .. count /\ Ids(SamplesOf(points)) \subseteq 1 .. count
      BY KnownIds DEF ExpiredIds, Expired
    <3>2. /\ excused' \subseteq excused \cup ExpiredIds(t) \cup Ids(SamplesOf(points))
          /\ doubled' \subseteq doubled \cup Ids(SamplesOf(points))
      BY <1>8 DEF Start
    <3> QED BY <3>1, <3>2, <1>a
  <2>8. now' = t /\ running' = TRUE /\ UNCHANGED <<count, pc, pending, lastPersist, lastPrune, stored>>
    BY <1>8 DEF Start, timers
  <2> QED
    BY <1>a, <2>1, <2>6, <2>7, <2>8 DEF TypeOK
<1>9. CASE UNCHANGED vars
  BY <1>9 DEF vars, memory, timers, disk, ghosts, TypeOK
<1> QED
  BY <1>1, <1>2, <1>4, <1>5, <1>6, <1>7, <1>8, <1>9 DEF Next

-----------------------------------------------------------------------------
(* The queue of completed hours.                                           *)

Later(S, b) == {c \in S : Before(b, c)}

(* What is put in last stays.                                              *)
LEMMA NewestStays ==
  ASSUME NEW S, NEW b \in S, \A c \in S : ~ Before(b, c)
  PROVE  b \in Trim(S)
<1>1. {c \in S : Before(b, c)} = {}
  OBVIOUS
<1> QED
  BY <1>1, FS_EmptySet, AccountingConstants DEF Trim

LEMMA DoneStays ==
  ASSUME TypeOK, Shape, current # None
  PROVE  Done \in Trim(completed \cup {Done})
<1>1. ASSUME NEW c \in completed \cup {Done} PROVE ~ Before(Done, c)
  <2>1. count \in Nat
    BY AccountingConstants DEF TypeOK
  <2>2. c \in completed => c.place \in Nat /\ c.place <= count
    BY AccountingConstants DEF TypeOK, Shape, Completed
  <2>3. ~ Before(Done, Done)
    <3>1. current.hour \in Nat
      BY HoursType DEF TypeOK, Hour
    <3> QED BY <2>1, <3>1 DEF Before, Done
  <2>4. c \in completed => ~ Before(Done, c)
    BY <2>1, <2>2 DEF Before, Done
  <2> QED BY <2>3, <2>4
<1> QED
  BY <1>1, NewestStays

LEMMA ShapeStep == Base /\ [Next]_vars => Shape'
<1> SUFFICES ASSUME Base, [Next]_vars PROVE Shape'
  OBVIOUS
<1> USE DEF Base
<1>a. count \in Nat
  BY AccountingConstants DEF TypeOK
<1>1. ASSUME NEW t \in Times, Collect(t) PROVE Shape'
  <2>1. pending = None /\ running' /\ now' = t /\ count' = count + 1
    BY <1>1 DEF Collect, Shape
  <2>2. current' # None /\ current'.hour = HourOf(t)
    <3>1. current' \in Hour /\ current'.hour = HourOf(t)
      <4>1. current # None => current.samples \in SUBSET Sample
        BY DEF TypeOK, Hour
      <4> QED BY <4>1, <1>1, CollectDoes DEF Hour
    <3> QED BY <3>1, NoneIsNoHour
  <2>3. pending' # None => \E b \in completed' : b.hour = pending'.hour /\ b.samples = pending'.samples
    BY <1>1, <2>1, CollectDoes, DoneStays DEF Done
  <2>4. \A b \in completed' : b.place <= count'
    <3>1. \A b \in completed : b.place <= count + 1
      BY <1>a, AccountingConstants DEF Shape, TypeOK, Completed
    <3>2. Done.place = count + 1
      BY DEF Done
    <3> QED
      BY <1>1, <1>a, <2>1, <3>1, <3>2, CollectDoes, TrimSubset
  <2>5. pc' = IF pending' = None THEN "persist" ELSE "append"
    BY <1>1 DEF Collect
  <2> QED
    BY <2>1, <2>2, <2>3, <2>4, <2>5 DEF Shape
<1>2. CASE AppendBucket
  BY <1>2 DEF AppendBucket, Shape, memory
<1>4. CASE Persist
  BY <1>4, PersistDoes DEF Shape
<1>5. CASE Prune
  BY <1>5, PruneDoes DEF Shape
<1>6. CASE HandlerSave
  BY <1>6 DEF HandlerSave, Shape, memory
<1>7. CASE Stop
  BY <1>7 DEF Stop, Shape
<1>8. ASSUME NEW t \in Times, NEW failed, Start(t, failed) PROVE Shape'
  <2>1. PICK table, loaded :
           /\ Found(t, table, loaded)
           /\ \/ /\ current' = None /\ completed' = loaded /\ buckets' = table /\ points' = points
              \/ LoadCurrentHour(t, table, loaded)
    BY <1>8, StartFinds
  <2>2. pc = "idle" /\ pending = None /\ UNCHANGED <<pc, pending, count>> /\ running' /\ now' = t
    BY <1>8 DEF Start, Shape
  <2>3. \A b \in loaded : b.place <= count
    BY <2>1, <1>a, FoundType
  <2>4. Queued(points, count).place <= count
    BY <1>a DEF Queued
  <2>5. \A b \in completed' : b.place <= count
    BY <2>1, <2>3, <2>4, TrimSubset DEF LoadCurrentHour
  <2>6. current' # None => current'.hour = HourOf(t)
    BY <2>1 DEF LoadCurrentHour
  <2> QED
    BY <2>2, <2>5, <2>6 DEF Shape
<1>9. CASE UNCHANGED vars
  BY <1>9 DEF vars, memory, timers, disk, ghosts, Shape
<1> QED
  BY <1>1, <1>2, <1>4, <1>5, <1>6, <1>7, <1>8, <1>9 DEF Next

(* Only a tick brings a new sample.                                        *)
LEMMA CollectBrings ==
  ASSUME Base, NEW t \in Times, Collect(t), NEW s \in Everywhere'
  PROVE  s \in Everywhere \/ s = Taken(t) \/ (s = Again(t) /\ count + 1 \in doubled')
<1> USE DEF Base
<1>1. UNCHANGED <<points, buckets>>
  BY DEF Collect, disk
<1>2. \/ s \in SamplesOf(current)' \/ s \in SamplesOf(pending)' \/ s \in SamplesOf(points)
      \/ (\E b \in completed' : s \in b.samples) \/ (\E h \in Hours : s \in buckets[h])
  BY <1>1 DEF Everywhere, SamplesIn, SamplesOf
<1>3. CASE s \in SamplesOf(current)'
  <2>1. s \in current'.samples
    BY <1>3 DEF SamplesOf
  <2> QED
    BY <2>1, CollectDoes, Places
<1>4. CASE s \in SamplesOf(pending)'
  BY <1>4, CollectDoes, Places DEF SamplesOf
<1>5. ASSUME NEW b \in completed', s \in b.samples PROVE s \in Everywhere
  <2>1. b \in completed \/ (current # None /\ b = Done)
    BY CollectDoes, TrimSubset
  <2>2. Done.samples = current.samples
    BY DEF Done
  <2> QED
    BY <2>1, <2>2, <1>5, Places
<1> QED
  BY <1>2, <1>3, <1>4, <1>5, Places

LEMMA OthersBringNothing ==
  ASSUME Base, [Next]_vars, \A t \in Times : ~ Collect(t)
  PROVE  Everywhere' \subseteq Everywhere
<1> USE DEF Base
<1>a. SUFFICES ASSUME NEW s \in Everywhere' PROVE s \in Everywhere
  OBVIOUS
<1>b. \/ s \in SamplesOf(current') \/ s \in SamplesOf(pending') \/ s \in SamplesOf(points')
      \/ (\E b \in completed' : s \in b.samples) \/ (\E h \in Hours : s \in buckets'[h])
  BY <1>a DEF Everywhere, SamplesIn, SamplesOf
<1>c. /\ pending' = pending => SamplesOf(pending') \subseteq Everywhere
      /\ current' = current => SamplesOf(current') \subseteq Everywhere
      /\ points' = points => SamplesOf(points') \subseteq Everywhere
      /\ SamplesOf(None) = {}
  BY Places DEF SamplesOf
<1>2. CASE AppendBucket
  <2>1. pending.samples \subseteq Everywhere
    BY <1>2, AppendDoes, Places
  <2>2. \A h \in Hours : buckets'[h] \subseteq Everywhere
    BY <1>2, <2>1, AppendDoes, Places
  <2>3. pending' = None /\ UNCHANGED <<current, completed, points>>
    BY <1>2 DEF AppendBucket, memory
  <2> QED
    BY <1>b, <1>c, <2>2, <2>3, Places
<1>3. ASSUME SaveCurrentHour PROVE SamplesOf(points') \subseteq Everywhere /\ buckets' = buckets
  BY <1>3, SaveDoes, Places
<1>4. CASE Persist
  <2>1. SamplesOf(points') \subseteq Everywhere /\ buckets' = buckets
    BY <1>3, <1>4, <1>c, PersistDoes
  <2>2. UNCHANGED <<current, completed, pending>>
    BY <1>4, PersistDoes
  <2> QED
    BY <1>b, <1>c, <2>1, <2>2, Places
<1>5. CASE Prune
  <2>1. \A h \in Hours : buckets'[h] \subseteq buckets[h]
    BY <1>5, PruneDoes DEF PruneBuckets, Unexpired
  <2>2. UNCHANGED <<current, completed, pending, points>>
    BY <1>5, PruneDoes
  <2> QED
    BY <1>b, <1>c, <2>1, <2>2, Places
<1>6. CASE HandlerSave
  <2>1. SamplesOf(points') \subseteq Everywhere /\ buckets' = buckets
    BY <1>3, <1>6 DEF HandlerSave
  <2>2. UNCHANGED <<current, completed, pending>>
    BY <1>6 DEF HandlerSave, memory
  <2> QED
    BY <1>b, <1>c, <2>1, <2>2, Places
<1>7. CASE Stop
  <2>1. current' = None /\ completed' = {} /\ pending' = None /\ UNCHANGED <<points, buckets>>
    BY <1>7 DEF Stop, disk
  <2> QED
    BY <1>b, <1>c, <2>1, Places
<1>8. ASSUME NEW t \in Times, NEW failed, Start(t, failed) PROVE s \in Everywhere
  <2>1. PICK table, loaded :
           /\ Found(t, table, loaded)
           /\ \/ /\ current' = None /\ completed' = loaded /\ buckets' = table /\ points' = points
              \/ LoadCurrentHour(t, table, loaded)
    BY <1>8, StartFinds
  <2>2. \A h \in Hours : table[h] \subseteq Everywhere
    BY <2>1, Places DEF Found
  <2>3. \A b \in loaded : b.samples \subseteq Everywhere
    BY <2>1, <2>2, FoundType
  <2>4. points # None => points.samples \subseteq Everywhere /\ Queued(points, count).samples = points.samples
    BY Places DEF Queued
  <2>5. \A b \in completed' : b.samples \subseteq Everywhere
    BY <2>1, <2>3, <2>4, TrimSubset DEF LoadCurrentHour
  <2>6. \A h \in Hours : buckets'[h] \subseteq Everywhere
    BY <2>1, <2>2, <2>4 DEF LoadCurrentHour, Found
  <2>7. SamplesOf(current') \subseteq Everywhere /\ SamplesOf(points') \subseteq Everywhere
    BY <2>1, <1>c, Places DEF LoadCurrentHour
  <2>8. pending' = pending
    BY <1>8 DEF Start
  <2> QED
    BY <1>b, <1>c, <2>5, <2>6, <2>7, <2>8
<1>9. CASE UNCHANGED vars
  <2>1. UNCHANGED <<current, completed, pending, points, buckets>>
    BY <1>9 DEF vars, memory, disk
  <2> QED
    BY <1>b, <1>c, <2>1, Places
<1> QED
  BY <1>2, <1>4, <1>5, <1>6, <1>7, <1>8, <1>9 DEF Next

LEMMA SampleTypes ==
  ASSUME TypeOK
  PROVE  /\ count \in Nat /\ now \in Nat /\ setBacks \in Nat /\ faults \in Nat
         /\ lastPersist \in Nat /\ lastPrune \in Nat
         /\ \A s \in Everywhere : s \in Sample /\ s.id \in Nat /\ s.ts \in Times /\ s.ts \in Nat /\ s.push \in Nat
         /\ current # None => current.hour \in Hours /\ current.hour \in Nat
         /\ pending # None => pending.hour \in Hours /\ pending.hour \in Nat
         /\ points # None => points.hour \in Hours /\ points.hour \in Nat
         /\ \A b \in completed : b.hour \in Hours /\ b.hour \in Nat /\ b.place \in Nat
         /\ HourOf(now) \in Nat /\ Hours \subseteq Nat
<1>1. Times \subseteq Nat /\ Hours \subseteq Nat /\ 1 .. MaxSamples \subseteq Nat /\ 0 .. MaxSamples \subseteq Nat
  BY HoursType, AccountingConstants
<1>2. Everywhere \subseteq Sample
  BY DEF Everywhere, SamplesOf, SamplesIn, TypeOK, Hour, Completed
<1>3. ASSUME NEW s \in Everywhere
      PROVE  s \in Sample /\ s.id \in Nat /\ s.ts \in Times /\ s.ts \in Nat /\ s.push \in Nat
  <2>1. s \in Sample
    BY <1>2
  <2>2. s.id \in 1 .. MaxSamples /\ s.ts \in Times /\ s.push \in {1, 2}
    BY <2>1 DEF Sample
  <2>3. s.id \in Nat /\ s.ts \in Nat
    BY <1>1, <2>2
  <2>4. s.push \in Nat
    BY <2>2
  <2> QED BY <2>1, <2>2, <2>3, <2>4
<1>4. count \in Nat /\ now \in Nat /\ setBacks \in Nat /\ faults \in Nat /\ lastPersist \in Nat /\ lastPrune \in Nat
  BY <1>1, AccountingConstants DEF TypeOK
<1>5. /\ current # None => current.hour \in Hours
      /\ pending # None => pending.hour \in Hours
      /\ points # None => points.hour \in Hours
      /\ \A b \in completed : b.hour \in Hours /\ b.place \in 0 .. MaxSamples
  BY DEF TypeOK, Hour, Completed
<1> QED
  BY <1>1, <1>3, <1>4, <1>5, HoursType DEF TypeOK

LEMMA DoubledGrows ==
  ASSUME TypeOK, [Next]_vars
  PROVE  doubled \subseteq doubled' /\ setBacks \in Nat /\ (setBacks' = 0 => setBacks = 0)
<1>1. setBacks \in Nat
  BY SampleTypes
<1>2. ASSUME NEW t \in Times, Collect(t) PROVE doubled \subseteq doubled' /\ (setBacks' = 0 => setBacks = 0)
  BY <1>1, <1>2, CollectDoes DEF Collect
<1>3. ASSUME NEW t \in Times, NEW failed, Start(t, failed)
      PROVE doubled \subseteq doubled' /\ (setBacks' = 0 => setBacks = 0)
  BY <1>1, <1>3 DEF Start
<1> QED
  BY <1>1, <1>2, <1>3 DEF Next, AppendBucket, Persist, Prune, HandlerSave, Stop, vars, ghosts

LEMMA IdentifiedStep == Base /\ [Next]_vars => Identified'
<1> SUFFICES ASSUME Base, [Next]_vars PROVE Identified'
  OBVIOUS
<1>a. doubled \subseteq doubled' /\ count \in Nat
  BY DoubledGrows, SampleTypes DEF Base
<1>1. ASSUME NEW t \in Times, Collect(t) PROVE Identified'
  <2>1. count' = count + 1
    BY <1>1 DEF Collect
  <2>2. ASSUME NEW s \in Everywhere'
        PROVE  \/ s \in Everywhere /\ s.id \in Nat /\ s.id <= count
               \/ s = Taken(t)
               \/ s = Again(t) /\ count + 1 \in doubled'
    BY <1>1, CollectBrings, SampleTypes DEF Base, Identified
  <2>3. Taken(t).id = count + 1 /\ Again(t).id = count + 1 /\ Taken(t).ts = t /\ Again(t).ts = t
    BY DEF Taken, Again
  <2>4. ASSUME NEW s \in Everywhere' PROVE s.id <= count'
    BY <2>1, <2>2, <2>3, <1>a
  <2>5. ASSUME NEW p \in Everywhere', NEW q \in Everywhere', p.id = q.id
        PROVE  p.ts = q.ts /\ (p = q \/ p.id \in doubled')
    <3>1. CASE p \in Everywhere /\ p.id <= count /\ p.id \in Nat
      <4>1. q \in Everywhere
        BY <3>1, <2>2, <2>3, <2>5, <1>a
      <4> QED
        BY <3>1, <4>1, <2>5, <1>a DEF Base, Identified
    <3>2. CASE p = Taken(t) \/ (p = Again(t) /\ count + 1 \in doubled')
      <4>1. q = Taken(t) \/ (q = Again(t) /\ count + 1 \in doubled')
        BY <3>2, <2>2, <2>3, <2>5, <1>a
      <4> QED
        BY <3>2, <4>1, <2>3
    <3> QED BY <3>1, <3>2, <2>2
  <2> QED
    BY <2>4, <2>5 DEF Identified
<1>2. CASE \A t \in Times : ~ Collect(t)
  <2>1. Everywhere' \subseteq Everywhere
    BY <1>2, OthersBringNothing
  <2>2. count' = count
    BY <1>2 DEF Next, AppendBucket, Persist, Prune, HandlerSave, Stop, Start, vars
  <2> QED
    BY <2>1, <2>2, <1>a DEF Base, Identified
<1> QED
  BY <1>1, <1>2

(* Every sample is in the hour of its time.                                *)
Own(hour) == \A s \in hour.samples : HourOf(s.ts) = hour.hour

InTheirHours ==
  /\ current # None => Own(current)
  /\ pending # None => Own(pending)
  /\ points # None => Own(points)
  /\ \A b \in completed : Own(b)
  /\ \A h \in Hours : \A s \in buckets[h] : HourOf(s.ts) = h

LEMMA InTheirHoursStep == Base /\ InTheirHours /\ [Next]_vars => InTheirHours'
<1> SUFFICES ASSUME Base, InTheirHours, [Next]_vars PROVE InTheirHours'
  OBVIOUS
<1> USE DEF Base
<1>1. ASSUME NEW t \in Times, Collect(t) PROVE InTheirHours'
  <2>1. UNCHANGED <<points, buckets>>
    BY <1>1 DEF Collect, disk
  <2>2. Taken(t).ts = t /\ Again(t).ts = t /\ (current # None => (Own(current) <=> Own(Done)))
    BY DEF Taken, Again, Done, Own
  <2>3. Own(current')
    BY <1>1, <2>2, CollectDoes DEF InTheirHours, Own
  <2>4. (\A b \in completed' : Own(b)) /\ (pending' # None => Own(pending'))
    BY <1>1, <2>2, CollectDoes, TrimSubset DEF InTheirHours
  <2> QED
    BY <2>1, <2>3, <2>4 DEF InTheirHours, Own
<1>2. CASE AppendBucket
  <2>1. \A h \in Hours : \A s \in buckets'[h] : HourOf(s.ts) = h
    BY <1>2, AppendDoes DEF InTheirHours, Own
  <2>2. pending' = None /\ UNCHANGED <<current, completed, points>>
    BY <1>2 DEF AppendBucket, memory
  <2> QED
    BY <2>1, <2>2 DEF InTheirHours, Own
<1>3. ASSUME SaveCurrentHour PROVE (points' # None => Own(points')) /\ buckets' = buckets
  BY <1>3, SaveDoes DEF InTheirHours, Own
<1>4. CASE Persist
  <2>1. (points' # None => Own(points')) /\ buckets' = buckets
    BY <1>3, <1>4, PersistDoes DEF InTheirHours
  <2>2. UNCHANGED <<current, completed, pending>>
    BY <1>4, PersistDoes
  <2> QED BY <2>1, <2>2 DEF InTheirHours, Own
<1>5. CASE Prune
  <2>1. \A h \in Hours : buckets'[h] \subseteq buckets[h]
    BY <1>5, PruneDoes DEF PruneBuckets, Unexpired
  <2>2. UNCHANGED <<current, completed, pending, points>>
    BY <1>5, PruneDoes
  <2> QED BY <2>1, <2>2 DEF InTheirHours, Own
<1>6. CASE HandlerSave
  <2>1. (points' # None => Own(points')) /\ buckets' = buckets
    BY <1>3, <1>6 DEF HandlerSave
  <2>2. UNCHANGED <<current, completed, pending>>
    BY <1>6 DEF HandlerSave, memory
  <2> QED BY <2>1, <2>2 DEF InTheirHours, Own
<1>7. CASE Stop
  BY <1>7 DEF Stop, disk, InTheirHours, Own
<1>8. ASSUME NEW t \in Times, NEW failed, Start(t, failed) PROVE InTheirHours'
  <2>1. PICK table, loaded :
           /\ Found(t, table, loaded)
           /\ \/ /\ current' = None /\ completed' = loaded /\ buckets' = table /\ points' = points
              \/ LoadCurrentHour(t, table, loaded)
    BY <1>8, StartFinds
  <2>2. \A h \in Hours : \A s \in table[h] : HourOf(s.ts) = h
    BY <2>1 DEF Found, InTheirHours
  <2>3. \A b \in loaded : Own(b)
    BY <2>1, <2>2, FoundType DEF Own
  <2>4. points # None => Own(points) /\ Own(Queued(points, count))
    BY DEF Queued, InTheirHours, Own
  <2>5. \A b \in completed' : Own(b)
    BY <2>1, <2>3, <2>4, TrimSubset DEF LoadCurrentHour
  <2>6. \A h \in Hours : \A s \in buckets'[h] : HourOf(s.ts) = h
    BY <2>1, <2>2, <2>4 DEF LoadCurrentHour, Found, Own
  <2>7. (current' # None => Own(current')) /\ (points' # None => Own(points'))
    BY <2>1, <2>4 DEF LoadCurrentHour
  <2>8. pending' = pending
    BY <1>8 DEF Start
  <2> QED
    BY <2>5, <2>6, <2>7, <2>8 DEF InTheirHours, Own
<1>9. CASE UNCHANGED vars
  BY <1>9 DEF vars, memory, disk, InTheirHours, Own
<1> QED
  BY <1>1, <1>2, <1>4, <1>5, <1>6, <1>7, <1>8, <1>9 DEF Next

-----------------------------------------------------------------------------
(* A clock that has never been set back.                                   *)

Instants ==
  /\ \A s \in Everywhere : s.ts <= now
  /\ \A p, q \in Everywhere : p.ts = q.ts => p.id = q.id

Filled ==
  /\ current # None => current.samples # {}
  /\ pending # None => pending.samples # {}
  /\ points # None => points.samples # {}
  /\ \A b \in completed : b.samples # {}

BucketHours == {h \in Hours : buckets[h] # {}}

HoursPast ==
  /\ \A h \in BucketHours : h < HourOf(now)
  /\ \A b \in completed : b.hour < HourOf(now)
  /\ pending # None => pending.hour < HourOf(now) /\ \A h \in BucketHours : h < pending.hour
  /\ points # None => points.hour <= HourOf(now)
  /\ lastPersist <= now

ClockForward == setBacks = 0 => Instants /\ Filled /\ HoursPast

LEMMA ClockAdvances ==
  ASSUME TypeOK, [Next]_vars, setBacks' = 0
  PROVE  /\ setBacks = 0 /\ now <= now' /\ now' \in Nat /\ HourOf(now) <= HourOf(now') /\ HourOf(now') \in Nat
         /\ \A t \in Times : Collect(t) => now < t /\ now' = t
         /\ \A t \in Times : \A failed : Start(t, failed) => now <= t /\ now' = t
<1>1. setBacks = 0 /\ now \in Nat /\ Times \subseteq Nat
  BY DoubledGrows, SampleTypes, HoursType
<1>2. ASSUME NEW t \in Times, Collect(t) PROVE now < t /\ now' = t /\ t \in Nat
  BY <1>1, <1>2 DEF Collect
<1>3. ASSUME NEW t \in Times, NEW failed, Start(t, failed) PROVE now <= t /\ now' = t /\ t \in Nat
  BY <1>1, <1>3 DEF Start
<1>4. now <= now' /\ now' \in Nat
  <2>1. CASE \E t \in Times : Collect(t)
    BY <2>1, <1>1, <1>2
  <2>2. CASE \E t \in Times, failed \in SUBSET {"prune", "buckets", "points"} : Start(t, failed)
    BY <2>2, <1>1, <1>3
  <2>3. CASE now' = now
    BY <2>3, <1>1
  <2> QED
    BY <2>1, <2>2, <2>3 DEF Next, AppendBucket, Persist, Prune, HandlerSave, Stop, vars
<1> QED
  BY <1>1, <1>2, <1>3, <1>4, HourOfMonotone, HourOfTime

LEMMA SavedKeepsIds ==
  ASSUME TypeOK, Instants
  PROVE  Ids(SamplesOf(Saved(current))) = Ids(SamplesOf(current))
<1>1. CASE current = None
  BY <1>1 DEF Saved, SamplesOf
<1>2. CASE current # None
  <2>1. current \in Hour /\ current.samples \subseteq Everywhere
    BY <1>2, Places DEF TypeOK
  <2>2. /\ SamplesOf(current) = current.samples
        /\ SamplesOf(Saved(current)) = {q \in current.samples : \A p \in current.samples : ~ Overwrites(p, q)}
    <3>1. current.hour \in Hours /\ current.samples \in SUBSET Sample
      BY <2>1 DEF Hour
    <3>2. Saved(current) = Row(current.hour, {q \in current.samples : \A p \in current.samples : ~ Overwrites(p, q)})
      BY <1>2 DEF Saved
    <3> QED
      BY <1>2, <3>1, <3>2, RowType, NoneIsNoHour DEF SamplesOf
  <2>3. ASSUME NEW q \in current.samples
        PROVE  \E p \in current.samples : p.id = q.id /\ \A r \in current.samples : ~ Overwrites(r, p)
    <3>1. CASE \A r \in current.samples : ~ Overwrites(r, q)
      BY <3>1
    <3>2. ASSUME NEW p \in current.samples, Overwrites(p, q)
          PROVE  p.id = q.id /\ \A r \in current.samples : ~ Overwrites(r, p)
      <4>1. \A r \in current.samples : r.push \in {1, 2} /\ r.id \in Nat /\ r \in Everywhere
        BY <2>1, SampleTypes DEF Sample
      <4>2. p.id = q.id
        BY <3>2, <4>1 DEF Overwrites, Instants
      <4>3. p.push = 2
        BY <3>2, <4>1, <4>2 DEF Overwrites
      <4>4. ASSUME NEW r \in current.samples, Overwrites(r, p) PROVE FALSE
        <5>1. r.id = p.id
          BY <4>1, <4>4 DEF Overwrites, Instants
        <5> QED BY <4>1, <4>3, <4>4, <5>1 DEF Overwrites
      <4> QED BY <4>2, <4>4
    <3> QED BY <3>1, <3>2
  <2> QED
    BY <2>2, <2>3 DEF Ids
<1> QED BY <1>1, <1>2

LEMMA InstantsStep ==
  ASSUME Base, Instants, [Next]_vars, setBacks' = 0
  PROVE  Instants'
<1> USE DEF Base
<1>a. now \in Nat /\ now' \in Nat /\ now <= now' /\ \A s \in Everywhere : s.ts \in Nat
  BY ClockAdvances, SampleTypes
<1>1. ASSUME NEW t \in Times, Collect(t) PROVE Instants'
  <2>1. now < t /\ now' = t
    BY <1>1, ClockAdvances
  <2>2. ASSUME NEW s \in Everywhere'
        PROVE  (s \in Everywhere /\ s.ts \in Nat /\ s.ts <= now) \/ (s.ts = t /\ s.id = count + 1)
    BY <1>1, <1>a, CollectBrings DEF Instants, Taken, Again
  <2> QED
    BY <1>a, <2>1, <2>2 DEF Instants
<1>2. CASE \A t \in Times : ~ Collect(t)
  BY <1>2, <1>a, OthersBringNothing DEF Instants
<1> QED BY <1>1, <1>2

LEMMA SaveInTime ==
  ASSUME Base, Instants, Filled, SaveCurrentHour
  PROVE  /\ Ids(SamplesOf(points')) = Ids(SamplesOf(current))
         /\ points' # None => points'.samples # {} /\ points'.hour = HourOf(now)
<1>1. points' = Saved(current)
  BY DEF SaveCurrentHour
<1>2. Ids(SamplesOf(points')) = Ids(SamplesOf(current))
  BY <1>1, SavedKeepsIds DEF Base
<1>3. points' # None => points'.samples # {} /\ points'.hour = HourOf(now)
  BY <1>2, SaveDoes DEF Base, Shape, Filled, SamplesOf, Ids
<1> QED BY <1>2, <1>3

LEMMA FilledStep ==
  ASSUME Base, Instants, Filled, [Next]_vars
  PROVE  Filled'
<1> USE DEF Base
<1>1. ASSUME NEW t \in Times, Collect(t) PROVE Filled'
  <2>1. points' = points
    BY <1>1 DEF Collect, disk
  <2>2. current' # None => current'.samples # {}
    BY <1>1, CollectDoes
  <2>3. Done.samples = current.samples
    BY DEF Done
  <2> QED
    BY <1>1, <2>1, <2>2, <2>3, CollectDoes, TrimSubset DEF Filled
<1>2. CASE AppendBucket
  BY <1>2 DEF AppendBucket, memory, Filled
<1>4. CASE Persist
  BY <1>4, PersistDoes, SaveInTime DEF Filled
<1>5. CASE Prune
  BY <1>5, PruneDoes DEF Filled
<1>6. CASE HandlerSave
  BY <1>6, SaveInTime DEF HandlerSave, memory, Filled
<1>7. CASE Stop
  BY <1>7 DEF Stop, disk, Filled
<1>8. ASSUME NEW t \in Times, NEW failed, Start(t, failed) PROVE Filled'
  <2>1. PICK table, loaded :
           /\ Found(t, table, loaded)
           /\ \/ /\ current' = None /\ completed' = loaded /\ buckets' = table /\ points' = points
              \/ LoadCurrentHour(t, table, loaded)
    BY <1>8, StartFinds
  <2>2. \A b \in loaded : b.samples # {}
    BY <2>1, FoundType
  <2>3. Queued(points, count).samples = points.samples
    BY DEF Queued
  <2>4. pending' = pending
    BY <1>8 DEF Start
  <2> QED
    BY <2>1, <2>2, <2>3, <2>4, TrimSubset DEF LoadCurrentHour, Filled
<1>9. CASE UNCHANGED vars
  BY <1>9 DEF vars, memory, disk, Filled
<1> QED
  BY <1>1, <1>2, <1>4, <1>5, <1>6, <1>7, <1>8, <1>9 DEF Next

LEMMA HoursPastStep ==
  ASSUME Base, Instants, Filled, HoursPast, [Next]_vars, setBacks' = 0
  PROVE  HoursPast'
<1> USE DEF Base
<1>a. /\ now \in Nat /\ now' \in Nat /\ now <= now' /\ lastPersist \in Nat
      /\ HourOf(now) \in Nat /\ HourOf(now') \in Nat /\ HourOf(now) <= HourOf(now')
      /\ Hours \subseteq Nat /\ BucketHours \subseteq Nat
      /\ current # None => current.hour = HourOf(now)
      /\ pending # None => pending.hour \in Nat
      /\ points # None => points.hour \in Nat
      /\ \A b \in completed : b.hour \in Nat
  BY ClockAdvances, SampleTypes DEF Shape, BucketHours
<1>1. ASSUME NEW t \in Times, Collect(t) PROVE HoursPast'
  <2>1. now' = t /\ pending = None /\ UNCHANGED <<points, buckets, lastPersist>>
    BY <1>1 DEF Collect, disk, timers, Shape
  <2>2. Done.hour = current.hour
    BY DEF Done
  <2>3. BucketHours' = BucketHours
    BY <2>1 DEF BucketHours
  <2>4. \A b \in completed' : b.hour < HourOf(t)
    BY <1>1, <1>a, <2>1, <2>2, CollectDoes, TrimSubset DEF HoursPast
  <2>5. pending' # None => pending'.hour = HourOf(now) /\ HourOf(now) < HourOf(t)
    BY <1>1, <1>a, <2>1, CollectDoes
  <2> QED
    BY <1>a, <2>1, <2>3, <2>4, <2>5 DEF HoursPast
<1>2. CASE AppendBucket
  <2>1. pending' = None /\ UNCHANGED <<now, completed, points, lastPersist>>
    BY <1>2 DEF AppendBucket, memory, timers
  <2>2. \A h \in BucketHours' : h \in BucketHours \/ h = pending.hour
    BY <1>2, AppendDoes DEF BucketHours
  <2>3. pending # None
    BY <1>2, AppendDoes
  <2> QED
    BY <2>1, <2>2, <2>3 DEF HoursPast
<1>3. ASSUME SaveCurrentHour PROVE (points' # None => points'.hour = HourOf(now)) /\ BucketHours' = BucketHours
  BY <1>3, SaveInTime, SaveDoes DEF BucketHours
<1>4. CASE Persist
  <2>1. UNCHANGED <<now, completed, pending>> /\ lastPersist' \in {lastPersist, now}
    BY <1>4, PersistDoes
  <2>2. (points' # None => points'.hour <= HourOf(now)) /\ BucketHours' = BucketHours
    BY <1>4, <1>3, <1>a, PersistDoes DEF HoursPast, BucketHours
  <2> QED
    BY <1>a, <2>1, <2>2 DEF HoursPast
<1>5. CASE Prune
  <2>1. UNCHANGED <<now, completed, pending, points, lastPersist>>
    BY <1>5, PruneDoes
  <2>2. BucketHours' \subseteq BucketHours
    BY <1>5, PruneDoes DEF PruneBuckets, Unexpired, BucketHours
  <2> QED
    BY <2>1, <2>2 DEF HoursPast
<1>6. CASE HandlerSave
  <2>1. UNCHANGED <<now, completed, pending, lastPersist>>
    BY <1>6 DEF HandlerSave, memory, timers
  <2>2. (points' # None => points'.hour <= HourOf(now)) /\ BucketHours' = BucketHours
    BY <1>6, <1>3, <1>a DEF HandlerSave
  <2> QED
    BY <2>1, <2>2 DEF HoursPast
<1>7. CASE Stop
  BY <1>7, <1>a DEF Stop, disk, HoursPast, BucketHours
<1>8. ASSUME NEW t \in Times, NEW failed, Start(t, failed) PROVE HoursPast'
  <2>1. PICK table, loaded :
           /\ Found(t, table, loaded)
           /\ \/ /\ current' = None /\ completed' = loaded /\ buckets' = table /\ points' = points
              \/ LoadCurrentHour(t, table, loaded)
    BY <1>8, StartFinds
  <2>2. now' = t /\ pending = None /\ UNCHANGED <<pending, lastPersist>>
    BY <1>8 DEF Start, Shape, timers
  <2>3. \A h \in Hours : table[h] # {} => h < HourOf(t)
    BY <1>a, <2>1, <2>2 DEF Found, HoursPast, BucketHours
  <2>4. \A b \in loaded : b.hour < HourOf(t)
    BY <2>1, <2>3, FoundType
  <2>5. points # None => points.hour <= HourOf(t) /\ Queued(points, count).hour = points.hour
    BY <1>a, <2>2 DEF Queued, HoursPast
  <2>6. \A h \in BucketHours' : h < HourOf(t)
    <3>1. \A h \in Hours : buckets'[h] # {} =>
            table[h] # {} \/ (points # None /\ points.hour # HourOf(t) /\ h = points.hour)
      <4>1. CASE buckets' = table
        BY <4>1
      <4>2. CASE LoadCurrentHour(t, table, loaded)
        BY <2>1, <4>2 DEF LoadCurrentHour, Found
      <4> QED BY <2>1, <4>1, <4>2
    <3>2. points # None /\ points.hour # HourOf(t) => points.hour < HourOf(t)
      <4> SUFFICES ASSUME points # None, points.hour # HourOf(t) PROVE points.hour < HourOf(t)
        OBVIOUS
      <4>1. points.hour \in Nat /\ HourOf(t) \in Nat
        BY <1>a, HoursType DEF Hour
      <4> QED BY <2>5, <4>1
    <3> QED BY <2>3, <3>1, <3>2 DEF BucketHours
  <2>7. \A b \in completed' : b.hour < HourOf(t)
    <3>1. CASE completed' = loaded
      BY <3>1, <2>4
    <3>2. CASE points # None /\ points.hour # HourOf(t) /\ completed' = Trim(loaded \cup {Queued(points, count)})
      BY <3>2, <1>a, <2>2, <2>4, <2>5, TrimSubset
    <3> QED BY <3>1, <3>2, <2>1 DEF LoadCurrentHour
  <2>8. points' # None => points' = points
    BY <2>1 DEF LoadCurrentHour
  <2> QED
    BY <1>a, <2>2, <2>5, <2>6, <2>7, <2>8 DEF HoursPast
<1>9. CASE UNCHANGED vars
  BY <1>9 DEF vars, memory, disk, timers, HoursPast, BucketHours
<1> QED
  BY <1>1, <1>2, <1>4, <1>5, <1>6, <1>7, <1>8, <1>9 DEF Next

LEMMA ClockForwardStep == Base /\ ClockForward /\ [Next]_vars => ClockForward'
  BY InstantsStep, FilledStep, HoursPastStep, DoubledGrows DEF ClockForward, Base

-----------------------------------------------------------------------------
(* No traffic is counted twice.                                            *)

LEMMA OnceStep ==
  Base /\ InTheirHours /\ ClockForward /\ NoDoubleCount /\ [Next]_vars => NoDoubleCount'
<1> SUFFICES ASSUME Base, InTheirHours, ClockForward, NoDoubleCount, [Next]_vars PROVE NoDoubleCount'
  OBVIOUS
<1> USE DEF Base
<1>a. /\ count \in Nat /\ doubled \subseteq doubled'
      /\ \A s \in Everywhere : s.id \in Nat /\ s.id <= count
      /\ \A p, q \in Everywhere : p.id = q.id => p.ts = q.ts /\ (p = q \/ p.id \in doubled)
      /\ \A b \in completed : \A q \in b.samples : q \in Everywhere
      /\ \A p \in SamplesOf(current) : p \in Everywhere
  BY DoubledGrows, SampleTypes, Places DEF Identified
<1>1. ASSUME NEW t \in Times, Collect(t) PROVE NoDoubleCount'
  <2>1. Taken(t).id = count + 1 /\ Again(t).id = count + 1 /\ Done.samples = current.samples
    BY DEF Taken, Again, Done
  <2>2. /\ SamplesOf(current') = current'.samples
        /\ current # None => SamplesOf(current) = current.samples
        /\ current = None => SamplesOf(current) = {}
    <3>1. current' # None
      <4>1. current' \in Hour
        <5>1. current # None => current.samples \in SUBSET Sample
          BY DEF TypeOK, Hour
        <5> QED BY <5>1, <1>1, CollectDoes DEF Hour
      <4> QED BY <4>1, NoneIsNoHour
    <3> QED BY <3>1 DEF SamplesOf
  <2>3. CASE current = None
    <3>1. current'.samples = {Taken(t), Again(t)} /\ doubled' = doubled \cup {count + 1} /\ completed' = completed
      BY <1>1, <2>3, CollectDoes
    <3> QED BY <1>a, <2>1, <2>2, <3>1 DEF NoDoubleCount
  <2>4. CASE current # None /\ current.hour = HourOf(t)
    <3>1. current'.samples = current.samples \cup {Taken(t)} /\ completed' = completed
      BY <1>1, <2>4, CollectDoes
    <3> QED BY <1>a, <2>1, <2>2, <2>4, <3>1 DEF NoDoubleCount
  <2>5. CASE current # None /\ current.hour # HourOf(t)
    <3>1. current'.samples = {Taken(t)} /\ completed' \subseteq completed \cup {Done}
      BY <1>1, <2>5, CollectDoes, TrimSubset
    <3>2. ASSUME NEW b \in completed \cup {Done}, NEW c \in completed \cup {Done},
                 NEW p \in b.samples, NEW q \in c.samples, p.id = q.id
          PROVE  p.id \in doubled \/ (b = c /\ p = q)
      BY <1>a, <2>1, <2>2, <2>5, <3>2 DEF NoDoubleCount
    <3>3. \A b \in completed \cup {Done} : \A q \in b.samples : q.id \in Nat /\ q.id <= count
      BY <1>a, <2>1, <2>2, <2>5
    <3> QED BY <1>a, <2>1, <2>2, <3>1, <3>2, <3>3 DEF NoDoubleCount
  <2> QED BY <2>3, <2>4, <2>5
<1>7. CASE Stop
  BY <1>7 DEF Stop, NoDoubleCount, SamplesOf
<1>8. ASSUME NEW t \in Times, NEW failed, Start(t, failed) PROVE NoDoubleCount'
  <2>1. PICK table, loaded :
           /\ Found(t, table, loaded)
           /\ \/ /\ current' = None /\ completed' = loaded /\ buckets' = table /\ points' = points
              \/ LoadCurrentHour(t, table, loaded)
    BY <1>8, StartFinds
  <2>2. \A b \in loaded : b.hour \in Hours /\ b.samples = buckets[b.hour] /\ b.samples # {} /\ b.place = 0
    BY <2>1, FoundType
  <2>3. \A b \in loaded : \A q \in b.samples : q \in Everywhere /\ HourOf(q.ts) = b.hour
    BY <2>2, Places DEF InTheirHours
  <2>4. ASSUME NEW b \in loaded, NEW c \in loaded, b.hour = c.hour PROVE b = c
    <3>1. loaded = Loaded(table) /\ table \in [Hours -> SUBSET Sample]
      BY <2>1, <2>4 DEF Found
    <3> QED BY <3>1, <2>4, LoadedType
  <2>5. ASSUME NEW b \in loaded, NEW c \in loaded, NEW p \in b.samples, NEW q \in c.samples, p.id = q.id
        PROVE  p.id \in doubled \/ (b = c /\ p = q)
    BY <1>a, <2>3, <2>4, <2>5
  <2>6. points # None => \A p \in points.samples : p \in Everywhere /\ HourOf(p.ts) = points.hour
    BY Places DEF InTheirHours, Own
  <2>7. CASE current' = None
    <3>1. SamplesOf(current') = {}
      BY <2>7 DEF SamplesOf
    <3>2. CASE completed' = loaded
      BY <1>a, <2>5, <3>1, <3>2 DEF NoDoubleCount
    <3>3. CASE /\ points # None /\ ~ HasCompleted(loaded, points.hour)
               /\ completed' = Trim(loaded \cup {Queued(points, count)})
      <4>1. Queued(points, count).samples = points.samples
        BY DEF Queued
      <4>2. ASSUME NEW b \in loaded, NEW p \in b.samples, NEW q \in points.samples
            PROVE  p.id # q.id
        BY <1>a, <2>3, <2>6, <3>3 DEF HasCompleted
      <4>3. ASSUME NEW p \in points.samples, NEW q \in points.samples, p.id = q.id
            PROVE  p.id \in doubled \/ p = q
        BY <1>a, <2>6, <3>3, <4>3
      <4>4. ASSUME NEW b \in completed', NEW c \in completed', NEW p \in b.samples, NEW q \in c.samples, p.id = q.id
            PROVE  p.id \in doubled \/ (b = c /\ p = q)
        BY <2>5, <3>3, <4>1, <4>2, <4>3, <4>4, TrimSubset
      <4> QED
        BY <1>a, <3>1, <4>4 DEF NoDoubleCount
    <3> QED BY <3>2, <3>3, <2>1, <2>7 DEF LoadCurrentHour
  <2>8. CASE current' # None
    <3>1. points # None /\ points.hour = HourOf(t) /\ current' = points /\ completed' = loaded
      BY <2>1, <2>8 DEF LoadCurrentHour
    <3>2. SamplesOf(current') = points.samples /\ SamplesOf(points) = points.samples
      BY <3>1 DEF SamplesOf
    <3>3. ASSUME NEW p \in points.samples, NEW b \in loaded, NEW q \in b.samples, p.id = q.id
          PROVE  p.id \in doubled'
      <4>1. HourOf(p.ts) = b.hour /\ b.hour = HourOf(t)
        BY <1>a, <2>3, <2>6, <3>1, <3>3
      <4>2. setBacks' # 0
        <5>1. SUFFICES ASSUME setBacks' = 0 PROVE FALSE
          OBVIOUS
        <5>2. b.hour < HourOf(now) /\ HourOf(now) <= HourOf(t) /\ HourOf(now) \in Nat /\ HourOf(t) \in Nat
              /\ b.hour \in Nat
          <6>1. b.hour \in BucketHours /\ Hours \subseteq Nat
            BY <2>2, HoursType DEF BucketHours
          <6>2. setBacks = 0 /\ now' = t /\ HourOf(now) <= HourOf(now') /\ HourOf(now') \in Nat
            BY <5>1, <1>8, ClockAdvances
          <6>3. b.hour < HourOf(now) /\ HourOf(now) \in Nat
            BY <6>1, <6>2, SampleTypes DEF ClockForward, HoursPast
          <6> QED BY <6>1, <6>2, <6>3 DEF BucketHours
        <5> QED BY <4>1, <5>2
      <4>3. p.id \in Ids(SamplesOf(points)) /\ p.id \in Ids(SamplesIn(completed'))
        BY <3>1, <3>2, <3>3 DEF Ids, SamplesIn
      <4> QED
        BY <1>8, <2>8, <4>2, <4>3 DEF Start
    <3> QED
      BY <1>a, <2>5, <2>6, <3>1, <3>2, <3>3 DEF NoDoubleCount
  <2> QED BY <2>7, <2>8
<1>9. CASE UNCHANGED <<current, completed, doubled>>
  BY <1>9 DEF NoDoubleCount
<1> QED
  BY <1>1, <1>7, <1>8, <1>9 DEF Next, AppendBucket, Persist, Prune, HandlerSave, memory, vars, ghosts

-----------------------------------------------------------------------------
(* What has been stored is stored.                                         *)

BucketIds == UNION {Ids(buckets[h]) : h \in Hours}

(* While the service runs, the points in the database are in memory too or   *)
(* in a bucket: the next save may replace them.  A bucket of their hour has *)
(* them.                                                                   *)
PointsCovered ==
  /\ running => Ids(SamplesOf(points)) \subseteq
                  Ids(SamplesOf(current)) \cup Ids(SamplesOf(pending)) \cup BucketIds \cup excused
  /\ setBacks = 0 /\ points # None =>
       buckets[points.hour] = {} \/ Ids(points.samples) \subseteq Ids(buckets[points.hour]) \cup excused

Placed == Base /\ InTheirHours /\ ClockForward

LEMMA DiskIds ==
  /\ OnDisk = Ids(SamplesOf(points)) \cup BucketIds
  /\ SamplesOf(None) = {} /\ Ids({}) = {}
  /\ \A h \in Hours : Ids(buckets[h]) \subseteq BucketIds
  BY DEF OnDisk, BucketIds, SamplesOf, Ids

LEMMA AppendKeeps ==
  ASSUME Placed, AppendBucket
  PROVE  /\ BucketIds \subseteq BucketIds'
         /\ Ids(SamplesOf(pending)) \subseteq BucketIds' \cup excused'
<1> USE DEF Placed, Base
<1>1. BucketIds \subseteq BucketIds'
  <2>1. \A h \in Hours : buckets[h] \subseteq buckets'[h]
    BY AppendDoes
  <2>2. \A h \in Hours : Ids(buckets[h]) \subseteq Ids(buckets'[h])
    BY <2>1, IdsOfSubset
  <2> QED BY <2>2 DEF BucketIds
<1>2. pending.hour \in Hours /\ SamplesOf(pending) = pending.samples /\ pending # None
  BY AppendDoes DEF SamplesOf
<1>3. Ids(buckets'[pending.hour]) \subseteq BucketIds'
  BY <1>2 DEF BucketIds
<1>4. CASE Fault /\ UNCHANGED <<buckets, stored>> /\ excused' = excused \cup Ids(pending.samples)
  BY <1>1, <1>2, <1>4
<1>5. CASE /\ InsertBucket(pending)
           /\ excused' = IF setBacks = 0 THEN excused
                         ELSE excused \cup (Ids(pending.samples) \ Ids(buckets'[pending.hour]))
  <2>1. CASE setBacks = 0
    <3>1. buckets[pending.hour] = {}
      <4>1. SUFFICES ASSUME pending.hour \in BucketHours PROVE FALSE
        BY <1>2 DEF BucketHours
      <4>2. pending.hour < pending.hour
        BY <4>1, <2>1, <1>2 DEF ClockForward, HoursPast
      <4>3. pending.hour \in Nat
        BY <1>2, SampleTypes
      <4> QED BY <4>2, <4>3
    <3>2. buckets'[pending.hour] = pending.samples
      BY <3>1, <1>2, <1>5 DEF InsertBucket, TypeOK
    <3> QED BY <3>2, <1>1, <1>2, <1>3
  <2>2. CASE setBacks # 0
    BY <2>2, <1>1, <1>2, <1>3, <1>5
  <2> QED BY <2>1, <2>2
<1> QED
  BY <1>1, <1>4, <1>5 DEF AppendBucket

LEMMA SaveKeeps ==
  ASSUME Placed, SaveCurrentHour
  PROVE  /\ Ids(SamplesOf(current)) \subseteq Ids(SamplesOf(points')) \cup excused'
         /\ Ids(SamplesOf(points')) \subseteq Ids(SamplesOf(current))
         /\ setBacks = 0 /\ points' # None => buckets'[points'.hour] = {}
<1> USE DEF Placed, Base
<1>1. Ids(SamplesOf(current)) \subseteq Ids(SamplesOf(points')) \cup excused'
  BY SaveInTime DEF ClockForward, SaveCurrentHour
<1>2. Ids(SamplesOf(points')) \subseteq Ids(SamplesOf(current))
  BY SaveDoes, IdsOfSubset
<1>3. ASSUME setBacks = 0, points' # None PROVE buckets'[points'.hour] = {}
  <2>1. points'.hour = HourOf(now) /\ buckets' = buckets /\ HourOf(now) \in Hours /\ HourOf(now) \in Nat
    BY <1>3, SaveInTime, SaveDoes, HoursType DEF ClockForward, TypeOK
  <2>2. HourOf(now) \notin BucketHours
    BY <1>3, <2>1 DEF ClockForward, HoursPast
  <2> QED BY <2>1, <2>2 DEF BucketHours
<1> QED BY <1>1, <1>2, <1>3

LEMMA PruneKeeps ==
  ASSUME NEW t \in Times
  PROVE  /\ \A i \in BucketIds : i \in ExpiredIds(t) \/ \E h \in Hours : i \in Ids(Unexpired(t)[h])
         /\ \A h \in Hours : Unexpired(t)[h] = {} \/ Unexpired(t)[h] = buckets[h]
<1>1. ASSUME NEW h \in Hours PROVE (Unexpired(t)[h] = {} /\ h \in Expired(t)) \/ Unexpired(t)[h] = buckets[h]
  BY DEF Unexpired
<1>2. ASSUME NEW i \in BucketIds PROVE i \in ExpiredIds(t) \/ \E h \in Hours : i \in Ids(Unexpired(t)[h])
  <2>1. PICK h \in Hours : i \in Ids(buckets[h])
    BY DEF BucketIds
  <2>2. CASE h \in Expired(t)
    <3>1. i \in ExpiredIds(t)
      BY <2>1, <2>2 DEF ExpiredIds
    <3> QED BY <3>1
  <2>3. CASE Unexpired(t)[h] = buckets[h]
    BY <2>1, <2>3
  <2> QED BY <1>1, <2>2, <2>3
<1> QED BY <1>1, <1>2

LEMMA SurvivesStep ==
  Placed /\ PointsCovered /\ SavedSurvives /\ [Next]_vars => SavedSurvives' /\ PointsCovered'
<1> SUFFICES ASSUME Placed, PointsCovered, SavedSurvives, [Next]_vars PROVE SavedSurvives' /\ PointsCovered'
  OBVIOUS
<1> USE DEF Placed, Base
<1>a. /\ OnDisk = Ids(SamplesOf(points)) \cup BucketIds
      /\ OnDisk' = Ids(SamplesOf(points')) \cup BucketIds'
      /\ SamplesOf(None) = {} /\ Ids({}) = {}
      /\ setBacks' = 0 => setBacks = 0
      /\ points # None => SamplesOf(points) = points.samples
      /\ \A i \in stored : i \in Ids(SamplesOf(points)) \cup BucketIds \cup Ids(SamplesOf(pending)) \cup excused
  BY DiskIds, DoubledGrows DEF SamplesOf, SavedSurvives, OnDisk, BucketIds
<1>b. ASSUME UNCHANGED <<points, buckets>>, excused \subseteq excused'
      PROVE  setBacks' = 0 /\ points' # None =>
               buckets'[points'.hour] = {} \/ Ids(points'.samples) \subseteq Ids(buckets'[points'.hour]) \cup excused'
  BY <1>a, <1>b DEF PointsCovered
<1>1. ASSUME NEW t \in Times, Collect(t) PROVE SavedSurvives' /\ PointsCovered'
  <2>1. UNCHANGED <<points, buckets, stored, excused, running>> /\ running /\ pending = None
    BY <1>1 DEF Collect, disk, Shape
  <2>2. BucketIds' = BucketIds
    BY <2>1 DEF BucketIds
  <2>3. Ids(SamplesOf(current)) \subseteq Ids(SamplesOf(current')) \cup Ids(SamplesOf(pending'))
    <3>1. current' \in Hour /\ current' # None
      <4>1. current # None => current.samples \in SUBSET Sample
        BY DEF TypeOK, Hour
      <4> QED BY <4>1, <1>1, CollectDoes, NoneIsNoHour DEF Hour
    <3>2. SamplesOf(current') = current'.samples
      BY <3>1 DEF SamplesOf
    <3>3. SamplesOf(current) \subseteq SamplesOf(current') \/ SamplesOf(current) = SamplesOf(pending')
      BY <1>1, <3>2, CollectDoes DEF SamplesOf
    <3> QED BY <3>3, IdsOfSubset
  <2>4. SavedSurvives'
    BY <1>a, <2>1, <2>2 DEF SavedSurvives
  <2> QED
    BY <1>a, <1>b, <2>1, <2>2, <2>3, <2>4 DEF PointsCovered
<1>2. CASE AppendBucket
  <2>1. UNCHANGED <<points, current, running, setBacks, count, now>> /\ running /\ pending' = None
    BY <1>2 DEF AppendBucket, memory
  <2>2. /\ BucketIds \subseteq BucketIds' /\ Ids(SamplesOf(pending)) \subseteq BucketIds' \cup excused'
        /\ stored' \subseteq stored \cup Ids(SamplesOf(pending)) /\ excused \subseteq excused'
        /\ pending # None /\ pending.hour \in Hours
    BY <1>2, AppendKeeps, AppendDoes
  <2>3. SavedSurvives'
    BY <1>a, <2>1, <2>2 DEF SavedSurvives
  <2>4. Ids(SamplesOf(points')) \subseteq Ids(SamplesOf(current')) \cup BucketIds' \cup excused'
    BY <2>1, <2>2 DEF PointsCovered
  <2>5. ASSUME setBacks = 0, points # None
        PROVE  \/ buckets'[points.hour] = {}
               \/ Ids(points.samples) \subseteq Ids(buckets'[points.hour]) \cup excused'
    <3>1. points.hour \in Hours
      BY <2>5, SampleTypes
    <3>2. CASE buckets'[points.hour] = buckets[points.hour]
      BY <2>2, <2>5, <3>2 DEF PointsCovered
    <3>3. CASE /\ points.hour = pending.hour /\ buckets[points.hour] = {}
               /\ buckets'[points.hour] = pending.samples
      <4>1. ASSUME NEW i \in Ids(points.samples), i \notin excused PROVE i \in Ids(pending.samples)
        <5>1. PICK p \in points.samples : p.id = i
          BY <4>1 DEF Ids
        <5>2. p \in Everywhere /\ HourOf(p.ts) = points.hour
          BY <2>5, <5>1, Places DEF InTheirHours, Own
        <5>3. i \in Ids(SamplesOf(current)) \cup Ids(SamplesOf(pending)) \cup BucketIds
          BY <1>a, <2>1, <2>5, <4>1 DEF PointsCovered
        <5>4. ASSUME i \in Ids(SamplesOf(current)) PROVE FALSE
          <6>1. PICK q \in SamplesOf(current) : q.id = i
            BY <5>4 DEF Ids
          <6>2. current # None /\ q \in current.samples
            BY <6>1 DEF SamplesOf
          <6>3. q \in Everywhere /\ HourOf(q.ts) = HourOf(now)
            BY <6>2, Places DEF InTheirHours, Own, Shape
          <6>4. HourOf(now) = pending.hour
            BY <3>3, <5>1, <5>2, <6>1, <6>3 DEF Identified
          <6>5. pending.hour < HourOf(now) /\ pending.hour \in Nat
            BY <2>2, <2>5, SampleTypes DEF ClockForward, HoursPast
          <6> QED BY <6>4, <6>5
        <5>5. ASSUME i \in BucketIds PROVE FALSE
          <6> PICK h \in Hours : i \in Ids(buckets[h])
            BY <5>5 DEF BucketIds
          <6>1. PICK q \in buckets[h] : q.id = i
            BY DEF Ids
          <6>2. q \in Everywhere /\ HourOf(q.ts) = h
            BY <6>1, Places DEF InTheirHours
          <6>3. h = points.hour
            BY <5>1, <5>2, <6>1, <6>2 DEF Identified
          <6> QED BY <3>3, <6>1, <6>3
        <5> QED BY <2>2, <5>3, <5>4, <5>5 DEF SamplesOf
      <4> QED BY <2>2, <3>3, <4>1
    <3> QED BY <1>2, <3>1, <3>2, <3>3, AppendDoes
  <2> QED
    BY <2>1, <2>3, <2>4, <2>5 DEF PointsCovered
<1>3. ASSUME SaveCurrentHour, UNCHANGED <<current, pending, running, setBacks>>, running
      PROVE  SavedSurvives' /\ PointsCovered'
  <2>1. /\ Ids(SamplesOf(current)) \subseteq Ids(SamplesOf(points')) \cup excused'
        /\ Ids(SamplesOf(points')) \subseteq Ids(SamplesOf(current))
        /\ setBacks = 0 /\ points' # None => buckets'[points'.hour] = {}
    BY <1>3, SaveKeeps
  <2>2. buckets' = buckets /\ stored' = stored \cup Ids(SamplesOf(current)) /\ excused \subseteq excused'
    BY <1>3, SaveDoes
  <2>3. BucketIds' = BucketIds
    BY <2>2 DEF BucketIds
  <2>4. Ids(SamplesOf(points)) \subseteq
          Ids(SamplesOf(current)) \cup Ids(SamplesOf(pending)) \cup BucketIds \cup excused
    BY <1>3 DEF PointsCovered
  <2>5. SavedSurvives'
    BY <1>3, <1>a, <2>1, <2>2, <2>3, <2>4 DEF SavedSurvives
  <2> QED
    BY <1>3, <2>1, <2>5 DEF PointsCovered
<1>4. CASE Persist
  <2>1. UNCHANGED <<current, pending, running, setBacks>> /\ running
    BY <1>4, PersistDoes
  <2>2. CASE SaveCurrentHour
    BY <1>3, <2>1, <2>2
  <2>3. CASE UNCHANGED <<points, buckets, stored, excused>>
    BY <2>1, <2>3 DEF SavedSurvives, PointsCovered, OnDisk, BucketIds
  <2> QED BY <1>4, <2>2, <2>3, PersistDoes
<1>5. CASE Prune
  <2>1. UNCHANGED <<current, pending, running, setBacks, points, stored>> /\ running
    BY <1>5, PruneDoes
  <2>2. CASE PruneBuckets(now)
    <3>1. buckets' = Unexpired(now) /\ excused' = excused \cup ExpiredIds(now)
      BY <2>2 DEF PruneBuckets
    <3>2. BucketIds \subseteq BucketIds' \cup excused'
      <4>1. ASSUME NEW i \in BucketIds PROVE i \in BucketIds' \cup excused'
        BY <3>1, PruneKeeps DEF BucketIds, TypeOK
      <4> QED BY <4>1
    <3>3. setBacks = 0 /\ points # None =>
            buckets'[points.hour] = {} \/ Ids(points.samples) \subseteq Ids(buckets'[points.hour]) \cup excused'
      BY <3>1, PruneKeeps, SampleTypes DEF PointsCovered, TypeOK
    <3>4. SavedSurvives'
      BY <1>a, <2>1, <3>1, <3>2 DEF SavedSurvives
    <3> QED
      BY <2>1, <3>1, <3>2, <3>3, <3>4 DEF PointsCovered
  <2>3. CASE UNCHANGED <<buckets, excused>>
    BY <2>1, <2>3 DEF SavedSurvives, PointsCovered, OnDisk, BucketIds
  <2> QED BY <1>5, <2>2, <2>3, PruneDoes
<1>6. CASE HandlerSave
  BY <1>3, <1>6 DEF HandlerSave, memory
<1>7. CASE Stop
  <2>1. /\ UNCHANGED <<points, buckets, stored, setBacks>> /\ pending' = None /\ ~ running'
        /\ excused' = excused \cup (Ids(SamplesOf(pending)) \ OnDisk)
    BY <1>7 DEF Stop, disk
  <2>2. BucketIds' = BucketIds
    BY <2>1 DEF BucketIds
  <2>3. SavedSurvives'
    BY <1>a, <2>1, <2>2 DEF SavedSurvives
  <2> QED
    BY <1>b, <2>1, <2>3 DEF PointsCovered
<1>8. ASSUME NEW t \in Times, NEW failed, Start(t, failed) PROVE SavedSurvives' /\ PointsCovered'
  <2>1. PICK table, loaded :
           /\ Found(t, table, loaded)
           /\ table = IF "prune" \in failed THEN buckets ELSE Unexpired(t)
           /\ \/ /\ "points" \in failed
                 /\ current' = None /\ completed' = loaded /\ buckets' = table /\ points' = points
              \/ "points" \notin failed /\ LoadCurrentHour(t, table, loaded)
    BY <1>8, StartFinds
  <2>2. /\ pending = None /\ pending' = None /\ UNCHANGED stored /\ excused \subseteq excused'
        /\ "prune" \notin failed => ExpiredIds(t) \subseteq excused'
        /\ "points" \in failed => Ids(SamplesOf(points)) \subseteq excused'
        /\ "points" \notin failed /\ setBacks' # 0 => Ids(SamplesOf(points)) \subseteq OnDisk' \cup excused'
    BY <1>8 DEF Start, Shape
  <2>3. \A h \in Hours : table[h] = {} \/ buckets'[h] = table[h]
    BY <2>1 DEF LoadCurrentHour, Found
  <2>4. BucketIds \subseteq BucketIds' \cup excused'
    <3>1. ASSUME NEW i \in BucketIds PROVE (i \in ExpiredIds(t) /\ "prune" \notin failed) \/ \E h \in Hours : i \in Ids(table[h])
      <4>1. CASE "prune" \in failed
        BY <2>1, <3>1, <4>1 DEF BucketIds
      <4>2. CASE "prune" \notin failed
        BY <2>1, <3>1, <4>2, PruneKeeps
      <4> QED BY <4>1, <4>2
    <3>2. ASSUME NEW h \in Hours PROVE Ids(table[h]) \subseteq BucketIds'
      <4>1. Ids(table[h]) = {} \/ Ids(table[h]) = Ids(buckets'[h])
        BY <2>3, <1>a
      <4>2. Ids(buckets'[h]) \subseteq BucketIds'
        BY DEF BucketIds
      <4> QED BY <4>1, <4>2
    <3>3. ASSUME NEW i \in BucketIds PROVE i \in BucketIds' \cup excused'
      BY <2>2, <3>1, <3>2
    <3> QED BY <3>3
  <2>5. Ids(SamplesOf(points)) \subseteq OnDisk' \cup excused'
    <3>1. CASE points' = points
      BY <3>1, <1>a
    <3>2. CASE points = None
      BY <3>2, <1>a
    <3>3. CASE setBacks' = 0 /\ "points" \notin failed /\ points # None /\ points.hour # HourOf(t)
      <4>1. points.hour \in Hours /\ points.hour \in Nat /\ points.hour <= HourOf(t)
        <5>1. HourOf(now) <= HourOf(t) /\ HourOf(t) \in Nat /\ setBacks = 0 /\ HourOf(now) \in Nat
          BY <1>8, <3>3, ClockAdvances, SampleTypes
        <5>2. points.hour <= HourOf(now)
          BY <3>3, <5>1 DEF ClockForward, HoursPast
        <5> QED BY <3>3, <5>1, <5>2, SampleTypes
      <4>2. ~ (points.hour > HourOf(t))
        BY <4>1, HoursType
      <4>3. buckets' = IF table[points.hour] # {} THEN table ELSE [table EXCEPT ![points.hour] = points.samples]
        BY <2>1, <3>3, <4>2 DEF LoadCurrentHour
      <4>4. Ids(buckets'[points.hour]) \subseteq BucketIds'
        BY <4>1 DEF BucketIds
      <4>5. CASE table[points.hour] = {}
        BY <1>a, <2>1, <3>3, <4>1, <4>3, <4>4, <4>5 DEF Found
      <4>6. CASE table[points.hour] # {}
        <5>1. buckets'[points.hour] = buckets[points.hour] /\ buckets[points.hour] # {}
          BY <2>1, <4>1, <4>3, <4>6 DEF Found
        <5> QED BY <1>a, <2>2, <3>3, <4>4, <5>1 DEF PointsCovered
      <4> QED BY <4>5, <4>6
    <3>4. CASE setBacks' # 0 /\ "points" \notin failed
      BY <2>2, <3>4
    <3> QED BY <2>1, <3>1, <3>2, <3>3, <3>4 DEF LoadCurrentHour
  <2>6. SavedSurvives'
    BY <1>a, <2>2, <2>4, <2>5 DEF SavedSurvives
  <2>7. points' # None => /\ points' = points /\ buckets' = table
                          /\ current' = points \/ Ids(SamplesOf(points)) \subseteq excused'
    BY <2>1, <2>2 DEF LoadCurrentHour
  <2>8. points' # None /\ setBacks' = 0 =>
          buckets'[points'.hour] = {} \/ Ids(points'.samples) \subseteq Ids(buckets'[points'.hour]) \cup excused'
    <3>1. points # None => table[points.hour] = {} \/ table[points.hour] = buckets[points.hour]
      BY <2>1, SampleTypes DEF Found
    <3> QED BY <1>a, <2>2, <2>7, <3>1 DEF PointsCovered
  <2>9. Ids(SamplesOf(points')) \subseteq Ids(SamplesOf(current')) \cup excused'
    BY <1>a, <2>7
  <2> QED
    BY <2>6, <2>8, <2>9 DEF PointsCovered
<1>9. CASE UNCHANGED vars
  BY <1>9 DEF vars, memory, disk, ghosts, SavedSurvives, PointsCovered, OnDisk, BucketIds
<1> QED
  BY <1>1, <1>2, <1>4, <1>5, <1>6, <1>7, <1>8, <1>9 DEF Next

-----------------------------------------------------------------------------
(* The queue holds as many hours as there is room for.                      *)

OneOfEach(S) == \A b, c \in S : b.hour = c.hour => b = c

LEMMA QueueIsFinite ==
  ASSUME NEW S \in SUBSET Completed, OneOfEach(S)
  PROVE  IsFiniteSet(S)
<1> DEFINE f == [b \in S |-> b.hour]
<1>1. \A b \in S : b.hour \in Hours
  BY DEF Completed
<1>2. f \in Injection(S, Hours)
  BY <1>1 DEF OneOfEach, Injection, IsInjective
<1> QED
  BY <1>2, HoursFinite, FS_Injection

LEMMA BeforeOrders ==
  ASSUME NEW S \in SUBSET Completed, OneOfEach(S)
  PROVE  /\ \A b, c \in S : b # c => Before(b, c) \/ Before(c, b)
         /\ \A b \in S : ~ Before(b, b)
         /\ \A b, c, d \in S : Before(b, c) /\ Before(c, d) => Before(b, d)
<1>1. ASSUME NEW b \in S PROVE b.hour \in Nat /\ b.place \in Nat
  <2>1. b.hour \in Hours /\ b.place \in 0 .. MaxSamples
    BY DEF Completed
  <2>2. Hours \subseteq Nat
    BY HoursType
  <2>3. b.place \in Nat
    BY <2>1
  <2> QED BY <2>1, <2>2, <2>3
<1> QED
  BY <1>1 DEF Before, OneOfEach

LEMMA LaterIsFewer ==
  ASSUME NEW S \in SUBSET Completed, OneOfEach(S), NEW b \in S
  PROVE  /\ IsFiniteSet(Later(S, b)) /\ Cardinality(Later(S, b)) \in Nat
         /\ Cardinality(Later(S, b)) < Cardinality(S) /\ Cardinality(S) \in Nat
         /\ \A c \in S : Before(b, c) => Cardinality(Later(S, c)) < Cardinality(Later(S, b))
<1>1. IsFiniteSet(S) /\ Cardinality(S) \in Nat
  BY QueueIsFinite, FS_CardinalityType
<1>2. ASSUME NEW c \in S
      PROVE  IsFiniteSet(Later(S, c)) /\ Cardinality(Later(S, c)) \in Nat /\ Later(S, c) \subseteq S
  <2>1. Later(S, c) \in SUBSET S
    BY DEF Later
  <2> QED BY <1>1, <2>1, FS_Subset, FS_CardinalityType
<1>3. b \in S /\ b \notin Later(S, b)
  BY BeforeOrders DEF Later
<1>4. Cardinality(Later(S, b)) <= Cardinality(S) /\ Cardinality(Later(S, b)) # Cardinality(S)
  <2>1. Later(S, b) \in SUBSET S
    BY <1>2
  <2> QED BY <1>1, <1>3, <2>1, FS_Subset
<1>5. ASSUME NEW c \in S, Before(b, c)
      PROVE  Cardinality(Later(S, c)) < Cardinality(Later(S, b))
  <2>1. Later(S, c) \in SUBSET Later(S, b)
    BY <1>5, BeforeOrders DEF Later
  <2>2. c \in Later(S, b) /\ c \notin Later(S, c)
    BY <1>5, BeforeOrders DEF Later
  <2>3. Cardinality(Later(S, c)) <= Cardinality(Later(S, b)) /\ Cardinality(Later(S, c)) # Cardinality(Later(S, b))
    BY <1>2, <2>1, <2>2, FS_Subset
  <2> QED BY <1>2, <2>3
<1> QED
  BY <1>1, <1>2, <1>4, <1>5

(* The places from the end number the hours of a queue from 0 up.           *)
LEMMA TrimFills ==
  ASSUME NEW S \in SUBSET Completed, OneOfEach(S), Cardinality(S) >= MaxHours
  PROVE  Cardinality(Trim(S)) = MaxHours
<1> DEFINE n == Cardinality(S)
           rank == [b \in S |-> Cardinality(Later(S, b))]
           kept == [b \in Trim(S) |-> Cardinality(Later(S, b))]
<1>1. IsFiniteSet(S) /\ n \in Nat /\ MaxHours \in Nat /\ MaxHours <= n
  BY QueueIsFinite, FS_CardinalityType, AccountingConstants
<1>2. rank \in [S -> 0 .. (n - 1)]
  BY <1>1, LaterIsFewer
<1>3. \A b, c \in S : rank[b] = rank[c] => b = c
  <2>1. ASSUME NEW b \in S, NEW c \in S, b # c PROVE rank[b] # rank[c]
    <3>1. Before(b, c) \/ Before(c, b)
      BY <2>1, BeforeOrders
    <3> QED BY <3>1, LaterIsFewer
  <2> QED BY <2>1
<1>4. rank \in Injection(S, 0 .. (n - 1))
  BY <1>2, <1>3 DEF Injection, IsInjective
<1>a. ASSUME NEW k \in Nat PROVE IsFiniteSet(0 .. (k - 1)) /\ Cardinality(0 .. (k - 1)) = k
  <2>1. 0 \in Int /\ k - 1 \in Int
    OBVIOUS
  <2>2. /\ IsFiniteSet(0 .. (k - 1))
        /\ Cardinality(0 .. (k - 1)) = IF 0 > k - 1 THEN 0 ELSE (k - 1) - 0 + 1
    BY <2>1, FS_Interval, Zenon
  <2> QED BY <2>2
<1>5. IsFiniteSet(0 .. (n - 1)) /\ Cardinality(0 .. (n - 1)) = n
  BY <1>1, <1>a
<1>6. rank \in Surjection(S, 0 .. (n - 1))
  BY <1>4, <1>5, FS_Injection
<1>7. IsFiniteSet(0 .. (MaxHours - 1)) /\ Cardinality(0 .. (MaxHours - 1)) = MaxHours
  BY <1>1, <1>a
<1>8. /\ Trim(S) \subseteq S
      /\ \A b \in S : b \in Trim(S) <=> rank[b] < MaxHours
      /\ \A b \in Trim(S) : kept[b] = rank[b]
  BY DEF Trim, Later
<1> HIDE DEF n, rank
<1>9. kept \in [Trim(S) -> 0 .. (MaxHours - 1)]
  <2>1. \A b \in Trim(S) : kept[b] \in 0 .. (MaxHours - 1)
    BY <1>1, <1>2, <1>8
  <2>2. kept = [b \in Trim(S) |-> kept[b]]
    OBVIOUS
  <2> HIDE DEF kept
  <2> QED BY <2>1, <2>2
<1> HIDE DEF kept
<1>10. kept \in Injection(Trim(S), 0 .. (MaxHours - 1))
  BY <1>3, <1>8, <1>9 DEF Injection, IsInjective
<1>11. ASSUME NEW k \in 0 .. (MaxHours - 1) PROVE \E b \in Trim(S) : kept[b] = k
  <2>1. k \in 0 .. (n - 1)
    BY <1>1
  <2>2. PICK b \in S : rank[b] = k
    BY <1>6, <2>1 DEF Surjection
  <2> QED BY <1>1, <1>8, <2>2
<1>12. kept \in Surjection(Trim(S), 0 .. (MaxHours - 1))
  BY <1>9, <1>11 DEF Surjection
<1> QED
  BY <1>7, <1>10, <1>12, FS_Injection

LEMMA TrimDropsOldest ==
  ASSUME NEW S \in SUBSET Completed, OneOfEach(S), NEW b \in S, b \notin Trim(S)
  PROVE  /\ Cardinality(Trim(S)) = MaxHours
         /\ \A c \in Trim(S) : Before(b, c)
<1>1. /\ Cardinality(Later(S, b)) >= MaxHours /\ MaxHours \in Nat
      /\ \A c \in Trim(S) : c \in S /\ Cardinality(Later(S, c)) < MaxHours
  BY LaterIsFewer, AccountingConstants DEF Trim, Later
<1>2. Cardinality(S) >= MaxHours
  BY <1>1, LaterIsFewer
<1>3. ASSUME NEW c \in Trim(S) PROVE Before(b, c)
  <2>1. c # b /\ c \in S
    BY <1>1
  <2>2. ~ Before(c, b)
    BY <1>1, <2>1, LaterIsFewer
  <2> QED BY <2>1, <2>2, BeforeOrders
<1> QED
  BY <1>2, <1>3, TrimFills

LEMMA LoadedDropsOldest ==
  ASSUME NEW table \in [Hours -> SUBSET Sample], NEW h \in Hours, table[h] # {},
         ~ HasCompleted(Loaded(table), h)
  PROVE  /\ Cardinality(Loaded(table)) = MaxHours
         /\ \A b \in Loaded(table) : h < b.hour
<1> DEFINE Entry(g) == [hour |-> g, samples |-> table[g], place |-> 0]
           rows == {Queued(Row(g, table[g]), 0) : g \in {g \in Hours : table[g] # {}}}
<1>1. 0 \in 0 .. MaxSamples
  BY AccountingConstants
<1>2. ASSUME NEW g \in Hours PROVE Queued(Row(g, table[g]), 0) = Entry(g) /\ Entry(g) \in Completed
  BY <1>1, RowType DEF Completed
<1>3. rows = {Entry(g) : g \in {g \in Hours : table[g] # {}}}
  BY <1>2
<1>4. Loaded(table) = Trim(rows)
  BY DEF Loaded
<1> HIDE DEF rows
<1>5. rows \in SUBSET Completed /\ OneOfEach(rows) /\ \A b \in rows : b.place = 0
  BY <1>2, <1>3 DEF OneOfEach
<1>6. Entry(h) \in rows /\ Entry(h) \notin Trim(rows)
  <2>1. Entry(h) \in rows
    BY <1>3
  <2>2. Entry(h).hour = h
    OBVIOUS
  <2> QED BY <2>1, <2>2, <1>4 DEF HasCompleted
<1>7. Cardinality(Trim(rows)) = MaxHours /\ \A c \in Trim(rows) : Before(Entry(h), c)
  BY <1>5, <1>6, TrimDropsOldest
<1>8. \A c \in Trim(rows) : c.place = 0
  BY <1>5, TrimSubset
<1> QED
  BY <1>4, <1>7, <1>8 DEF Before

LEMMA LoadedHas ==
  ASSUME NEW table \in [Hours -> SUBSET Sample], NEW h \in Hours, table[h] # {},
         \A g \in Hours : table[g] # {} => g <= h + 1
  PROVE  HasCompleted(Loaded(table), h)
<1> SUFFICES ASSUME ~ HasCompleted(Loaded(table), h) PROVE FALSE
  OBVIOUS
<1>1. Cardinality(Loaded(table)) = MaxHours /\ \A b \in Loaded(table) : h < b.hour
  BY LoadedDropsOldest
<1>2. h \in Nat /\ Hours \subseteq Nat
  BY HoursType
<1>3. \A b \in Loaded(table) :
        b.hour = h + 1 /\ b = [hour |-> b.hour, samples |-> table[b.hour], place |-> 0]
  BY <1>1, <1>2, LoadedType
<1> DEFINE next == [hour |-> h + 1, samples |-> table[h + 1], place |-> 0]
<1>4. Loaded(table) \in SUBSET {next}
  BY <1>3
<1> HIDE DEF next
<1>5. Cardinality(Loaded(table)) <= 1
  <2>1. IsFiniteSet({next}) /\ Cardinality({next}) = 1
    BY FS_Singleton
  <2>2. Cardinality(Loaded(table)) <= Cardinality({next})
    BY <1>4, <2>1, FS_Subset
  <2> QED BY <2>1, <2>2
<1> QED
  BY <1>1, <1>5, AccountingConstants

-----------------------------------------------------------------------------
(* Without failures, and on a clock that has never been set back.          *)

(* A sample of the current hour that is not in the database is younger than  *)
(* the last save.                                                          *)
SavedInTime ==
  running =>
    /\ \A p \in SamplesOf(current) : p.id \in Ids(SamplesOf(points)) \/ lastPersist < p.ts
    /\ pc \in {"prune", "idle"} =>
         \A p \in SamplesOf(current) : p.id \in Ids(SamplesOf(points)) \/ now - p.ts < PersistInterval

(* The points are of an hour no more than one before the latest bucket, and  *)
(* are replaced before the next bucket is appended.                        *)
PointsKeepUp ==
  points # None =>
    /\ \A h \in BucketHours : h <= points.hour + 1
    /\ running /\ pc # "persist" => \A h \in BucketHours : h <= points.hour
    /\ pending # None => pending.hour <= points.hour + 1
    /\ running /\ pc \in {"prune", "idle"} => HourOf(now) <= points.hour + 1
    /\ lastPersist # 0 => HourOf(lastPersist) <= points.hour

(* Points that have neither a bucket nor expired are later than every bucket. *)
PointsAreNewest ==
  points # None =>
    /\ \/ buckets[points.hour] # {} \/ points.hour \in Expired(now)
       \/ \A h \in BucketHours : h < points.hour
    /\ running => \/ current # None /\ points.hour = current.hour
                  \/ pending # None /\ points.hour = pending.hour
                  \/ buckets[points.hour] # {} \/ points.hour \in Expired(now)

(* The queue is in the order of the hours, and agrees with the buckets.      *)
InOrder(S, t) == \A b, c \in S : Before(b, c) => c.hour \in Expired(t) \/ b.hour < c.hour

(* An hour of the table that is not in the queue left it for later ones.     *)
Covers(S, table, t) ==
  \A h \in Hours \ Expired(t) :
    table[h] # {} /\ ~ HasCompleted(S, h) =>
      /\ Cardinality(S) = MaxHours
      /\ \A b \in S : b.hour \in Expired(t) \/ h < b.hour

Copied(b) ==
  \/ b.hour \in Expired(now) \/ buckets[b.hour] = b.samples
  \/ pending # None /\ pending.hour = b.hour /\ pending.samples = b.samples

MemoryAgrees ==
  running =>
    /\ \A b \in completed : Copied(b)
    /\ OneOfEach(completed) /\ InOrder(completed, now) /\ Covers(completed, buckets, now)

Calm == Undisturbed => SavedInTime /\ PointsKeepUp /\ PointsAreNewest /\ MemoryAgrees

(* The hypotheses of the steps below.                                      *)
Quiet ==
  /\ Placed /\ Undisturbed /\ Undisturbed' /\ Instants /\ Filled /\ HoursPast
  /\ SavedInTime /\ PointsKeepUp /\ PointsAreNewest /\ MemoryAgrees

LEMMA StaysUndisturbed ==
  ASSUME TypeOK, [Next]_vars, Undisturbed'
  PROVE  Undisturbed
<1>1. faults \in Nat /\ (setBacks' = 0 => setBacks = 0)
  BY SampleTypes, DoubledGrows
<1>2. faults' = 0 => faults = 0
  <2>1. ASSUME NEW t \in Times, Collect(t) PROVE faults' = faults
    BY <2>1 DEF Collect
  <2>2. ASSUME NEW t \in Times, NEW failed, Start(t, failed) PROVE faults' = faults \/ faults' = faults + 1
    BY <2>2 DEF Start, Fault, NoFault
  <2> QED
    BY <1>1, <2>1, <2>2, PersistDoes, PruneDoes
       DEF Next, AppendBucket, HandlerSave, Stop, vars, Fault, NoFault
<1> QED
  BY <1>1, <1>2 DEF Undisturbed

LEMMA QuietFacts ==
  ASSUME Quiet
  PROVE  /\ now \in Nat /\ HourOf(now) \in Nat /\ HourOf(now) \in Hours /\ Hours \subseteq Nat
         /\ BucketHours \subseteq Hours /\ BucketHours \subseteq Nat
         /\ lastPersist \in Nat /\ lastPersist <= now /\ HourOf(lastPersist) \in Nat
         /\ HourOf(lastPersist) <= HourOf(now)
         /\ points # None => points.hour \in Hours /\ points.hour \in Nat
         /\ pending # None => pending.hour \in Hours /\ pending.hour \in Nat
         /\ current # None => current.hour = HourOf(now)
         /\ \A b \in completed : b.hour \in Hours /\ b.hour \in Nat
         /\ faults = 0 /\ setBacks = 0 /\ faults' = 0 /\ setBacks' = 0
         /\ TypeOK /\ Shape
<1>1. TypeOK /\ Shape /\ HoursPast
  BY DEF Quiet, Placed, Base
<1>2. BucketHours \subseteq Hours /\ Hours \subseteq Nat
  BY HoursType DEF BucketHours
<1>3. lastPersist \in Nat /\ lastPersist <= now /\ now \in Nat
  BY <1>1, SampleTypes DEF HoursPast
<1>4. HourOf(lastPersist) \in Nat /\ HourOf(lastPersist) <= HourOf(now)
  BY <1>3, HourOfTime, HourOfMonotone
<1> QED
  BY <1>1, <1>2, <1>3, <1>4, SampleTypes, HoursType DEF Quiet, Undisturbed, Shape, TypeOK

LEMMA QuietCollect ==
  ASSUME Quiet, [Next]_vars, NEW t \in Times, Collect(t)
  PROVE  /\ now < t /\ now' = t /\ t \in Nat /\ HourOf(now) <= HourOf(t) /\ HourOf(t) \in Nat
         /\ Expired(now) \subseteq Expired(t)
         /\ running /\ running' /\ pc = "idle" /\ pc' \in {"append", "persist"} /\ pending = None
         /\ UNCHANGED <<points, buckets, lastPersist, BucketHours>>
         /\ current' # None
<1>1. now < t /\ now' = t /\ HourOf(now) <= HourOf(t)
  BY QuietFacts, ClockAdvances
<1>2. t \in Nat /\ HourOf(t) \in Nat /\ now \in Times
  BY HoursType, QuietFacts DEF TypeOK
<1>3. Expired(now) \subseteq Expired(t)
  BY <1>1, <1>2, QuietFacts, ExpiredMonotone
<1>4. UNCHANGED <<points, buckets, lastPersist>> /\ running /\ running' /\ pc = "idle" /\ pending = None
  BY QuietFacts DEF Collect, disk, timers, Shape
<1>5. current' # None
  <2>1. current' \in Hour
    <3>1. current # None => current.samples \in SUBSET Sample
      BY QuietFacts DEF TypeOK, Hour
    <3> QED BY <3>1, CollectDoes, QuietFacts DEF Hour
  <2> QED BY <2>1, NoneIsNoHour
<1>6. pc' \in {"append", "persist"}
  BY DEF Collect
<1> QED
  BY <1>1, <1>2, <1>3, <1>4, <1>5, <1>6 DEF BucketHours

LEMMA QuietAppend ==
  ASSUME Quiet, AppendBucket
  PROVE  /\ pending # None /\ pending.hour \in Hours /\ pending.hour < HourOf(now)
         /\ buckets' = [buckets EXCEPT ![pending.hour] = pending.samples]
         /\ buckets'[pending.hour] = pending.samples /\ pending.samples # {}
         /\ pending.hour \notin BucketHours
         /\ \A h \in Hours : h # pending.hour => buckets'[h] = buckets[h]
         /\ BucketHours' = BucketHours \cup {pending.hour}
         /\ running /\ running' /\ pc = "append" /\ pc' = "persist" /\ pending' = None
         /\ UNCHANGED <<now, current, completed, points, lastPersist>>
<1>1. pending # None /\ pending.hour \in Hours /\ pending.hour \in Nat
  BY AppendDoes, QuietFacts
<1>2. pending.hour < HourOf(now) /\ \A h \in BucketHours : h < pending.hour
  BY <1>1 DEF Quiet, HoursPast
<1>3. pending.hour \notin BucketHours
  BY <1>1, <1>2
<1>4. InsertBucket(pending)
  BY QuietFacts DEF AppendBucket, Fault
<1>5. buckets' = [buckets EXCEPT ![pending.hour] = pending.samples]
  BY <1>1, <1>3, <1>4 DEF InsertBucket, BucketHours
<1>6. buckets \in [Hours -> SUBSET Sample] /\ pending.samples # {}
  BY <1>1, QuietFacts DEF TypeOK, Quiet, Filled
<1>7. buckets'[pending.hour] = pending.samples /\ \A h \in Hours : h # pending.hour => buckets'[h] = buckets[h]
  BY <1>1, <1>5, <1>6
<1>8. BucketHours' = BucketHours \cup {pending.hour}
  BY <1>1, <1>6, <1>7 DEF BucketHours
<1> QED
  BY <1>1, <1>2, <1>3, <1>5, <1>6, <1>7, <1>8 DEF AppendBucket, memory, timers

LEMMA QuietSave ==
  ASSUME Quiet, SaveCurrentHour
  PROVE  /\ Ids(SamplesOf(points')) = Ids(SamplesOf(current))
         /\ points' # None => points'.hour = HourOf(now) /\ current # None
         /\ UNCHANGED <<buckets, BucketHours>>
         /\ \A h \in BucketHours : h < HourOf(now)
  BY SaveInTime, SaveDoes DEF Quiet, Placed, Base, BucketHours, HoursPast

LEMMA QuietPersist ==
  ASSUME Quiet, Persist
  PROVE  /\ running /\ running' /\ pc = "persist" /\ pc' = "prune" /\ pending = None
         /\ UNCHANGED <<now, current, completed, pending>>
         /\ \/ SaveCurrentHour /\ lastPersist' = now
            \/ /\ lastPersist # 0 /\ now - lastPersist < PersistInterval
               /\ UNCHANGED <<points, buckets, lastPersist, BucketHours>>
<1>1. running /\ pc = "persist" /\ pc' = "prune" /\ UNCHANGED <<now, running, current, completed, pending>>
  BY PersistDoes
<1>2. pending = None
  BY <1>1, QuietFacts DEF Shape
<1>3. ~ Fault
  BY QuietFacts DEF Fault
<1>4. CASE Since(lastPersist) < PersistInterval
  <2>1. now - lastPersist < PersistInterval
    BY <1>4, QuietFacts, AccountingConstants DEF Since
  <2>2. lastPersist # 0
    BY <2>1, QuietFacts, AccountingConstants DEF TypeOK
  <2> QED
    BY <1>1, <1>2, <1>4, <2>1, <2>2 DEF Persist, disk, BucketHours
<1>5. CASE ~ (Since(lastPersist) < PersistInterval)
  BY <1>1, <1>2, <1>3, <1>5 DEF Persist
<1> QED BY <1>4, <1>5

LEMMA QuietPrune ==
  ASSUME Quiet, Prune
  PROVE  /\ running /\ running' /\ pc = "prune" /\ pc' = "idle" /\ pending = None
         /\ UNCHANGED <<now, current, completed, pending, points, lastPersist>>
         /\ \A h \in Hours : h \in Expired(now) \/ buckets'[h] = buckets[h]
         /\ BucketHours' \subseteq BucketHours
<1>1. /\ running /\ pc = "prune" /\ pc' = "idle"
      /\ UNCHANGED <<now, running, current, completed, pending, points, lastPersist>>
  BY PruneDoes
<1>2. pending = None
  BY <1>1, QuietFacts DEF Shape
<1>3. \A h \in Hours : (h \in Expired(now) /\ buckets'[h] = {}) \/ buckets'[h] = buckets[h]
  BY PruneDoes DEF PruneBuckets, Unexpired
<1> QED
  BY <1>1, <1>2, <1>3 DEF BucketHours

LEMMA QuietStart ==
  ASSUME Quiet, [Next]_vars, NEW t \in Times, NEW failed, Start(t, failed)
  PROVE  /\ now <= t /\ now' = t /\ HourOf(now) <= HourOf(t) /\ HourOf(t) \in Nat
         /\ Expired(now) \subseteq Expired(t)
         /\ running' /\ pc = "idle" /\ pc' = "idle" /\ pending = None
         /\ UNCHANGED <<pending, lastPersist>>
         /\ Unexpired(t) \in [Hours -> SUBSET Sample]
         /\ \A h \in Hours : \/ Unexpired(t)[h] = {} /\ h \in Expired(t)
                             \/ Unexpired(t)[h] = buckets[h] /\ h \notin Expired(t)
         /\ LoadCurrentHour(t, Unexpired(t), Loaded(Unexpired(t)))
         /\ points # None => ~ (points.hour > HourOf(t)) /\ (points.hour # HourOf(t) => points.hour < HourOf(t))
<1>1. now <= t /\ now' = t /\ HourOf(now) <= HourOf(t)
  BY QuietFacts, ClockAdvances
<1>2. t \in Nat /\ HourOf(t) \in Nat /\ now \in Times
  BY HoursType, QuietFacts DEF TypeOK
<1>3. Expired(now) \subseteq Expired(t)
  BY <1>1, <1>2, ExpiredMonotone
<1>4. failed = {}
  BY QuietFacts DEF Start, Fault, NoFault
<1>5. running' /\ UNCHANGED <<pc, pending, lastPersist>> /\ ~ running
  BY DEF Start, timers
<1>6. pc = "idle" /\ pending = None
  BY <1>5, QuietFacts DEF Shape
<1>7. LoadCurrentHour(t, Unexpired(t), Loaded(Unexpired(t)))
  BY <1>4 DEF Start
<1>8. points # None => points.hour \in Nat /\ points.hour <= HourOf(now)
  BY QuietFacts DEF Quiet, HoursPast
<1>9. /\ Unexpired(t) \in [Hours -> SUBSET Sample]
      /\ \A h \in Hours : \/ Unexpired(t)[h] = {} /\ h \in Expired(t)
                          \/ Unexpired(t)[h] = buckets[h] /\ h \notin Expired(t)
  BY QuietFacts DEF Unexpired, TypeOK
<1>10. points # None => ~ (points.hour > HourOf(t)) /\ (points.hour # HourOf(t) => points.hour < HourOf(t))
  BY <1>1, <1>2, <1>8, QuietFacts
<1> QED
  BY <1>1, <1>2, <1>3, <1>5, <1>6, <1>7, <1>9, <1>10

LEMMA SavedInTimeStep == Quiet /\ [Next]_vars => SavedInTime'
<1> SUFFICES ASSUME Quiet, [Next]_vars PROVE SavedInTime'
  OBVIOUS
<1>a. SamplesOf(None) = {} /\ \A p \in SamplesOf(current) : p \in Everywhere /\ p.ts \in Nat /\ p.id \in Ids(SamplesOf(current))
  BY Places, QuietFacts, SampleTypes, IdsOfSubset DEF SamplesOf
<1>1. ASSUME NEW t \in Times, Collect(t) PROVE SavedInTime'
  <2>1. /\ now < t /\ now' = t /\ t \in Nat /\ running /\ pc' \notin {"prune", "idle"} /\ current' # None
        /\ UNCHANGED <<points, lastPersist>>
    BY <1>1, QuietCollect
  <2>2. \A p \in SamplesOf(current') : p \in SamplesOf(current) \/ p = Taken(t) \/ p = Again(t)
    BY <1>1, <2>1, CollectDoes, QuietFacts DEF SamplesOf
  <2>3. Taken(t).ts = t /\ Again(t).ts = t /\ lastPersist < t
    BY <2>1, QuietFacts DEF Taken, Again
  <2> QED
    BY <2>1, <2>2, <2>3 DEF SavedInTime, Quiet
<1>2. CASE AppendBucket
  <2>1. UNCHANGED <<current, points, lastPersist>> /\ pc' = "persist" /\ running
    BY <1>2, QuietAppend
  <2> QED
    BY <2>1 DEF SavedInTime, Quiet
<1>3. ASSUME SaveCurrentHour, UNCHANGED current PROVE SavedInTime'
  <2>1. \A p \in SamplesOf(current') : p.id \in Ids(SamplesOf(points'))
    BY <1>a, <1>3, QuietSave
  <2> QED BY <2>1 DEF SavedInTime
<1>4. CASE Persist
  <2>1. UNCHANGED <<now, current>> /\ running
    BY <1>4, QuietPersist
  <2>2. CASE SaveCurrentHour
    BY <1>3, <2>1, <2>2
  <2>3. CASE now - lastPersist < PersistInterval /\ UNCHANGED <<points, lastPersist>>
    <3>1. ASSUME NEW p \in SamplesOf(current), p.id \notin Ids(SamplesOf(points))
          PROVE  lastPersist < p.ts /\ now - p.ts < PersistInterval
      <4>1. lastPersist < p.ts /\ p.ts \in Nat
        BY <1>a, <2>1, <3>1 DEF Quiet, SavedInTime
      <4> QED BY <2>3, <4>1, QuietFacts, AccountingConstants
    <3> QED BY <2>1, <2>3, <3>1 DEF SavedInTime
  <2> QED BY <1>4, <2>2, <2>3, QuietPersist
<1>5. CASE Prune
  <2>1. UNCHANGED <<now, current, points, lastPersist>> /\ running /\ pc = "prune"
    BY <1>5, QuietPrune
  <2> QED BY <2>1 DEF SavedInTime, Quiet
<1>6. CASE HandlerSave
  BY <1>3, <1>6 DEF HandlerSave, memory
<1>7. CASE Stop
  BY <1>7 DEF Stop, SavedInTime
<1>8. ASSUME NEW t \in Times, NEW failed, Start(t, failed) PROVE SavedInTime'
  <2>1. current' = None \/ current' = points'
    BY <1>8, QuietStart DEF LoadCurrentHour
  <2>2. \A p \in SamplesOf(current') : p.id \in Ids(SamplesOf(points'))
    BY <1>a, <2>1, IdsOfSubset
  <2> QED BY <2>2 DEF SavedInTime
<1>9. CASE UNCHANGED vars
  BY <1>9 DEF vars, memory, disk, timers, SavedInTime, Quiet
<1> QED
  BY <1>1, <1>2, <1>4, <1>5, <1>6, <1>7, <1>8, <1>9 DEF Next

LEMMA PointsKeepUpStep == Quiet /\ [Next]_vars => PointsKeepUp'
<1> SUFFICES ASSUME Quiet, [Next]_vars PROVE PointsKeepUp'
  OBVIOUS
<1>1. ASSUME NEW t \in Times, Collect(t) PROVE PointsKeepUp'
  <2>1. /\ running /\ pc = "idle" /\ pc' \in {"append", "persist"} /\ pending = None /\ running'
        /\ UNCHANGED <<points, lastPersist, BucketHours>>
    BY <1>1, QuietCollect
  <2>2. pending' = pending \/ (current # None /\ pending' = current)
    BY <1>1, CollectDoes, QuietFacts
  <2> QED
    BY <2>1, <2>2, QuietFacts DEF PointsKeepUp, Quiet
<1>2. CASE AppendBucket
  <2>1. /\ running /\ running' /\ pc' = "persist" /\ pending' = None /\ pending # None
        /\ UNCHANGED <<points, lastPersist>> /\ BucketHours' = BucketHours \cup {pending.hour}
    BY <1>2, QuietAppend
  <2> QED
    BY <2>1 DEF PointsKeepUp, Quiet
<1>3. ASSUME SaveCurrentHour, UNCHANGED <<now, pending>>, lastPersist' \in {lastPersist, now}
      PROVE  PointsKeepUp'
  <2>1. /\ points' # None => points'.hour = HourOf(now)
        /\ BucketHours' = BucketHours /\ \A h \in BucketHours : h < HourOf(now)
    BY <1>3, QuietSave
  <2>2. pending # None => pending.hour < HourOf(now)
    BY DEF Quiet, HoursPast
  <2> SUFFICES ASSUME points' # None PROVE PointsKeepUp'
    BY DEF PointsKeepUp
  <2>3. \A h \in BucketHours : h <= HourOf(now) + 1 /\ h <= HourOf(now)
    BY <2>1, QuietFacts
  <2>4. pending # None => pending.hour <= HourOf(now) + 1
    BY <2>2, QuietFacts
  <2>5. HourOf(lastPersist') <= HourOf(now) /\ HourOf(now) <= HourOf(now) + 1
    BY <1>3, QuietFacts
  <2> QED
    BY <1>3, <2>1, <2>3, <2>4, <2>5 DEF PointsKeepUp
<1>4. CASE Persist
  <2>1. UNCHANGED <<now, current, pending>> /\ running /\ pc = "persist" /\ pending = None /\ pc' = "prune"
    BY <1>4, QuietPersist
  <2>2. CASE SaveCurrentHour /\ lastPersist' = now
    BY <1>3, <2>1, <2>2
  <2>3. CASE /\ lastPersist # 0 /\ now - lastPersist < PersistInterval
             /\ UNCHANGED <<points, buckets, lastPersist, BucketHours>>
    <3> SUFFICES ASSUME points # None PROVE PointsKeepUp'
      BY <2>3 DEF PointsKeepUp
    <3>1. HourOf(now) <= HourOf(lastPersist) + 1
      BY <2>3, QuietFacts, HourOfNear
    <3>2. HourOf(lastPersist) <= points.hour
      BY <2>3 DEF PointsKeepUp, Quiet
    <3>3. HourOf(now) <= points.hour + 1
      BY <3>1, <3>2, QuietFacts
    <3>4. ASSUME NEW h \in BucketHours PROVE h <= points.hour
      <4>1. h < HourOf(now)
        BY DEF Quiet, HoursPast
      <4> QED BY <3>3, <4>1, QuietFacts
    <3>5. \A h \in BucketHours : h <= points.hour + 1
      BY DEF PointsKeepUp, Quiet
    <3> QED
      BY <2>1, <2>3, <3>2, <3>3, <3>4, <3>5 DEF PointsKeepUp
  <2> QED BY <1>4, <2>2, <2>3, QuietPersist
<1>5. CASE Prune
  <2>1. /\ UNCHANGED <<now, points, pending, lastPersist>> /\ running /\ running' /\ pc = "prune" /\ pc' = "idle"
        /\ BucketHours' \subseteq BucketHours
    BY <1>5, QuietPrune
  <2> QED
    BY <2>1 DEF PointsKeepUp, Quiet
<1>6. CASE HandlerSave
  BY <1>3, <1>6 DEF HandlerSave, timers
<1>7. CASE Stop
  <2>1. /\ UNCHANGED <<points, BucketHours>> /\ pending' = None /\ ~ running' /\ lastPersist' = 0
    BY <1>7 DEF Stop, disk, BucketHours
  <2> QED
    BY <2>1 DEF PointsKeepUp, Quiet
<1>8. ASSUME NEW t \in Times, NEW failed, Start(t, failed) PROVE PointsKeepUp'
  <2> SUFFICES ASSUME points' # None PROVE PointsKeepUp'
    BY DEF PointsKeepUp
  <2>1. /\ now' = t /\ HourOf(now) <= HourOf(t) /\ HourOf(t) \in Nat
        /\ pending' = None /\ lastPersist' = lastPersist
        /\ \A h \in Hours : Unexpired(t)[h] = {} \/ Unexpired(t)[h] = buckets[h]
    BY <1>8, QuietStart
  <2>2. points' = points /\ points.hour = HourOf(t) /\ buckets' = Unexpired(t)
    BY <1>8, QuietStart DEF LoadCurrentHour
  <2>3. BucketHours' \subseteq BucketHours
    BY <2>1, <2>2 DEF BucketHours
  <2>4. ASSUME NEW h \in BucketHours' PROVE h <= HourOf(t) /\ h <= HourOf(t) + 1
    <3>1. h < HourOf(now) /\ h \in Nat
      BY <2>3, QuietFacts DEF Quiet, HoursPast
    <3> QED BY <2>1, <3>1, QuietFacts
  <2>5. HourOf(lastPersist) <= HourOf(t) /\ HourOf(t) <= HourOf(t) + 1
    BY <2>1, QuietFacts
  <2> QED
    BY <2>1, <2>2, <2>4, <2>5 DEF PointsKeepUp
<1>9. CASE UNCHANGED vars
  BY <1>9 DEF vars, memory, disk, timers, PointsKeepUp, Quiet, BucketHours
<1> QED
  BY <1>1, <1>2, <1>4, <1>5, <1>6, <1>7, <1>8, <1>9 DEF Next

LEMMA PointsAreNewestStep == Quiet /\ [Next]_vars => PointsAreNewest'
<1> SUFFICES ASSUME Quiet, [Next]_vars PROVE PointsAreNewest'
  OBVIOUS
<1>1. ASSUME NEW t \in Times, Collect(t) PROVE PointsAreNewest'
  <2>1. /\ running /\ pending = None /\ now' = t /\ Expired(now) \subseteq Expired(t) /\ current' # None
        /\ UNCHANGED <<points, buckets, BucketHours>>
    BY <1>1, QuietCollect
  <2>2. current # None => \/ current'.hour = current.hour
                          \/ pending' = current
    BY <1>1, CollectDoes, QuietFacts
  <2> QED
    BY <2>1, <2>2 DEF PointsAreNewest, Quiet
<1>2. CASE AppendBucket
  <2>1. /\ pending # None /\ pending.hour < HourOf(now) /\ running
        /\ buckets'[pending.hour] # {} /\ pending.hour \in Hours
        /\ \A h \in Hours : h # pending.hour => buckets'[h] = buckets[h]
        /\ BucketHours' = BucketHours \cup {pending.hour}
        /\ UNCHANGED <<now, current, points>>
    BY <1>2, QuietAppend
  <2> SUFFICES ASSUME points # None PROVE PointsAreNewest'
    BY <2>1 DEF PointsAreNewest
  <2>2. CASE points.hour = pending.hour
    BY <2>1, <2>2 DEF PointsAreNewest
  <2>3. CASE points.hour # pending.hour
    <3>1. buckets'[points.hour] = buckets[points.hour]
      BY <2>1, <2>3, QuietFacts
    <3>2. CASE current # None /\ points.hour = current.hour
      <4>1. \A h \in BucketHours' : h < points.hour
        BY <2>1, <3>2, QuietFacts DEF Quiet, HoursPast
      <4> QED BY <2>1, <3>2, <4>1 DEF PointsAreNewest
    <3>3. CASE buckets[points.hour] # {} \/ points.hour \in Expired(now)
      BY <2>1, <3>1, <3>3 DEF PointsAreNewest
    <3> QED BY <2>1, <2>3, <3>2, <3>3 DEF PointsAreNewest, Quiet
  <2> QED BY <2>2, <2>3
<1>3. ASSUME SaveCurrentHour, UNCHANGED <<now, current>> PROVE PointsAreNewest'
  <2>1. /\ points' # None => points'.hour = HourOf(now) /\ current # None
        /\ BucketHours' = BucketHours /\ \A h \in BucketHours : h < HourOf(now)
    BY <1>3, QuietSave
  <2> QED
    BY <1>3, <2>1, QuietFacts DEF PointsAreNewest
<1>4. CASE Persist
  <2>1. UNCHANGED <<now, current, pending, running>>
    BY <1>4, PersistDoes
  <2>2. CASE SaveCurrentHour
    BY <1>3, <2>1, <2>2
  <2>3. CASE UNCHANGED <<points, buckets, BucketHours>>
    BY <2>1, <2>3 DEF PointsAreNewest, Quiet
  <2> QED BY <1>4, <2>2, <2>3, QuietPersist
<1>5. CASE Prune
  <2>1. /\ UNCHANGED <<now, current, pending, points>> /\ running
        /\ \A h \in Hours : h \in Expired(now) \/ buckets'[h] = buckets[h]
        /\ BucketHours' \subseteq BucketHours
    BY <1>5, QuietPrune
  <2> QED
    BY <2>1, QuietFacts DEF PointsAreNewest, Quiet
<1>6. CASE HandlerSave
  BY <1>3, <1>6 DEF HandlerSave, memory
<1>7. CASE Stop
  <2>1. UNCHANGED <<now, points, buckets, BucketHours>> /\ ~ running'
    BY <1>7 DEF Stop, disk, BucketHours
  <2> QED
    BY <2>1 DEF PointsAreNewest, Quiet
<1>8. ASSUME NEW t \in Times, NEW failed, Start(t, failed) PROVE PointsAreNewest'
  <2> SUFFICES ASSUME points' # None PROVE PointsAreNewest'
    BY DEF PointsAreNewest
  <2>1. /\ HourOf(now) <= HourOf(t) /\ HourOf(t) \in Nat
        /\ \A h \in Hours : Unexpired(t)[h] = {} \/ Unexpired(t)[h] = buckets[h]
    BY <1>8, QuietStart
  <2>2. points' = points /\ points.hour = HourOf(t) /\ buckets' = Unexpired(t) /\ current' = points /\ points # None
    BY <1>8, QuietStart DEF LoadCurrentHour
  <2>3. BucketHours' \subseteq BucketHours
    BY <2>1, <2>2 DEF BucketHours
  <2>4. ASSUME NEW h \in BucketHours' PROVE h < HourOf(t)
    <3>1. h < HourOf(now) /\ h \in Nat
      BY <2>3, QuietFacts DEF Quiet, HoursPast
    <3> QED BY <2>1, <3>1, QuietFacts
  <2> QED
    BY <2>2, <2>4 DEF PointsAreNewest
<1>9. CASE UNCHANGED vars
  BY <1>9 DEF vars, memory, disk, PointsAreNewest, Quiet, BucketHours
<1> QED
  BY <1>1, <1>2, <1>4, <1>5, <1>6, <1>7, <1>8, <1>9 DEF Next

(* An hour put in last takes its place at the end of the queue, and pushes   *)
(* the oldest out.                                                         *)
Newest(d, S, t, table, after) ==
  /\ S \in SUBSET Completed /\ d \in Completed
  /\ OneOfEach(S) /\ InOrder(S, t) /\ Covers(S, table, t)
  /\ \A b \in S : ~ Before(d, b) /\ b.hour # d.hour
  /\ \A b \in S : d.hour \in Expired(t) \/ b.hour < d.hour
  /\ \A h \in Hours : h = d.hour \/ after[h] = table[h]
  /\ \A h \in Hours : table[h] # {} => d.hour \in Expired(t) \/ h <= d.hour

LEMMA PushAgrees ==
  ASSUME NEW d, NEW S, NEW t, NEW table, NEW after, Newest(d, S, t, table, after)
  PROVE  /\ OneOfEach(Trim(S \cup {d})) /\ InOrder(Trim(S \cup {d}), t)
         /\ Covers(Trim(S \cup {d}), after, t)
         /\ d \in Trim(S \cup {d}) /\ Trim(S \cup {d}) \subseteq S \cup {d}
<1> DEFINE all == S \cup {d}
<1> USE DEF Newest
<1>1. all \in SUBSET Completed /\ OneOfEach(all)
  BY DEF OneOfEach
<1>2. \A b \in all : ~ Before(d, b)
  BY <1>1, BeforeOrders
<1>3. InOrder(all, t)
  BY <1>2 DEF InOrder
<1>4. d \in Trim(all) /\ Trim(all) \subseteq all
  BY <1>2, NewestStays, TrimSubset
<1>5. ASSUME NEW h \in Hours \ Expired(t), after[h] # {}, ~ HasCompleted(Trim(all), h)
      PROVE  /\ Cardinality(Trim(all)) = MaxHours
             /\ \A b \in Trim(all) : b.hour \in Expired(t) \/ h < b.hour
  <2>1. h # d.hour
    BY <1>4, <1>5 DEF HasCompleted
  <2>2. table[h] # {} /\ (d.hour \in Expired(t) \/ h <= d.hour)
    BY <1>5, <2>1
  <2>3. CASE HasCompleted(S, h)
    <3>1. PICK b \in S : b.hour = h
      BY <2>3 DEF HasCompleted
    <3>2. b \in all /\ b \notin Trim(all)
      BY <1>5, <3>1 DEF HasCompleted
    <3>3. Cardinality(Trim(all)) = MaxHours /\ \A c \in Trim(all) : Before(b, c)
      BY <1>1, <3>2, TrimDropsOldest
    <3> QED BY <1>3, <1>4, <3>1, <3>2, <3>3 DEF InOrder
  <2>4. CASE ~ HasCompleted(S, h)
    <3>1. Cardinality(S) = MaxHours /\ \A b \in S : b.hour \in Expired(t) \/ h < b.hour
      BY <2>2, <2>4, <1>5 DEF Covers
    <3>2. Cardinality(all) >= MaxHours
      <4>1. IsFiniteSet(all) /\ S \in SUBSET all /\ Cardinality(all) \in Nat
        BY <1>1, QueueIsFinite, FS_CardinalityType
      <4>2. Cardinality(S) <= Cardinality(all)
        BY <4>1, FS_Subset
      <4> QED BY <3>1, <4>1, <4>2, AccountingConstants
    <3>3. Cardinality(Trim(all)) = MaxHours
      BY <1>1, <3>2, TrimFills
    <3>4. d.hour \in Expired(t) \/ h < d.hour
      <4>1. h \in Nat /\ d.hour \in Nat
        BY HoursType DEF Completed
      <4> QED BY <2>1, <2>2, <4>1
    <3> QED BY <1>4, <3>1, <3>3, <3>4
  <2> QED BY <2>3, <2>4
<1>6. Covers(Trim(all), after, t)
  BY <1>5 DEF Covers
<1>7. OneOfEach(Trim(all)) /\ InOrder(Trim(all), t)
  BY <1>1, <1>3, <1>4 DEF OneOfEach, InOrder
<1> QED
  BY <1>4, <1>6, <1>7

LEMMA AgreesLater ==
  ASSUME NEW S, NEW table, NEW t, NEW u, Expired(t) \subseteq Expired(u),
         InOrder(S, t), Covers(S, table, t)
  PROVE  InOrder(S, u) /\ Covers(S, table, u)
  BY DEF InOrder, Covers

LEMMA CollectAgrees ==
  ASSUME Quiet, [Next]_vars, NEW t \in Times, Collect(t)
  PROVE  MemoryAgrees'
<1>1. /\ now' = t /\ HourOf(now) <= HourOf(t) /\ Expired(now) \subseteq Expired(t)
      /\ running /\ running' /\ pending = None /\ UNCHANGED <<buckets, BucketHours>>
  BY QuietCollect
<1>2. /\ \A b \in completed : b.hour \in Expired(t) \/ buckets[b.hour] = b.samples
      /\ OneOfEach(completed) /\ InOrder(completed, t) /\ Covers(completed, buckets, t)
  BY <1>1, AgreesLater DEF Quiet, MemoryAgrees, Copied
<1>3. CASE completed' = completed
  <2>1. \A b \in completed' : Copied(b)'
    BY <1>1, <1>2, <1>3 DEF Copied
  <2> QED BY <1>1, <1>2, <1>3, <2>1 DEF MemoryAgrees, Covers, HasCompleted, OneOfEach
<1>4. CASE current # None /\ Done \in Completed /\ completed' = Trim(completed \cup {Done}) /\ pending' = current
  <2>1. Done.hour = HourOf(now) /\ Done.samples = current.samples /\ Done.hour = current.hour
    BY <1>4, QuietFacts DEF Done
  <2>2. ASSUME NEW b \in completed PROVE ~ Before(Done, b) /\ b.hour < Done.hour /\ b.hour # Done.hour
    <3>1. b.hour < Done.hour /\ b.hour \in Nat /\ Done.hour \in Nat
      BY <2>1, QuietFacts DEF Quiet, HoursPast
    <3>2. b.place \in Nat /\ b.place <= count /\ count \in Nat /\ Done.place = count + 1
      BY QuietFacts, SampleTypes DEF Shape, Done
    <3> QED BY <3>1, <3>2 DEF Before
  <2>3. \A h \in Hours : buckets[h] # {} => h <= Done.hour
    <3>1. ASSUME NEW h \in Hours, buckets[h] # {} PROVE h <= HourOf(now)
      <4>1. h < HourOf(now) /\ h \in Nat
        BY <3>1, QuietFacts DEF Quiet, HoursPast, BucketHours
      <4> QED BY <4>1, QuietFacts
    <3> QED BY <2>1, <3>1
  <2>4. completed \in SUBSET Completed
    BY QuietFacts DEF TypeOK
  <2> DEFINE queue == Trim(completed \cup {Done})
  <2>5. /\ OneOfEach(queue) /\ InOrder(queue, t) /\ Covers(queue, buckets, t)
        /\ queue \subseteq completed \cup {Done}
    <3>1. Newest(Done, completed, t, buckets, buckets)
      BY <1>2, <1>4, <2>2, <2>3, <2>4 DEF Newest
    <3> QED BY <3>1, PushAgrees
  <2>6. ASSUME NEW b \in completed' PROVE Copied(b)'
    <3>1. CASE b \in completed
      BY <1>1, <1>2, <3>1 DEF Copied
    <3>2. CASE b = Done
      BY <1>4, <2>1, <3>2 DEF Copied
    <3> QED BY <1>4, <2>5, <3>1, <3>2
  <2>7. completed' = queue
    BY <1>4
  <2> HIDE DEF queue
  <2> QED BY <1>1, <2>5, <2>6, <2>7 DEF MemoryAgrees, Covers, HasCompleted, OneOfEach
<1> QED
  BY <1>3, <1>4, CollectDoes, QuietFacts

LEMMA AppendAgrees ==
  ASSUME Quiet, AppendBucket
  PROVE  MemoryAgrees'
<1>1. /\ pending # None /\ pending.hour \in Hours /\ buckets'[pending.hour] = pending.samples
      /\ \A h \in Hours : h # pending.hour => buckets'[h] = buckets[h]
      /\ running /\ running' /\ pending' = None
      /\ UNCHANGED <<now, completed>> /\ pending.hour \notin BucketHours
  BY QuietAppend
<1>2. HasCompleted(completed, pending.hour)
  BY <1>1, QuietFacts DEF Shape, HasCompleted
<1>3. /\ \A b \in completed : Copied(b) /\ b.hour \in Hours
      /\ OneOfEach(completed) /\ InOrder(completed, now) /\ Covers(completed, buckets, now)
  BY <1>1, QuietFacts DEF Quiet, MemoryAgrees
<1>4. ASSUME NEW b \in completed PROVE Copied(b)'
  <2>1. CASE b.hour = pending.hour
    <3>1. PICK c \in completed : c.hour = pending.hour /\ c.samples = pending.samples
      BY <1>1, QuietFacts DEF Shape
    <3>2. b = c
      BY <1>3, <2>1, <3>1 DEF OneOfEach
    <3> QED BY <1>1, <3>1, <3>2 DEF Copied
  <2>2. CASE b.hour # pending.hour
    BY <1>1, <1>3, <2>2 DEF Copied
  <2> QED BY <2>1, <2>2
<1>5. Covers(completed, buckets', now)
  BY <1>1, <1>2, <1>3 DEF Covers
<1> QED
  BY <1>1, <1>3, <1>4, <1>5 DEF MemoryAgrees, InOrder, Covers

LEMMA PruneAgrees ==
  ASSUME Quiet, Prune
  PROVE  MemoryAgrees'
<1>1. /\ running /\ running' /\ UNCHANGED <<now, completed, pending>>
      /\ \A h \in Hours : h \in Expired(now) \/ buckets'[h] = buckets[h]
  BY QuietPrune
<1>2. /\ \A b \in completed : Copied(b) /\ b.hour \in Hours
      /\ OneOfEach(completed) /\ InOrder(completed, now) /\ Covers(completed, buckets, now)
  BY <1>1, QuietFacts DEF Quiet, MemoryAgrees
<1>3. \A b \in completed : Copied(b)'
  BY <1>1, <1>2 DEF Copied
<1>4. Covers(completed, buckets', now)
  BY <1>1, <1>2 DEF Covers
<1> QED
  BY <1>1, <1>2, <1>3, <1>4 DEF MemoryAgrees, InOrder, Covers

(* The queue a start loads.                                                *)
LEMMA LoadedAgrees ==
  ASSUME NEW table \in [Hours -> SUBSET Sample], NEW t
  PROVE  /\ Loaded(table) \in SUBSET Completed
         /\ OneOfEach(Loaded(table)) /\ InOrder(Loaded(table), t) /\ Covers(Loaded(table), table, t)
<1>1. /\ Loaded(table) \in SUBSET Completed
      /\ \A b \in Loaded(table) : b.place = 0 /\ b = [hour |-> b.hour, samples |-> table[b.hour], place |-> 0]
  BY LoadedType
<1>2. OneOfEach(Loaded(table))
  BY <1>1 DEF OneOfEach
<1>3. InOrder(Loaded(table), t)
  BY <1>1 DEF InOrder, Before
<1>4. Covers(Loaded(table), table, t)
  BY LoadedDropsOldest DEF Covers
<1> QED BY <1>1, <1>2, <1>3, <1>4

LEMMA StartAgrees ==
  ASSUME Quiet, [Next]_vars, NEW t \in Times, NEW failed, Start(t, failed)
  PROVE  MemoryAgrees'
<1> DEFINE table == Unexpired(t)
           loaded == Loaded(table)
<1>1. /\ now' = t /\ Expired(now) \subseteq Expired(t) /\ running' /\ pending' = None
      /\ table \in [Hours -> SUBSET Sample]
      /\ \A h \in Hours : \/ table[h] = {} /\ h \in Expired(t)
                          \/ table[h] = buckets[h] /\ h \notin Expired(t)
      /\ LoadCurrentHour(t, table, loaded)
      /\ points # None => ~ (points.hour > HourOf(t))
  BY QuietStart
<1> HIDE DEF table
<1>2. /\ loaded \in SUBSET Completed
      /\ OneOfEach(loaded) /\ InOrder(loaded, t) /\ Covers(loaded, table, t)
      /\ \A b \in loaded : b.hour \in Hours /\ b.samples = table[b.hour] /\ b.samples # {} /\ b.place = 0
  BY <1>1, LoadedAgrees, LoadedType
<1> HIDE DEF loaded
<1>3. CASE completed' = loaded /\ buckets' = table
  <2>1. \A b \in completed' : Copied(b)'
    BY <1>2, <1>3 DEF Copied
  <2> QED BY <1>1, <1>2, <1>3, <2>1 DEF MemoryAgrees, Covers, HasCompleted, OneOfEach
<1>4. CASE /\ points # None
           /\ completed' = IF HasCompleted(loaded, points.hour) THEN loaded
                           ELSE Trim(loaded \cup {Queued(points, count)})
           /\ buckets' = IF table[points.hour] # {} THEN table
                         ELSE [table EXCEPT ![points.hour] = points.samples]
  <2>1. CASE HasCompleted(loaded, points.hour)
    <3>1. table[points.hour] # {}
      BY <1>2, <2>1 DEF HasCompleted
    <3> QED BY <1>3, <1>4, <2>1, <3>1
  <2>2. CASE ~ HasCompleted(loaded, points.hour)
    <3> DEFINE old == points.hour
               d == [hour |-> points.hour, samples |-> points.samples, place |-> count]
               queue == Trim(loaded \cup {d})
    <3>1. points \in Hour /\ count \in 0 .. MaxSamples /\ old \in Hours /\ old \in Nat /\ Hours \subseteq Nat
      BY <1>4, QuietFacts DEF TypeOK
    <3>2. d \in Completed /\ Queued(points, count) = d
      BY <3>1 DEF Hour, Completed, Queued
    <3>3. table[old] = {}
      <4>1. ASSUME NEW g \in Hours, table[g] # {} PROVE g <= old + 1
        <5>1. g \in BucketHours
          BY <1>1, <4>1 DEF BucketHours
        <5> QED BY <1>4, <5>1 DEF Quiet, PointsKeepUp
      <4> QED BY <1>1, <2>2, <3>1, <4>1, LoadedHas DEF loaded
    <3>4. completed' = queue /\ buckets' = [table EXCEPT ![old] = points.samples]
      BY <1>4, <2>2, <3>2, <3>3
    <3>5. count > 0
      <4>1. points.samples # {}
        BY <1>4 DEF Quiet, Filled
      <4>2. PICK s : s \in points.samples
        BY <4>1
      <4>3. s \in Everywhere
        BY <1>4, <4>2, Places
      <4>4. s.id \in 1 .. MaxSamples /\ s.id <= count
        BY <4>3, QuietFacts, SampleTypes DEF Quiet, Placed, Base, Identified, Sample
      <4> QED BY <3>1, <4>4
    <3>6. \A g \in Hours : table[g] # {} => old \in Expired(t) \/ g < old
      <4>1. ASSUME NEW g \in Hours, table[g] # {} PROVE old \in Expired(t) \/ g < old
        <5>1. g \in BucketHours
          BY <1>1, <4>1 DEF BucketHours
        <5>2. CASE buckets[old] # {}
          BY <1>1, <3>1, <3>3, <5>2
        <5>3. CASE old \in Expired(now)
          BY <1>1, <5>3
        <5>4. CASE \A h \in BucketHours : h < old
          BY <5>1, <5>4
        <5> QED BY <1>4, <5>2, <5>3, <5>4 DEF Quiet, PointsAreNewest
      <4> QED BY <4>1
    <3>7. \A b \in loaded : ~ Before(d, b) /\ b.hour # d.hour
      <4>1. \A b \in loaded : b.place = 0 /\ b.hour # old
        BY <1>2, <2>2 DEF HasCompleted
      <4>2. d.place = count /\ d.hour = old
        OBVIOUS
      <4> QED BY <3>1, <3>5, <4>1, <4>2 DEF Before
    <3>8. \A b \in loaded : d.hour \in Expired(t) \/ b.hour < d.hour
      BY <1>2, <3>6
    <3>9. \A h \in Hours : table[h] # {} => d.hour \in Expired(t) \/ h <= d.hour
      <4>1. \A h \in Hours : h < old => h <= old
        BY <3>1
      <4> QED BY <3>6, <4>1
    <3>10. \A h \in Hours : h = d.hour \/ buckets'[h] = table[h]
      BY <1>1, <3>1, <3>4
    <3>11. /\ OneOfEach(queue) /\ InOrder(queue, t) /\ Covers(queue, buckets', t)
           /\ queue \subseteq loaded \cup {d}
      <4>1. Newest(d, loaded, t, table, buckets')
        <5> HIDE DEF d
        <5> QED BY <1>2, <3>2, <3>7, <3>8, <3>9, <3>10 DEF Newest
      <4> QED BY <4>1, PushAgrees
    <3>12. ASSUME NEW b \in completed' PROVE Copied(b)'
      <4>1. buckets'[old] = points.samples
        BY <1>1, <3>1, <3>4
      <4>2. CASE b \in loaded
        BY <1>2, <3>7, <3>10, <4>2 DEF Copied
      <4>3. CASE b = d
        BY <4>1, <4>3 DEF Copied
      <4> QED BY <3>4, <3>11, <4>2, <4>3
    <3> HIDE DEF queue
    <3> QED BY <1>1, <3>4, <3>11, <3>12 DEF MemoryAgrees, Covers, HasCompleted, OneOfEach
  <2> QED BY <2>1, <2>2
<1> QED
  BY <1>1, <1>3, <1>4 DEF LoadCurrentHour

LEMMA MemoryAgreesStep == Quiet /\ [Next]_vars => MemoryAgrees'
<1> SUFFICES ASSUME Quiet, [Next]_vars PROVE MemoryAgrees'
  OBVIOUS
<1>1. ASSUME UNCHANGED <<now, running, completed, pending, buckets>> PROVE MemoryAgrees'
  BY <1>1 DEF Quiet, MemoryAgrees, Copied, InOrder, Covers
<1>2. CASE Persist
  BY <1>1, <1>2, QuietPersist, QuietSave
<1>3. CASE HandlerSave
  BY <1>1, <1>3 DEF HandlerSave, SaveCurrentHour, memory
<1>4. CASE Stop
  BY <1>4 DEF Stop, MemoryAgrees
<1>5. CASE UNCHANGED vars
  BY <1>1, <1>5 DEF vars, memory, disk
<1> QED
  BY <1>2, <1>3, <1>4, <1>5, CollectAgrees, AppendAgrees, PruneAgrees, StartAgrees DEF Next

-----------------------------------------------------------------------------
(* The inductive invariant.                                                *)

AccountingInv == Placed /\ NoDoubleCount /\ PointsCovered /\ SavedSurvives /\ Calm

LEMMA AccountingInit == Init => AccountingInv
<1> SUFFICES ASSUME Init PROVE AccountingInv
  OBVIOUS
<1> USE DEF Init
<1>1. /\ SamplesOf(None) = {} /\ SamplesIn({}) = {} /\ Ids({}) = {}
      /\ \A h \in Hours : buckets[h] = {}
  BY DEF SamplesOf, SamplesIn, Ids
<1>2. TypeOK
  <2>1. 0 \in 0 .. MaxSamples /\ 0 \in 0 .. MaxFaults /\ 0 \in 0 .. MaxSetBacks
    BY AccountingConstants
  <2> QED BY <2>1 DEF TypeOK
<1>3. Everywhere = {}
  BY <1>1 DEF Everywhere
<1>4. Base /\ InTheirHours
  BY <1>1, <1>2, <1>3 DEF Base, Shape, Identified, InTheirHours
<1>5. BucketHours = {} /\ BucketIds = {}
  BY <1>1 DEF BucketHours, BucketIds
<1>6. ClockForward
  <2>1. lastPersist <= now
    BY <1>2, SampleTypes
  <2> QED BY <1>3, <1>5, <2>1 DEF ClockForward, Instants, Filled, HoursPast
<1>7. NoDoubleCount /\ PointsCovered /\ SavedSurvives
  BY <1>1 DEF NoDoubleCount, PointsCovered, SavedSurvives
<1>8. SavedInTime /\ PointsKeepUp /\ PointsAreNewest
  BY <1>1 DEF SavedInTime, PointsKeepUp, PointsAreNewest
<1>9. MemoryAgrees
  BY <1>1 DEF MemoryAgrees, OneOfEach, InOrder, Covers
<1> QED
  BY <1>4, <1>6, <1>7, <1>8, <1>9 DEF AccountingInv, Placed, Calm

LEMMA CalmStep ==
  ASSUME Placed, Calm, [Next]_vars
  PROVE  Calm'
<1> SUFFICES ASSUME Undisturbed'
             PROVE  SavedInTime' /\ PointsKeepUp' /\ PointsAreNewest' /\ MemoryAgrees'
  BY DEF Calm
<1>1. Undisturbed
  BY StaysUndisturbed DEF Placed, Base
<1>2. Quiet
  BY <1>1 DEF Quiet, Calm, Placed, ClockForward, Undisturbed
<1> QED
  BY <1>2, SavedInTimeStep, PointsKeepUpStep, PointsAreNewestStep, MemoryAgreesStep

LEMMA AccountingStep == AccountingInv /\ [Next]_vars => AccountingInv'
<1> SUFFICES ASSUME AccountingInv, [Next]_vars PROVE AccountingInv'
  OBVIOUS
<1>1. Placed'
  BY TypeStep, ShapeStep, IdentifiedStep, InTheirHoursStep, ClockForwardStep
     DEF AccountingInv, Placed, Base
<1>2. NoDoubleCount'
  BY OnceStep DEF AccountingInv, Placed
<1>3. PointsCovered' /\ SavedSurvives'
  BY SurvivesStep DEF AccountingInv
<1>4. Calm'
  BY CalmStep DEF AccountingInv
<1> QED
  BY <1>1, <1>2, <1>3, <1>4 DEF AccountingInv

LEMMA AccountingInvariant == Spec => []AccountingInv
  BY AccountingInit, AccountingStep, PTL DEF Spec

(* Less than a persist interval of samples is at risk.                      *)
LEMMA CrashLosesLittle == AccountingInv => UnsavedIsRecent
<1> SUFFICES ASSUME AccountingInv, running, pc = "idle", Undisturbed,
                    NEW s \in SamplesIn(completed) \cup SamplesOf(current)
             PROVE  \/ s.id \in OnDisk
                    \/ s \in SamplesOf(current) /\ now - s.ts < PersistInterval
                    \/ HourOf(s.ts) \in Expired(now)
  BY DEF UnsavedIsRecent
<1>1. TypeOK /\ Shape /\ SavedInTime /\ MemoryAgrees /\ InTheirHours
  BY DEF AccountingInv, Calm, Placed, Base
<1>2. CASE s \in SamplesOf(current)
  BY <1>1, <1>2 DEF SavedInTime, OnDisk
<1>3. CASE s \in SamplesIn(completed)
  <2>1. PICK b \in completed : s \in b.samples
    BY <1>3 DEF SamplesIn
  <2>2. b.hour \in Hours /\ HourOf(s.ts) = b.hour
    BY <1>1, <2>1, SampleTypes DEF InTheirHours, Own
  <2>3. pending = None
    BY <1>1 DEF Shape
  <2>4. b.hour \in Expired(now) \/ buckets[b.hour] = b.samples
    BY <1>1, <2>1, <2>3 DEF MemoryAgrees, Copied
  <2>5. buckets[b.hour] = b.samples => s.id \in Ids(buckets[b.hour])
    BY <2>1, IdsOfSubset
  <2> QED BY <2>2, <2>4, <2>5 DEF OnDisk
<1> QED BY <1>2, <1>3

LEMMA MemoryIsTheTable == AccountingInv => RestartAgrees
<1> SUFFICES ASSUME AccountingInv, running, pc = "idle", Undisturbed
             PROVE  /\ \A b \in completed : b.hour \in Expired(now) \/ buckets[b.hour] = b.samples
                    /\ Covers(completed, buckets, now)
  BY DEF RestartAgrees, Covers, HasCompleted
<1>1. pending = None /\ MemoryAgrees
  BY DEF AccountingInv, Calm, Placed, Base, Shape
<1> QED
  BY <1>1 DEF MemoryAgrees, Copied

-----------------------------------------------------------------------------
(* Every variable of a series stays in its type, whatever fails and          *)
(* whatever the clock does: the collector and the API task, a crash and a   *)
(* start never leave an hour that is none of the clock's, nor a sample that *)
(* was never taken.                                                        *)
THEOREM AccountingTypes == Spec => []TypeOK
<1>1. AccountingInv => TypeOK
  BY DEF AccountingInv, Placed, Base
<1> QED
  BY <1>1, AccountingInvariant, PTL

(* No traffic is counted twice: in all the completed hours of the memory and *)
(* the hour in progress a counter delta occurs once, through completions,   *)
(* restarts and the promotion of a stale hour by a start, but for the first *)
(* sample of a fresh series and points restored under a clock that was set  *)
(* back.                                                                   *)
THEOREM TrafficCountedOnce == Spec => []NoDoubleCount
<1>1. AccountingInv => NoDoubleCount
  BY DEF AccountingInv
<1> QED
  BY <1>1, AccountingInvariant, PTL

(* Traffic that was stored once stays in the database until it expires or    *)
(* one of the named losses befalls it, whatever the order of saves, appends *)
(* and prunes, and wherever the process ends.                              *)
THEOREM StoredTrafficSurvives == Spec => []SavedSurvives
<1>1. AccountingInv => SavedSurvives
  BY DEF AccountingInv
<1> QED
  BY <1>1, AccountingInvariant, PTL

(* Without a failing operation and on a clock that goes forward, a crash     *)
(* costs less than PERIODIC_PERSIST_INTERVAL_MS of traffic.                 *)
THEOREM UnsavedTrafficIsRecent == Spec => []UnsavedIsRecent
  BY CrashLosesLittle, AccountingInvariant, PTL

(* Without a failing operation and on a clock that goes forward, memory and  *)
(* database agree on the past, hour by hour and sample by sample: a restart *)
(* changes nothing of what the service reports.                            *)
THEOREM RestartKeepsThePast == Spec => []RestartAgrees
  BY MemoryIsTheTable, AccountingInvariant, PTL
=============================================================================
