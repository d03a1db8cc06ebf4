----------------------------- MODULE Accounting -----------------------------
(***************************************************************************)
(* The hourly accounting of one traffic series (an interface or a device): *)
(* the samples of the current hour, the completed hours, and their copies  *)
(* in the database, under crashes, restarts, failing saves and a clock     *)
(* that is set (monitor.rs HistogramHistory, command.rs run_service,       *)
(* persistence.rs).                                                        *)
(*                                                                         *)
(* A sample is the counter delta of one collector tick. Samples are told   *)
(* apart by an id, and a sum of bytes is modelled by the samples it adds   *)
(* up: a byte counted twice is an id that occurs twice, a byte lost is an  *)
(* id that occurs nowhere.  An hour is the set of its samples: what order  *)
(* they have is that of their ids and times.  Traffic storage is enabled,  *)
(* and the interface of the series is in the topology of every start.      *)
(***************************************************************************)
EXTENDS Naturals, FiniteSets

CONSTANTS
  HourLength,       \* clock units in an hour
  PersistInterval,  \* PERIODIC_PERSIST_INTERVAL_MS
  PruneInterval,    \* PRUNE_INTERVAL_MS
  Retention,        \* the retention of buckets in clock units, 0 for ever
  MaxHours,         \* HISTOGRAM_MAX_HOURS
  Times,            \* bound on the clock: the instants ticks and starts happen at
  MaxSamples,       \* bound on the number of samples
  MaxFaults,        \* bound on the number of steps that database operations fail in
  MaxSetBacks,      \* bound on the number of times the clock is set back
  None              \* no hour in progress, no points, nothing to append

ASSUME AccountingConstants ==
  /\ HourLength \in Nat \ {0} /\ PersistInterval \in Nat \ {0} /\ PruneInterval \in Nat \ {0}
  \* A minute, an hour, and 366 * 24 hours.
  /\ PersistInterval <= HourLength
  /\ Retention \in Nat /\ MaxHours \in Nat /\ MaxHours >= 2
  /\ Times \subseteq Nat /\ Times # {} /\ IsFiniteSet(Times)
  \* The clock is long past its epoch.
  /\ \A t \in Times : t >= PersistInterval /\ t >= PruneInterval
  /\ MaxSamples \in Nat /\ MaxFaults \in Nat /\ MaxSetBacks \in Nat
  /\ None \notin [hour : Nat, samples : SUBSET [id : Nat, ts : Nat, push : {1, 2}]]

HourOf(t)    == t \div HourLength
HourStart(h) == h * HourLength
Hours        == {HourOf(t) : t \in Times}

(* `push` tells the second push of one sample from the first.               *)
Sample    == [id : 1 .. MaxSamples, ts : Times, push : {1, 2}]
Hour      == [hour : Hours, samples : SUBSET Sample]

(* A completed hour and its place in the queue: the number of samples taken *)
(* when it was completed, 0 for those a start has loaded.                   *)
Completed == [hour : Hours, samples : SUBSET Sample, place : 0 .. MaxSamples]

VARIABLES
  now,          \* the wall clock at the last tick or start
  count,        \* the number of samples taken
  running, pc,  \* is the service up, and where is the collector in its tick
  current,      \* current_hour_*: the hour being filled
  completed,    \* completed_*: the hours filled
  pending,      \* the completed bucket the collector is about to append
  lastPersist,  \* last_periodic_persist_ms
  lastPrune,    \* last_prune_ms
  points,       \* table current_hour_points: always of one hour
  buckets,      \* table traffic_buckets, by hour; no samples where there is no row
  \* What an observer notes: in how many steps operations have failed and how
  \* often the clock was set back; the samples that have been stored, and those
  \* for whose double count, and for whose loss, a named event accounts.
  faults, setBacks, doubled, stored, excused

memory == <<current, completed>>
disk   == <<points, buckets>>
timers == <<lastPersist, lastPrune>>
ghosts == <<doubled, stored, excused>>
vars   == <<now, count, running, pc, memory, pending, timers, disk, faults, setBacks, ghosts>>

Ids(samples) == {s.id : s \in samples}

SamplesOf(hour) == IF hour = None THEN {} ELSE hour.samples

SamplesIn(hours) == UNION {b.samples : b \in hours}

Row(h, samples) == [hour |-> h, samples |-> samples]

TypeOK ==
  /\ now \in Times /\ count \in 0 .. MaxSamples
  /\ running \in BOOLEAN /\ pc \in {"idle", "append", "persist", "prune"}
  /\ current \in Hour \cup {None} /\ completed \subseteq Completed
  /\ pending \in Hour \cup {None}
  /\ lastPersist \in Times \cup {0} /\ lastPrune \in Times \cup {0}
  /\ points \in Hour \cup {None} /\ buckets \in [Hours -> SUBSET Sample]
  /\ faults \in 0 .. MaxFaults /\ setBacks \in 0 .. MaxSetBacks
  /\ doubled \cup stored \cup excused \subseteq 1 .. count

Init ==
  /\ now \in Times /\ count = 0 /\ running = TRUE /\ pc = "idle"
  /\ current = None /\ completed = {} /\ pending = None
  /\ lastPersist = 0 /\ lastPrune = 0
  /\ points = None /\ buckets = [h \in Hours |-> {}]
  /\ faults = 0 /\ setBacks = 0
  /\ doubled = {} /\ stored = {} /\ excused = {}

Fault   == faults < MaxFaults /\ faults' = faults + 1
NoFault == UNCHANGED faults

OnDisk == Ids(SamplesOf(points)) \cup UNION {Ids(buckets[h]) : h \in Hours}

-----------------------------------------------------------------------------
(* A collector tick.                                                       *)

Before(b, c) == b.place < c.place \/ (b.place = c.place /\ b.hour < c.hour)

(* Mutation of Trim: pop_back.                                             *)
TrimNewest(hours) == {b \in hours : Cardinality({c \in hours : Before(c, b)}) < MaxHours}

(* trim_histogram_completed: as many of the hours put in last as there is   *)
(* room for.                                                               *)
Trim(hours) == {b \in hours : Cardinality({c \in hours : Before(b, c)}) < MaxHours}

Queued(row, place) == [hour |-> row.hour, samples |-> row.samples, place |-> place]

(* ingest_iface, ingest_device: the sample goes to the current hour, which   *)
(* it completes if it belongs to another one, earlier or later.  The first  *)
(* sample of a fresh series is pushed by or_insert_with and pushed again.   *)
Ingest(n, t) ==
  LET Sampled(push) == [id |-> n, ts |-> t, push |-> push]
  IN  IF current = None
        THEN /\ current' = Row(HourOf(t), {Sampled(1), Sampled(2)})
             /\ doubled' = doubled \cup {n}
             /\ UNCHANGED <<completed, pending>>
      ELSE IF current.hour = HourOf(t)
        THEN /\ current' = [current EXCEPT !.samples = @ \cup {Sampled(1)}]
             /\ UNCHANGED <<completed, pending, doubled>>
        ELSE /\ current' = Row(HourOf(t), {Sampled(1)})
             /\ completed' = Trim(completed \cup {Queued(current, n)})
             /\ pending' = current
             /\ UNCHANGED doubled

(* The clock has advanced by a second or more since the last tick, or has   *)
(* been set back.                                                          *)
Collect(t) ==
  /\ running /\ pc = "idle" /\ count < MaxSamples
  /\ IF t > now THEN UNCHANGED setBacks ELSE setBacks < MaxSetBacks /\ setBacks' = setBacks + 1
  /\ now' = t /\ count' = count + 1
  /\ Ingest(count + 1, t)
  /\ pc' = IF pending' = None THEN "persist" ELSE "append"
  /\ UNCHANGED <<running, timers, disk, faults, stored, excused>>

(* Mutation of InsertBucket: INSERT OR REPLACE.                             *)
InsertOrReplace(b) == buckets' = [buckets EXCEPT ![b.hour] = b.samples]

(* INSERT OR IGNORE: a bucket of that hour that is there already stays.    *)
InsertBucket(b) ==
  buckets' = IF buckets[b.hour] = {} THEN [buckets EXCEPT ![b.hour] = b.samples] ELSE buckets

(* A failed append is logged and not tried again.  An hour that occurs      *)
(* twice is ignored the second time.                                       *)
AppendBucket ==
  /\ running /\ pc = "append"
  /\ pending' = None /\ pc' = "persist"
  /\ \/ /\ NoFault /\ InsertBucket(pending)
        /\ stored' = stored \cup Ids(pending.samples)
        /\ excused' = IF setBacks = 0 THEN excused
                      ELSE excused \cup (Ids(pending.samples) \ Ids(buckets'[pending.hour]))
     \/ /\ Fault /\ UNCHANGED <<buckets, stored>>
        /\ excused' = excused \cup Ids(pending.samples)
  /\ UNCHANGED <<now, count, running, memory, timers, points, setBacks, doubled>>

(* Mutation of Saved: the hour is stored by its end.                        *)
SavedUnderItsEnd(hour) == IF hour = None THEN None ELSE [hour EXCEPT !.hour = @ + 1]

Overwrites(p, q) ==
  p.ts = q.ts /\ (p.id > q.id \/ (p.id = q.id /\ p.push > q.push))

(* save_current_hour_histogram: one transaction replaces the table.  Points *)
(* of equal time replace one another, the later the earlier.               *)
Saved(hour) ==
  IF hour = None THEN None
  ELSE Row(hour.hour, {q \in hour.samples : \A p \in hour.samples : ~ Overwrites(p, q)})

(* Two samples have the same time if the clock was set back.               *)
SaveCurrentHour ==
  /\ points' = Saved(current)
  /\ stored' = stored \cup Ids(SamplesOf(current))
  /\ excused' = IF setBacks = 0 THEN excused
                ELSE excused \cup (Ids(SamplesOf(current)) \ Ids(SamplesOf(points')))
  /\ UNCHANGED buckets

(* Mutation of Since: saves once an hour.                                   *)
SinceEarlierHour(t) == IF HourOf(now) > HourOf(t) THEN now - t ELSE 0

Since(t) == IF now > t THEN now - t ELSE 0

(* The periodic save.  It is repeated at the next tick unless the devices   *)
(* and the current hour were both saved.                                   *)
Persist ==
  /\ running /\ pc = "persist" /\ pc' = "prune"
  /\ IF Since(lastPersist) < PersistInterval
       THEN NoFault /\ UNCHANGED <<lastPersist, disk, stored, excused>>
       ELSE \/ NoFault /\ SaveCurrentHour /\ lastPersist' = now
            \/ Fault /\ SaveCurrentHour /\ UNCHANGED lastPersist
            \/ Fault /\ UNCHANGED <<lastPersist, disk, stored, excused>>
  /\ UNCHANGED <<now, count, running, memory, pending, lastPrune, setBacks, doubled>>

Expired(t) == {h \in Hours : Retention > 0 /\ HourStart(h) + Retention < t}

Unexpired(t) == [h \in Hours |-> IF h \in Expired(t) THEN {} ELSE buckets[h]]

ExpiredIds(t) == UNION {Ids(buckets[h]) : h \in Expired(t)}

PruneBuckets(t) ==
  /\ buckets' = Unexpired(t)
  /\ excused' = excused \cup ExpiredIds(t)
  /\ UNCHANGED points

Prune ==
  /\ running /\ pc = "prune" /\ pc' = "idle"
  /\ IF Since(lastPrune) < PruneInterval
       THEN NoFault /\ UNCHANGED <<lastPrune, disk, excused>>
       ELSE \/ NoFault /\ PruneBuckets(now) /\ lastPrune' = now
            \/ Fault /\ UNCHANGED <<lastPrune, disk, excused>>
  /\ UNCHANGED <<now, count, running, memory, pending, lastPersist, setBacks, doubled, stored>>

-----------------------------------------------------------------------------
(* The API task saves the current hour too, whatever the collector is doing: *)
(* when a device is deleted, and when the service is asked to stop.        *)
HandlerSave ==
  /\ running
  /\ SaveCurrentHour
  /\ UNCHANGED <<now, count, running, pc, memory, pending, timers, faults, setBacks, doubled>>

(* The process ends: on a signal between two polls of the collector, or     *)
(* killed anywhere.  A bucket the collector had not appended yet is lost    *)
(* if its points have been replaced by then.                               *)
Stop ==
  /\ running
  /\ running' = FALSE /\ pc' = "idle"
  /\ current' = None /\ completed' = {} /\ pending' = None
  /\ lastPersist' = 0 /\ lastPrune' = 0
  /\ excused' = excused \cup (Ids(SamplesOf(pending)) \ OnDisk)
  /\ UNCHANGED <<now, count, disk, faults, setBacks, doubled, stored>>

(* load_histogram: the buckets a table holds, in the order of their hours.  *)
Loaded(table) == Trim({Queued(Row(h, table[h]), 0) : h \in {g \in Hours : table[g] # {}}})

(* Mutation of HasCompleted: the promotion does not look for the bucket.    *)
NeverCompleted(hours, h) == FALSE

HasCompleted(hours, h) == \E b \in hours : b.hour = h

(* load_current_hour_histogram at time t, after the table and the hours that *)
(* have been loaded: points of the hour of t are restored, those of an      *)
(* earlier hour become a bucket unless there is one, those of a later hour  *)
(* are deleted.                                                            *)
LoadCurrentHour(t, table, loaded) ==
  IF points = None
    THEN /\ current' = None /\ completed' = loaded
         /\ points' = None /\ buckets' = table
  ELSE IF points.hour = HourOf(t)
    THEN /\ current' = points /\ completed' = loaded
         /\ points' = points /\ buckets' = table
  ELSE IF points.hour > HourOf(t)
    THEN /\ current' = None /\ completed' = loaded
         /\ points' = None /\ buckets' = table
    ELSE /\ current' = None
         /\ completed' = IF HasCompleted(loaded, points.hour) THEN loaded
                         ELSE Trim(loaded \cup {Queued(points, count)})
         /\ points' = None
         /\ buckets' = IF table[points.hour] # {} THEN table
                       ELSE [table EXCEPT ![points.hour] = points.samples]

(* A start at time t: prune, load the buckets, load the current hour.  A     *)
(* step that fails is logged and the start goes on; failed are these steps. *)
Start(t, failed) ==
  /\ ~running /\ running' = TRUE
  /\ \/ failed = {} /\ NoFault
     \/ failed # {} /\ Fault
  /\ \/ t >= now /\ UNCHANGED setBacks
     \/ t < now /\ setBacks < MaxSetBacks /\ setBacks' = setBacks + 1
  /\ now' = t
  /\ LET table  == IF "prune" \in failed THEN buckets ELSE Unexpired(t)
         loaded == IF "buckets" \in failed THEN {} ELSE Loaded(table)
     IN  IF "points" \in failed
           THEN current' = None /\ completed' = loaded /\ buckets' = table /\ UNCHANGED points
           ELSE LoadCurrentHour(t, table, loaded)
  \* Expired; left in a table the next save replaces; deleted by a start whose
  \* clock was once behind, as of a later hour or of one with another bucket.
  /\ excused' = excused
       \cup (IF "prune" \in failed THEN {} ELSE ExpiredIds(t))
       \cup (IF "points" \in failed THEN Ids(SamplesOf(points))
             ELSE IF setBacks' = 0 THEN {} ELSE Ids(SamplesOf(points)) \ OnDisk')
  \* Points restored to an hour that has its bucket already.
  /\ doubled' = IF setBacks' = 0 \/ current' = None THEN doubled
                ELSE doubled \cup (Ids(SamplesOf(points)) \cap Ids(SamplesIn(completed')))
  /\ UNCHANGED <<count, pc, pending, timers, stored>>

-----------------------------------------------------------------------------
Next ==
  \/ \E t \in Times : Collect(t)
  \/ AppendBucket \/ Persist \/ Prune
  \/ HandlerSave \/ Stop
  \/ \E t \in Times, failed \in SUBSET {"prune", "buckets", "points"} : Start(t, failed)

Spec == Init /\ [][Next]_vars

-----------------------------------------------------------------------------
(* No traffic is counted twice in the totals the service shows, across      *)
(* completions, appends, saves, failures, crashes at any point and          *)
(* promotions of a stale hour ("Must not double-count the promoted bucket", *)
(* the test of persistence.rs 870): except for the first sample of a fresh  *)
(* series, and for points restored by a start whose clock was set back.    *)
NoDoubleCount ==
  /\ \A b, c \in completed : \A p \in b.samples, q \in c.samples :
       p.id = q.id => p.id \in doubled \/ (b = c /\ p = q)
  /\ \A p \in SamplesOf(current), b \in completed : \A q \in b.samples :
       p.id = q.id => p.id \in doubled
  /\ \A p, q \in SamplesOf(current) : p.id = q.id => p.id \in doubled \/ p = q

(* A sample that has been stored is stored until it expires, unless one of   *)
(* the named losses befell it: its append failed, the process ended before  *)
(* an append whose points a save had replaced, or the load of the points    *)
(* failed; and, once the clock was set back, that its hour or its instant   *)
(* occurred twice, or that the start found points of a later hour.         *)
SavedSurvives == stored \ excused \subseteq OnDisk \cup Ids(SamplesOf(pending))

Undisturbed == faults = 0 /\ setBacks = 0

(* Without a failure, and on a clock that does not go back, a crash loses   *)
(* less than PERIODIC_PERSIST_INTERVAL_MS of what the memory counts, also   *)
(* across the end of an hour.                                              *)
UnsavedIsRecent ==
  running /\ pc = "idle" /\ Undisturbed =>
    \A s \in SamplesIn(completed) \cup SamplesOf(current) :
      \/ s.id \in OnDisk
      \/ s \in SamplesOf(current) /\ now - s.ts < PersistInterval
      \/ HourOf(s.ts) \in Expired(now)

(* Without a failure, and on a clock that does not go back, the completed   *)
(* hours in memory are those of the database, sample by sample, up to the   *)
(* retention of the database and the capacity of the memory: a restart does *)
(* not change what the service reports of the past.                        *)
RestartAgrees ==
  running /\ pc = "idle" /\ Undisturbed =>
    /\ \A b \in completed : b.hour \in Expired(now) \/ buckets[b.hour] = b.samples
    /\ \A h \in Hours \ Expired(now) :
         buckets[h] # {} /\ (\A b \in completed : b.hour # h) =>
           /\ Cardinality(completed) = MaxHours
           /\ \A b \in completed : b.hour \in Expired(now) \/ h < b.hour
=============================================================================
