--------------------------- MODULE TrafficHistory ---------------------------
(***************************************************************************)
(* The traffic history of one interface and its devices in memory, and     *)
(* what is read from it: HistogramHistory with the hour being filled and   *)
(* those filled, TrafficHistory with the most recent points (monitor.rs    *)
(* 362-927), and the handlers that aggregate, rank and sum them up by      *)
(* period (api.rs 176-399, 776-838).                                       *)
(*                                                                         *)
(* Traffic is the set of points that account for it, so that a sum counts  *)
(* a point once or not at all; the first sample of a series is two points. *)
(* Traffic storage is off: a restart begins with an empty history.  What   *)
(* is stored of it is the subject of module Accounting, the deletion of a  *)
(* device of module Devices.  The bound of 366 days of hours is not met.   *)
(* Bit rates, and the IP family a client may restrict an answer to, are    *)
(* left out, as is the order of answers.                                   *)
(***************************************************************************)
EXTENDS LocalHours, SequencesExt

CONSTANTS
  Devices,    \* the devices of the interface
  Whole,      \* the series of the interface itself
  NoHour,     \* no hour has been begun
  Window,     \* window_points
  MaxSamples  \* bound on the samples between two starts

(* A point of a sample; `again` marks the one or_insert_with pushes first.  *)
Point  == [sample : 1 .. MaxSamples, again : BOOLEAN]

ASSUME TrafficHistoryConstants ==
  /\ Whole \notin Devices /\ NoHour \notin [start : Instants, points : SUBSET Point]
  /\ Window \in Nat /\ MaxSamples \in Nat \ {0}

Series == Devices \cup {Whole}

VARIABLES
  alive,      \* has the collector not panicked
  registry,   \* device_registry: the devices that are known
  log,        \* the samples so far: when each was taken and of which series
  current,    \* current_hour_*: the hour being filled
  completed,  \* completed_*: the hours filled
  recent      \* TrafficHistory: the latest samples of each series

vars == <<zone, alive, registry, log, current, completed, recent>>

Bucket == [start : Instants, end : Instants, points : SUBSET Point]

Capacity == IF Window < 1 THEN 1 ELSE Window

TypeOK ==
  /\ zone \in Zones /\ alive \in BOOLEAN /\ registry \subseteq Devices
  /\ log \in Seq([at : Clock, listed : SUBSET Series]) /\ Len(log) <= MaxSamples
  /\ current \in [Series -> [start : Instants, points : SUBSET Point] \cup {NoHour}]
  /\ completed \in [Series -> SUBSET Bucket]
  /\ recent \in [Series -> Seq(DOMAIN log)] /\ \A s \in Series : Len(recent[s]) <= Capacity

Init ==
  /\ zone \in Zones /\ alive = TRUE /\ registry = {} /\ log = <<>>
  /\ current = [s \in Series |-> NoHour] /\ completed = [s \in Series |-> {}]
  /\ recent = [s \in Series |-> <<>>]

-----------------------------------------------------------------------------
(* A tick.                                                                 *)

At(point) == log[point.sample].at

(* points_to_bucket.                                                       *)
PointsToBucket(hour) ==
  [start |-> hour.start, end |-> HourlyBucket(hour.start).end, points |-> hour.points]

Begun(i, t) == [start |-> HourlyBucket(t).start, points |-> {[sample |-> i, again |-> FALSE]}]

SameHour(hour, t) == HourlyBucket(hour.start).start = HourlyBucket(t).start

(* Mutation of Filled: every hour counts its first sample twice.           *)
FilledTwice(hour, i, t) ==
  IF hour # NoHour /\ SameHour(hour, t)
    THEN [hour EXCEPT !.points = @ \cup {[sample |-> i, again |-> FALSE]}]
    ELSE [Begun(i, t) EXCEPT !.points = @ \cup {[sample |-> i, again |-> TRUE]}]

(* ingest_iface and ingest_device: the hour being filled after sample i at t. *)
Filled(hour, i, t) ==
  IF hour = NoHour
    THEN [Begun(i, t) EXCEPT !.points = @ \cup {[sample |-> i, again |-> TRUE]}]
  ELSE IF SameHour(hour, t)
    THEN [hour EXCEPT !.points = @ \cup {[sample |-> i, again |-> FALSE]}]
    ELSE Begun(i, t)

Closed(hour, t) ==
  IF hour = NoHour \/ SameHour(hour, t) THEN {} ELSE {PointsToBucket(hour)}

(* Mutations of Trimmed: a point too many is kept; the newest is dropped.   *)
TrimmedLate(queue) == IF Len(queue) > Capacity + 1 THEN Tail(queue) ELSE queue
TrimmedNewest(queue) == IF Len(queue) > Capacity THEN Front(queue) ELSE queue

(* trim_history_queue.                                                     *)
Trimmed(queue) == IF Len(queue) > Capacity THEN Tail(queue) ELSE queue

(* A tick at t that finds some devices online: it lists those it knows, and *)
(* the ring has the sample before the histogram converts its time.          *)
Tick(t, online) ==
  LET i      == Len(log) + 1
      known  == registry \cup online
      listed == known \cup {Whole}
  IN  /\ alive /\ i <= MaxSamples
      /\ registry' = known
      /\ log' = Append(log, [at |-> t, listed |-> listed])
      /\ recent' = [s \in Series |->
                      IF s \in listed THEN Trimmed(Append(recent[s], i)) ELSE recent[s]]
      /\ IF Panics(t, HourLength)
           THEN alive' = FALSE /\ UNCHANGED <<current, completed>>
           ELSE /\ current' = [s \in Series |->
                                 IF s \in listed THEN Filled(current[s], i, t) ELSE current[s]]
                /\ completed' = [s \in Series |->
                                   completed[s] \cup
                                     (IF s \in listed THEN Closed(current[s], t) ELSE {})]
                /\ UNCHANGED alive
      /\ UNCHANGED zone

(* The service is started again, with the devices it had saved.             *)
Restart ==
  /\ alive' = TRUE /\ registry' \in SUBSET registry /\ log' = <<>>
  /\ current' = [s \in Series |-> NoHour] /\ completed' = [s \in Series |-> {}]
  /\ recent' = [s \in Series |-> <<>>]
  /\ UNCHANGED zone

Next ==
  \/ \E t \in Clock, online \in SUBSET Devices : Tick(t, online)
  \/ Restart

Spec == Init /\ [][Next]_vars

-----------------------------------------------------------------------------
(* What is read.                                                           *)

(* Mutation of Overlapping: the last unit of an hour is not in it.          *)
OverlappingOpen(hours, from, to) == {b \in hours : b.start <= to /\ b.end > from}

Overlapping(hours, from, to) == {b \in hours : b.start <= to /\ b.end >= from}

(* query_iface_hourly, query_device_hourly.                                *)
QueryHourly(s, from, to) ==
  Overlapping(completed[s] \cup (IF current[s] = NoHour THEN {} ELSE {PointsToBucket(current[s])}),
              from, to)

Points(buckets) == UNION {b.points : b \in buckets}

(* merge_hourly_to_daily.                                                  *)
MergeDaily(hours) ==
  {[start |-> day.start, end |-> day.end,
    points |-> Points({b \in hours : DailyBucket(b.start).start = day.start})] :
     day \in {DailyBucket(b.start) : b \in hours}}

Kinds == {"hourly", "daily"}

QueryAggregate(s, from, to, kind) ==
  IF kind = "daily" THEN MergeDaily(QueryHourly(s, from, to)) ELSE QueryHourly(s, from, to)

(* The history handler: the points of the interface one by one (query_iface), *)
(* those of a device added up if they are of one time (query_device).        *)
QueryRecent(s) ==
  LET Together(i) == IF s = Whole THEN {i} ELSE {j \in ToSet(recent[s]) : log[j].at = log[i].at}
  IN  {[at |-> log[i].at, samples |-> Together(i)] : i \in ToSet(recent[s])}

(* The answers for all devices, and the windows they are summed up by.      *)
Answers(from, to, kind) ==
  UNION {{[device |-> d, bucket |-> b] : b \in QueryAggregate(d, from, to, kind)} : d \in registry}

WindowOf(answer) == [start |-> answer.bucket.start, end |-> answer.bucket.end]

TrafficOf(answer) == {<<answer.device, p>> : p \in answer.bucket.points}

(* Mutation of AggregateAll: a window holds the device seen last.           *)
AggregateLast(from, to, kind) ==
  LET answers == Answers(from, to, kind)
      In(w)   == {a \in answers : WindowOf(a) = w}
  IN  {[window |-> w, traffic |-> TrafficOf(CHOOSE a \in In(w) : TRUE)] :
         w \in {WindowOf(a) : a \in answers}}

(* The aggregate handler without a device: the traffic of the known devices *)
(* by the window of their buckets.                                         *)
AggregateAll(from, to, kind) ==
  LET answers == Answers(from, to, kind)
      In(w)   == {a \in answers : WindowOf(a) = w}
  IN  {[window |-> w, traffic |-> UNION {TrafficOf(a) : a \in In(w)}] :
         w \in {WindowOf(a) : a \in answers}}

(* usage_ranking: the traffic each known device is ranked by.               *)
Usage(from, to) == [d \in registry |-> Points(QueryAggregate(d, from, to, "daily"))]

(* overview and devices with a period that began with the day or the week   *)
(* of the request.                                                         *)
PeriodTotal(s, request, length) ==
  Points(QueryAggregate(s, ScopeStart(request, length), request, "hourly"))
-----------------------------------------------------------------------------
(* Properties.                                                             *)

(* The collector never panics: the conversion the two functions unwrap has  *)
(* one result (monitor.rs 295, 296).                                       *)
CollectorAlive == alive

Hours == UNION {completed[s] : s \in Series}

(* Hours do not overlap, whatever jumps the clock makes, and those of the   *)
(* devices are those of the interface: a point of time is found in one      *)
(* window only (query_iface_hourly, the aggregate handler).                 *)
HoursDisjoint ==
  \A b, c \in Hours :
    \/ b.start = c.start /\ b.end = c.end
    \/ b.end < c.start \/ c.end < b.start

Times == {log[i].at : i \in DOMAIN log}

(* The samples of a series in the histogram.                               *)
Recorded(s) == {i \in DOMAIN log : s \in log[i].listed}

(* A query by hours or by days has every sample of its range in exactly one *)
(* bucket, which spans the time of each of its samples, wherever the clock  *)
(* jumped between them and with the hour in progress (query_aggregate,      *)
(* merge_hourly_to_daily).                                                 *)
QueriesFind ==
  alive =>
    \A s \in Series, kind \in Kinds : \A from \in Times : \A to \in {t \in Times : from <= t} :
      LET answer == QueryAggregate(s, from, to, kind)
      IN  /\ \A i \in Recorded(s) :
               from <= log[i].at /\ log[i].at <= to =>
                 Cardinality({b \in answer : \E p \in b.points : p.sample = i}) = 1
          /\ \A b \in answer : \A p \in b.points : b.start <= At(p) /\ At(p) <= b.end

(* The three readers of a range agree: the traffic of all devices by hours  *)
(* and by days, and the traffic the devices are ranked by (aggregate,       *)
(* usage_ranking).                                                         *)
ReadersAgree ==
  \A from \in Times : \A to \in {t \in Times : from <= t} :
    LET Traffic(kind) == UNION {w.traffic : w \in AggregateAll(from, to, kind)}
        ranked        == Usage(from, to)
    IN  /\ Traffic("hourly") = Traffic("daily")
        /\ Traffic("daily") = UNION {{<<d, p>> : p \in ranked[d]} : d \in registry}

InOrder == \A i, j \in DOMAIN log : i <= j => log[i].at <= log[j].at

(* What the hours of a series count: every sample once, and the first one    *)
(* again, which or_insert_with has pushed and push_back pushes a second time *)
(* (monitor.rs 525-543).                                                    *)
Counted(s) ==
  {p \in Point : p.sample \in Recorded(s) /\ (p.again => \A i \in Recorded(s) : p.sample <= i)}

(* The total of today, or of this week, counts what there is since the local *)
(* day, or week, began and nothing from before, each point once, for a clock *)
(* that was not set back: no hour reaches over a midnight (period_range_ms,  *)
(* cumulative_from_buckets).  The exception is in Counted: the period of the *)
(* first sample of a series has that sample twice.                          *)
PeriodTotals ==
  alive /\ InOrder /\ log # <<>> =>
    \A s \in Series, length \in {DayLength, WeekLength} :
      LET request == Last(log).at
      IN  PeriodTotal(s, request, length) =
            {p \in Counted(s) : PeriodStart(At(p), length) = PeriodStart(request, length)}

(* The history handler has the latest samples of a series, as many as the   *)
(* window holds, also when the clock was set back among them                *)
(* (TrafficHistory::ingest_snapshot, query_device).                         *)
RecentWindow ==
  \A s \in Series :
    UNION {a.samples : a \in QueryRecent(s)} =
      {i \in Recorded(s) : Cardinality({j \in Recorded(s) : j > i}) < Capacity}
=============================================================================
