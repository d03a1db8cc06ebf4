# bandix-plus in TLA+

bandix-plus watches and limits the traffic of the devices behind a router. An eBPF
program attached to each interface counts packets and drops those over a limit; a user
space service computes the limits from a policy, turns the counters into hourly
histories, stores both in SQLite and serves an HTTP API. This directory holds a formal
model of it: TLA+ modules translated from the Rust source, TLC configurations that
check them on small instances, and TLAPS proofs of what holds for all of them.

Paths below are relative to the repository: `ebpf` is `bandix-plus-ebpf/src/main.rs`,
`common` is `bandix-plus-common/src/lib.rs`, the others are files of `bandix-plus/src/`.

## 1. Inventory

### The system and how its parts meet

```
 packets ---> eBPF program ---- DEVICE_TRAFFIC_STATS, IFACE_TRAFFIC_STATS ---> collector
              (each CPU)  <---- IFACE_LIMIT, DEVICE_LIMIT_IFACE, .._GLOBAL --- (1 s tick)
                                                                                 |  locks
 clients ---> HTTP handlers ---- policy_runtime, monitor_runtime, snapshot, histogram ----
                     \                                                          /
                      `------------- SQLite: policy_state, devices, ----------'
                                     current-hour points, hourly buckets
```

Two activities share the state of the service: one collector task, whose loop ticks
once a second and never ends, and the API handlers. Every store has a lock of its own
(`RwLock`, or the `Mutex` of the connection) and nobody holds two for a whole
operation, so that each handler and each tick is a sequence of critical sections
that others may come between. The eBPF program runs on every CPU at once, without
locks; it talks to the service only through maps. The database is written by both
activities; a crash ends both. The next start loads a program and maps of its own.

### Components

| component | state | operations | hard because | correct when |
|---|---|---|---|---|
| eBPF rate limiter (`ebpf` 233-456, `common`) | two bucket maps, three limit maps | packet: consume the interface's bucket, then the device's | truncating and saturating 64-bit arithmetic, full maps, limits rewritten under way, buckets loaded and stored by several CPUs | every window admits at most a burst and the rate; nothing passes uncharged; the second budget does not pay for what the first refuses; what a race of CPUs costs is bounded |
| eBPF counters (`ebpf` 207-231) with the collector's reading (`monitor` 1117-1147, 1308) | counter maps; last readings and totals | bump; take the delta | load, add and store on several CPUs; insertion over insertion; map full | readings add up to the traffic, and to more of it only where a store has taken a counter back below a reading |
| Policy runtime (`policy` 117-522) | interface limits, guest defaults with a flag, white lists, rules | setters, export, import | import stops at its first error; a setter enables what it sets | a restore invents nothing |
| Policy handlers (`api` 1108-1264, `persistence` 171-201) | the policy in memory, its row in the database | eleven mutating requests: change under the write lock, save under the read lock, answer | handlers between the two steps, failing saves, crash between them | what was answered OK is kept |
| Schedule (`policy` 356, 713-788) | none: rule and local clock | is a rule in force | slots over midnight, Sunday to Monday, inclusive ends | in force exactly during its occurrences |
| Limit synchronisation (`policy` 524-710, `command` 171-186) | the kernel's limit maps | every tick: devices seen, limits desired, entry by entry rewriting | packets in between; failing system calls; a full map | the kernel comes to hold what the policy asks for, and every call on the way does what the policy entitles the device to |
| Hourly accounting (`monitor` 286-802, `command` 79-285, `persistence` 95-667) | current hour, completed hours; points and buckets in the database | sample, complete an hour, append, save, prune, flush, restore, promote | crash between any two; failing operations; a clock set back; several writers | no byte counted twice, none that was stored lost, a restart does not change the past |
| Local hours (`monitor` 273-330) | bounds of the current hour and day | bucket of an instant, start of a period | time zones, daylight saving | hours are disjoint, and none reaches over a midnight |
| Device registry (`monitor` 59-90, 1115-1305; `api` 401-609) | registry, counters' baselines, totals, snapshot, recent points, histogram, rows | tick; rename; delete; recover | seven stores visited one after the other while a tick, or a rename, carries the device's data from one to the next | names stay, totals agree with histories, the deleted is gone and stays gone |
| Recent ring and live rates (`monitor` 831-934, 996) | a bounded queue of points for each series | push, trim, query | the bound; a clock set back | has the latest points of a series, as many as fit |
| Queries (`monitor` 599-670, 804; `api` 176-399, 649-888) | none | ranges, hours into days, sums by window, ranking, totals by period | closed boundaries, the hour in progress, three readers that merge alike | each sample of a range is found once, readers agree, a period's total counts each point of the period once |
| Packet classification (`ebpf` 40-205) | none | headers to (interface, direction, version, MAC) | - | modelled by its result |
| Start and tasks (`command`, `main.rs`) | - | order of the start and of a tick | - | part of the modules of the stores visited |
| eBPF loader (`ebpf/shared`), options | none | resolve a backend, attach | what outlives a crash; options that contradict one another | hazards listed, not modelled |
| Topology, text parsing, envelopes of the API | none | external I/O or pure | - | not modelled |

`PROJECT.json` lists the same components with their files, and under `hazards` each
place in the code where something hard to test can go wrong, with the property that
would notice.

## 2. Modules

| module | models | actions and the code they stand for |
|---|---|---|
| `RateLimit` | arithmetic of limits and buckets, the lattice of limits | (operators) `EffectiveBudget`, `TokensForWindow`, `Refill`, `Charge`, `StricterLimit` |
| `TokenBucket` | enforcement in the eBPF program | `Packet` is `should_drop_by_rate_limit` with both stages; `Write...Limit` is user space rewriting an entry; `Tick` is the clock; `Observe...` starts a measurement |
| `BucketRaces` | one bucket under several CPUs, access by access; EXTENDS `RateLimit` | `Clock`, `Look`, `Insert`, `Fill`, `StoreFilled`, `StoreTime`, `Take`, `StoreCharged` are the loads and stores of `consume_iface_bucket`, `consume_device_bucket` and `refill_bucket`; `Observe` starts a measurement |
| `Counters` | one traffic counter and its reader | `LookUp`, `Store`, `Insert` are the three memory accesses of a bump; `FillUp` other keys; `Read` one reading |
| `Policy` | the policy value | (operators) every mutator of `PolicyRuntime`, `Export`, `Import` |
| `PolicyStore` | handlers, database row, crash and restart; EXTENDS `Policy` | one action per handler (its critical section), `Persist` its save and answer or failure, `GiveUp` a dropped client, `Crash`, `Start`, `StartUnread` |
| `DurableSettings` | what the policy promises, without handlers: a map in memory, a copy that survives, promises | `Change`, `Save`, `Fail`, `Recover`; `PolicyStore` implements it |
| `LimitSync` | the tick's rewriting of the limit maps; EXTENDS `Policy` and `RateLimit` | `Observe`, `Compute`, then one action per system call: `InsertDevice`, `RemoveDevice`, `InsertIface`, `RemoveIface`; `Abort` a failing one; `ChangePolicy`, `ChangeClock`, `SeeDevice` the world |
| `Schedule` | a rule on the weekly clock | `Tick`, `Edit` |
| `Accounting` | one traffic series from sample to bucket | `Collect`, `AppendBucket`, `Persist`, `Prune` are the stages of a tick; `HandlerSave` the save of the API task; `Stop` any end of the process; `Start` the restore, with the steps that fail |
| `LocalHours` | the calendar of a zone: hours, days and weeks of local time as instants | (operators) `HourlyBucket`, `DailyBucket`, `ScopeStart`, and `Panics`, when the conversion fails |
| `TrafficHistory` | the samples of an interface and its devices in memory, and all that reads them; EXTENDS `LocalHours` | `Tick` is a sample of every known series, in ring and histogram; `Restart`; (operators) `QueryAggregate`, `QueryRecent`, `AggregateAll`, `Usage`, `PeriodTotal` are the queries and handlers |
| `Devices` | one device in all the stores | seven stages of a tick, seven of a deletion, three of a rename, two of the flush at shutdown, `DropDelete`, `DropRename`, `Crash`, `Start` |

`Policy` is used twice: `PolicyStore` gives its operations the handlers that call them,
`LimitSync` gives its values the kernel that enforces them. `RateLimit` likewise serves
the data path and the merging of limits in user space. `TokenBucket` takes over where
`LimitSync` ends: it lets user space write any limit at any time. `TokenBucket` has all
keys and limits with a packet as one step, `BucketRaces` one key and a fixed limit with
a memory access as one step. `Accounting` has one series with its rows in the database,
`TrafficHistory` many series with their readers, in memory.

`PolicyStore` refines `DurableSettings` (`ImplementsDurable`): a setting is an entry of
what the GET handlers show (`View`), memory is the view of the runtime, the saved copy
the view of the row. The handlers' critical sections are `Change`, `Persist` is `Save`,
and everything else a handler does is a stutter.

Conventions. A guard is a condition or an early return of the source. An action is one
critical section, one system call or one transaction: the grain at which others can
come between. Data is abstracted to what the properties tell apart: traffic is a set of
packets or of numbered samples instead of a sum (a byte counted twice is a
sample that is found at two places), a rate is a small number, a name a model value. Variables
listed under "what an observer notes" are ghosts: no action reads one to decide
anything about the other variables. An operator introduced by "Mutation of" is
a plausible mistake in the definition that follows it; nothing in the specification uses it. It
documents which mistake each property notices: every property is violated
when its mutation takes the definition's place (`PROJECT.json`, `mutants`).

## 3. Runs

All runs check deadlock. Bounds are constants, named in the `.cfg`.

| run | instance | shows |
|---|---|---|
| `bucket` | an interface and two devices, an interface and a global limit of 10 and a device limit of 2, all of which come and go, lengths 1 and 3, room for one entry in each bucket map | `IfaceConformance`, `DeviceConformance`: in every window at most a burst, one byte and the rate of the stricter limit pass; `NothingUncharged`, `BurstBounded`, `IfaceGates` |
| `bucket_races` | three CPUs, a budget of 6, at most two packets that overlap others | `RacesBounded`: each overlap costs at most a burst and two packets; `BucketSound`: no race leaves a bucket overfull or ahead of the clock |
| `schedule` | days of three minutes, every slot, every instant | `ActiveInOccurrences`, `SwitchesAtItsEnds` |
| `policy_store` | two interfaces, a device, two rules, two handlers, four requests, restarts that miss an interface | `AckedSurvives`, `SavedWhenQuiet`, `RestartInventsNothing`, and the refinement `ImplementsDurable` |
| `limit_sync` | three devices, both interfaces present, a map with room for two, six policies, three changes, two failures | `TickIsExact`: a tick that runs to its end leaves what the policy entitles each device to; `NoLapse`: so does every call on the way; `EventuallyEnforced` under fairness. In a tick that cannot read the devices both mean what the rules alone entitle a device to |
| `accounting` | four hours, memory for two, eight instants at any of which a start may happen, a retention, one operation or start with failures (a start may fail in any of its three steps at once), one setting back of the clock | `NoDoubleCount`, `SavedSurvives`, `UnsavedIsRecent`, `RestartAgrees` |
| `device_life` | two packets, a rename, a deletion, a crash, shutdowns | `NameSurvives`, `TotalsAgree`, `StaysDeleted`, `QuietDeleteForgets` |
| `device_overlap` | as above without renames and crashes | violates `DeleteForgets`, see findings |
| `traffic_history` | two devices, three samples between restarts, a ring of two points, fixed offsets, also of half an hour, and an hour put forward; a clock that jumps anywhere | `CollectorAlive`, `HoursDisjoint`, `QueriesFind`, `ReadersAgree`, `PeriodTotals`, `RecentWindow` |
| `traffic_history_repeat` | an hour put back | violates `CollectorAlive`, see findings |
| `counters_races` | three CPUs, six bytes, readings anywhere | `TotalIsTraffic` unless two CPUs overtake one another, `NeverOvercounts` even then, and `RecountOnlyRewound` unless a store takes the counter back below its last reading |
| `counters_recount` | two CPUs | violates `IncrementsAddUp`, see findings |

Why the bounds are enough.

* *Buckets.* A second has eight units, the burst window two, the initial one. One unit
  earns a token and an eighth, or an eighth of one: both truncations of
  `tokens_for_window` occur. The clock steps by five units and stops at ten: one step
  exceeds the burst window, so that the cap is used, and buys nothing at the slower
  rate, so that the time is not moved on; two exceed the second, so that the elapsed
  time is bounded, and buy the token the first step left unbought. Lengths 1 and 3 are
  within and above a burst. Maps with one entry make the second device's insertions
  fail. A window is followed until the bytes counted in it pass four, two more than a
  burst of the faster rate, and the theorems remove all bounds.
* *Races.* The lost updates need two CPUs, an update through a pointer to a replaced
  entry a third. Two overlaps are enough for each race to occur at least once in a
  window and to begin in the one before. The burst window is a second here, so that a
  bucket has room for several refills.
* *Schedule.* Day length enters only by comparison; three minutes have a start before,
  at and after an end. The theorem is for every length, 1440 included.
* *Policy store.* An interleaving anomaly of a save needs two handlers; a restart that
  cuts the policy short needs an interface that is missing and one that is not.
  The handlers are interchangeable (symmetry; no liveness is checked there).
* *Limit sync.* Both interfaces are present: the policy in memory never names one that is not
  (`PolicyStore`'s `TypeOK`). Capacity 2 of three devices reaches the full map with stale entries.
  The policies exercise each branch of `compute_desired_limits`: guests, white list,
  disabled guests, a stricter rule, two rules for one device, an
  interface limit, the other interface, another device.
* *Accounting.* `Times` are the instants ticks and starts may happen at: instants of four
  hours, a first and a last of an hour, and two of them a save interval apart within one.
  The memory of two hours is exceeded, and the retention of three hours expires the first.
  Four samples complete three hours. Memory for a single hour would be misleading (and the
  theorem excludes it): points of an hour that has already fallen out of memory would be
  promoted, which at the source's 366 * 24 hours takes a year without a successful save.
* *Devices.* One device suffices, the stores are keyed by device. A name and no name are
  the two cases of a lease; two packets put one before and one after any event; a rename
  can come before, during and after the deletion.
* *Traffic history.* Hours have two units (a first and a last), days four hours, weeks
  two days, and within the six hours of the clock every zone has a midnight that
  begins a week and one that only begins a day. Three samples fill an hour, close it and begin another, in any
  order, as the clock may jump back; they exceed the ring of two points by one. A device
  that is seen late makes the hours of the series differ. Months and years are longer
  weeks.
* *Counters.* An insertion over an insertion needs two CPUs, an update from a
  replaced entry a third.

Liveness and fairness. `EventuallyEnforced` assumes `WF_vars(Sync)`: some step of the
collector that is possible is eventually taken. The code justifies it, since the
collector's loop has no exit and no wait but its timer (`command.rs` 171 on). Nothing is
assumed of clients, clock or kernel; failures are finite because the run bounds them,
and the property speaks of the time after the last. It is conditional on `Room`, as the source inserts new
entries before it removes stale ones. All other runs need no fairness.

## 4. Findings

* `device_overlap`: the collector takes a device's delta under the lock of the monitor,
  and enters it in the histogram under another, later. A deletion between the two
  empties the histogram first: when the client is told that the device is deleted, its
  traffic is back in the histogram, and can be in the database (`api.rs` 556-587, `command.rs` 187-207).
  `QuietDeleteForgets` is what remains true: a deletion that no tick overlaps forgets everything.
* `traffic_history_repeat`: in the hour that daylight saving repeats a local time has
  two instants, and `Local.from_local_datetime(..).unwrap()` (`monitor.rs` 295) panics:
  the collector task ends, and with it accounting and limit changes.
* `counters_recount`: `delta_bytes` takes a counter below its last reading for one that was
  reset (`monitor.rs` 1307-1315) and returns all of it. The program stores counters without
  atomics (`ebpf` 207-231): when two CPUs have loaded the same counter, the collector reads
  it after the first store, and the second store leaves it below that reading, nothing
  was reset and most of the counter is in the total already. In the run packets
  of 3 and 1 bytes overlap on a counter of 1: the readings are 4 and 2, the total is 6, and 5
  bytes have passed. `RecountOnlyRewound` is what remains true: nothing else
  makes the total exceed the traffic. Two CPUs that both insert, for one, only lose bytes,
  as the second insertion is a counter of its own and counted as one.

## 5. Proofs

The theorems hold for all values of the constants that satisfy the assumptions stated next to
them (`RateConstants`, `DataPathConstants`, `RacesConstants`, `DayIsPositive`,
`PolicyConstants`, `StoreConstants`, `SyncConstants`, `AccountingConstants`,
`DevicesConstants`, `LocalHoursConstants`, `TrafficHistoryConstants`,
`CountersConstants`), which the runs evaluate too. They only say
that numbers are numbers, that absent values are no values, that the burst window
is no longer than a second, that a save is due within an hour and memory holds at least
two hours (a minute and 366 * 24 in the source), that a policy has finitely many rules, that the clock is past its epoch by more than these intervals, and that the instants a zone is defined
on are finite in number (`timestamp_millis_opt` and the conversion back have a range).

| theorem | argument |
|---|---|
| `RateLimitProofs!StricterLattice` | by cases on 0; with lemmas on what `TokensForWindow` and `Refill` earn against exact division (at most the exact amount; less than a byte of time is kept back) |
| `TokenBucketProofs!TypeCorrect`, `IfaceConforms`, `DeviceConforms`, `Charged` | conformance is not inductive: a bucket that is full could admit a burst beyond the bound. `IfaceInv` and `DeviceInv` strengthen it with `Balanced`, a credit argument: what a bucket holds *and* what was admitted are together paid for by the credit at the start of the window and the time up to the last refill. A refill moves the time on by at least what it adds, a charge moves tokens from one side to the other, a new limit reopens the window |
| `TokenBucketProofs!Gated`, `Bursts` | `Gated` by the cases of a packet: a packet whose interface stage drops it leaves the device's side alone. `Bursts` by induction: a refill stores at most its cap, which is the packet at hand or the burst of a limit that was configured for the field, and a new bucket has less than that |
| `BucketRacesProofs!RacesType`, `RacesSound`, `RacesAdmitBounded` | `IInv` says when a key is *covered*: from some instant on, it will not be admitted more than the bound. While one packet is alone with the bucket the credit argument of `TokenBucket` holds access by access. The first packet that overlaps another raises the bound by a full burst and two packets, and that is enough for a fresh start whatever the race does with tokens and time, as no store ever exceeds a full bucket or the clock (`BucketSound`); packets already under way are paid for by the two packets' lengths. When the last of the overlapping packets is done, the bucket is covered anew |
| `LimitSyncProofs!ScheduleCorrect`, `SwitchesCorrect` | an occurrence that covers an instant began on that day or the day before; the week is split into its seven days |
| `PolicyStoreProofs!TypeInvariant`, `Durability`, `QuietAgreement`, `RestartSound` | the policy in memory names only interfaces of the topology, as every handler asks the topology first and the import does (`Speaks`, `ImportSpeaks`). With `TypeOK`, `AckedSurvives` and `SavedWhenQuiet` are inductive: a request that changes a setting takes its promise back until it has saved it, and every save writes all of memory, so that it renews what was promised by others. One lemma (`HandleMutates`) reduces the eleven handlers to a change of some settings and of no others; export keeps every setting (`ExportView`), and so does a complete import (`FullImportView`), while one that stops early never makes one up (`ImportInventsNothing`) |
| `PolicyStoreProofs!DurableRefinement` | `Init` maps to the blank map; every action maps to one of the abstract store or to a stutter. A handler changes only what it claims (`HandleMutates`), a save is all of memory, a complete import gives back all of the row and a cut one a part of it |
| `LimitSyncProofs!LimitsStay` | `SyncInv`: while a map is written, what is still to be inserted is wanted and what is going to be removed is not, so that no call strays from what the tick has computed (`NothingStrays`). `Computed`: what it has computed is what the policy, the time and the devices seen entitle each device to, or the rules alone if it could not read the devices (`WantedIsExpected`) |
| `LimitSyncProofs!SyncTypes`, `TicksAreExact` | from the same invariant. Every write keeps the working sets in order (`WritingInHand`). `SyncInv` says that a finished tick leaves what it has computed, `Computed` that this is still what the policy asks for; `DesiredIsEntitled`, that merging the rules one by one gives the least budget of all of them in each field. A fold over a set is characterised by its one-step equations (`FoldIs`): were two functions that satisfy them different, they would differ on a smallest set of rules (`SmallestSubset`, from the library's well-founded order of finite sets), and on one rule fewer they agree. `StrictestWith` is the step: one more limit is one more `StricterLimit` |
| `DevicesProofs!NamesKept` | `NameInv`: whoever saves the registry runs, so it writes the acknowledged name; a rename that still holds finds its own name in the registry |
| `DevicesProofs!DeletionsHold`, `DeletionForgets` | `GoneInv`, `ForgetInv`: store by store, what a deletion that no tick overlaps has emptied stays empty, because only a tick carries traffic from one store to the next, and only a rename that copied the device before carries its entry |
| `DevicesProofs!StoresTyped`, `TotalsKept` | the baseline and the total move together, and the sample that is on its way is what the histogram lacks; both sides are rebuilt from the same hours at a start |
| `AccountingProofs!AccountingTypes`, `TrafficCountedOnce`, `StoredTrafficSurvives`, `UnsavedTrafficIsRecent`, `RestartKeepsThePast` | one inductive invariant, `AccountingInv`, with `NoDoubleCount` and `SavedSurvives` themselves, which need its other parts. `Placed`: a sample is one sample wherever it is found and lies in the hour of its time; on a clock that was not set back the hours past are earlier than the present one. `PointsCovered`: the points that the next save may delete are in memory or in a bucket. `Calm`, for a history without failures on a clock that goes forward: what is not stored is younger than the last save, points keep up with the buckets, so that a start promotes them to the end of the queue or finds their bucket, and the queue is the latest hours of the table, in order, so that what falls out of it is the oldest. A crash may come at any place, so each part is stated for the stopped service as well |
| `TrafficProofs!RacesOnlyLose`, `NoByteLost`, `OnlyRewindingOvercounts` | `Behind`: what a CPU has loaded and not stored is at most what has passed, which only grows. `Exact`: without a race, the last reading is part of the entry and the difference is what the total lacks. `Covered`: until a store takes the entry below the last reading, neither the entry nor any store still to come into it brings the total over what passed |
| `TrafficProofs!HistoryTypes`, `RecentPointsAreLatest` | `HistoryInv`: the types; `Histogram`, every hour begins at a full hour of the local clock that converts both ways and has samples of that hour only, every sample is in an hour and in one only; `Latest`, the ring is the ascending sequence of the latest samples of its series, as many as fit |
| `TrafficProofs!HoursStayApart`, `CollectorSurvives` | from `Histogram`: local hours are multiples of the hour's length, hence apart by one (`Apart`), and instants are in the order of what a clock that is never put back shows (`ClockOrder`). Where the offset changes at full hours only, both ends of an hour are shown (`WholeHoursConvert`), and what is shown converts (`ShownConverts`) |
| `TrafficProofs!QueriesFindOnce`, `PeriodsInFull` | an hour spans its samples (`HourSpans`), and so does their day (`DayOfHour`); hours of one day convert to the same day. Days and weeks are multiples of hours (`LengthsNest`), so that an hour that reaches into a period lies in it. `Filed`: on a clock that goes forward the histogram has each sample as one point, and the first one of a series as two |
| `TrafficProofs!ReadersOfARangeAgree` | of the operators alone: days are a partition of the hours (`DaysHaveTheHours`), windows one of the answers (`WindowsHaveTheTraffic`) |

The theorems on the histogram's hours and queries have a hypothesis on the zone, as far as each
needs it: `NeverBack`, the local clock is never put back; `WholeHours`, it is put
forward at full hours only; `WholeDays`, and never over a midnight (`LocalHours`).
`HoursStayApart` needs the first, `CollectorSurvives` the first two, `QueriesFindOnce` and
`PeriodsInFull` the first and the last; the readers' agreement and the ring need none. The zones of the run
`traffic_history` have all three (`PlainAreWhole`, which TLC evaluates), the
zone of `traffic_history_repeat` lacks the first, and its counterexample is what that
costs. Zones without daylight saving have all three whatever their offset.

Only model-checked: `EventuallyEnforced`, as liveness is beyond the prover. All other
properties of the passing runs are theorems.
The findings are counterexamples of TLC.

## 6. Not modelled

* The eBPF loader: a straight line of library calls at start that keeps no state of its own and
  that nothing runs beside. What can go wrong in it is listed under `hazards`: with the
  netlink backend the filter of a process that was killed stays in the kernel and goes on
  enforcing its limits; a single anchor id passes the check of the options and fails
  between the attachments.
* Options, interface discovery, parsing of headers, addresses and leases, envelopes of
  HTTP: input, output and pure conversion. They enter as the sets of values they yield.
* Packet counters, which nothing reads. Live bit rates, their averages and percentiles:
  arithmetic on a sample. The filter by IP family, and the order of answers.
* Rates of more than `u64::MAX` / 1000 kbps: the export saturates (`policy.rs` 806-812),
  so that they come back smaller; in `Policy` a rate comes back as it was.
* The second push of a series' first sample (`monitor.rs` 525-543) is modelled as a second
  point, and the totals count its bytes twice as the code does (`api.rs` 685-694):
  `PeriodTotals` and `NoDoubleCount` name it as their exception. A range of hours is compared by
  the samples it has, in `QueriesFind` and `ReadersAgree`.
* What a CPU with a pointer to a replaced bucket stores after the kernel has given that memory to
  another key: `BucketRaces` and `Counters` have one key. There the store is lost to the key; to the
  other key it would be an arbitrary write.
* A limit that changes while two CPUs are at its bucket: `BucketRaces` has a fixed limit,
  `TokenBucket` has changes between packets.
* A deletion between the two locks of the aggregate handler: `TrafficHistory` answers at
  one instant.
* Configurations with traffic storage disabled, which leave the stores of `Accounting`
  empty; `TrafficHistory` is what remains then.
* The bound of 366 * 24 hours in `TrafficHistory` (`Accounting` has it), and the
  wrap-around of 64-bit byte counters: out of reach of any uptime.

## 7. Plan

Done: the data path, also between CPUs, the policy from request to kernel with its
abstract store, schedules, the accounting of a series, the histories and their readers,
one device in all stores, the counters; the theorems of section 5.

Open, in this order:

1. `RateMeter`, an abstract limiter, refined by `TokenBucket` from its credit invariant.
2. A deletion in `TrafficHistory`, between the locks of its readers.
