------------------------------ MODULE Devices ------------------------------
(***************************************************************************)
(* The life of one device, an interface and a MAC address, in the service: *)
(* the collector that counts it (monitor.rs collect_snapshot, command.rs   *)
(* run_service), the handlers that rename and delete it (api.rs 401-609),  *)
(* and what is stored of it (persistence.rs).                              *)
(*                                                                         *)
(* The stores of the service have a lock each, and the collector and the   *)
(* handlers take one after the other: every action here is one critical    *)
(* section.  Traffic is the set of packets a store accounts for; that the  *)
(* first sample of a series is counted twice, and losses of hours, are the *)
(* subject of module Accounting.  Traffic storage is enabled, the database *)
(* does not fail, and the interface is in the topology of every start.     *)
(***************************************************************************)
EXTENDS Naturals

CONSTANTS
  Names,        \* host names a client may set
  NoName,       \* "-", no host name is known
  Absent,       \* no entry
  MaxPackets,   \* bound on the packets of the device
  MaxDeletes, MaxRenames, MaxCrashes  \* bounds on those events

Packets == 1 .. MaxPackets
Known   == Names \cup {NoName}
Entry   == Known \cup {Absent}
Data    == [name : Known, packets : SUBSET Packets]

ASSUME DevicesConstants ==
  /\ NoName \notin Names /\ Absent \notin Known /\ Absent \notin Data
  /\ MaxPackets \in Nat /\ MaxDeletes \in Nat /\ MaxRenames \in Nat /\ MaxCrashes \in Nat

VARIABLES
  sent,        \* the packets of the device so far
  loadedAt,    \* those before the eBPF program was loaded: it counts the others
  online,      \* does the neighbour table list the device
  running,     \* is the service up
  stopping,    \* where the flush of an orderly shutdown is
  registry,    \* monitor_runtime.device_registry: the host name, if it is known
  baseline,    \* monitor_runtime.prev_device_bytes, 0 if absent
  total,       \* monitor_runtime.cumulative_device
  shown,       \* its entry in the snapshot
  recent,      \* the ring of recent points
  current, completed,  \* the histogram: the hour being filled, those filled
  dbDevice, dbPoints, dbBuckets,  \* its rows in the tables of the database
  pc, data, pending,   \* the collector: where it is, its `data` and `completed`
  deleting,            \* where the delete handler is
  renaming, newName, captured,  \* the rename handler, with its snapshot_device
  deletes, renames, crashes,    \* counted for the bounds
  \* What an observer notes: the packets counted before the deletion in flight
  \* began, whether no tick has overlapped it so far, whether a rename in
  \* flight held the device at its start, whether the device is gone since it
  \* was deleted, the name a client was told is set, and whether the rename in
  \* flight still holds.
  before, quiet, stale, gone, acked, holds

service  == <<running, stopping>>
kernel   == <<sent, loadedAt, online>>
monitor  == <<registry, baseline, total>>
histogram == <<current, completed>>
history  == <<recent, histogram>>
disk     == <<dbDevice, dbPoints, dbBuckets>>
ticking  == <<pc, data, pending>>
renamer  == <<renaming, newName, captured>>
bounds   == <<deletes, renames, crashes>>
deletion == <<before, quiet, stale, gone>>
naming   == <<acked, holds>>
vars == <<kernel, service, monitor, shown, history, disk, ticking, deleting, renamer, bounds,
          deletion, naming>>

TypeOK ==
  /\ sent \in 0 .. MaxPackets /\ loadedAt \in 0 .. sent /\ baseline \in 0 .. (sent - loadedAt)
  /\ online \in BOOLEAN /\ running \in BOOLEAN
  /\ stopping \in {"no", "points", "done"}
  /\ registry \in Entry /\ shown \in Entry /\ dbDevice \in Entry
  /\ \A store \in {total, recent, current, completed, dbPoints, dbBuckets, pending, before} :
       store \subseteq 1 .. sent
  /\ pc \in {"idle", "collected", "charted", "ingested", "appended", "shown", "saved"}
  /\ data \in Data \cup {Absent}
  /\ deleting \in {"no", "runtime", "recent", "histogram", "rows", "devices", "points"}
  /\ renaming \in {"no", "runtime", "save"} /\ newName \in Entry /\ captured \in BOOLEAN
  /\ quiet \in BOOLEAN /\ stale \in BOOLEAN /\ gone \in BOOLEAN
  /\ acked \in Entry /\ holds \in BOOLEAN

Init ==
  /\ sent = 0 /\ loadedAt = 0 /\ online \in BOOLEAN /\ running = TRUE /\ stopping = "no"
  /\ registry = Absent /\ baseline = 0 /\ total = {} /\ shown = Absent
  /\ recent = {} /\ current = {} /\ completed = {}
  /\ dbDevice = Absent /\ dbPoints = {} /\ dbBuckets = {}
  /\ pc = "idle" /\ data = Absent /\ pending = {}
  /\ deleting = "no" /\ renaming = "no" /\ newName = Absent /\ captured = FALSE
  /\ deletes = 0 /\ renames = 0 /\ crashes = 0
  /\ before = {} /\ quiet = FALSE /\ stale = FALSE /\ gone = FALSE
  /\ acked = Absent /\ holds = FALSE

-----------------------------------------------------------------------------
(* The device.                                                             *)

Send ==
  /\ sent < MaxPackets /\ sent' = sent + 1
  /\ UNCHANGED <<loadedAt, online, service, monitor, shown, history, disk, ticking, deleting,
                 renamer, bounds, deletion, naming>>

ComeOrGo ==
  /\ online' = ~ online
  /\ UNCHANGED <<sent, loadedAt, service, monitor, shown, history, disk, ticking, deleting,
                 renamer, bounds, deletion, naming>>

-----------------------------------------------------------------------------
(* A tick of the collector.                                                *)

(* Mutation of Uncounted: off by one.                                      *)
UncountedAndOne == (loadedAt + baseline) .. sent

(* delta_bytes: the counter against the baseline.                          *)
Uncounted == (loadedAt + baseline + 1) .. sent

(* Mutation of NamesFor: the lease comes before the name a client has set.  *)
LeasesFor(name) == Known

(* The name an online device is listed under: the one that is known, else   *)
(* one that a lease gives it.                                              *)
NamesFor(name) == IF name \in Names THEN {name} ELSE Known

(* collect_snapshot.  An online device is counted and becomes known; an     *)
(* offline one is listed if it is known, with no traffic.                  *)
Collect ==
  /\ running /\ pc = "idle" /\ pc' = "collected"
  /\ IF online
       THEN \E name \in NamesFor(registry) :
              /\ data' = [name |-> name, packets |-> Uncounted]
              /\ registry' = name
              /\ baseline' = sent - loadedAt
              /\ total' = total \cup Uncounted
       ELSE /\ data' = IF registry = Absent THEN Absent
                       ELSE [name |-> registry, packets |-> {}]
            /\ UNCHANGED monitor
  /\ quiet' = FALSE /\ gone' = (gone /\ ~online)
  /\ UNCHANGED <<kernel, service, shown, history, disk, pending, deleting, renamer, bounds,
                 before, stale, naming>>

Sampled == IF data = Absent THEN {} ELSE data.packets

(* TrafficHistory::ingest_snapshot.                                        *)
Chart ==
  /\ pc = "collected" /\ pc' = "charted"
  /\ recent' = recent \cup Sampled
  /\ UNCHANGED <<kernel, service, monitor, shown, histogram, disk, data, pending, deleting, renamer,
                 bounds, deletion, naming>>

(* ingest_snapshot_collect_completed: the sample may begin a new hour.     *)
Ingest ==
  /\ pc = "charted" /\ pc' = "ingested"
  /\ \/ /\ current' = current \cup Sampled
        /\ UNCHANGED <<completed, pending>>
     \/ /\ data # Absent
        /\ current' = Sampled
        /\ completed' = completed \cup current
        /\ pending' = current
  /\ UNCHANGED <<kernel, service, monitor, shown, recent, disk, data, deleting, renamer, bounds,
                 deletion, naming>>

AppendBucket ==
  /\ pc = "ingested" /\ pc' = "appended"
  /\ dbBuckets' = dbBuckets \cup pending /\ pending' = {}
  /\ UNCHANGED <<kernel, service, monitor, shown, history, dbDevice, dbPoints, data, deleting,
                 renamer, bounds, deletion, naming>>

Show ==
  /\ pc = "appended" /\ pc' = "shown"
  /\ shown' = IF data = Absent THEN Absent ELSE data.name
  /\ data' = Absent
  /\ UNCHANGED <<kernel, service, monitor, history, disk, pending, deleting, renamer, bounds,
                 deletion, naming>>

(* The periodic save, when it is due: the devices, then the current hour.   *)
PersistDevices ==
  /\ pc = "shown"
  /\ \/ pc' = "saved" /\ dbDevice' = registry
     \/ pc' = "idle" /\ UNCHANGED dbDevice
  /\ UNCHANGED <<kernel, service, monitor, shown, history, dbPoints, dbBuckets, data, pending,
                 deleting, renamer, bounds, deletion, naming>>

PersistPoints ==
  /\ pc = "saved" /\ pc' = "idle"
  /\ dbPoints' = current
  /\ UNCHANGED <<kernel, service, monitor, shown, history, dbDevice, dbBuckets, data, pending,
                 deleting, renamer, bounds, deletion, naming>>
-----------------------------------------------------------------------------
(* delete_device_handler, store by store.  The policy of the device, which   *)
(* it removes before the rows and saves before the points, is in module     *)
(* PolicyStore.                                                            *)

Counted ==
  total \cup recent \cup current \cup completed \cup dbPoints \cup dbBuckets \cup pending
    \cup Sampled

DeleteShown ==
  /\ running /\ stopping = "no" /\ deleting = "no" /\ deletes < MaxDeletes
  /\ deleting' = "runtime" /\ deletes' = deletes + 1
  /\ shown' = Absent
  /\ before' = Counted /\ quiet' = (pc = "idle")
  /\ stale' = (renaming = "runtime" /\ captured)
  /\ UNCHANGED <<kernel, service, monitor, history, disk, ticking, renamer, renames, crashes,
                 gone, naming>>

(* MonitorRuntime::remove_device.                                          *)
DeleteRuntime ==
  /\ deleting = "runtime" /\ deleting' = "recent"
  /\ registry' = Absent /\ baseline' = 0 /\ total' = {}
  /\ acked' = Absent /\ holds' = FALSE
  /\ UNCHANGED <<kernel, service, shown, history, disk, ticking, renamer, bounds, deletion>>

(* TrafficHistory::remove_device.                                          *)
DeleteRecent ==
  /\ deleting = "recent" /\ deleting' = "histogram"
  /\ recent' = {}
  /\ UNCHANGED <<kernel, service, monitor, shown, histogram, disk, ticking, renamer, bounds, deletion,
                 naming>>

(* Mutation of DeleteHistogram: the current hour is forgotten.             *)
DeleteCompleted ==
  /\ deleting = "histogram" /\ deleting' = "rows"
  /\ completed' = {}
  /\ UNCHANGED <<kernel, service, monitor, shown, recent, current, disk, ticking, renamer, bounds,
                 deletion, naming>>

(* HistogramHistory::remove_device.                                        *)
DeleteHistogram ==
  /\ deleting = "histogram" /\ deleting' = "rows"
  /\ current' = {} /\ completed' = {}
  /\ UNCHANGED <<kernel, service, monitor, shown, recent, disk, ticking, renamer, bounds, deletion,
                 naming>>

(* delete_device_traffic.                                                  *)
DeleteRows ==
  /\ deleting = "rows" /\ deleting' = "devices"
  /\ dbBuckets' = {} /\ dbPoints' = {}
  /\ UNCHANGED <<kernel, service, monitor, shown, history, dbDevice, ticking, renamer, bounds,
                 deletion, naming>>

(* persist_device_deletion_state; then the client is answered.             *)
DeleteDevices ==
  /\ deleting = "devices" /\ deleting' = "points"
  /\ dbDevice' = registry
  /\ UNCHANGED <<kernel, service, monitor, shown, history, dbPoints, dbBuckets, ticking, renamer,
                 bounds, deletion, naming>>

DeletePoints ==
  /\ deleting = "points" /\ deleting' = "no"
  /\ dbPoints' = current
  /\ gone' = (quiet /\ ~stale)
  /\ before' = {} /\ quiet' = FALSE /\ stale' = FALSE
  /\ UNCHANGED <<kernel, service, monitor, shown, history, dbDevice, dbBuckets, ticking, renamer,
                 bounds, naming>>

(* The client disconnects and the handler is dropped at one of its locks.  *)
DropDelete ==
  /\ deleting # "no" /\ deleting' = "no"
  /\ before' = {} /\ quiet' = FALSE /\ stale' = FALSE
  /\ UNCHANGED <<kernel, service, monitor, shown, history, disk, ticking, renamer, bounds, gone,
                 naming>>

-----------------------------------------------------------------------------
(* set_device_hostname_handler: the snapshot, the registry, the database.   *)

RenameShown(name) ==
  /\ running /\ stopping = "no" /\ renaming = "no" /\ renames < MaxRenames
  /\ renaming' = "runtime" /\ renames' = renames + 1
  /\ newName' = name /\ captured' = (shown # Absent)
  /\ shown' = IF shown = Absent THEN Absent ELSE name
  /\ UNCHANGED <<kernel, service, monitor, history, disk, ticking, deleting, deletes, crashes,
                 deletion, naming>>

RenameEnds == renaming' = "no" /\ newName' = Absent /\ captured' = FALSE

(* Mutation of RenameRuntime: whatever the snapshot had.                   *)
RenameAnyDevice ==
  /\ renaming = "runtime"
  /\ registry' = newName /\ renaming' = "save"
  /\ acked' = Absent /\ holds' = TRUE
  /\ UNCHANGED <<kernel, service, baseline, total, shown, history, disk, ticking, deleting,
                 bounds, deletion, newName, captured>>

(* A device that is not known but was in the snapshot becomes known.       *)
RenameRuntime ==
  /\ renaming = "runtime"
  /\ IF registry # Absent \/ captured
       THEN /\ registry' = newName /\ renaming' = "save"
            /\ acked' = Absent /\ holds' = TRUE
            /\ UNCHANGED <<newName, captured>>
       ELSE RenameEnds /\ UNCHANGED <<registry, naming>>
  /\ UNCHANGED <<kernel, service, baseline, total, shown, history, disk, ticking, deleting,
                 bounds, deletion>>

RenameSave ==
  /\ renaming = "save" /\ RenameEnds
  /\ dbDevice' = registry
  /\ acked' = IF holds THEN newName ELSE acked
  /\ holds' = FALSE
  /\ UNCHANGED <<kernel, service, monitor, shown, history, dbPoints, dbBuckets, ticking, deleting,
                 bounds, deletion>>

DropRename ==
  /\ renaming # "no" /\ RenameEnds
  /\ holds' = FALSE
  /\ UNCHANGED <<kernel, service, monitor, shown, history, disk, ticking, deleting, bounds,
                 deletion, acked>>

-----------------------------------------------------------------------------
(* An orderly shutdown: flush_on_shutdown, once the requests in flight have *)
(* been answered and while the collector goes on; then the process ends.    *)
FlushDevices ==
  /\ running /\ stopping = "no" /\ stopping' = "points" /\ crashes < MaxCrashes
  /\ deleting = "no" /\ renaming = "no"
  /\ dbDevice' = registry
  /\ UNCHANGED <<kernel, running, monitor, shown, history, dbPoints, dbBuckets, ticking, deleting,
                 renamer, bounds, deletion, naming>>

FlushPoints ==
  /\ stopping = "points" /\ stopping' = "done"
  /\ dbPoints' = current
  /\ UNCHANGED <<kernel, running, monitor, shown, history, dbDevice, dbBuckets, ticking, deleting,
                 renamer, bounds, deletion, naming>>

(* The process ends or is killed, maybe between the two DELETE statements   *)
(* of delete_device_traffic, which are not a transaction.                  *)
Crash ==
  /\ running /\ crashes < MaxCrashes
  /\ running' = FALSE /\ stopping' = "no" /\ crashes' = crashes + 1
  /\ registry' = Absent /\ baseline' = 0 /\ total' = {} /\ shown' = Absent
  /\ recent' = {} /\ current' = {} /\ completed' = {}
  /\ pc' = "idle" /\ data' = Absent /\ pending' = {}
  /\ deleting' = "no" /\ before' = {} /\ quiet' = FALSE /\ stale' = FALSE
  /\ RenameEnds /\ holds' = FALSE
  /\ dbBuckets' \in IF deleting = "rows" THEN {dbBuckets, {}} ELSE {dbBuckets}
  /\ UNCHANGED <<kernel, dbDevice, dbPoints, deletes, renames, gone, acked>>

(* Mutation of Recovered: cumulative_from_completed.                       *)
RecoveredCompleted(hour, hours) == hours

(* cumulative_from_all.                                                    *)
Recovered(hour, hours) == hour \cup hours

(* The saved points are of the current hour, or become a completed bucket.  *)
(* The eBPF program is loaded afresh, and counts from 0.                   *)
Start ==
  /\ ~ running /\ running' = TRUE
  /\ loadedAt' = sent
  /\ registry' = dbDevice /\ shown' = dbDevice
  /\ \/ /\ current' = dbPoints /\ completed' = dbBuckets
        /\ UNCHANGED <<dbPoints, dbBuckets>>
     \/ /\ current' = {} /\ completed' = dbBuckets \cup dbPoints
        /\ dbPoints' = {} /\ dbBuckets' = completed'
  /\ total' = Recovered(current', completed')
  /\ UNCHANGED <<sent, online, stopping, baseline, recent, dbDevice, ticking, deleting, renamer, bounds, deletion,
                 naming>>

-----------------------------------------------------------------------------
Delete == DeleteShown \/ DeleteRuntime \/ DeleteRecent \/ DeleteHistogram \/ DeleteRows \/ DeleteDevices
            \/ DeletePoints \/ DropDelete

Next ==
  \/ Send \/ ComeOrGo
  \/ Collect \/ Chart \/ Ingest \/ AppendBucket \/ Show \/ PersistDevices \/ PersistPoints
  \/ Delete
  \/ \E name \in Names : RenameShown(name)
  \/ RenameRuntime \/ RenameSave \/ DropRename
  \/ FlushDevices \/ FlushPoints \/ Crash \/ Start

Spec == Init /\ [][Next]_vars

-----------------------------------------------------------------------------
(* Properties.                                                             *)

(* A host name a client was told is set stays, in the registry and in the   *)
(* database, through ticks that list the device under the name of a lease,  *)
(* periodic saves and crashes, until it is renamed or deleted.             *)
NameSurvives == acked # Absent => dbDevice = acked /\ (running => registry = acked)

(* A deleted device stays deleted, in the registry, in the snapshot and in   *)
(* the database, through renames, saves, crashes and restarts, until the     *)
(* collector finds it online: unless a tick overlapped the request, or a     *)
(* rename had copied the device from the snapshot and was still to reach the *)
(* registry, where it inserts its copy (api.rs 481-494).                    *)
StaysDeleted == gone => registry = Absent /\ shown = Absent /\ dbDevice = Absent

(* The total that is shown of a device that was never deleted covers the    *)
(* packets its history covers, through hours that end, saves at any point   *)
(* of a tick, crashes and restarts (cumulative_from_all at the start,       *)
(* add_quad at every tick).                                                *)
TotalsAgree ==
  running /\ deletes = 0 =>
    total = current \cup completed
              \cup (IF pc \in {"collected", "charted"} THEN Sampled ELSE {})

Forgotten == before \cap (total' \cup recent' \cup current' \cup completed' \cup dbPoints' \cup dbBuckets') = {}

(* When the client is told that a device is deleted, no store has any of    *)
(* the traffic it had when the request came, if no tick of the collector    *)
(* overlapped the request.                                                 *)
QuietDeleteForgets == [][ DeletePoints /\ quiet => Forgotten ]_vars

(* The same, whatever the collector does meanwhile: what the test of        *)
(* delete_device_handler asserts of the histogram and of the database it    *)
(* reloads once the request has been answered (api.rs 1617-1642).          *)
DeleteForgets == [][ DeletePoints => Forgotten ]_vars
=============================================================================
