------------------------------ MODULE Counters ------------------------------
(***************************************************************************)
(* One traffic counter: the CPUs that bump it in the eBPF program (main.rs *)
(* 207-231) and the collector that turns its readings into totals          *)
(* (monitor.rs 1117-1147, 1231-1244, delta_bytes 1308).                    *)
(*                                                                         *)
(* The program adds with a load, an addition and a store, and looks up and *)
(* inserts in two calls: neither is atomic, and packets of one key run on  *)
(* several CPUs.  Insertion over an entry replaces it, and a CPU that holds *)
(* a pointer to the old entry stores into that.  The values stay far below *)
(* 2^64, and the program is loaded once.                                   *)
(***************************************************************************)
EXTENDS Naturals

CONSTANTS
  CPUs,      \* the processors that packets of the key arrive on
  Lengths,   \* packet lengths
  Absent,    \* no entry in the map
  MaxBytes   \* bound on the bytes that pass

ASSUME CountersConstants ==
  /\ Lengths \subseteq Nat \ {0} /\ MaxBytes \in Nat
  /\ Absent \notin [from : Nat, bytes : Nat]

VARIABLES
  entry,    \* the map's entry: its bytes, and which insertion it is from
  inserted, \* the number of insertions so far
  room,     \* can the map take another key
  cpu,      \* what each CPU is doing for a packet
  prev,     \* prev_iface_bytes, prev_device_bytes: the last reading
  total,    \* cumulative_iface, cumulative_device
  \* What an observer notes: the bytes of all packets bumped so far; whether two
  \* CPUs have ever been at the counter at once, one storing or inserting what the
  \* other has overtaken; whether such a store has taken the counter back below
  \* what the collector had read in between.
  passed, raced, rewound

observed == <<passed, raced, rewound>>
counterVars == <<entry, inserted, room, cpu, prev, total, observed>>

Idle == [doing |-> "nothing"]

Work ==
  {Idle} \cup [doing : {"insert"}, len : Lengths]
         \cup [doing : {"store"}, len : Lengths, from : Nat, loaded : Nat]

CounterTypeOK ==
  /\ entry \in [from : Nat, bytes : Nat] \cup {Absent}
  /\ inserted \in Nat /\ room \in BOOLEAN /\ cpu \in [CPUs -> Work]
  /\ prev \in Nat /\ total \in Nat /\ passed \in Nat /\ raced \in BOOLEAN
  /\ rewound \in BOOLEAN

CounterInit ==
  /\ entry = Absent /\ inserted = 0 /\ room = TRUE
  /\ cpu = [c \in CPUs |-> Idle]
  /\ prev = 0 /\ total = 0 /\ passed = 0 /\ raced = FALSE /\ rewound = FALSE

-----------------------------------------------------------------------------
(* bump_iface_counter, bump_device_counter.                                *)

Does(c, work) == cpu' = [cpu EXCEPT ![c] = work]

(* get_ptr_mut, and the load of the bytes if there is an entry.            *)
LookUp(c, len) ==
  /\ cpu[c] = Idle /\ passed + len <= MaxBytes
  /\ Does(c, IF entry = Absent
               THEN [doing |-> "insert", len |-> len]
               ELSE [doing |-> "store", len |-> len, from |-> entry.from, loaded |-> entry.bytes])
  /\ UNCHANGED <<entry, inserted, room, prev, total, observed>>

(* Mutation of Store: it adds to what the entry holds now.                 *)
StoreAfresh(c) ==
  /\ cpu[c].doing = "store"
  /\ entry' = [entry EXCEPT !.bytes = @ + cpu[c].loaded + cpu[c].len]
  /\ passed' = passed + cpu[c].len
  /\ raced' = (raced \/ entry # [from |-> cpu[c].from, bytes |-> cpu[c].loaded])
  /\ Does(c, Idle)
  /\ UNCHANGED <<inserted, room, prev, total, rewound>>

Store(c) ==
  /\ cpu[c].doing = "store"
  /\ entry' = IF entry.from = cpu[c].from
                THEN [entry EXCEPT !.bytes = cpu[c].loaded + cpu[c].len] ELSE entry
  /\ passed' = passed + cpu[c].len
  /\ raced' = (raced \/ entry # [from |-> cpu[c].from, bytes |-> cpu[c].loaded])
  /\ rewound' = (rewound \/ (entry.bytes >= prev /\ prev > entry'.bytes))
  /\ Does(c, Idle)
  /\ UNCHANGED <<inserted, room, prev, total>>

(* Its result is ignored: without room the packet goes uncounted.          *)
Insert(c) ==
  /\ cpu[c].doing = "insert"
  /\ IF room \/ entry # Absent
       THEN /\ entry' = [from |-> inserted + 1, bytes |-> cpu[c].len]
            /\ inserted' = inserted + 1
       ELSE UNCHANGED <<entry, inserted>>
  /\ passed' = passed + cpu[c].len
  /\ raced' = (raced \/ entry # Absent)
  /\ Does(c, Idle)
  /\ UNCHANGED <<room, prev, total, rewound>>

(* Other keys fill the map, which never shrinks.                           *)
FillUp ==
  /\ room /\ entry = Absent /\ room' = FALSE
  /\ UNCHANGED <<entry, inserted, cpu, prev, total, observed>>

-----------------------------------------------------------------------------
(* Mutation of Delta: the reading itself.                                  *)
DeltaAll(current, previous) == current

Delta(current, previous) == IF current >= previous THEN current - previous ELSE current

(* Mutation of Read: only a larger reading is the next baseline.           *)
ReadHighest ==
  /\ IF entry = Absent
       THEN UNCHANGED <<total, prev>>
       ELSE /\ total' = total + Delta(entry.bytes, prev)
            /\ prev' = IF entry.bytes > prev THEN entry.bytes ELSE prev
  /\ UNCHANGED <<entry, inserted, room, cpu, observed>>

(* A reading of collect_snapshot.  A key that is absent is not read.       *)
Read ==
  /\ IF entry = Absent
       THEN UNCHANGED <<total, prev>>
       ELSE /\ total' = total + Delta(entry.bytes, prev)
            /\ prev' = entry.bytes
  /\ UNCHANGED <<entry, inserted, room, cpu, observed>>

CounterNext ==
  \/ \E c \in CPUs, len \in Lengths : LookUp(c, len)
  \/ \E c \in CPUs : Store(c) \/ Insert(c)
  \/ FillUp \/ Read

CounterSpec == CounterInit /\ [][CounterNext]_counterVars

-----------------------------------------------------------------------------
(* Unless two CPUs were at the counter at once, no byte is lost or counted  *)
(* twice between the packet and the total, whenever the collector reads:    *)
(* what is in the total and what the next reading adds is what has passed.  *)
(* The exception is a map that was full when the key first came.           *)
TotalIsTraffic ==
  ~ raced => IF entry = Absent THEN passed > 0 => ~ room
                               ELSE total + Delta(entry.bytes, prev) = passed

(* Whatever the CPUs do to each other's updates, a counter never holds more *)
(* than the bytes that passed: races lose traffic in the map, never invent  *)
(* it.                                                                     *)
NeverOvercounts == entry # Absent => entry.bytes <= passed

(* Nor does the collector's total, with what the next reading adds: an entry *)
(* that another one replaced is a counter that starts afresh, and what it    *)
(* holds is added whole (delta_bytes). The one exception is a CPU that had   *)
(* loaded the counter before another one stored, and stores after the        *)
(* collector has read it.                                                   *)
RecountOnlyRewound ==
  ~ rewound /\ entry # Absent => total + Delta(entry.bytes, prev) <= passed

(* The total is made of increments of the counter ("computes the increment   *)
(* of a counter", the comment on delta_bytes, monitor.rs 1307), so that it   *)
(* never has more than what passed while the program stays loaded. It does:  *)
(* a counter that was taken back below its last reading counts as one that   *)
(* was reset, and is added whole though most of it was in the total.        *)
IncrementsAddUp == total <= passed
=============================================================================
