------------------------------ MODULE LimitSync ------------------------------
(***************************************************************************)
(* How the policy reaches the data path: once a second the collector task  *)
(* reads which devices the kernel has seen, computes the limits the policy *)
(* asks for (policy.rs 524-585) and rewrites the limit maps entry by entry *)
(* while packets pass (policy.rs 587-683, command.rs 171-186).             *)
(*                                                                         *)
(* The policy is whatever the handlers of PolicyStore make it, between two *)
(* applications: the collector holds the read lock while it applies.  The  *)
(* map of limits by device alone, DEVICE_LIMIT_GLOBAL, stays empty, as     *)
(* base.device_static is.  Which time slots are active at an instant is    *)
(* the subject of module Schedule; here the clock activates any of them.   *)
(***************************************************************************)
EXTENDS Policy, RateLimit, FiniteSetsExt

CONSTANTS
  Runtimes,     \* the policies the handlers may configure
  Topology,     \* the interfaces discovered at startup
  Capacity,     \* MAX_ENTRIES of DEVICE_LIMIT_IFACE
  MaxChanges,   \* bound on the changes of policy, clock and devices seen
  MaxFaults     \* bound on the system calls that fail

ASSUME SyncConstants ==
  /\ Rates \subseteq Limit /\ Absent \notin Limit
  /\ Runtimes \subseteq PolicyRuntime /\ IsFiniteSet(RuleIds)
  /\ Topology \subseteq Ifaces
  /\ Capacity \in Nat /\ MaxChanges \in Nat /\ MaxFaults \in Nat

Pairs == Ifaces \X Macs

VARIABLES
  runtime,       \* ApiState.policy_runtime
  clock,         \* the time slots active now
  seen,          \* the pairs in DEVICE_TRAFFIC_STATS, which never shrinks
  deviceMap,     \* DEVICE_LIMIT_IFACE
  ifaceMap,      \* IFACE_LIMIT
  pc,            \* where the collector is in its tick
  observed,      \* its local observed_pairs
  desiredDevice, desiredIface,  \* its locals of those names
  todo,          \* the entries it still has to insert in the current map
  stale,         \* its local `existing`: the entries it is going to remove
  changes, faults,  \* counted for the bounds
  \* What an observer notes: the devices seen when the tick read them, and whether
  \* that reading failed; the time slots active when the limits were computed, and
  \* whether every removal since then succeeded.
  found, missed, evaluated, clean

kernel   == <<deviceMap, ifaceMap>>
locals   == <<observed, desiredDevice, desiredIface, todo, stale>>
inputs   == <<runtime, clock, seen, changes>>
ghosts   == <<found, missed, evaluated, clean>>
vars     == <<inputs, kernel, pc, locals, faults, ghosts>>

Entry == Limit \cup {Absent}

Empty(keys) == [k \in keys |-> Absent]

Typed ==
  /\ runtime \in Runtimes /\ clock \in SUBSET Slots /\ seen \in SUBSET Pairs
  /\ deviceMap \in [Pairs -> Entry] /\ ifaceMap \in [Ifaces -> Entry]
  /\ pc \in {"idle", "observed", "devices", "ifaces"}
  /\ observed \in SUBSET Pairs /\ found \in SUBSET Pairs /\ missed \in BOOLEAN
  /\ evaluated \in SUBSET Slots /\ clean \in BOOLEAN
  /\ desiredDevice \in [Pairs -> Entry] /\ desiredIface \in [Ifaces -> Entry]
  /\ pc = "devices" => todo \in SUBSET Pairs /\ stale \in SUBSET Pairs
  /\ pc = "ifaces"  => todo \in SUBSET Ifaces /\ stale \in SUBSET Ifaces
  /\ changes \in 0 .. MaxChanges /\ faults \in 0 .. MaxFaults

(* What is still to be inserted is wanted, and nothing that is wanted and    *)
(* written already is still down for removal.                               *)
InHand(desired) ==
  /\ todo \subseteq Configured(desired)
  /\ stale \cap Configured(desired) \subseteq todo

TypeOK ==
  /\ Typed
  /\ pc = "devices" => InHand(desiredDevice)
  /\ pc = "ifaces"  => InHand(desiredIface)

-----------------------------------------------------------------------------
(* compute_desired_limits.                                                 *)

(* Mutation of Merge: the last limit wins.                                 *)
MergeLast(entry, limit) == limit

(* merge_limit: the stricter of the entry there is and the incoming limit. *)
Merge(entry, limit) == IF entry = Absent THEN limit ELSE StricterLimit(entry, limit)

(* An interface limit applies if the interface exists. *)
DesiredIface(r) == [i \in Ifaces |-> IF i \in Topology THEN r.limits[i] ELSE Absent]

GuestApplies(r, i, m) ==
  /\ i \in Topology /\ r.guests[i] # Absent
  /\ i \notin r.disabled /\ <<i, m>> \notin r.whitelist

(* A guest default applies to the devices observed on its interface, a rule *)
(* to its device whether observed or not.                                  *)
RulesInForce(r, active, i, m) ==
  {id \in RulesOf(r, i, m) : i \in Topology /\ r.rules[id].slot \in active}

(* What the guest default grants, and what the rules make of that when they *)
(* are merged into it one after the other.                                 *)
Granted(r, pairs, k) ==
  IF k \in pairs /\ GuestApplies(r, k[1], k[2]) THEN r.guests[k[1]] ELSE Absent

MergeRules(rules, entry, ids) ==
  FoldSet(LAMBDA id, merged : Merge(merged, rules[id].rate), entry, ids)

DesiredDevice(r, active, pairs) ==
  [k \in Pairs |-> MergeRules(r.rules, Granted(r, pairs, k), RulesInForce(r, active, k[1], k[2]))]

-----------------------------------------------------------------------------
Init ==
  /\ runtime \in Runtimes /\ clock \in SUBSET Slots /\ seen = {}
  /\ deviceMap = Empty(Pairs) /\ ifaceMap = Empty(Ifaces)
  /\ pc = "idle" /\ observed = {} /\ todo = {} /\ stale = {}
  /\ found = {} /\ missed = FALSE /\ evaluated = {} /\ clean = TRUE
  /\ desiredDevice = Empty(Pairs) /\ desiredIface = Empty(Ifaces)
  /\ changes = 0 /\ faults = 0

(* What goes on around the collector. *)

Change == changes < MaxChanges /\ changes' = changes + 1

(* The read lock is held from the computation of the limits to the last     *)
(* system call.                                                            *)
ChangePolicy(r) ==
  /\ Change /\ pc \in {"idle", "observed"} /\ r # runtime
  /\ runtime' = r
  /\ UNCHANGED <<clock, seen, kernel, pc, locals, faults, ghosts>>

ChangeClock(active) ==
  /\ Change /\ active # clock
  /\ clock' = active
  /\ UNCHANGED <<runtime, seen, kernel, pc, locals, faults, ghosts>>

(* A packet of a device the kernel has not counted before. *)
SeeDevice(k) ==
  /\ Change /\ k \notin seen
  /\ seen' = seen \cup {k}
  /\ UNCHANGED <<runtime, clock, kernel, pc, locals, faults, ghosts>>

Fault == faults < MaxFaults /\ faults' = faults + 1

(* collect_observed_pairs; an error while iterating reads as no pairs.     *)
Observe ==
  /\ pc = "idle"
  /\ pc' = "observed"
  /\ found' = seen
  /\ \/ observed' = seen /\ missed' = FALSE /\ UNCHANGED faults
     \/ observed' = {} /\ missed' = TRUE /\ Fault
  /\ UNCHANGED <<inputs, kernel, desiredDevice, desiredIface, todo, stale, evaluated, clean>>

(* apply_runtime_policy up to the first map it writes.                     *)
Compute ==
  /\ pc = "observed"
  /\ desiredDevice' = DesiredDevice(runtime, clock, observed)
  /\ desiredIface' = DesiredIface(runtime)
  /\ evaluated' = clock /\ clean' = TRUE
  /\ pc' = "devices"
  /\ todo' = Configured(desiredDevice') /\ stale' = Configured(deviceMap)
  /\ UNCHANGED <<inputs, kernel, observed, faults, found, missed>>

(* An insertion that fails, or the reading of a map before it, ends the     *)
(* application until the next tick: what has been written stays, what is    *)
(* stale stays.                                                            *)
Abort ==
  /\ Fault
  /\ \/ pc = "observed"
     \/ pc \in {"devices", "ifaces"} /\ todo # {}
     \/ pc = "devices" /\ stale = {}
  /\ pc' = "idle"
  /\ UNCHANGED <<inputs, kernel, locals, ghosts>>

Fits(k) == deviceMap[k] # Absent \/ Cardinality(Configured(deviceMap)) < Capacity

(* Mutation of InsertDevice: an entry that is there is left as it is.      *)
InsertDeviceOnce(k) ==
  /\ pc = "devices" /\ k \in todo
  /\ IF Fits(k)
       THEN /\ deviceMap' = IF deviceMap[k] = Absent
                              THEN [deviceMap EXCEPT ![k] = desiredDevice[k]] ELSE deviceMap
            /\ todo' = todo \ {k} /\ stale' = stale \ {k}
            /\ UNCHANGED pc
       ELSE pc' = "idle" /\ UNCHANGED <<deviceMap, todo, stale>>
  /\ UNCHANGED <<inputs, ifaceMap, observed, desiredDevice, desiredIface, faults, ghosts>>

(* Mutation of InsertDevice: the entry stays down for removal.             *)
InsertDeviceStale(k) ==
  /\ pc = "devices" /\ k \in todo
  /\ IF Fits(k)
       THEN /\ deviceMap' = [deviceMap EXCEPT ![k] = desiredDevice[k]]
            /\ todo' = todo \ {k} /\ UNCHANGED <<stale, pc>>
       ELSE pc' = "idle" /\ UNCHANGED <<deviceMap, todo, stale>>
  /\ UNCHANGED <<inputs, ifaceMap, observed, desiredDevice, desiredIface, faults, ghosts>>

InsertDevice(k) ==
  /\ pc = "devices" /\ k \in todo
  /\ IF Fits(k)
       THEN /\ deviceMap' = [deviceMap EXCEPT ![k] = desiredDevice[k]]
            /\ todo' = todo \ {k} /\ stale' = stale \ {k}
            /\ UNCHANGED pc
       ELSE pc' = "idle" /\ UNCHANGED <<deviceMap, todo, stale>>
  /\ UNCHANGED <<inputs, ifaceMap, observed, desiredDevice, desiredIface, faults, ghosts>>

(* Mutation of RemoveDevice: it does not wait for the insertions.          *)
RemoveDeviceEarly(k) ==
  /\ pc = "devices" /\ k \in stale
  /\ deviceMap' = [deviceMap EXCEPT ![k] = Absent]
  /\ stale' = stale \ {k}
  /\ UNCHANGED <<inputs, ifaceMap, pc, observed, desiredDevice, desiredIface, todo, faults, ghosts>>

(* Removals come after the insertions; one that fails is ignored.          *)
RemoveDevice(k) ==
  /\ pc = "devices" /\ todo = {} /\ k \in stale
  /\ \/ deviceMap' = [deviceMap EXCEPT ![k] = Absent] /\ UNCHANGED <<faults, clean>>
     \/ Fault /\ clean' = FALSE /\ UNCHANGED deviceMap
  /\ stale' = stale \ {k}
  /\ UNCHANGED <<inputs, ifaceMap, pc, observed, desiredDevice, desiredIface, todo,
                 found, missed, evaluated>>

DevicesDone ==
  /\ pc = "devices" /\ todo = {} /\ stale = {}
  /\ pc' = "ifaces"
  /\ todo' = Configured(desiredIface) /\ stale' = Configured(ifaceMap)
  /\ UNCHANGED <<inputs, kernel, observed, desiredDevice, desiredIface, faults, ghosts>>

InsertIface(i) ==
  /\ pc = "ifaces" /\ i \in todo
  /\ ifaceMap' = [ifaceMap EXCEPT ![i] = desiredIface[i]]
  /\ todo' = todo \ {i} /\ stale' = stale \ {i}
  /\ UNCHANGED <<inputs, deviceMap, pc, observed, desiredDevice, desiredIface, faults, ghosts>>

RemoveIface(i) ==
  /\ pc = "ifaces" /\ todo = {} /\ i \in stale
  /\ \/ ifaceMap' = [ifaceMap EXCEPT ![i] = Absent] /\ UNCHANGED <<faults, clean>>
     \/ Fault /\ clean' = FALSE /\ UNCHANGED ifaceMap
  /\ stale' = stale \ {i}
  /\ UNCHANGED <<inputs, deviceMap, pc, observed, desiredDevice, desiredIface, todo,
                 found, missed, evaluated>>

IfacesDone ==
  /\ pc = "ifaces" /\ todo = {} /\ stale = {}
  /\ pc' = "idle"
  /\ UNCHANGED <<inputs, kernel, locals, faults, ghosts>>

Sync ==
  \/ Observe \/ Compute \/ DevicesDone \/ IfacesDone
  \/ \E k \in Pairs : InsertDevice(k) \/ RemoveDevice(k)
  \/ \E i \in Ifaces : InsertIface(i) \/ RemoveIface(i)

Next ==
  \/ Sync \/ Abort
  \/ \E r \in Runtimes : ChangePolicy(r)
  \/ \E active \in SUBSET Slots : ChangeClock(active)
  \/ \E k \in Pairs : SeeDevice(k)

Spec == Init /\ [][Next]_vars

(* The collector task runs for as long as the process: its loop never ends. *)
FairSpec == Spec /\ WF_vars(Sync)

-----------------------------------------------------------------------------
(* Properties.                                                             *)

InForce(entry) == IF entry = Absent THEN NoLimits ELSE entry

(* What a device is entitled to, said without reference to any merging: in  *)
(* each field the least budget that anything in force sets, 0 if nothing.  *)
Entitled(r, active, pairs, k) ==
  LET granted == {r.rules[id].rate : id \in RulesInForce(r, active, k[1], k[2])}
                   \cup (IF k \in pairs /\ GuestApplies(r, k[1], k[2])
                           THEN {r.guests[k[1]]} ELSE {})
  IN  [f \in Fields |-> LET budgets == {limit[f] : limit \in granted} \ {0}
                        IN  IF budgets = {} THEN 0 ELSE Min(budgets)]

(* What it is to get in this tick: by the devices that were seen, or none if *)
(* the tick could not read which there are (unwrap_or_default, command.rs   *)
(* 173).                                                                    *)
Expected(k) == Entitled(runtime, evaluated, IF missed THEN {} ELSE found, k)

(* A tick that runs to its end leaves in the kernel exactly what the policy, *)
(* the time and the devices seen ask for, whatever was there before and *)
(* wherever earlier ticks had failed: no limit is missing, none is left     *)
(* over (sync_iface_device_map, sync_iface_map, merge_limit).              *)
TickIsExact ==
  [][ IfacesDone /\ clean =>
        /\ \A k \in Pairs : InForce(deviceMap[k]) = Expected(k)
        /\ \A i \in Ifaces : ifaceMap[i] = DesiredIface(runtime)[i] ]_vars

(* A limit never lapses while it is rewritten, also by a tick that fails     *)
(* half way: every system call that changes the entry of a device makes it  *)
(* what the policy, the time and the devices that were seen entitle it to,  *)
(* so that between two ticks it is limited by its old limit or its new one; *)
(* and the entry of an interface goes only if the policy has no limit for    *)
(* it.  The exception is a tick that could not read the devices: what it     *)
(* writes is what the rules alone entitle a device to, and the guest        *)
(* defaults are lifted until a tick can read the devices again.             *)
NoLapse ==
  [][ /\ \A k \in Pairs :
           deviceMap'[k] # deviceMap[k] => InForce(deviceMap'[k]) = Expected(k)
      /\ \A i \in Ifaces :
           ifaceMap'[i] # ifaceMap[i] => ifaceMap'[i] = DesiredIface(runtime)[i] ]_vars

(* Once policy, clock and devices rest and system calls succeed, the kernel *)
(* comes to hold what the policy asks for and keeps it, if the map has room *)
(* for the old entries and the new ones together: new entries are inserted  *)
(* before stale ones go, and an insertion that fails keeps the stale ones.  *)
Converged ==
  /\ \A k \in Pairs : InForce(deviceMap[k]) = Entitled(runtime, clock, seen, k)
  /\ ifaceMap = DesiredIface(runtime)

Room ==
  Cardinality(Configured(deviceMap) \cup Configured(DesiredDevice(runtime, clock, seen)))
    <= Capacity

EventuallyEnforced == <>[](Room => Converged)
=============================================================================
