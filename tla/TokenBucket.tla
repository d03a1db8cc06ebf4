----------------------------- MODULE TokenBucket -----------------------------
(***************************************************************************)
(* The enforcement half of the eBPF data path: should_drop_by_rate_limit   *)
(* and the two kinds of token buckets it keeps (main.rs 233-456), fed by   *)
(* packets, the clock, and a user space that rewrites the limit maps.      *)
(*                                                                         *)
(* One packet is one action: the packets of one CPU are processed one      *)
(* after the other.  Two CPUs that update one bucket at once, which the    *)
(* program does not prevent, are the subject of module BucketRaces.        *)
(*                                                                         *)
(* Map entries that are absent: an absent limit behaves in every branch of *)
(* the source as a limit whose four fields are 0, so limits are total      *)
(* functions; an absent bucket is NoBucket.                                *)
(***************************************************************************)
EXTENDS RateLimit, FiniteSets

CONSTANTS
  Ifaces, Macs,  \* interface indexes and device MAC addresses
  NoMac,         \* the packet of an L3 interface, which has no Ethernet header
  NoBucket,      \* no entry in a bucket map
  IfaceLimits, GlobalLimits, DeviceLimits,  \* what user space may write in each map
  Traffic,       \* the <<version, direction>> pairs that packets have
  Lengths,       \* packet lengths
  MaxLength,     \* the longest packet
  MaxEntries,    \* MAX_ENTRIES, the capacity of each bucket map
  Ticks,         \* the steps of the clock (bpf_ktime_get_ns)
  MaxTime,       \* bound on the clock
  MaxSpent       \* bound on what a meter counts of packets no bucket is charged for

ASSUME DataPathConstants ==
  /\ NoMac \notin Macs /\ NoBucket \notin Bucket /\ NoBucket \notin [Fields -> Bucket]
  /\ IfaceLimits \subseteq Limit /\ GlobalLimits \subseteq Limit /\ DeviceLimits \subseteq Limit
  /\ Traffic \subseteq Versions \X Directions
  /\ MaxLength \in U64 /\ Lengths \subseteq 1 .. MaxLength
  /\ MaxEntries \in Nat /\ Ticks \subseteq Nat \ {0} /\ MaxTime \in Nat /\ MaxSpent \in Nat

VARIABLES
  now,                \* the clock
  ifaceLimit,         \* IFACE_LIMIT
  deviceLimitGlobal,  \* DEVICE_LIMIT_GLOBAL
  deviceLimitIface,   \* DEVICE_LIMIT_IFACE
  ifaceBuckets,       \* IFACE_RATE_BUCKETS, by interface and field
  deviceBuckets,      \* DEVICE_RATE_BUCKETS, by interface and MAC
  \* What an observer measures: for each budget, the bytes admitted by it since
  \* a start of the observer's choice.  No action of the program reads these.
  ifaceMeter, deviceMeter

limits  == <<ifaceLimit, deviceLimitGlobal, deviceLimitIface>>
buckets == <<ifaceBuckets, deviceBuckets>>
meters  == <<ifaceMeter, deviceMeter>>
vars    == <<now, limits, buckets, meters>>

IfaceKeys       == Ifaces \X Fields
DeviceKeys      == Ifaces \X Macs
DeviceFieldKeys == Ifaces \X Macs \X Fields

Meter == [start : Nat, credit : Nat, spent : Nat]

TypeOK ==
  /\ now \in Nat
  /\ ifaceLimit \in [Ifaces -> Limit]
  /\ deviceLimitGlobal \in [Macs -> Limit]
  /\ deviceLimitIface \in [DeviceKeys -> Limit]
  /\ ifaceBuckets \in [IfaceKeys -> Bucket \cup {NoBucket}]
  /\ deviceBuckets \in [DeviceKeys -> [Fields -> Bucket] \cup {NoBucket}]
  /\ ifaceMeter \in [IfaceKeys -> Meter]
  /\ deviceMeter \in [DeviceFieldKeys -> Meter]

-----------------------------------------------------------------------------
(* Budgets in force, 0 when nothing is limited.                            *)

IfaceBudget(k) == EffectiveBudget(ifaceLimit[k[1]][k[2]])

DeviceLimit(k) == StricterLimit(deviceLimitGlobal[k[2]], deviceLimitIface[k])

DeviceBudget(k) == EffectiveBudget(DeviceLimit(<<k[1], k[2]>>)[k[3]])

(* A meter opened now, on a bucket holding `tokens` and refilled at the     *)
(* rate `budget`: what may pass at once is what is left or a full burst.    *)
Fresh(tokens, budget) ==
  [start |-> now, spent |-> 0,
   credit |-> Greater(tokens, Greater(TokensForWindow(budget, BurstWindow), MaxLength))]

IfaceTokens(k) == IF ifaceBuckets[k] = NoBucket THEN 0 ELSE ifaceBuckets[k].tokens

DeviceTokens(k) ==
  LET b == deviceBuckets[<<k[1], k[2]>>] IN IF b = NoBucket THEN 0 ELSE b[k[3]].tokens

Init ==
  /\ now = 0
  /\ ifaceLimit = [i \in Ifaces |-> NoLimits]
  /\ deviceLimitGlobal = [m \in Macs |-> NoLimits]
  /\ deviceLimitIface = [k \in DeviceKeys |-> NoLimits]
  /\ ifaceBuckets = [k \in IfaceKeys |-> NoBucket]
  /\ deviceBuckets = [k \in DeviceKeys |-> NoBucket]
  /\ ifaceMeter = [k \in IfaceKeys |-> Fresh(0, 0)]
  /\ deviceMeter = [k \in DeviceFieldKeys |-> Fresh(0, 0)]

-----------------------------------------------------------------------------
(* The life of a bucket under one packet: consume_iface_bucket and          *)
(* consume_device_bucket.                                                   *)

Full(map) == Cardinality({k \in DOMAIN map : map[k] # NoBucket}) >= MaxEntries

(* Mutation of Store: a new entry is never inserted.                       *)
StoreExisting(map, k, b) == IF map[k] = NoBucket THEN map ELSE [map EXCEPT ![k] = b]

(* An existing entry is updated in place; a new one is inserted unless the *)
(* map is full, and the result of the insertion is ignored.                *)
Store(map, k, b) ==
  IF map[k] = NoBucket /\ Full(map) THEN map ELSE [map EXCEPT ![k] = b]

Spend(meter, k, b, len) ==
  IF Admits(b, len) THEN [meter EXCEPT ![k].spent = @ + len] ELSE meter

(* The interface's bucket as the packet finds it, refilled or created.     *)
IfaceBucket(k, len) ==
  IF ifaceBuckets[k] = NoBucket
    THEN NewBucket(IfaceBudget(k), now)
    ELSE Refill(ifaceBuckets[k], IfaceBudget(k), now, len)

(* A device's entry holds the buckets of all four fields; creating it fills *)
(* all of them, an update refills the field of the packet.                  *)
DeviceEntry(k, f, len) ==
  IF deviceBuckets[k] = NoBucket
    THEN [g \in Fields |-> NewBucket(EffectiveBudget(DeviceLimit(k)[g]), now)]
    ELSE [deviceBuckets[k] EXCEPT ![f] =
            Refill(@, DeviceBudget(<<k[1], k[2], f>>), now, len)]

ConsumeIface(k, len) ==
  /\ ifaceBuckets' = Store(ifaceBuckets, k, Charge(IfaceBucket(k, len), len))
  /\ ifaceMeter' = Spend(ifaceMeter, k, IfaceBucket(k, len), len)

ConsumeDevice(k, f, len) ==
  LET entry == DeviceEntry(k, f, len)
  IN  /\ deviceBuckets' = Store(deviceBuckets, k, [entry EXCEPT ![f] = Charge(@, len)])
      /\ deviceMeter' = Spend(deviceMeter, <<k[1], k[2], f>>, entry[f], len)

(* should_drop_by_rate_limit: the interface's budget first; a packet it     *)
(* drops is not charged to the device, a packet the device's budget drops   *)
(* has already been charged to the interface.                               *)
IfaceStage(k, len) ==
  IF IfaceBudget(k) > 0 THEN ConsumeIface(k, len) ELSE UNCHANGED <<ifaceBuckets, ifaceMeter>>

(* Mutation of IfaceDrops: both budgets are consumed, whatever the first says. *)
NeverDrops(k, len) == FALSE

IfaceDrops(k, len) == IfaceBudget(k) > 0 /\ ~ Admits(IfaceBucket(k, len), len)

DeviceLimited(i, m, f) == m \in Macs /\ DeviceBudget(<<i, m, f>>) > 0

Packet(i, m, f, len) ==
  /\ ifaceMeter[<<i, f>>].spent <= MaxSpent
  /\ m \in Macs => deviceMeter[<<i, m, f>>].spent <= MaxSpent
  /\ IfaceStage(<<i, f>>, len)
  /\ IF ~ IfaceDrops(<<i, f>>, len) /\ DeviceLimited(i, m, f)
       THEN ConsumeDevice(<<i, m>>, f, len)
       ELSE UNCHANGED <<deviceBuckets, deviceMeter>>
  /\ UNCHANGED <<now, limits>>

-----------------------------------------------------------------------------
(* User space rewrites one entry of a limit map (policy.rs 615-683). Buckets *)
(* are left alone: a bucket outlives its limit. The observer restarts the   *)
(* meters whose budget changes.                                             *)

RestartIfaces ==
  ifaceMeter' = [k \in IfaceKeys |->
    IF IfaceBudget(k)' = IfaceBudget(k)
      THEN ifaceMeter[k] ELSE Fresh(IfaceTokens(k), IfaceBudget(k)')]

RestartDevices ==
  deviceMeter' = [k \in DeviceFieldKeys |->
    IF DeviceBudget(k)' = DeviceBudget(k)
      THEN deviceMeter[k] ELSE Fresh(DeviceTokens(k), DeviceBudget(k)')]

WriteIfaceLimit(i, limit) ==
  /\ ifaceLimit[i] # limit
  /\ ifaceLimit' = [ifaceLimit EXCEPT ![i] = limit]
  /\ RestartIfaces
  /\ UNCHANGED <<now, deviceLimitGlobal, deviceLimitIface, buckets, deviceMeter>>

WriteDeviceGlobal(m, limit) ==
  /\ deviceLimitGlobal[m] # limit
  /\ deviceLimitGlobal' = [deviceLimitGlobal EXCEPT ![m] = limit]
  /\ UNCHANGED <<now, ifaceLimit, deviceLimitIface, buckets, ifaceMeter>>
  /\ RestartDevices

WriteDeviceIface(k, limit) ==
  /\ deviceLimitIface[k] # limit
  /\ deviceLimitIface' = [deviceLimitIface EXCEPT ![k] = limit]
  /\ UNCHANGED <<now, ifaceLimit, deviceLimitGlobal, buckets, ifaceMeter>>
  /\ RestartDevices

Tick(d) ==
  /\ now + d <= MaxTime
  /\ now' = now + d
  /\ UNCHANGED <<limits, buckets, meters>>

(* The observer may start measuring at any instant.                        *)
ObserveIface(k) ==
  /\ ifaceMeter' = [ifaceMeter EXCEPT ![k] = Fresh(IfaceTokens(k), IfaceBudget(k))]
  /\ UNCHANGED <<now, limits, buckets, deviceMeter>>

ObserveDevice(k) ==
  /\ deviceMeter' = [deviceMeter EXCEPT ![k] = Fresh(DeviceTokens(k), DeviceBudget(k))]
  /\ UNCHANGED <<now, limits, buckets, ifaceMeter>>

Next ==
  \/ \E i \in Ifaces, m \in Macs \cup {NoMac}, t \in Traffic, len \in Lengths :
       Packet(i, m, FieldOf(t[1], t[2]), len)
  \/ \E i \in Ifaces, limit \in IfaceLimits : WriteIfaceLimit(i, limit)
  \/ \E m \in Macs, limit \in GlobalLimits : WriteDeviceGlobal(m, limit)
  \/ \E k \in DeviceKeys, limit \in DeviceLimits : WriteDeviceIface(k, limit)
  \/ \E d \in Ticks : Tick(d)
  \/ \E i \in Ifaces, t \in Traffic : ObserveIface(<<i, FieldOf(t[1], t[2])>>)
  \/ \E i \in Ifaces, m \in Macs, t \in Traffic : ObserveDevice(<<i, m, FieldOf(t[1], t[2])>>)

Spec == Init /\ [][Next]_vars

-----------------------------------------------------------------------------
(* Properties.                                                             *)

Metered(w, budget) == w.spent * Second <= (w.credit + 1) * Second + budget * (now - w.start)

(* A rate limit is a rate: whatever the packets, their lengths and their    *)
(* timing, and whatever was idle or refused before, an interface's bucket   *)
(* admits in every window no more than a burst (or what an older limit left *)
(* in it), one byte of rounding, and its effective budget over the length   *)
(* of the window (consume_iface_bucket, refill_bucket).                     *)
IfaceConformance ==
  \A k \in IfaceKeys :
    ifaceBuckets[k] # NoBucket => Metered(ifaceMeter[k], IfaceBudget(k))

(* The same of each field of each device, under the stricter of its global  *)
(* and its per-interface limit (consume_device_bucket).                     *)
DeviceConformance ==
  \A k \in DeviceFieldKeys :
    deviceBuckets[<<k[1], k[2]>>] # NoBucket => Metered(deviceMeter[k], DeviceBudget(k))

(* No packet of a limited key is admitted without a bucket to charge it to, *)
(* save when the bucket map is full and its insertion failed (main.rs 355,  *)
(* 415: the result of the insertion is dropped).                            *)
NothingUncharged ==
  /\ \A k \in IfaceKeys :
       ifaceBuckets[k] = NoBucket /\ ifaceMeter[k].spent > 0 => Full(ifaceBuckets)
  /\ \A k \in DeviceFieldKeys :
       deviceBuckets[<<k[1], k[2]>>] = NoBucket /\ deviceMeter[k].spent > 0
         => Full(deviceBuckets)

Bounded(tokens, f, configured) ==
  \/ tokens <= MaxLength
  \/ \E limit \in configured :
       tokens <= TokensForWindow(EffectiveBudget(limit[f]), BurstWindow)

(* Tokens never pile up, however long a key is idle and whichever limits    *)
(* replace one another: no bucket ever holds more than the longest packet   *)
(* or the burst of a limit that was configured for its field (the cap of    *)
(* refill_bucket).                                                          *)
BurstBounded ==
  /\ \A k \in IfaceKeys : Bounded(IfaceTokens(k), k[2], IfaceLimits)
  /\ \A k \in DeviceFieldKeys : Bounded(DeviceTokens(k), k[3], GlobalLimits \cup DeviceLimits)

(* The two budgets are a conjunction: a device's bucket never pays for a    *)
(* packet that the budget of its interface refused                         *)
(* (should_drop_by_rate_limit: the device's bucket is consumed second).    *)
IfaceGates ==
  [][ \A k \in DeviceFieldKeys :
        /\ deviceMeter'[k].spent > deviceMeter[k].spent
        /\ IfaceBudget(<<k[1], k[3]>>) > 0
        => ifaceMeter'[<<k[1], k[3]>>].spent > ifaceMeter[<<k[1], k[3]>>].spent ]_vars

-----------------------------------------------------------------------------
(* The inductive invariant behind conformance. What a bucket still holds    *)
(* and what the meter counted are paid for together: by the credit of the   *)
(* start while the bucket has not been refilled since, and by the time up   *)
(* to the last refill after that. A bucket that was charged before its      *)
(* first refill of the window owes less than a byte of older time.          *)

Balanced(b, w, budget, t) ==
  /\ b.last <= t
  /\ IF w.start <= b.last
       THEN (w.spent + b.tokens) * Second
              <= (w.credit + 1) * Second + budget * (b.last - w.start)
       ELSE /\ w.spent + b.tokens <= w.credit
            /\ w.spent > 0 => budget * (w.start - b.last) < Second

CreditCovers(w, budget, t) ==
  /\ w.start <= t
  /\ TokensForWindow(budget, BurstWindow) <= w.credit /\ MaxLength <= w.credit

IfaceInv ==
  \A k \in IfaceKeys :
    /\ CreditCovers(ifaceMeter[k], IfaceBudget(k), now)
    /\ ifaceBuckets[k] = NoBucket => ifaceMeter[k].spent = 0 \/ Full(ifaceBuckets)
    /\ ifaceBuckets[k] # NoBucket
         => Balanced(ifaceBuckets[k], ifaceMeter[k], IfaceBudget(k), now)

DeviceInv ==
  \A k \in DeviceFieldKeys :
    LET entry == deviceBuckets[<<k[1], k[2]>>]
    IN  /\ CreditCovers(deviceMeter[k], DeviceBudget(k), now)
        /\ entry = NoBucket => deviceMeter[k].spent = 0 \/ Full(deviceBuckets)
        /\ entry # NoBucket => Balanced(entry[k[3]], deviceMeter[k], DeviceBudget(k), now)
=============================================================================
