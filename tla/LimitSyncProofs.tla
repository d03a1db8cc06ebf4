-------------------------- MODULE LimitSyncProofs --------------------------
(***************************************************************************)
(* What a tick computes, rule after rule, is what the policy entitles each  *)
(* device to; every step of the rewriting gives a device that and nothing   *)
(* else, and a tick that runs to its end has given it to every device: for  *)
(* any policies, devices and failures.  And the time slots that it asks for are *)
(* active exactly during their occurrences, for a day of any length.       *)
(***************************************************************************)
EXTENDS LimitSync, Schedule, FiniteSetTheorems, TLAPS

(* A map and the limits wanted in it are functions of the same keys.        *)
Maps ==
  /\ deviceMap = [k \in Pairs |-> deviceMap[k]] /\ ifaceMap = [i \in Ifaces |-> ifaceMap[i]]
  /\ desiredDevice = [k \in Pairs |-> desiredDevice[k]]
  /\ desiredIface = [i \in Ifaces |-> desiredIface[i]]
  /\ Topology \subseteq Ifaces

(* While a map is written, what is still to be inserted is wanted, and what  *)
(* is going to be removed is not, unless it is to be inserted before; all    *)
(* other entries are as wanted already, unless a removal has failed.         *)
Writing(map, desired, keys) ==
  /\ todo \subseteq keys /\ stale \subseteq keys
  /\ \A k \in todo : desired[k] # Absent
  /\ \A k \in stale \ todo : desired[k] = Absent
  /\ clean => \A k \in keys \ (todo \cup stale) : map[k] = desired[k]

SyncInv ==
  /\ Maps
  /\ \A i \in Ifaces : ifaceMap[i] # Absent => i \in Topology
  /\ pc \in {"devices", "ifaces"} => desiredIface = DesiredIface(runtime)
  /\ pc = "devices" => Writing(deviceMap, desiredDevice, Pairs)
  /\ pc = "ifaces" => Writing(ifaceMap, desiredIface, Ifaces)
  /\ pc = "ifaces" /\ clean => \A k \in Pairs : deviceMap[k] = desiredDevice[k]

LEMMA SyncInit == Init => SyncInv
  BY SyncConstants DEF Init, SyncInv, Maps, Empty

(* The steps outside the writing of the maps.                              *)
LEMMA SyncElsewhere ==
  ASSUME SyncInv, UNCHANGED <<kernel, desiredDevice, desiredIface>>,
         pc' \in {"idle", "observed"} \/ UNCHANGED <<pc, todo, stale, clean, runtime>>
  PROVE  SyncInv'
  BY DEF SyncInv, Maps, Writing, kernel

LEMMA ComputeStep == SyncInv /\ Compute => SyncInv'
<1> SUFFICES ASSUME SyncInv, Compute PROVE SyncInv'
  OBVIOUS
<1>1. desiredDevice' = [k \in Pairs |-> desiredDevice'[k]]
  BY Zenon DEF Compute, DesiredDevice
<1>2. desiredIface' = DesiredIface(runtime') /\ desiredIface' = [i \in Ifaces |-> desiredIface'[i]]
  BY DEF Compute, DesiredIface, inputs
<1>3. UNCHANGED <<deviceMap, ifaceMap>> /\ pc' = "devices"
  BY DEF Compute, kernel
<1>4. Maps'
  BY <1>1, <1>2, <1>3 DEF SyncInv, Maps
<1>5. /\ todo' = {k \in Pairs : desiredDevice'[k] # Absent}
      /\ stale' = {k \in Pairs : deviceMap'[k] # Absent}
  <2>1. DOMAIN desiredDevice' = Pairs /\ DOMAIN deviceMap = Pairs
    BY <1>1 DEF SyncInv, Maps
  <2> QED BY <2>1, <1>3 DEF Compute, Configured
<1>6. Writing(deviceMap, desiredDevice, Pairs)'
  BY <1>5 DEF Writing
<1> QED BY <1>2, <1>3, <1>4, <1>6 DEF SyncInv

LEMMA DevicesDoneStep == SyncInv /\ DevicesDone => SyncInv'
<1> SUFFICES ASSUME SyncInv, DevicesDone PROVE SyncInv'
  OBVIOUS
<1>1. /\ UNCHANGED <<deviceMap, ifaceMap, desiredDevice, desiredIface, runtime, clean>>
      /\ pc = "devices" /\ pc' = "ifaces" /\ todo = {} /\ stale = {}
  BY DEF DevicesDone, kernel, inputs, ghosts
<1>2. /\ todo' = {i \in Ifaces : desiredIface[i] # Absent}
      /\ stale' = {i \in Ifaces : ifaceMap[i] # Absent}
  <2>1. DOMAIN desiredIface = Ifaces /\ DOMAIN ifaceMap = Ifaces
    BY DEF SyncInv, Maps
  <2> QED BY <2>1 DEF DevicesDone, Configured
<1>3. Writing(ifaceMap, desiredIface, Ifaces)'
  BY <1>1, <1>2 DEF Writing
<1>4. clean => \A k \in Pairs : deviceMap[k] = desiredDevice[k]
  BY <1>1 DEF SyncInv, Writing
<1> QED BY <1>1, <1>3, <1>4 DEF SyncInv, Maps

LEMMA InsertDeviceStep ==
  ASSUME SyncInv, NEW k \in Pairs, InsertDevice(k) PROVE SyncInv'
<1>1. CASE Fits(k)
  <2>1. /\ deviceMap' = [deviceMap EXCEPT ![k] = desiredDevice[k]]
        /\ todo' = todo \ {k} /\ stale' = stale \ {k} /\ pc = "devices" /\ pc' = pc /\ k \in todo
        /\ UNCHANGED <<ifaceMap, desiredDevice, desiredIface, runtime, clean>>
    BY <1>1 DEF InsertDevice, inputs, ghosts
  <2>2. Writing(deviceMap, desiredDevice, Pairs)'
    BY <2>1 DEF SyncInv, Maps, Writing
  <2> QED BY <2>1, <2>2 DEF SyncInv, Maps
<1>2. CASE ~ Fits(k)
  BY <1>2, SyncElsewhere DEF InsertDevice, kernel
<1> QED BY <1>1, <1>2

LEMMA RemoveDeviceStep ==
  ASSUME SyncInv, NEW k \in Pairs, RemoveDevice(k) PROVE SyncInv'
<1>1. /\ todo = {} /\ todo' = {} /\ stale' = stale \ {k} /\ k \in stale /\ pc = "devices" /\ pc' = pc
      /\ \/ deviceMap' = [deviceMap EXCEPT ![k] = Absent] /\ clean' = clean
         \/ deviceMap' = deviceMap /\ clean' = FALSE
      /\ UNCHANGED <<ifaceMap, desiredDevice, desiredIface, runtime>>
  BY DEF RemoveDevice, inputs
<1>2. desiredDevice[k] = Absent
  BY <1>1 DEF SyncInv, Writing
<1>3. Writing(deviceMap, desiredDevice, Pairs)'
  BY <1>1, <1>2 DEF SyncInv, Maps, Writing
<1> QED BY <1>1, <1>3 DEF SyncInv, Maps

LEMMA InsertIfaceStep ==
  ASSUME SyncInv, NEW i \in Ifaces, InsertIface(i) PROVE SyncInv'
<1>1. /\ ifaceMap' = [ifaceMap EXCEPT ![i] = desiredIface[i]]
      /\ todo' = todo \ {i} /\ stale' = stale \ {i} /\ pc = "ifaces" /\ pc' = pc /\ i \in todo
      /\ UNCHANGED <<deviceMap, desiredDevice, desiredIface, runtime, clean>>
  BY DEF InsertIface, inputs, ghosts
<1>2. desiredIface[i] # Absent /\ desiredIface = DesiredIface(runtime)
  BY <1>1 DEF SyncInv, Writing
<1>3. i \in Topology
  BY <1>2 DEF DesiredIface
<1>4. Writing(ifaceMap, desiredIface, Ifaces)'
  BY <1>1 DEF SyncInv, Maps, Writing
<1>5. \A j \in Ifaces : ifaceMap'[j] # Absent => j \in Topology
  BY <1>1, <1>3 DEF SyncInv, Maps
<1>6. Maps'
  BY <1>1 DEF SyncInv, Maps
<1> QED BY <1>1, <1>2, <1>4, <1>5, <1>6 DEF SyncInv

LEMMA RemoveIfaceStep ==
  ASSUME SyncInv, NEW i \in Ifaces, RemoveIface(i) PROVE SyncInv'
<1>1. /\ todo = {} /\ todo' = {} /\ stale' = stale \ {i} /\ i \in stale /\ pc = "ifaces" /\ pc' = pc
      /\ \/ ifaceMap' = [ifaceMap EXCEPT ![i] = Absent] /\ clean' = clean
         \/ ifaceMap' = ifaceMap /\ clean' = FALSE
      /\ UNCHANGED <<deviceMap, desiredDevice, desiredIface, runtime>>
  BY DEF RemoveIface, inputs
<1>2. desiredIface[i] = Absent
  BY <1>1 DEF SyncInv, Writing
<1>3. Writing(ifaceMap, desiredIface, Ifaces)'
  BY <1>1, <1>2 DEF SyncInv, Maps, Writing
<1>4. Maps' /\ \A j \in Ifaces : ifaceMap'[j] # Absent => j \in Topology
  BY <1>1 DEF SyncInv, Maps
<1>5. clean' => clean
  BY <1>1
<1> QED BY <1>1, <1>3, <1>4, <1>5 DEF SyncInv

LEMMA SyncStep == SyncInv /\ [Next]_vars => SyncInv'
<1> SUFFICES ASSUME SyncInv, [Next]_vars PROVE SyncInv'
  OBVIOUS
<1> USE DEF inputs, locals, ghosts
<1>1. CASE Observe
  BY <1>1, SyncElsewhere DEF Observe
<1>2. CASE Compute
  BY <1>2, ComputeStep
<1>3. CASE DevicesDone
  BY <1>3, DevicesDoneStep
<1>4. CASE IfacesDone \/ Abort
  BY <1>4, SyncElsewhere DEF IfacesDone, Abort
<1>5. ASSUME NEW k \in Pairs, InsertDevice(k) \/ RemoveDevice(k) PROVE SyncInv'
  BY <1>5, InsertDeviceStep, RemoveDeviceStep
<1>6. ASSUME NEW i \in Ifaces, InsertIface(i) \/ RemoveIface(i) PROVE SyncInv'
  BY <1>6, InsertIfaceStep, RemoveIfaceStep
<1>7. ASSUME NEW r \in Runtimes, ChangePolicy(r) PROVE SyncInv'
  BY <1>7, SyncElsewhere DEF ChangePolicy
<1>8. ASSUME NEW active \in SUBSET Slots, ChangeClock(active) PROVE SyncInv'
  BY <1>8, SyncElsewhere DEF ChangeClock
<1>9. ASSUME NEW k \in Pairs, SeeDevice(k) PROVE SyncInv'
  BY <1>9, SyncElsewhere DEF SeeDevice
<1>10. CASE UNCHANGED vars
  BY <1>10, SyncElsewhere DEF vars
<1> QED BY <1>1, <1>2, <1>3, <1>4, <1>5, <1>6, <1>7, <1>8, <1>9, <1>10 DEF Next, Sync

-----------------------------------------------------------------------------
(* The steps that write neither map.                                       *)
LEMMA MapsRest ==
  ASSUME [Next]_vars,
         \A k \in Pairs : ~ InsertDevice(k) /\ ~ RemoveDevice(k),
         \A i \in Ifaces : ~ InsertIface(i) /\ ~ RemoveIface(i)
  PROVE  UNCHANGED <<deviceMap, ifaceMap>>
<1> USE DEF kernel
<1>1. CASE Observe \/ Compute
  BY <1>1, Zenon DEF Observe, Compute
<1>2. CASE DevicesDone \/ IfacesDone \/ Abort
  BY <1>2 DEF DevicesDone, IfacesDone, Abort
<1>3. CASE \E r \in Runtimes : ChangePolicy(r)
  BY <1>3 DEF ChangePolicy
<1>4. CASE \E active \in SUBSET Slots : ChangeClock(active)
  BY <1>4 DEF ChangeClock
<1>5. CASE \E k \in Pairs : SeeDevice(k)
  BY <1>5 DEF SeeDevice
<1>6. CASE UNCHANGED vars
  BY <1>6 DEF vars
<1> QED BY <1>1, <1>2, <1>3, <1>4, <1>5, <1>6, Zenon DEF Next, Sync

(* An entry that changes becomes what is wanted.                           *)
Strays ==
  \/ \E k \in Pairs : deviceMap'[k] # deviceMap[k] /\ ~ (pc = "devices" /\ deviceMap'[k] = desiredDevice[k])
  \/ \E i \in Ifaces : ifaceMap'[i] # ifaceMap[i] /\ ifaceMap'[i] # DesiredIface(runtime)[i]

LEMMA NothingStrays == SyncInv /\ [Next]_vars => ~ Strays
<1> SUFFICES ASSUME SyncInv, [Next]_vars PROVE ~ Strays
  OBVIOUS
<1>1. ASSUME NEW k \in Pairs, InsertDevice(k) PROVE ~ Strays
  <2>1. /\ UNCHANGED ifaceMap /\ pc = "devices"
        /\ deviceMap' = deviceMap \/ deviceMap' = [deviceMap EXCEPT ![k] = desiredDevice[k]]
    BY <1>1 DEF InsertDevice
  <2> QED BY <2>1 DEF SyncInv, Maps, Strays
<1>2. ASSUME NEW k \in Pairs, RemoveDevice(k) PROVE ~ Strays
  <2>1. /\ UNCHANGED ifaceMap /\ pc = "devices" /\ todo = {} /\ k \in stale
        /\ deviceMap' = deviceMap \/ deviceMap' = [deviceMap EXCEPT ![k] = Absent]
    BY <1>2 DEF RemoveDevice
  <2>2. desiredDevice[k] = Absent
    BY <2>1 DEF SyncInv, Writing
  <2> QED BY <2>1, <2>2 DEF SyncInv, Maps, Strays
<1>3. ASSUME NEW i \in Ifaces, InsertIface(i) PROVE ~ Strays
  <2>1. /\ UNCHANGED deviceMap /\ pc = "ifaces" /\ i \in todo
        /\ ifaceMap' = [ifaceMap EXCEPT ![i] = desiredIface[i]]
    BY <1>3 DEF InsertIface
  <2>2. desiredIface = DesiredIface(runtime)
    BY <2>1 DEF SyncInv
  <2> QED BY <2>1, <2>2 DEF SyncInv, Maps, Strays
<1>4. ASSUME NEW i \in Ifaces, RemoveIface(i) PROVE ~ Strays
  <2>1. /\ UNCHANGED deviceMap /\ pc = "ifaces" /\ todo = {} /\ i \in stale
        /\ ifaceMap' = ifaceMap \/ ifaceMap' = [ifaceMap EXCEPT ![i] = Absent]
    BY <1>4 DEF RemoveIface
  <2>2. desiredIface[i] = Absent /\ desiredIface = DesiredIface(runtime)
    BY <2>1 DEF SyncInv, Writing
  <2> QED BY <2>1, <2>2 DEF SyncInv, Maps, Strays
<1>5. CASE /\ \A k \in Pairs : ~ InsertDevice(k) /\ ~ RemoveDevice(k)
           /\ \A i \in Ifaces : ~ InsertIface(i) /\ ~ RemoveIface(i)
  BY <1>5, MapsRest DEF Strays
<1> QED BY <1>1, <1>2, <1>3, <1>4, <1>5

(* When a tick is done, the maps hold what it has computed.                 *)
LEMMA SyncCopies ==
  SyncInv => (IfacesDone /\ clean => deviceMap = desiredDevice /\ ifaceMap = DesiredIface(runtime))
<1> SUFFICES ASSUME SyncInv, IfacesDone, clean
             PROVE  deviceMap = desiredDevice /\ ifaceMap = DesiredIface(runtime)
  OBVIOUS
<1>1. pc = "ifaces" /\ todo = {} /\ stale = {}
  BY DEF IfacesDone
<1>2. \A k \in Pairs : deviceMap[k] = desiredDevice[k]
  BY <1>1 DEF SyncInv
<1>3. \A i \in Ifaces : ifaceMap[i] = desiredIface[i]
  BY <1>1 DEF SyncInv, Writing
<1>4. deviceMap = desiredDevice /\ ifaceMap = desiredIface
  BY <1>2, <1>3 DEF SyncInv, Maps
<1> QED BY <1>1, <1>4 DEF SyncInv

-----------------------------------------------------------------------------
(* What a tick computes: the fold of the rules in force.                     *)

(* Of the sets in a family, one that contains no other.                     *)
LEMMA SmallestSubset ==
  ASSUME NEW S, IsFiniteSet(S), NEW Bad \in SUBSET SUBSET S, Bad # {}
  PROVE  \E T \in Bad : \A U \in SUBSET T : U \in Bad => U = T
<1> DEFINE R == StrictSubsetOrdering(S)
<1>1. IsWellFoundedOn(R, SUBSET S)
  BY FS_StrictSubsetOrderingWellFounded, FS_FiniteSubsetsOfFinite
<1> HIDE DEF R
<1>2. PICK T \in Bad : \A U \in Bad : <<U, T>> \notin R
  BY <1>1, WFMin
<1>3. ASSUME NEW U \in SUBSET T, U \in Bad PROVE U = T
  BY <1>2, <1>3 DEF R, StrictSubsetOrdering
<1> QED BY <1>2, <1>3

LEMMA MinOf ==
  ASSUME NEW T \in SUBSET Nat, T # {}
  PROVE  Min(T) \in T /\ \A y \in T : Min(T) <= y
<1> DEFINE R == OpToRel(<, Nat)
<1>1. IsWellFoundedOn(R, Nat)
  BY NatLessThanWellFounded, Zenon
<1>2. R = {ss \in Nat \X Nat : ss[1] < ss[2]}
  BY DEF OpToRel
<1> HIDE DEF R
<1>3. PICK x \in T : \A y \in T : <<y, x>> \notin R
  BY <1>1, WFMin
<1>4. \A y \in T : x <= y
  <2> SUFFICES ASSUME NEW y \in T PROVE x <= y
    OBVIOUS
  <2>1. <<y, x>> \in Nat \X Nat /\ ~ (y < x)
    BY <1>2, <1>3
  <2> QED BY <2>1
<1> QED BY <1>4 DEF Min


(* What the fold over the rules is, for each set of them.                   *)
Folded(f, rules, entry, S) ==
  f = [s \in SUBSET S |->
         IF s = {} THEN entry
         ELSE Merge(f[s \ {CHOOSE x \in s : TRUE}], rules[CHOOSE x \in s : TRUE].rate)]

(* Two folds of finitely many rules are the same: where they differ on the   *)
(* fewest, they agree on one fewer.                                        *)
LEMMA FoldIs ==
  ASSUME NEW rules, NEW entry, NEW S, IsFiniteSet(S), NEW g, Folded(g, rules, entry, S)
  PROVE  MergeRules(rules, entry, S) = g[S]
<1>1. PICK iter :
        /\ iter = CHOOSE f : f = [s \in SUBSET S |->
                    IF s = {} THEN entry
                    ELSE Merge(f[s \ {CHOOSE x \in s : TRUE}], rules[CHOOSE x \in s : TRUE].rate)]
        /\ MergeRules(rules, entry, S) = iter[S]
  BY Zenon DEF MergeRules, FoldSet, MapThenFoldSet
<1>2. Folded(iter, rules, entry, S)
  <2>1. iter = CHOOSE f : Folded(f, rules, entry, S)
    BY <1>1, Zenon DEF Folded
  <2> QED BY <2>1
<1>3. ASSUME NEW f, Folded(f, rules, entry, S), NEW T \in SUBSET S
      PROVE  /\ T = {} => f[T] = entry
             /\ T # {} => f[T] = Merge(f[T \ {CHOOSE x \in T : TRUE}], rules[CHOOSE x \in T : TRUE].rate)
  BY <1>3 DEF Folded
<1> DEFINE Bad == {T \in SUBSET S : iter[T] # g[T]}
<1>4. Bad = {}
  <2> SUFFICES ASSUME Bad # {} PROVE FALSE
    OBVIOUS
  <2>0. Bad \in SUBSET SUBSET S
    OBVIOUS
  <2>1. PICK T \in Bad : \A U \in SUBSET T : U \in Bad => U = T
    <3> HIDE DEF Bad
    <3> QED BY <2>0, SmallestSubset
  <2>2. T \in SUBSET S /\ iter[T] # g[T]
    OBVIOUS
  <2>3. T # {}
    BY <1>2, <1>3, <2>2
  <2>4. PICK x : x = CHOOSE y \in T : TRUE
    OBVIOUS
  <2>5. x \in T
    BY <2>3, <2>4
  <2>6. T \ {x} \in SUBSET T /\ T \ {x} # T /\ T \ {x} \in SUBSET S
    BY <2>2, <2>5
  <2>7. iter[T \ {x}] = g[T \ {x}]
    BY <2>1, <2>6
  <2>8. iter[T] = Merge(iter[T \ {x}], rules[x].rate) /\ g[T] = Merge(g[T \ {x}], rules[x].rate)
    BY <1>2, <1>3, <2>2, <2>3, <2>4
  <2> QED BY <2>2, <2>7, <2>8
<1>5. S \in SUBSET S
  OBVIOUS
<1>6. iter[S] = g[S]
  BY <1>4, <1>5
<1> QED BY <1>1, <1>6

(* The least budget that any of the limits sets, field by field.            *)
Strictest(granted) ==
  [f \in Fields |-> LET budgets == {limit[f] : limit \in granted} \ {0}
                    IN  IF budgets = {} THEN 0 ELSE Min(budgets)]

LEMMA StrictestIs ==
  ASSUME NEW A \in SUBSET Limit, NEW f \in Fields
  PROVE  /\ Strictest(A)[f] \in U64
         /\ \A l \in A : l[f] \in U64 /\ (l[f] = 0 \/ (Strictest(A)[f] # 0 /\ Strictest(A)[f] <= l[f]))
         /\ Strictest(A)[f] = 0 \/ \E l \in A : l[f] = Strictest(A)[f]
<1> DEFINE budgets == {limit[f] : limit \in A} \ {0}
<1>1. \A l \in A : l[f] \in U64
  BY DEF Limit
<1>2. budgets \in SUBSET Nat /\ 0 \in U64 /\ U64 \subseteq Nat
  BY <1>1, RateConstants DEF U64
<1>3. Strictest(A)[f] = IF budgets = {} THEN 0 ELSE Min(budgets)
  BY DEF Strictest
<1>4. CASE budgets = {}
  BY <1>1, <1>2, <1>3, <1>4
<1>5. CASE budgets # {}
  <2>1. Strictest(A)[f] \in budgets /\ \A y \in budgets : Strictest(A)[f] <= y
    BY <1>2, <1>3, <1>5, MinOf
  <2>2. PICK l \in A : l[f] = Strictest(A)[f] /\ l[f] # 0
    BY <2>1
  <2>3. \A m \in A : m[f] = 0 \/ m[f] \in budgets
    OBVIOUS
  <2> HIDE DEF budgets
  <2> QED BY <1>1, <1>2, <2>1, <2>2, <2>3
<1> QED BY <1>4, <1>5

(* One more limit.                                                         *)
LEMMA StrictestWith ==
  ASSUME NEW A \in SUBSET Limit, NEW l \in Limit
  PROVE  Strictest(A \cup {l}) = StricterLimit(Strictest(A), l)
<1>1. ASSUME NEW f \in Fields PROVE Strictest(A \cup {l})[f] = StricterField(Strictest(A)[f], l[f])
  <2>1. A \cup {l} \in SUBSET Limit
    OBVIOUS
  <2> DEFINE a == Strictest(A)[f]
             b == Strictest(A \cup {l})[f]
  <2>2. /\ a \in U64 /\ (a = 0 \/ \E m \in A : m[f] = a)
        /\ \A m \in A : m[f] \in U64 /\ (m[f] = 0 \/ (a # 0 /\ a <= m[f]))
    BY StrictestIs
  <2>3. /\ b \in U64 /\ (b = 0 \/ \E m \in A \cup {l} : m[f] = b)
        /\ \A m \in A \cup {l} : m[f] \in U64 /\ (m[f] = 0 \/ (b # 0 /\ b <= m[f]))
    BY <2>1, StrictestIs
  <2>4. U64 \subseteq Nat
    BY RateConstants DEF U64
  <2> HIDE DEF a, b
  <2>5. l[f] \in Nat /\ a \in Nat /\ b \in Nat /\ (l[f] = 0 \/ (b # 0 /\ b <= l[f]))
    BY <2>2, <2>3, <2>4
  <2>6. a = 0 \/ (b # 0 /\ b <= a)
    BY <2>2, <2>3
  <2>7. b = 0 \/ b = l[f] \/ (a # 0 /\ a <= b)
    BY <2>2, <2>3
  <2>8. b = StricterField(a, l[f])
    BY <2>5, <2>6, <2>7 DEF StricterField, Lesser
  <2> QED BY <2>8 DEF a, b
<1> QED BY <1>1 DEF Strictest, StricterLimit

LEMMA StrictestOfOne ==
  ASSUME NEW l \in Limit
  PROVE  Strictest({l}) = l /\ Strictest({}) = NoLimits
<1>1. Strictest({}) = NoLimits
  BY DEF Strictest, NoLimits
<1>2. Strictest({l}) = StricterLimit(Strictest({}), l)
  <2>1. Strictest({} \cup {l}) = StricterLimit(Strictest({}), l)
    BY StrictestWith
  <2>2. {} \cup {l} = {l}
    OBVIOUS
  <2> QED BY <2>1, <2>2
<1>3. StricterLimit(NoLimits, l) = l
  <2>1. \A f \in Fields : StricterField(NoLimits[f], l[f]) = l[f]
    BY DEF StricterField, NoLimits
  <2>2. l = [f \in Fields |-> l[f]]
    BY DEF Limit
  <2> QED BY <2>1, <2>2 DEF StricterLimit
<1> QED BY <1>1, <1>2, <1>3

LEMMA StrictestType == ASSUME NEW A \in SUBSET Limit PROVE Strictest(A) \in Limit
<1>1. \A f \in Fields : Strictest(A)[f] \in U64
  BY StrictestIs
<1>2. Strictest(A) = [f \in Fields |-> Strictest(A)[f]]
  BY DEF Strictest
<1> QED BY <1>1, <1>2 DEF Limit

(* What the rules and an entry that was there before them give.              *)
GivenBy(rules, entry, ids) ==
  {rules[id].rate : id \in ids} \cup (IF entry = Absent THEN {} ELSE {entry})

(* Merging rules one after the other is taking the strictest of all.         *)
LEMMA MergedIsStrictest ==
  ASSUME NEW S, IsFiniteSet(S), NEW rules, \A id \in S : rules[id].rate \in Limit,
         NEW entry \in Entry
  PROVE  MergeRules(rules, entry, S) = IF GivenBy(rules, entry, S) = {} THEN Absent
                                       ELSE Strictest(GivenBy(rules, entry, S))
<1> DEFINE Of(T) == {rules[id].rate : id \in T} \cup (IF entry = Absent THEN {} ELSE {entry})
           Total(T) == IF Of(T) = {} THEN Absent ELSE Strictest(Of(T))
           g == [T \in SUBSET S |-> Total(T)]
<1>1. Absent \notin Limit
  BY SyncConstants
<1>2. \A T \in SUBSET S : Of(T) \in SUBSET Limit
  BY DEF Entry
<1>3. Total({}) = entry
  BY StrictestOfOne DEF Entry
<1>4. ASSUME NEW T \in SUBSET S, NEW x \in T
      PROVE  Total(T) = Merge(Total(T \ {x}), rules[x].rate)
  <2>1. Of(T) = Of(T \ {x}) \cup {rules[x].rate} /\ rules[x].rate \in Limit /\ Of(T) # {}
    OBVIOUS
  <2>2. T \ {x} \in SUBSET S
    OBVIOUS
  <2>3. Of(T \ {x}) \in SUBSET Limit
    BY <1>2, <2>2
  <2> HIDE DEF Of
  <2>4. CASE Of(T \ {x}) = {}
    BY <2>1, <2>4, StrictestOfOne DEF Merge
  <2>5. CASE Of(T \ {x}) # {}
    <3>1. Strictest(Of(T)) = StricterLimit(Strictest(Of(T \ {x})), rules[x].rate)
      BY <2>1, <2>3, StrictestWith
    <3>2. Strictest(Of(T \ {x})) # Absent
      BY <1>1, <2>3, StrictestType
    <3> QED BY <2>1, <2>5, <3>1, <3>2 DEF Merge
  <2> QED BY <2>4, <2>5
<1> HIDE DEF Total
<1>5. Folded(g, rules, entry, S)
  <2>1. ASSUME NEW T \in SUBSET S
        PROVE  Total(T) = IF T = {} THEN entry
                          ELSE Merge(g[T \ {CHOOSE x \in T : TRUE}], rules[CHOOSE x \in T : TRUE].rate)
    <3>1. CASE T = {}
      BY <1>3, <3>1
    <3>2. CASE T # {}
      <4>1. PICK x : x = CHOOSE y \in T : TRUE
        OBVIOUS
      <4>2. x \in T
        BY <3>2, <4>1
      <4>3. g[T \ {x}] = Total(T \ {x})
        OBVIOUS
      <4> QED BY <1>4, <3>2, <4>1, <4>2, <4>3
    <3> QED BY <3>1, <3>2
  <2> QED BY <2>1 DEF Folded
<1>6. MergeRules(rules, entry, S) = g[S]
  BY <1>5, FoldIs
<1>7. g[S] = Total(S)
  OBVIOUS
<1> QED BY <1>6, <1>7, Zenon DEF Total, GivenBy

LEMMA RulesTyped ==
  ASSUME NEW r \in PolicyRuntime, NEW active, NEW pairs, NEW k \in Pairs
  PROVE  LET ids == RulesInForce(r, active, k[1], k[2])
         IN  /\ IsFiniteSet(ids) /\ \A id \in ids : r.rules[id].rate \in Limit
             /\ Granted(r, pairs, k) \in Entry
<1> DEFINE ids == RulesInForce(r, active, k[1], k[2])
<1>1. r.rules \in [RuleIds -> Rule \cup {Absent}] /\ r.guests \in [Ifaces -> Rates \cup {Absent}]
  BY DEF PolicyRuntime
<1>2. k[1] \in Ifaces
  BY DEF Pairs
<1>3. \A id \in ids : id \in RuleIds /\ r.rules[id] # Absent
  BY <1>1 DEF RulesInForce, RulesOf, Configured
<1>4. ids \in SUBSET RuleIds
  BY <1>3
<1>5. IsFiniteSet(ids)
  BY <1>4, SyncConstants, FS_Subset
<1>6. \A id \in ids : r.rules[id].rate \in Limit
  <2> SUFFICES ASSUME NEW id \in ids PROVE r.rules[id].rate \in Limit
    OBVIOUS
  <2>1. r.rules[id] \in Rule
    BY <1>1, <1>3
  <2> QED BY <2>1, SyncConstants DEF Rule
<1>7. Granted(r, pairs, k) \in Entry
  BY <1>1, <1>2, SyncConstants DEF Granted, Entry
<1> QED BY <1>5, <1>6, <1>7

(* A device is entitled to what the rules and the guest default give it when *)
(* they are merged one after the other (compute_desired_limits).            *)
LEMMA DesiredIsEntitled ==
  ASSUME NEW r \in PolicyRuntime, NEW active, NEW pairs, NEW k \in Pairs
  PROVE  LET desired == DesiredDevice(r, active, pairs)[k]
         IN  desired \in Entry /\ InForce(desired) = Entitled(r, active, pairs, k)
<1> DEFINE ids     == RulesInForce(r, active, k[1], k[2])
           entry   == Granted(r, pairs, k)
           guest   == k \in pairs /\ GuestApplies(r, k[1], k[2])
           given   == {r.rules[id].rate : id \in ids} \cup (IF guest THEN {r.guests[k[1]]} ELSE {})
           granted == {r.rules[id].rate : id \in ids} \cup (IF entry = Absent THEN {} ELSE {entry})
           desired == DesiredDevice(r, active, pairs)[k]
<1>1. IsFiniteSet(ids) /\ (\A id \in ids : r.rules[id].rate \in Limit) /\ entry \in Entry
  BY RulesTyped
<1>2. granted = given
  BY DEF Granted, GuestApplies
<1>3. desired = MergeRules(r.rules, entry, ids)
  BY DEF DesiredDevice
<1>4. granted \in SUBSET Limit
  BY <1>1 DEF Entry
<1>5. Entitled(r, active, pairs, k) = Strictest(given)
  BY DEF Entitled, Strictest
<1> HIDE DEF given, desired, entry, ids
<1>6. desired = IF granted = {} THEN Absent ELSE Strictest(granted)
  <2>1. PICK rules : rules = r.rules
    OBVIOUS
  <2>2. \A id \in ids : rules[id].rate \in Limit
    BY <1>1, <2>1
  <2>3. GivenBy(rules, entry, ids) = granted
    BY <2>1 DEF GivenBy
  <2> HIDE DEF granted
  <2>4. MergeRules(rules, entry, ids) = IF granted = {} THEN Absent ELSE Strictest(granted)
    BY <1>1, <2>2, <2>3, MergedIsStrictest
  <2> QED BY <1>3, <2>1, <2>4, Zenon
<1> HIDE DEF granted
<1>7. CASE granted = {}
  <2>1. Strictest({}) = NoLimits
    BY DEF Strictest, NoLimits
  <2> QED BY <1>2, <1>5, <1>6, <1>7, <2>1 DEF InForce, Entry, desired
<1>8. CASE granted # {}
  <2>1. Strictest(granted) \in Limit /\ Absent \notin Limit
    BY <1>4, StrictestType, SyncConstants
  <2> QED BY <1>2, <1>5, <1>6, <1>8, <2>1 DEF InForce, Entry, desired
<1> QED BY <1>7, <1>8

LEMMA ComputedTypes ==
  ASSUME NEW r \in PolicyRuntime, NEW active, NEW pairs
  PROVE  /\ DesiredDevice(r, active, pairs) \in [Pairs -> Entry]
         /\ DesiredIface(r) \in [Ifaces -> Entry]
<1>1. \A k \in Pairs : DesiredDevice(r, active, pairs)[k] \in Entry
  BY DesiredIsEntitled
<1>2. DesiredDevice(r, active, pairs) = [k \in Pairs |-> DesiredDevice(r, active, pairs)[k]]
  BY Zenon DEF DesiredDevice
<1>3. \A i \in Ifaces : r.limits[i] \in Entry
  BY SyncConstants DEF PolicyRuntime, Entry
<1> QED BY <1>1, <1>2, <1>3 DEF DesiredIface, Entry

LEMMA ConfiguredIs ==
  ASSUME NEW D, NEW map \in [D -> Entry] PROVE Configured(map) \in SUBSET D
  BY DEF Configured

LEMMA SyncTypeStep == Typed /\ [Next]_vars => Typed'
<1> SUFFICES ASSUME Typed, [Next]_vars PROVE Typed'
  OBVIOUS
<1>0. Observe => faults' = faults \/ Fault
  BY Zenon DEF Observe
<1> USE SyncConstants DEF Typed, inputs, kernel, locals, ghosts, Change, Fault
<1>1. CASE Observe
  <2>1. missed' \in BOOLEAN
    BY <1>1, Zenon DEF Observe
  <2>2. observed' \in SUBSET Pairs /\ found' \in SUBSET Pairs
    BY <1>1 DEF Observe
  <2>6. UNCHANGED <<inputs, kernel, desiredDevice, desiredIface, todo, stale, evaluated, clean>>
    BY <1>1 DEF Observe
  <2>7. pc' = "observed"
    BY <1>1, Zenon DEF Observe
  <2>3. /\ UNCHANGED <<runtime, clock, seen, changes, deviceMap, ifaceMap, desiredDevice, desiredIface>>
        /\ UNCHANGED <<todo, stale, evaluated, clean>> /\ pc' = "observed"
    BY <2>6, <2>7
  <2>4. faults' = faults \/ Fault
    BY <1>0, <1>1, Zenon
  <2>5. faults' \in 0 .. MaxFaults
    BY <2>4
  <2> QED BY <2>1, <2>2, <2>3, <2>5
<1>2. CASE Compute
  <2>1. runtime \in PolicyRuntime
    OBVIOUS
  <2>2. desiredDevice' \in [Pairs -> Entry] /\ desiredIface' \in [Ifaces -> Entry]
    BY <1>2, <2>1, ComputedTypes DEF Compute
  <2>3. todo' \in SUBSET Pairs /\ stale' \in SUBSET Pairs
    <3>1. todo' = Configured(desiredDevice') /\ stale' = Configured(deviceMap)
      BY <1>2 DEF Compute
    <3> QED BY <2>2, <3>1, ConfiguredIs
  <2> QED BY <1>2, <2>2, <2>3 DEF Compute
<1>3. CASE DevicesDone
  <2>1. todo' \in SUBSET Ifaces /\ stale' \in SUBSET Ifaces
    BY <1>3, ConfiguredIs DEF DevicesDone
  <2> QED BY <1>3, <2>1 DEF DevicesDone
<1>4. CASE IfacesDone \/ Abort
  BY <1>4 DEF IfacesDone, Abort
<1>5. ASSUME NEW k \in Pairs, InsertDevice(k) \/ RemoveDevice(k) PROVE Typed'
  <2>1. CASE InsertDevice(k)
    <3>1. deviceMap' \in [Pairs -> Entry]
      BY <2>1 DEF InsertDevice
    <3>2. todo' \in SUBSET Pairs /\ stale' \in SUBSET Pairs /\ pc = "devices" /\ pc' \in {"idle", "devices"}
      BY <2>1 DEF InsertDevice
    <3>3. UNCHANGED <<inputs, ifaceMap, observed, desiredDevice, desiredIface, faults, ghosts>>
      BY <2>1 DEF InsertDevice
    <3> QED BY <3>1, <3>2, <3>3
  <2>2. CASE RemoveDevice(k)
    <3>1. deviceMap' \in [Pairs -> Entry]
      BY <2>2 DEF RemoveDevice, Entry
    <3>2. todo' \in SUBSET Pairs /\ stale' \in SUBSET Pairs /\ pc' = "devices"
      BY <2>2 DEF RemoveDevice
    <3>3. \/ UNCHANGED <<faults, clean>>
          \/ faults < MaxFaults /\ faults' = faults + 1 /\ clean' = FALSE
      BY <2>2, Zenon DEF RemoveDevice
    <3>4. UNCHANGED <<inputs, ifaceMap, observed, desiredDevice, desiredIface, found, missed, evaluated>>
      BY <2>2 DEF RemoveDevice
    <3>5. faults' \in 0 .. MaxFaults /\ clean' \in BOOLEAN
      <4>1. faults \in 0 .. MaxFaults /\ clean \in BOOLEAN /\ MaxFaults \in Nat
        OBVIOUS
      <4>2. faults' \in 0 .. MaxFaults
        BY <3>3, <4>1
      <4>3. clean' \in BOOLEAN
        BY <3>3, <4>1, Zenon
      <4> QED BY <4>2, <4>3
    <3> QED BY <3>1, <3>2, <3>4, <3>5
  <2> QED BY <1>5, <2>1, <2>2
<1>6. ASSUME NEW i \in Ifaces, InsertIface(i) \/ RemoveIface(i) PROVE Typed'
  <2>1. CASE InsertIface(i)
    <3>1. ifaceMap' \in [Ifaces -> Entry]
      BY <2>1 DEF InsertIface
    <3>2. todo' \in SUBSET Ifaces /\ stale' \in SUBSET Ifaces /\ pc = "ifaces" /\ pc' = "ifaces"
      BY <2>1 DEF InsertIface
    <3>3. UNCHANGED <<inputs, deviceMap, observed, desiredDevice, desiredIface, faults, ghosts>>
      BY <2>1 DEF InsertIface
    <3> QED BY <3>1, <3>2, <3>3
  <2>2. CASE RemoveIface(i)
    <3>1. ifaceMap' \in [Ifaces -> Entry]
      BY <2>2 DEF RemoveIface, Entry
    <3>2. todo' \in SUBSET Ifaces /\ stale' \in SUBSET Ifaces /\ pc = "ifaces" /\ pc' = "ifaces"
      BY <2>2 DEF RemoveIface
    <3>3. \/ UNCHANGED <<faults, clean>>
          \/ faults < MaxFaults /\ faults' = faults + 1 /\ clean' = FALSE
      BY <2>2, Zenon DEF RemoveIface
    <3>4. UNCHANGED <<inputs, deviceMap, observed, desiredDevice, desiredIface, found, missed, evaluated>>
      BY <2>2 DEF RemoveIface
    <3>5. faults' \in 0 .. MaxFaults /\ clean' \in BOOLEAN
      <4>1. faults \in 0 .. MaxFaults /\ clean \in BOOLEAN /\ MaxFaults \in Nat
        OBVIOUS
      <4>2. faults' \in 0 .. MaxFaults
        BY <3>3, <4>1
      <4>3. clean' \in BOOLEAN
        BY <3>3, <4>1, Zenon
      <4> QED BY <4>2, <4>3
    <3> QED BY <3>1, <3>2, <3>4, <3>5
  <2> QED BY <1>6, <2>1, <2>2
<1>7. ASSUME NEW r \in Runtimes, ChangePolicy(r) PROVE Typed'
  BY <1>7 DEF ChangePolicy
<1>8. ASSUME NEW active \in SUBSET Slots, ChangeClock(active) PROVE Typed'
  BY <1>8 DEF ChangeClock
<1>9. ASSUME NEW k \in Pairs, SeeDevice(k) PROVE Typed'
  BY <1>9 DEF SeeDevice
<1>10. CASE UNCHANGED vars
  BY <1>10 DEF vars
<1> QED BY <1>1, <1>2, <1>3, <1>4, <1>5, <1>6, <1>7, <1>8, <1>9, <1>10 DEF Next, Sync

LEMMA WritingInHand ==
  ASSUME NEW D, NEW map, NEW desired \in [D -> Entry], Writing(map, desired, D) PROVE InHand(desired)
BY DEF Writing, InHand, Configured

(* The maps hold limits or nothing, whatever policies are configured and    *)
(* whatever fails, for merging never makes up anything but a limit; and     *)
(* while a map is written nothing that the policy asks for is down for       *)
(* removal, unless it is yet to be inserted (sync_iface_device_map).        *)
THEOREM SyncTypes == Spec => []TypeOK
<1>1. Init => Typed
  <2> SUFFICES ASSUME Init PROVE Typed
    OBVIOUS
  <2>1. missed \in BOOLEAN /\ clean \in BOOLEAN
    BY DEF Init
  <2> QED BY <2>1, SyncConstants DEF Init, Typed, Empty, Entry
<1>2. Typed /\ SyncInv => TypeOK
  <2> SUFFICES ASSUME Typed, SyncInv PROVE TypeOK
    OBVIOUS
  <2>1. desiredDevice \in [Pairs -> Entry] /\ desiredIface \in [Ifaces -> Entry]
    BY DEF Typed
  <2>2. ASSUME pc = "devices" PROVE InHand(desiredDevice)
    <3>1. Writing(deviceMap, desiredDevice, Pairs)
      BY <2>2, Zenon DEF SyncInv
    <3> QED BY <2>1, <3>1, WritingInHand, Zenon
  <2>3. ASSUME pc = "ifaces" PROVE InHand(desiredIface)
    <3>1. Writing(ifaceMap, desiredIface, Ifaces)
      BY <2>3, Zenon DEF SyncInv
    <3> QED BY <2>1, <3>1, WritingInHand, Zenon
  <2> QED BY <2>2, <2>3 DEF TypeOK
<1> QED BY <1>1, <1>2, SyncTypeStep, SyncInit, SyncStep, PTL DEF Spec

(* The limits that are being written are those of the policy, of the devices *)
(* that were observed and of the instant they were computed at.             *)
Computed ==
  /\ pc # "idle" => observed = IF missed THEN {} ELSE found
  /\ pc \in {"devices", "ifaces"} => desiredDevice = DesiredDevice(runtime, evaluated, observed)

LEMMA ComputedStep == Computed /\ [Next]_vars => Computed'
<1> SUFFICES ASSUME Computed, [Next]_vars PROVE Computed'
  OBVIOUS
<1> USE DEF inputs, locals, ghosts
<1>a. ASSUME pc' = "idle" PROVE Computed'
  BY <1>a DEF Computed
<1>b. ASSUME UNCHANGED <<desiredDevice, runtime, evaluated, observed, found, missed>>,
             pc # "idle", pc \in {"devices", "ifaces"} \/ pc' = pc
      PROVE  Computed'
  BY <1>b DEF Computed
<1>c. ASSUME UNCHANGED <<desiredDevice, evaluated, observed, found, missed, pc>>,
             UNCHANGED runtime \/ pc \in {"idle", "observed"}
      PROVE  Computed'
  BY <1>c DEF Computed
<1>1. CASE Observe
  BY <1>1, Zenon DEF Observe, Computed
<1>2. CASE Compute
  <2>1. desiredDevice' = DesiredDevice(runtime, clock, observed) /\ evaluated' = clock
    BY <1>2, Zenon DEF Compute
  <2>2. UNCHANGED <<runtime, observed, found, missed>> /\ pc = "observed"
    BY <1>2 DEF Compute
  <2> QED BY <2>1, <2>2, Zenon DEF Computed
<1>3. CASE DevicesDone \/ IfacesDone
  BY <1>3, <1>a, <1>b DEF DevicesDone, IfacesDone
<1>4. CASE Abort
  BY <1>4, <1>a DEF Abort
<1>5. ASSUME NEW k \in Pairs, InsertDevice(k) \/ RemoveDevice(k) PROVE Computed'
  BY <1>5, <1>b DEF InsertDevice, RemoveDevice
<1>6. ASSUME NEW i \in Ifaces, InsertIface(i) \/ RemoveIface(i) PROVE Computed'
  BY <1>6, <1>b DEF InsertIface, RemoveIface
<1>7. ASSUME NEW r \in Runtimes, ChangePolicy(r) PROVE Computed'
  BY <1>7, <1>c DEF ChangePolicy
<1>8. ASSUME NEW active \in SUBSET Slots, ChangeClock(active) PROVE Computed'
  BY <1>8, <1>c DEF ChangeClock
<1>9. ASSUME NEW k \in Pairs, SeeDevice(k) PROVE Computed'
  BY <1>9, <1>c DEF SeeDevice
<1>10. CASE UNCHANGED vars
  BY <1>10, <1>c DEF vars
<1> QED BY <1>1, <1>2, <1>3, <1>4, <1>5, <1>6, <1>7, <1>8, <1>9, <1>10 DEF Next, Sync

(* What is wanted while a map is written is what is expected of the tick.   *)
LEMMA WantedIsExpected ==
  ASSUME Typed, Computed, pc \in {"devices", "ifaces"}, NEW k \in Pairs
  PROVE  InForce(desiredDevice[k]) = Expected(k)
<1>1. desiredDevice = DesiredDevice(runtime, evaluated, observed) /\ runtime \in PolicyRuntime
  BY SyncConstants DEF Computed, Typed
<1>2. observed = IF missed THEN {} ELSE found
  BY DEF Computed
<1>3. InForce(desiredDevice[k]) = Entitled(runtime, evaluated, observed, k)
  BY <1>1, DesiredIsEntitled
<1> QED BY <1>2, <1>3, Zenon DEF Expected

LEMMA ComputedAlways == Spec => []Computed
<1>1. Init => Computed
  BY DEF Init, Computed
<1> QED BY <1>1, ComputedStep, PTL DEF Spec

(* Whatever system calls fail and however full the map is, each that changes *)
(* the entry of a device gives it what the policy, the time and the devices *)
(* seen entitle it to, and one that changes an interface's its limit, none   *)
(* if it has none (compute_desired_limits, sync_iface_device_map,           *)
(* sync_iface_map), a tick that could not read the devices excepted: for     *)
(* any policies, devices, topology and capacity.                            *)
THEOREM LimitsStay == Spec => NoLapse
<1>1. SyncInv /\ Typed /\ Computed /\ [Next]_vars =>
        [ /\ \A k \in Pairs :
               deviceMap'[k] # deviceMap[k] => InForce(deviceMap'[k]) = Expected(k)
          /\ \A i \in Ifaces :
               ifaceMap'[i] # ifaceMap[i] => ifaceMap'[i] = DesiredIface(runtime)[i] ]_vars
  <2> SUFFICES ASSUME SyncInv, Typed, Computed, [Next]_vars
               PROVE  /\ \A k \in Pairs :
                           deviceMap'[k] # deviceMap[k] => InForce(deviceMap'[k]) = Expected(k)
                      /\ \A i \in Ifaces :
                           ifaceMap'[i] # ifaceMap[i] => ifaceMap'[i] = DesiredIface(runtime)[i]
    OBVIOUS
  <2>1. ~ Strays
    BY NothingStrays
  <2>2. ASSUME NEW k \in Pairs, deviceMap'[k] # deviceMap[k]
        PROVE  InForce(deviceMap'[k]) = Expected(k)
    <3>1. pc = "devices" /\ deviceMap'[k] = desiredDevice[k]
      BY <2>1, <2>2 DEF Strays
    <3>2. InForce(desiredDevice[k]) = Expected(k)
      BY <3>1, WantedIsExpected
    <3> QED BY <3>1, <3>2
  <2> QED BY <2>1, <2>2 DEF Strays
<1>2. TypeOK => Typed
  BY DEF TypeOK
<1> QED BY <1>1, <1>2, ComputedAlways, SyncTypes, SyncInit, SyncStep, PTL DEF Spec, NoLapse

(* A tick that runs to its end, with every removal successful, leaves in the *)
(* kernel for every device, in each field, the least budget of all that the  *)
(* policy, the time and the devices seen give it, and for every interface    *)
(* its limit: for any number of rules, in whatever order they are merged     *)
(* (compute_desired_limits, apply_runtime_policy).                          *)
THEOREM TicksAreExact == Spec => TickIsExact
<1>1. TypeOK /\ Computed /\ (IfacesDone /\ clean => deviceMap = desiredDevice /\ ifaceMap = DesiredIface(runtime))
        => [ IfacesDone /\ clean =>
               /\ \A k \in Pairs : InForce(deviceMap[k]) = Expected(k)
               /\ \A i \in Ifaces : ifaceMap[i] = DesiredIface(runtime)[i] ]_vars
  <2> SUFFICES ASSUME TypeOK, Computed, IfacesDone, deviceMap = desiredDevice, ifaceMap = DesiredIface(runtime)
               PROVE  /\ \A k \in Pairs : InForce(deviceMap[k]) = Expected(k)
                      /\ \A i \in Ifaces : ifaceMap[i] = DesiredIface(runtime)[i]
    OBVIOUS
  <2>1. \A k \in Pairs : InForce(deviceMap[k]) = Expected(k)
    BY WantedIsExpected DEF IfacesDone, TypeOK
  <2> QED BY <2>1
<1> QED BY <1>1, ComputedAlways, SyncTypes, SyncInit, SyncStep, SyncCopies, PTL DEF Spec, TickIsExact

-----------------------------------------------------------------------------
(* When a rule is in force.                                                *)

(* The two readings of a slot agree (is_rule_active, policy.rs 713-737).    *)
LEMMA ActiveIsOccurrence ==
  ASSUME NEW s \in Slot, NEW w \in Weekdays, NEW m \in Minutes
  PROVE  RuleActive(s, w, m) <=> InOccurrence(s, w, m)
<1>1. /\ Day \in Nat \ {0} /\ s.start \in 0 .. (Day - 1) /\ s.end \in 0 .. (Day - 1)
      /\ s.days \subseteq 1 .. 7 /\ w \in 1 .. 7 /\ m \in 0 .. (Day - 1)
  BY DayIsPositive DEF Slot, Minutes, Weekdays
<1>2. ASSUME NEW d \in s.days
      PROVE  Elapsed(Instant(d, s.start), Instant(w, m)) <= Span(s)
               <=> \/ d = w /\ s.start <= m /\ (s.start <= s.end => m <= s.end)
                   \/ d = PreviousDay(w) /\ s.end < s.start /\ m < s.start /\ m <= s.end
  <2>1. d \in 1 .. 7
    BY <1>1
  <2>2. d = 1 \/ d = 2 \/ d = 3 \/ d = 4 \/ d = 5 \/ d = 6 \/ d = 7
    BY <2>1
  <2>3. w = 1 \/ w = 2 \/ w = 3 \/ w = 4 \/ w = 5 \/ w = 6 \/ w = 7
    BY <1>1
  <2> QED
    BY <1>1, <2>2, <2>3 DEF Elapsed, Instant, Span, Week, PreviousDay
<1> QED
  BY <1>1, <1>2 DEF RuleActive, InOccurrence

(* The clock keeps to the week and the rule stays one that the parser       *)
(* accepts, whatever edits are made (update_scheduled_rule).                *)
LEMMA ScheduleTypes == ScheduleSpec => []ScheduleTypeOK
<1>1. ScheduleInit => ScheduleTypeOK
  BY DEF ScheduleInit, ScheduleTypeOK
<1>2. ScheduleTypeOK /\ [ScheduleNext]_scheduleVars => ScheduleTypeOK'
  BY DayIsPositive DEF ScheduleTypeOK, ScheduleNext, Tick, Edit, scheduleVars, Weekdays, Minutes, NextDay
<1> QED
  BY <1>1, <1>2, PTL DEF ScheduleSpec

(* A scheduled limit is in force during its occurrences and at no other     *)
(* time.                                                                    *)
THEOREM ScheduleCorrect == ScheduleSpec => []ActiveInOccurrences
<1>1. ScheduleTypeOK => ActiveInOccurrences
  BY ActiveIsOccurrence DEF ScheduleTypeOK, ActiveInOccurrences
<1> QED
  BY <1>1, ScheduleTypes, PTL

(* A rule nobody edits switches on at its start and off after its end.      *)
THEOREM SwitchesCorrect == ScheduleSpec => SwitchesAtItsEnds
<1>1. ScheduleTypeOK /\ [ScheduleNext]_scheduleVars =>
        [ slot' = slot =>
          /\ ~ RuleActive(slot, weekday, minute) /\ RuleActive(slot, weekday', minute')
               => minute' = slot.start /\ weekday' \in slot.days
          /\ RuleActive(slot, weekday, minute) /\ ~ RuleActive(slot, weekday', minute')
               => minute = slot.end ]_scheduleVars
  <2> SUFFICES ASSUME ScheduleTypeOK, ScheduleNext, slot' = slot
               PROVE  /\ ~ RuleActive(slot, weekday, minute) /\ RuleActive(slot, weekday', minute')
                           => minute' = slot.start /\ weekday' \in slot.days
                      /\ RuleActive(slot, weekday, minute) /\ ~ RuleActive(slot, weekday', minute')
                           => minute = slot.end
    BY DEF scheduleVars
  <2>1. /\ Day \in Nat \ {0} /\ slot.start \in 0 .. (Day - 1) /\ slot.end \in 0 .. (Day - 1)
        /\ slot.days \subseteq 1 .. 7 /\ weekday \in 1 .. 7 /\ minute \in 0 .. (Day - 1)
    BY DayIsPositive DEF ScheduleTypeOK, Slot, Minutes, Weekdays
  <2>2. CASE Tick
    BY <2>1, <2>2 DEF Tick, NextDay, PreviousDay, RuleActive
  <2>3. CASE Edit
    BY <2>3 DEF Edit
  <2> QED BY <2>2, <2>3 DEF ScheduleNext
<1> QED
  BY <1>1, ScheduleTypes, PTL DEF ScheduleSpec, SwitchesAtItsEnds
=============================================================================
