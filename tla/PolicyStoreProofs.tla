-------------------------- MODULE PolicyStoreProofs --------------------------
(***************************************************************************)
(* Proofs about PolicyStore, for every set of interfaces, devices, rules   *)
(* and handlers and every topology a restart may find.                     *)
(***************************************************************************)
EXTENDS PolicyStore, TLAPS

-----------------------------------------------------------------------------
(* What the operations on a runtime return.                                *)

(* The empty runtime, an export and every operation yield a runtime.       *)
LEMMA EmptyType == EmptyRuntime \in PolicyRuntime
BY DEF EmptyRuntime, PolicyRuntime

LEMMA ExportType ==
  ASSUME NEW r \in PolicyRuntime PROVE Export(r) \in PolicyRuntime
BY DEF Export, PolicyRuntime

LEMMA SetLimitType ==
  ASSUME NEW r \in PolicyRuntime, NEW i \in Ifaces, NEW rate \in Rates \cup {Absent}
  PROVE  [r EXCEPT !.limits[i] = rate] \in PolicyRuntime
BY DEF PolicyRuntime

LEMMA SetGuestType ==
  ASSUME NEW r \in PolicyRuntime, NEW i \in Ifaces, NEW rate \in Rates
  PROVE  SetGuestDefault(r, i, rate) \in PolicyRuntime
BY DEF PolicyRuntime, SetGuestDefault

LEMMA EnableGuestType ==
  ASSUME NEW r \in PolicyRuntime, NEW i \in Ifaces, NEW enabled \in BOOLEAN
  PROVE  SetGuestDefaultEnabled(r, i, enabled) \in PolicyRuntime
BY DEF PolicyRuntime, SetGuestDefaultEnabled

LEMMA DeleteGuestType ==
  ASSUME NEW r \in PolicyRuntime, NEW i \in Ifaces
  PROVE  DeleteGuestDefault(r, i) \in PolicyRuntime
BY DEF PolicyRuntime, DeleteGuestDefault

LEMMA WhitelistType ==
  ASSUME NEW r \in PolicyRuntime, NEW i \in Ifaces, NEW m \in Macs
  PROVE  /\ AddGuestWhitelist(r, i, m) \in PolicyRuntime
         /\ RemoveGuestWhitelist(r, i, m) \in PolicyRuntime
         /\ RemoveDevicePolicy(r, i, m) \in PolicyRuntime
<1>1. AddGuestWhitelist(r, i, m) \in PolicyRuntime
  BY DEF PolicyRuntime, AddGuestWhitelist
<1>2. RemoveGuestWhitelist(r, i, m) \in PolicyRuntime
  BY DEF PolicyRuntime, RemoveGuestWhitelist
<1>3. RemoveDevicePolicy(r, i, m) \in PolicyRuntime
  BY DEF PolicyRuntime, RemoveDevicePolicy
<1> QED BY <1>1, <1>2, <1>3

LEMMA RuleType ==
  ASSUME NEW r \in PolicyRuntime, NEW id \in RuleIds, NEW rule \in Rule \cup {Absent}
  PROVE  [r EXCEPT !.rules[id] = rule] \in PolicyRuntime
BY DEF PolicyRuntime

-----------------------------------------------------------------------------
(* Saving and restoring.                                                   *)

(* What is saved shows the same settings as what was in memory.            *)
LEMMA ExportView ==
  ASSUME NEW r \in PolicyRuntime PROVE View(Export(r)) = View(r)
<1>1. ASSUME NEW k \in Settings PROVE View(Export(r))[k] = View(r)[k]
  BY <1>1 DEF View, Settings, Export, PolicyRuntime, Configured
<1> QED BY <1>1 DEF View

(* An import that finds every interface it needs restores all of it; one    *)
(* that does not restores each setting as it was saved or not at all.       *)
LEMMA ImportType ==
  ASSUME NEW s \in PolicyRuntime, NEW t PROVE Import(s, t) \in PolicyRuntime
BY DEF Import, FlagsImported, PolicyRuntime, Kept, Reached, ReachedRules, Configured, IfacesOf

LEMMA FullImportView ==
  ASSUME NEW s \in PolicyRuntime, NEW t, FullyImported(s, t)
  PROVE  View(Import(s, t)) = View(s)
<1> DEFINE r == Import(s, t)
<1>1. LimitsImported(s, t) /\ GuestsImported(s, t) /\ WhitelistImported(s, t)
  BY DEF FullyImported, WhitelistImported, GuestsImported
<1>2. Reached(Configured(s.limits), t) = Configured(s.limits)
  BY <1>1 DEF LimitsImported, Reached
<1>3. Reached(Configured(s.guests), t) = Configured(s.guests)
  BY <1>1 DEF GuestsImported, Reached
<1>4. Reached(IfacesOf(s.whitelist), t) = IfacesOf(s.whitelist)
  BY <1>1 DEF WhitelistImported, Reached
<1>5. ReachedRules(s.rules, t) = Configured(s.rules)
  BY DEF FullyImported, ReachedRules, RuleIfaces
<1>6. /\ r.limits = Kept(s.limits, Configured(s.limits))
      /\ r.guests = Kept(s.guests, Configured(s.guests))
      /\ r.disabled = s.disabled \cap Configured(s.guests)
      /\ r.whitelist = {e \in s.whitelist : e[1] \in IfacesOf(s.whitelist)}
      /\ r.rules = Kept(s.rules, Configured(s.rules))
  BY <1>1, <1>2, <1>3, <1>4, <1>5 DEF Import, FlagsImported
<1>7. /\ r.limits = s.limits /\ r.guests = s.guests /\ r.rules = s.rules
      /\ r.whitelist = s.whitelist
  BY <1>6 DEF Kept, Configured, IfacesOf, PolicyRuntime
<1>8. ASSUME NEW k \in Settings PROVE View(r)[k] = View(s)[k]
  BY <1>6, <1>7, <1>8 DEF View, Settings, Configured, PolicyRuntime
<1> QED BY <1>8 DEF View

LEMMA ImportInventsNothing ==
  ASSUME NEW s \in PolicyRuntime, NEW t, NEW k \in Settings
  PROVE  View(Import(s, t))[k] \in {View(s)[k], Unset(k)}
<1> DEFINE r == Import(s, t)
<1>1. /\ \A i \in Ifaces : r.limits[i] \in {s.limits[i], Absent}
      /\ \A i \in Ifaces : r.guests[i] \in {s.guests[i], Absent}
      /\ \A i \in Ifaces : r.guests[i] # Absent => (i \in r.disabled <=> i \in s.disabled)
      /\ r.whitelist \subseteq s.whitelist
      /\ \A id \in RuleIds : r.rules[id] \in {s.rules[id], Absent}
  BY DEF Import, FlagsImported, Kept, PolicyRuntime
<1>2. CASE k \in {"limit"} \X Ifaces
  BY <1>1, <1>2 DEF View, Settings, Unset, EmptyRuntime
<1>3. CASE k \in {"guest"} \X Ifaces
  BY <1>1, <1>3 DEF View, Settings, Unset, EmptyRuntime
<1>4. CASE k \in {"rule"} \X RuleIds
  BY <1>1, <1>4 DEF View, Settings, Unset, EmptyRuntime
<1>5. CASE k \in {"whitelist"} \X Ifaces \X Macs
  BY <1>1, <1>5 DEF View, Settings, Unset, EmptyRuntime
<1> QED BY <1>2, <1>3, <1>4, <1>5 DEF Settings

-----------------------------------------------------------------------------
(* Every first step of a handler is a Mutate to some runtime.              *)

LEMMA SettingKeys ==
  /\ \A i \in Ifaces : <<"limit", i>> \in Settings /\ <<"guest", i>> \in Settings
  /\ \A id \in RuleIds : <<"rule", id>> \in Settings
  /\ \A i \in Ifaces, m \in Macs : <<"whitelist", i, m>> \in Settings
BY DEF Settings

LEMMA HandleMutates ==
  ASSUME TypeOK, NEW h \in Handlers, Handle(h)
  PROVE  /\ \E r \in PolicyRuntime, keys \in SUBSET Settings : Mutate(h, r, keys)
         /\ nextId' \in Nat
<1> DEFINE Mutates == \E r \in PolicyRuntime, keys \in SUBSET Settings : Mutate(h, r, keys)
<1>1. runtime \in PolicyRuntime /\ nextId \in Nat
  BY DEF TypeOK
<1>2. ASSUME NEW r \in PolicyRuntime, NEW keys \in SUBSET Settings, Mutate(h, r, keys)
      PROVE  Mutates
  BY <1>2
<1> SUFFICES Mutates /\ nextId' \in Nat
  OBVIOUS
<1> HIDE DEF Mutates
<1>3. ASSUME NEW i \in Ifaces, NEW rate \in Rates,
             SetIfaceLimitHandler(h, i, rate) \/ SetGuestDefaultHandler(h, i, rate)
      PROVE  Mutates /\ nextId' \in Nat
  <2>1. /\ SetIfaceLimit(runtime, i, rate) \in PolicyRuntime
        /\ SetGuestDefault(runtime, i, rate) \in PolicyRuntime
    BY <1>1, SetLimitType, SetGuestType DEF SetIfaceLimit
  <2> QED BY <1>1, <1>2, <1>3, <2>1, SettingKeys
         DEF SetIfaceLimitHandler, SetGuestDefaultHandler
<1>4. ASSUME NEW i \in Ifaces, DeleteIfaceLimitHandler(h, i)
      PROVE  Mutates /\ nextId' \in Nat
  <2>1. DeleteIfaceLimit(runtime, i) \in PolicyRuntime
    BY <1>1, SetLimitType DEF DeleteIfaceLimit
  <2> QED BY <1>1, <1>2, <1>4, <2>1, SettingKeys DEF DeleteIfaceLimitHandler
<1>5. ASSUME NEW i \in Ifaces, DeleteGuestDefaultHandler(h, i)
      PROVE  Mutates /\ nextId' \in Nat
  <2>1. DeleteGuestDefault(runtime, i) \in PolicyRuntime
    BY <1>1, DeleteGuestType
  <2>2. {<<"guest", i>>} \cup {<<"whitelist", i, m>> : m \in Macs} \in SUBSET Settings
    BY SettingKeys, Zenon
  <2> QED BY <1>1, <1>2, <1>5, <2>1, <2>2 DEF DeleteGuestDefaultHandler
<1>6. ASSUME NEW i \in Ifaces, NEW enabled \in BOOLEAN,
             SetGuestDefaultEnableHandler(h, i, enabled)
      PROVE  Mutates /\ nextId' \in Nat
  <2>1. SetGuestDefaultEnabled(runtime, i, enabled) \in PolicyRuntime
    BY <1>1, EnableGuestType, Zenon
  <2>2. {<<"guest", i>>} \in SUBSET Settings
    BY SettingKeys
  <2>3. Mutate(h, SetGuestDefaultEnabled(runtime, i, enabled), {<<"guest", i>>}) /\ nextId' = nextId
    BY <1>6, Zenon DEF SetGuestDefaultEnableHandler
  <2> QED BY <1>1, <1>2, <2>1, <2>2, <2>3, Zenon
<1>7. ASSUME NEW i \in Ifaces, NEW m \in Macs,
             \/ AddGuestWhitelistHandler(h, i, m)
             \/ RemoveGuestWhitelistHandler(h, i, m)
             \/ DeleteDeviceHandler(h, i, m)
      PROVE  Mutates /\ nextId' \in Nat
  <2>1. /\ AddGuestWhitelist(runtime, i, m) \in PolicyRuntime
        /\ RemoveGuestWhitelist(runtime, i, m) \in PolicyRuntime
        /\ RemoveDevicePolicy(runtime, i, m) \in PolicyRuntime
    BY <1>1, WhitelistType
  <2>2. RulesOf(runtime, i, m) \subseteq RuleIds
    BY <1>1 DEF RulesOf, Configured, PolicyRuntime
  <2>3. {<<"whitelist", i, m>>} \cup {<<"rule", id>> : id \in RulesOf(runtime, i, m)}
          \in SUBSET Settings
    BY <2>2, SettingKeys
  <2>4. CASE DeleteDeviceHandler(h, i, m)
    BY <1>1, <1>2, <2>1, <2>3, <2>4 DEF DeleteDeviceHandler
  <2>5. CASE AddGuestWhitelistHandler(h, i, m) \/ RemoveGuestWhitelistHandler(h, i, m)
    BY <1>1, <1>2, <2>1, <2>5, SettingKeys
       DEF AddGuestWhitelistHandler, RemoveGuestWhitelistHandler
  <2> QED BY <1>7, <2>4, <2>5
<1>8. ASSUME NEW rule \in Rule, CreateSchedule(h, rule)
      PROVE  Mutates /\ nextId' \in Nat
  <2>1. nextId \in RuleIds /\ PutRule(runtime, nextId, rule) \in PolicyRuntime
    BY <1>1, <1>8, RuleType DEF PutRule, CreateSchedule
  <2> QED BY <1>1, <1>2, <1>8, <2>1, SettingKeys DEF CreateSchedule
<1>9. ASSUME NEW rule \in Rule, NEW id \in RuleIds,
             UpdateSchedule(h, id, rule)
      PROVE  Mutates /\ nextId' \in Nat
  <2>1. PutRule(runtime, id, rule) \in PolicyRuntime
    BY <1>1, RuleType DEF PutRule
  <2> QED BY <1>1, <1>2, <1>9, <2>1, SettingKeys DEF UpdateSchedule
<1>10. ASSUME NEW id \in RuleIds, DeleteSchedule(h, id)
       PROVE  Mutates /\ nextId' \in Nat
  <2>1. DeleteRule(runtime, id) \in PolicyRuntime
    BY <1>1, RuleType DEF DeleteRule
  <2> QED BY <1>1, <1>2, <1>10, <2>1, SettingKeys DEF DeleteSchedule
<1>11. CASE \E i \in Ifaces, enabled \in BOOLEAN : SetGuestDefaultEnableHandler(h, i, enabled)
  BY <1>6, <1>11, Zenon
<1>12. CASE ~ \E i \in Ifaces, enabled \in BOOLEAN : SetGuestDefaultEnableHandler(h, i, enabled)
  BY <1>3, <1>4, <1>5, <1>7, <1>8, <1>9, <1>10, <1>12 DEF Handle
<1> QED BY <1>11, <1>12

-----------------------------------------------------------------------------
(* The policy in force speaks only of interfaces of the topology.          *)

(* The same, map by map.                                                   *)
Speaks(r, t) ==
  /\ \A i \in Ifaces : (r.limits[i] # Absent \/ r.guests[i] # Absent) => i \in t
  /\ r.disabled \subseteq t
  /\ \A e \in r.whitelist : e[1] \in t
  /\ \A id \in RuleIds : r.rules[id] # Absent => r.rules[id].iface \in t

LEMMA SpeaksIs ==
  ASSUME NEW r \in PolicyRuntime, NEW t PROVE Speaks(r, t) <=> Named(r) \subseteq t
<1>1. /\ Configured(r.limits) = {i \in Ifaces : r.limits[i] # Absent}
      /\ Configured(r.guests) = {i \in Ifaces : r.guests[i] # Absent}
      /\ RuleIfaces(r.rules) = {r.rules[id].iface : id \in {x \in RuleIds : r.rules[x] # Absent}}
      /\ IfacesOf(r.whitelist) = {e[1] : e \in r.whitelist}
  BY DEF PolicyRuntime, Configured, RuleIfaces, IfacesOf
<1> QED BY <1>1 DEF Speaks, Named

LEMMA EmptySpeaks == ASSUME NEW t PROVE Speaks(EmptyRuntime, t)
BY DEF Speaks, EmptyRuntime

(* An import goes no further than the first interface that is missing.     *)
LEMMA ImportSpeaks ==
  ASSUME NEW s \in PolicyRuntime, NEW t PROVE Speaks(Import(s, t), t)
<1> DEFINE r == Import(s, t)
<1>0. /\ s.limits \in [Ifaces -> Rates \cup {Absent}] /\ s.guests \in [Ifaces -> Rates \cup {Absent}]
      /\ s.whitelist \subseteq Ifaces \X Macs /\ s.rules \in [RuleIds -> Rule \cup {Absent}]
  BY DEF PolicyRuntime
<1>r. \A n \in Nat : n <= n
  OBVIOUS
<1>1. ASSUME NEW ifaces \in SUBSET Ifaces PROVE Reached(ifaces, t) \subseteq t
  <2> SUFFICES ASSUME NEW i \in Reached(ifaces, t) PROVE i \in t
    OBVIOUS
  <2>1. i \in ifaces /\ i \in Nat
    BY PolicyConstants DEF Reached
  <2> QED BY <1>r, <2>1, Zenon DEF Reached
<1>2. PICK guests, listed, rules :
        /\ guests = IF LimitsImported(s, t) THEN Reached(Configured(s.guests), t) ELSE {}
        /\ listed = IF GuestsImported(s, t) THEN Reached(IfacesOf(s.whitelist), t) ELSE {}
        /\ rules = IF WhitelistImported(s, t) THEN ReachedRules(s.rules, t) ELSE {}
  OBVIOUS
<1>3. /\ r.limits = Kept(s.limits, Reached(Configured(s.limits), t))
      /\ r.guests = Kept(s.guests, guests) /\ r.disabled = s.disabled \cap guests
      /\ r.whitelist = {e \in s.whitelist : e[1] \in listed}
      /\ r.rules = Kept(s.rules, rules)
  BY <1>2 DEF Import, FlagsImported
<1>4. Reached(Configured(s.limits), t) \subseteq t /\ guests \subseteq t /\ listed \subseteq t
  BY <1>0, <1>1, <1>2 DEF Configured, IfacesOf
<1>5. \A id \in rules : s.rules[id].iface \in t
  <2> SUFFICES ASSUME NEW id \in rules PROVE s.rules[id].iface \in t
    OBVIOUS
  <2>1. id \in ReachedRules(s.rules, t)
    BY <1>2
  <2>2. id \in Configured(s.rules) /\ id \in Nat
    BY <1>0, <2>1, PolicyConstants DEF ReachedRules, Configured
  <2> QED BY <1>r, <2>1, <2>2, Zenon DEF ReachedRules
<1> HIDE DEF r
<1>6. \A i \in Ifaces : (r.limits[i] # Absent \/ r.guests[i] # Absent) => i \in t
  BY <1>0, <1>3, <1>4 DEF Kept
<1>7. \A id \in RuleIds : r.rules[id] # Absent => id \in rules /\ r.rules[id] = s.rules[id]
  BY <1>0, <1>3 DEF Kept
<1>8. \A id \in RuleIds : r.rules[id] # Absent => r.rules[id].iface \in t
  BY <1>5, <1>7
<1>9. Speaks(r, t)
  BY <1>3, <1>4, <1>6, <1>8 DEF Speaks
<1> QED BY <1>9 DEF r

LEMMA HandleSpeaks ==
  ASSUME TypeOK, NEW h \in Handlers, Handle(h) PROVE Speaks(runtime', topology)
<1>1. runtime \in PolicyRuntime /\ Speaks(runtime, topology)
  BY SpeaksIs DEF TypeOK
<1> USE DEF Mutate
<1>2. ASSUME NEW i \in Ifaces, NEW rate \in Rates, SetIfaceLimitHandler(h, i, rate)
      PROVE  Speaks(runtime', topology)
  BY <1>1, <1>2 DEF SetIfaceLimitHandler, SetIfaceLimit, Speaks, PolicyRuntime
<1>3. ASSUME NEW i \in Ifaces, NEW rate \in Rates, SetGuestDefaultHandler(h, i, rate)
      PROVE  Speaks(runtime', topology)
  BY <1>1, <1>3 DEF SetGuestDefaultHandler, SetGuestDefault, Speaks, PolicyRuntime
<1>4. ASSUME NEW i \in Ifaces, DeleteIfaceLimitHandler(h, i)
      PROVE  Speaks(runtime', topology)
  BY <1>1, <1>4 DEF DeleteIfaceLimitHandler, DeleteIfaceLimit, Speaks, PolicyRuntime
<1>5. ASSUME NEW i \in Ifaces, DeleteGuestDefaultHandler(h, i)
      PROVE  Speaks(runtime', topology)
  BY <1>1, <1>5 DEF DeleteGuestDefaultHandler, DeleteGuestDefault, Speaks, PolicyRuntime
<1>6. ASSUME NEW i \in Ifaces, NEW enabled \in BOOLEAN, SetGuestDefaultEnableHandler(h, i, enabled)
      PROVE  Speaks(runtime', topology)
  <2>1. runtime' = SetGuestDefaultEnabled(runtime, i, enabled) /\ runtime.guests[i] # Absent
    BY <1>6, Zenon DEF SetGuestDefaultEnableHandler
  <2>2. \/ runtime' = [runtime EXCEPT !.disabled = @ \ {i}]
        \/ runtime' = [runtime EXCEPT !.disabled = @ \cup {i}]
    BY <2>1, Zenon DEF SetGuestDefaultEnabled
  <2> QED BY <1>1, <2>1, <2>2 DEF Speaks, PolicyRuntime
<1>7. ASSUME NEW i \in Ifaces, NEW m \in Macs, AddGuestWhitelistHandler(h, i, m)
      PROVE  Speaks(runtime', topology)
  BY <1>1, <1>7 DEF AddGuestWhitelistHandler, AddGuestWhitelist, Speaks, PolicyRuntime
<1>8. ASSUME NEW i \in Ifaces, NEW m \in Macs, RemoveGuestWhitelistHandler(h, i, m)
      PROVE  Speaks(runtime', topology)
  BY <1>1, <1>8 DEF RemoveGuestWhitelistHandler, RemoveGuestWhitelist, Speaks, PolicyRuntime
<1>9. ASSUME NEW i \in Ifaces, NEW m \in Macs, DeleteDeviceHandler(h, i, m)
      PROVE  Speaks(runtime', topology)
  BY <1>1, <1>9 DEF DeleteDeviceHandler, RemoveDevicePolicy, Speaks, PolicyRuntime
<1>10. ASSUME NEW rule \in Rule, CreateSchedule(h, rule)
       PROVE  Speaks(runtime', topology)
  BY <1>1, <1>10 DEF CreateSchedule, PutRule, Speaks, PolicyRuntime
<1>11. ASSUME NEW rule \in Rule, NEW id \in RuleIds, UpdateSchedule(h, id, rule)
       PROVE  Speaks(runtime', topology)
  BY <1>1, <1>11 DEF UpdateSchedule, PutRule, Speaks, PolicyRuntime
<1>12. ASSUME NEW id \in RuleIds, DeleteSchedule(h, id)
       PROVE  Speaks(runtime', topology)
  BY <1>1, <1>12 DEF DeleteSchedule, DeleteRule, Speaks, PolicyRuntime
<1>13. CASE \E i \in Ifaces, enabled \in BOOLEAN : SetGuestDefaultEnableHandler(h, i, enabled)
  BY <1>6, <1>13, Zenon
<1>14. CASE ~ \E i \in Ifaces, enabled \in BOOLEAN : SetGuestDefaultEnableHandler(h, i, enabled)
  <2> HIDE DEF Mutate
  <2> QED BY <1>2, <1>3, <1>4, <1>5, <1>7, <1>8, <1>9, <1>10, <1>11, <1>12, <1>14 DEF Handle
<1> QED BY <1>13, <1>14

(* The policy in force is always a policy, and of the interfaces that the  *)
(* service found when it started: no request and no row, whatever it was     *)
(* saved with, brings in an entry for any other (policy.rs 134-522).         *)
THEOREM TypeInvariant == Spec => []TypeOK
<1>1. Init => TypeOK
  <2> SUFFICES ASSUME Init PROVE TypeOK
    OBVIOUS
  <2>1. /\ topology \in SUBSET Ifaces /\ runtime \in PolicyRuntime /\ db \in PolicyRuntime
        /\ nextId \in Nat /\ requests \in Nat /\ DOMAIN owed = Settings
    BY EmptyType, StoreConstants DEF Init
  <2>2. /\ running \in BOOLEAN /\ truncated \in BOOLEAN /\ unsaved \in BOOLEAN
        /\ pending \in [Handlers -> BOOLEAN]
    BY DEF Init
  <2>3. claims \in [Handlers -> SUBSET Settings]
    BY Zenon DEF Init
  <2>4. Named(runtime) \subseteq topology
    BY EmptySpeaks, EmptyType, SpeaksIs DEF Init
  <2> QED BY <2>1, <2>2, <2>3, <2>4 DEF TypeOK
<1>2. TypeOK /\ [Next]_vars => TypeOK'
  <2> SUFFICES ASSUME TypeOK, [Next]_vars PROVE TypeOK'
    OBVIOUS
  <2>1. ASSUME NEW h \in Handlers, Handle(h) PROVE TypeOK'
    <3>1. PICK r \in PolicyRuntime, keys \in SUBSET Settings : Mutate(h, r, keys)
      BY <2>1, HandleMutates
    <3>2. nextId' \in Nat
      BY <2>1, HandleMutates
    <3>3. runtime' = r /\ topology' = topology
      BY <3>1 DEF Mutate
    <3>4. Named(runtime') \subseteq topology'
      BY <2>1, <3>3, HandleSpeaks, SpeaksIs
    <3> QED BY <3>1, <3>2, <3>4 DEF Mutate, TypeOK
  <2>2. ASSUME NEW h \in Handlers, Persist(h) PROVE TypeOK'
    BY <2>2, ExportType DEF Persist, TypeOK, memory
  <2>3. ASSUME NEW h \in Handlers, GiveUp(h) PROVE TypeOK'
    BY <2>3 DEF GiveUp, TypeOK, memory
  <2>4. CASE Crash
    BY <2>4, EmptyType, EmptySpeaks, SpeaksIs DEF Crash, TypeOK
  <2>5. ASSUME NEW t \in Topologies, Start(t) PROVE TypeOK'
    BY <2>5, ImportType, ImportSpeaks, SpeaksIs, StoreConstants DEF Start, TypeOK
  <2>6. ASSUME NEW t \in Topologies, StartUnread(t) PROVE TypeOK'
    BY <2>6, EmptyType, EmptySpeaks, SpeaksIs, StoreConstants DEF StartUnread, TypeOK
  <2>7. CASE UNCHANGED vars
    BY <2>7 DEF vars, memory, ghosts, TypeOK
  <2> QED BY <2>1, <2>2, <2>3, <2>4, <2>5, <2>6, <2>7 DEF Next
<1> QED BY <1>1, <1>2, PTL DEF Spec

(* What a request was answered OK for survives interleaved handlers, failed *)
(* saves, crashes and restarts, until somebody changes it again, as long as *)
(* no restart cut the saved policy short.                                   *)
THEOREM Durability == Spec => []AckedSurvives
<1>1. Init => AckedSurvives
  BY DEF Init, AckedSurvives
<1>2. TypeOK /\ AckedSurvives /\ [Next]_vars => AckedSurvives'
  <2> SUFFICES ASSUME TypeOK, AckedSurvives, [Next]_vars,
                      ~ truncated', NEW k \in Settings, owed'[k] # NotOwed
               PROVE  View(db')[k] = owed'[k] /\ (running' => View(runtime')[k] = owed'[k])
    BY DEF AckedSurvives
  <2> HIDE DEF View, Settings
  <2>1. ASSUME NEW h \in Handlers, Handle(h)
        PROVE  View(db')[k] = owed'[k] /\ (running' => View(runtime')[k] = owed'[k])
    <3>1. PICK r \in PolicyRuntime, keys \in SUBSET Settings : Mutate(h, r, keys)
      BY <2>1, HandleMutates
    <3>2. View(r)[k] = View(runtime)[k] /\ owed'[k] = owed[k]
      BY <3>1 DEF Mutate, Changed
    <3> QED BY <3>1, <3>2 DEF Mutate, AckedSurvives
  <2>2. ASSUME NEW h \in Handlers, Persist(h)
        PROVE  View(db')[k] = owed'[k] /\ (running' => View(runtime')[k] = owed'[k])
    <3>1. View(db')[k] = View(runtime)[k] /\ runtime' = runtime
      BY <2>2, ExportView DEF Persist, TypeOK, memory
    <3>2. View(runtime)[k] = owed'[k]
      BY <2>2 DEF Persist, AckedSurvives
    <3> QED BY <3>1, <3>2
  <2>3. ASSUME NEW h \in Handlers, GiveUp(h)
        PROVE  View(db')[k] = owed'[k] /\ (running' => View(runtime')[k] = owed'[k])
    BY <2>3 DEF GiveUp, AckedSurvives, memory
  <2>4. CASE Crash
    BY <2>4 DEF Crash, AckedSurvives
  <2>5. ASSUME NEW t \in Topologies, Start(t)
        PROVE  View(db')[k] = owed'[k] /\ (running' => View(runtime')[k] = owed'[k])
    BY <2>5, FullImportView DEF Start, AckedSurvives, TypeOK
  <2>6. ASSUME NEW t \in Topologies, StartUnread(t) PROVE FALSE
    BY <2>6 DEF StartUnread
  <2>7. CASE UNCHANGED vars
    BY <2>7 DEF vars, memory, ghosts, AckedSurvives
  <2> QED BY <2>1, <2>2, <2>3, <2>4, <2>5, <2>6, <2>7 DEF Next
<1> QED BY <1>1, <1>2, TypeInvariant, PTL DEF Spec

(* Memory and database agree whenever no handler is under way and none gave *)
(* up since the last save.                                                 *)
THEOREM QuietAgreement == Spec => []SavedWhenQuiet
<1>1. Init => SavedWhenQuiet
  BY DEF Init, SavedWhenQuiet
<1>2. TypeOK /\ SavedWhenQuiet /\ [Next]_vars => SavedWhenQuiet'
  <2> SUFFICES ASSUME TypeOK, SavedWhenQuiet, [Next]_vars,
                      running', ~ truncated', ~ unsaved', \A h \in Handlers : ~ pending'[h],
                      NEW k \in Settings
               PROVE  View(db')[k] = View(runtime')[k]
    BY DEF SavedWhenQuiet
  <2> HIDE DEF View, Settings
  <2>1. ASSUME NEW h \in Handlers, Handle(h) PROVE FALSE
    BY <2>1, HandleMutates DEF Mutate, TypeOK
  <2>2. ASSUME NEW h \in Handlers, Persist(h) PROVE View(db')[k] = View(runtime')[k]
    BY <2>2, ExportView DEF Persist, TypeOK, memory
  <2>3. ASSUME NEW h \in Handlers, GiveUp(h) PROVE FALSE
    BY <2>3 DEF GiveUp
  <2>4. CASE Crash
    BY <2>4 DEF Crash
  <2>5. ASSUME NEW t \in Topologies, Start(t) PROVE View(db')[k] = View(runtime')[k]
    BY <2>5, FullImportView DEF Start, TypeOK
  <2>6. ASSUME NEW t \in Topologies, StartUnread(t) PROVE FALSE
    BY <2>6 DEF StartUnread
  <2>7. CASE UNCHANGED vars
    BY <2>7 DEF vars, memory, ghosts, SavedWhenQuiet
  <2> QED BY <2>1, <2>2, <2>3, <2>4, <2>5, <2>6, <2>7 DEF Next
<1> QED BY <1>1, <1>2, TypeInvariant, PTL DEF Spec

(* A restart restores a setting as it was saved or not at all, wherever the *)
(* import stops.                                                            *)
THEOREM RestartSound == Spec => RestartInventsNothing
<1>1. TypeOK /\ [Next]_vars =>
        [~ running /\ running' =>
           \A k \in Settings : View(runtime')[k] \in {View(db)[k], Unset(k)}]_vars
  <2> SUFFICES ASSUME TypeOK, Next, ~ running, running', NEW k \in Settings
               PROVE  View(runtime')[k] \in {View(db)[k], Unset(k)}
    OBVIOUS
  <2> HIDE DEF View, Settings, Unset
  <2>1. PICK t \in Topologies : Start(t) \/ StartUnread(t)
    BY HandleMutates DEF Next, Persist, GiveUp, Crash, Mutate
  <2>2. CASE Start(t)
    BY <2>2, ImportInventsNothing DEF Start, TypeOK
  <2>3. CASE StartUnread(t)
    BY <2>3 DEF StartUnread, Unset
  <2> QED BY <2>1, <2>2, <2>3
<1> QED BY <1>1, TypeInvariant, PTL DEF Spec, RestartInventsNothing

-----------------------------------------------------------------------------
(* The refinement: a handler's first step is a Change or a stutter, its save *)
(* a Save, a crash a Fail, both starts a Recover, and a handler that gives   *)
(* up a stutter.                                                           *)

LEMMA MutateChanges ==
  ASSUME TypeOK, NEW h \in Handlers, NEW r \in PolicyRuntime, NEW keys \in SUBSET Settings,
         Mutate(h, r, keys)
  PROVE  Durable!Change
<1>1. /\ running /\ UNCHANGED <<running, db, truncated>> /\ runtime' = r
      /\ owed' = [k \in Settings |-> IF k \in Changed(runtime, r) THEN NotOwed ELSE owed[k]]
  BY DEF Mutate
<1>2. \A k \in Settings : k \in Changed(runtime, r) <=> View(r)[k] # View(runtime)[k]
  BY DEF Changed
<1>3. DOMAIN View(r) = Settings
  BY DEF View
<1> HIDE DEF View, Settings
<1> QED BY <1>1, <1>2, <1>3 DEF Durable!Change

(* Whatever request, interleaving, failing save, crash or restart, what the *)
(* policy handlers, the database row and the import do is what a durable    *)
(* map of settings may do.                                                 *)
THEOREM DurableRefinement == Spec => ImplementsDurable
<1>1. Init => Durable!Init
  BY Zenon DEF Init, Durable!Init
<1>2. TypeOK /\ [Next]_vars => [Durable!Next]_Durable!settings
  <2> SUFFICES ASSUME TypeOK, [Next]_vars PROVE [Durable!Next]_Durable!settings
    OBVIOUS
  <2> HIDE DEF View, Settings
  <2>1. ASSUME NEW h \in Handlers, Handle(h) PROVE Durable!Change
    BY <2>1, HandleMutates, MutateChanges
  <2>2. ASSUME NEW h \in Handlers, Persist(h) PROVE Durable!Save
    BY <2>2, ExportView DEF Persist, memory, TypeOK, Durable!Save
  <2>3. ASSUME NEW h \in Handlers, GiveUp(h) PROVE UNCHANGED Durable!settings
    BY <2>3 DEF GiveUp, memory, Durable!settings
  <2>4. CASE Crash
    BY <2>4 DEF Crash, Durable!Fail, Durable!Next
  <2>5. ASSUME NEW t \in Topologies, Start(t) PROVE Durable!Recover
    <3>1. \A k \in Settings : View(runtime')[k] \in {View(db)[k], View(EmptyRuntime)[k]}
      BY <2>5, ImportInventsNothing DEF Start, TypeOK, Unset
    <3>2. View(runtime') # View(db) => truncated'
      BY <2>5, FullImportView DEF Start, TypeOK
    <3>3. truncated' \in BOOLEAN /\ (truncated => truncated')
      BY <2>5 DEF Start, TypeOK
    <3> QED BY <2>5, <3>1, <3>2, <3>3 DEF Start, Durable!Recover
  <2>6. ASSUME NEW t \in Topologies, StartUnread(t) PROVE Durable!Recover
    BY <2>6 DEF StartUnread, Durable!Recover
  <2>7. CASE UNCHANGED vars
    BY <2>7 DEF vars, memory, ghosts, Durable!settings
  <2> QED BY <2>1, <2>2, <2>3, <2>4, <2>5, <2>6, <2>7 DEF Next, Durable!Next
<1> QED BY <1>1, <1>2, TypeInvariant, PTL DEF Spec, ImplementsDurable, Durable!Spec
=============================================================================
