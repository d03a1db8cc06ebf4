------------------------------- MODULE Policy -------------------------------
(***************************************************************************)
(* The policy engine's configuration, PolicyRuntime (policy.rs 134-142),   *)
(* and every operation on it: the set, delete and enable operations behind *)
(* the API handlers, the removal of a device, and the export and import    *)
(* through which it is saved and restored.                                 *)
(*                                                                         *)
(* Interfaces and rules are numbers: interfaces in the order their names   *)
(* sort, in which an export lists them; rules in the order of their        *)
(* creation, in which the runtime keeps them and an export lists them (ids *)
(* are fresh UUIDs, deletion and update keep the order).  Rate values, MAC *)
(* addresses and time slots are opaque: the conversions from and to the    *)
(* kbit/s and HH:MM of an export lose nothing (x * 1000 / 8 * 8 / 1000 = x *)
(* for every x up to u64::MAX / 1000 kbit/s; above that kbps_to_bps and     *)
(* bytes_to_kbps saturate, which is left out).  base.device_static is       *)
(* always empty (parse_policy 144).                                        *)
(***************************************************************************)
EXTENDS Naturals

CONSTANTS
  Ifaces,   \* interface names
  Macs,     \* device MAC addresses
  Rates,    \* rate limit values, four budgets each
  Slots,    \* time slots of rules
  RuleIds,  \* ids of rules
  Absent    \* no entry in a map

ASSUME PolicyConstants ==
  /\ Ifaces \subseteq Nat /\ RuleIds \subseteq Nat
  /\ Absent \notin Rates

Rule == [iface : Ifaces, mac : Macs, slot : Slots, rate : Rates]

PolicyRuntime ==
  [limits    : [Ifaces -> Rates \cup {Absent}],   \* iface_limits
   guests    : [Ifaces -> Rates \cup {Absent}],   \* guest_default_limits
   disabled  : SUBSET Ifaces,                     \* guest_default_disabled
   whitelist : SUBSET (Ifaces \X Macs),           \* guest_whitelist
   rules     : [RuleIds -> Rule \cup {Absent}]]   \* scheduled_rules

Configured(map) == {k \in DOMAIN map : map[k] # Absent}

EmptyRuntime ==
  [limits    |-> [i \in Ifaces |-> Absent],
   guests    |-> [i \in Ifaces |-> Absent],
   disabled  |-> {},
   whitelist |-> {},
   rules     |-> [id \in RuleIds |-> Absent]]

-----------------------------------------------------------------------------
(* The operations.  Those that can fail do so before changing anything; the *)
(* conditions are guards of the handlers (module PolicyStore).             *)

SetIfaceLimit(r, i, rate) == [r EXCEPT !.limits[i] = rate]
DeleteIfaceLimit(r, i)    == [r EXCEPT !.limits[i] = Absent]

(* Setting a guest default also enables it. *)
SetGuestDefault(r, i, rate) ==
  [r EXCEPT !.guests[i] = rate, !.disabled = @ \ {i}]

SetGuestDefaultEnabled(r, i, enabled) ==
  [r EXCEPT !.disabled = IF enabled THEN @ \ {i} ELSE @ \cup {i}]

(* The whitelist of the interface goes with its guest default. *)
DeleteGuestDefault(r, i) ==
  [r EXCEPT !.guests[i] = Absent, !.disabled = @ \ {i},
            !.whitelist = {e \in @ : e[1] # i}]

AddGuestWhitelist(r, i, m)    == [r EXCEPT !.whitelist = @ \cup {<<i, m>>}]
RemoveGuestWhitelist(r, i, m) == [r EXCEPT !.whitelist = @ \ {<<i, m>>}]

PutRule(r, id, rule) == [r EXCEPT !.rules[id] = rule]
DeleteRule(r, id)    == [r EXCEPT !.rules[id] = Absent]

RulesOf(r, i, m) ==
  {id \in Configured(r.rules) : r.rules[id].iface = i /\ r.rules[id].mac = m}

RemoveDevicePolicy(r, i, m) ==
  [r EXCEPT !.rules = [id \in RuleIds |-> IF id \in RulesOf(r, i, m) THEN Absent ELSE @[id]],
            !.whitelist = @ \ {<<i, m>>}]

-----------------------------------------------------------------------------
(* Saving and restoring.  An export carries the disabled flag inside the    *)
(* row of its guest default, so a flag without one is not saved.           *)

(* Mutations of Export: the flags are forgotten; so is a whitelist whose    *)
(* interface has no guest default.                                         *)
ExportWithoutFlags(r) == [r EXCEPT !.disabled = {}]
ExportListsInUse(r) ==
  [r EXCEPT !.disabled = @ \cap Configured(r.guests),
            !.whitelist = {e \in @ : r.guests[e[1]] # Absent}]

Export(r) == [r EXCEPT !.disabled = @ \cap Configured(r.guests)]

IfacesOf(whitelist) == {e[1] : e \in whitelist}

RuleIfaces(rules) == {rules[id].iface : id \in Configured(rules)}

(* The interfaces a policy speaks of.                                      *)
Named(r) == Configured(r.limits) \cup Configured(r.guests) \cup r.disabled
              \cup IfacesOf(r.whitelist) \cup RuleIfaces(r.rules)

(* import_runtime_state stops at the first entry that names an interface the *)
(* topology does not have, and keeps what it has imported up to there: the  *)
(* interface limits, then the guest defaults, the whitelist and the rules.  *)
Kept(map, keys) == [k \in DOMAIN map |-> IF k \in keys THEN map[k] ELSE Absent]

(* Mutation of Reached: an entry goes in before its interface is resolved. *)
ReachedAndOne(ifaces, topology) ==
  {i \in ifaces : \A j \in ifaces : j < i => j \in topology}

Reached(ifaces, topology) ==
  {i \in ifaces : \A j \in ifaces : j <= i => j \in topology}

ReachedRules(rules, topology) ==
  {id \in Configured(rules) :
     \A other \in Configured(rules) : other <= id => rules[other].iface \in topology}

LimitsImported(s, topology)    == Configured(s.limits) \subseteq topology
GuestsImported(s, topology)    == /\ LimitsImported(s, topology)
                                  /\ Configured(s.guests) \subseteq topology
WhitelistImported(s, topology) == /\ GuestsImported(s, topology)
                                  /\ IfacesOf(s.whitelist) \subseteq topology
FullyImported(s, topology)     == /\ WhitelistImported(s, topology)
                                  /\ RuleIfaces(s.rules) \subseteq topology

(* Mutation of FlagsImported: the flag is lost.                            *)
FlagsLost(s, guests) == {}

(* A flag is restored after its guest default, which would enable it.      *)
FlagsImported(s, guests) == s.disabled \cap guests

Import(s, topology) ==
  LET guests == IF LimitsImported(s, topology)
                  THEN Reached(Configured(s.guests), topology) ELSE {}
      listed == IF GuestsImported(s, topology)
                  THEN Reached(IfacesOf(s.whitelist), topology) ELSE {}
      rules  == IF WhitelistImported(s, topology)
                  THEN ReachedRules(s.rules, topology) ELSE {}
  IN  [limits    |-> Kept(s.limits, Reached(Configured(s.limits), topology)),
       guests    |-> Kept(s.guests, guests),
       disabled  |-> FlagsImported(s, guests),
       whitelist |-> {e \in s.whitelist : e[1] \in listed},
       rules     |-> Kept(s.rules, rules)]

-----------------------------------------------------------------------------
(* What a runtime configures, setting by setting, as the GET handlers show. *)

Settings == ({"limit", "guest"} \X Ifaces) \cup ({"rule"} \X RuleIds)
              \cup ({"whitelist"} \X Ifaces \X Macs)

View(r) ==
  [k \in Settings |->
     CASE k[1] = "limit"     -> r.limits[k[2]]
       [] k[1] = "guest"     -> IF r.guests[k[2]] = Absent THEN Absent
                                ELSE <<r.guests[k[2]], k[2] \in r.disabled>>
       [] k[1] = "rule"      -> r.rules[k[2]]
       [] k[1] = "whitelist" -> IF <<k[2], k[3]>> \in r.whitelist THEN "listed" ELSE Absent]

Changed(r, s) == {k \in Settings : View(r)[k] # View(s)[k]}
=============================================================================
