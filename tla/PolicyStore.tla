----------------------------- MODULE PolicyStore -----------------------------
(***************************************************************************)
(* The policy while the service runs: the handlers of api.rs that change   *)
(* it, its single row in the database (persistence.rs 171-201), and what a *)
(* crash and a restart make of it (command.rs 90-95).                      *)
(*                                                                         *)
(* A handler works in two steps.  It changes the runtime under the write   *)
(* lock, or rejects the request and changes nothing (no action); then it   *)
(* takes the read lock, on which other handlers may come between, exports  *)
(* the runtime as it is by then and saves that.  Only then does it answer  *)
(* OK.  A handler whose client disconnects is dropped at the lock.         *)
(***************************************************************************)
EXTENDS Policy, FiniteSets

CONSTANTS
  Handlers,     \* requests that can be in flight at once
  Topologies,   \* the interface sets a start of the service may discover
  NotOwed,      \* no promise is made of a setting
  MaxRequests   \* bound on the number of requests

ASSUME StoreConstants ==
  /\ Topologies \subseteq SUBSET Ifaces
  /\ MaxRequests \in Nat

VARIABLES
  running,   \* is the service up
  topology,  \* the interfaces discovered when it started
  runtime,   \* ApiState.policy_runtime
  db,        \* the row of table policy_state
  pending,   \* for each handler, whether it is between its two steps
  nextId,    \* the next rule id
  requests,  \* counted for the bound
  \* What an observer notes: the settings a request in flight has set and that
  \* nobody has changed since; for each setting the value last acknowledged, or
  \* NotOwed once somebody changed it again; whether a restart ever dropped a
  \* part of the saved policy; whether a change in memory was given up unsaved.
  claims, owed, truncated, unsaved

memory == <<running, topology, runtime, nextId>>
ghosts == <<claims, owed, truncated, unsaved>>
vars   == <<memory, db, pending, requests, ghosts>>

(* Types, and that the policy in force speaks only of interfaces the service *)
(* found when it started: every handler asks the topology for the interface, *)
(* or finds an entry that did, and an import goes no further than the first  *)
(* interface that is missing, whatever the row was saved with.              *)
TypeOK ==
  /\ running \in BOOLEAN /\ topology \in SUBSET Ifaces
  /\ Named(runtime) \subseteq topology
  /\ runtime \in PolicyRuntime /\ db \in PolicyRuntime
  /\ pending \in [Handlers -> BOOLEAN] /\ claims \in [Handlers -> SUBSET Settings]
  /\ nextId \in Nat /\ requests \in Nat
  /\ DOMAIN owed = Settings /\ truncated \in BOOLEAN /\ unsaved \in BOOLEAN

Init ==
  /\ running = TRUE /\ topology \in Topologies
  /\ runtime = EmptyRuntime /\ db = EmptyRuntime
  /\ pending = [h \in Handlers |-> FALSE] /\ claims = [h \in Handlers |-> {}]
  /\ nextId = 0 /\ requests = 0
  /\ owed = [k \in Settings |-> NotOwed] /\ truncated = FALSE /\ unsaved = FALSE

-----------------------------------------------------------------------------
(* First step of a handler.                                                *)

(* The runtime becomes r, in which the request has set the settings `keys`. *)
Mutate(h, r, keys) ==
  LET changed == Changed(runtime, r)
  IN  /\ running /\ ~ pending[h] /\ requests < MaxRequests
      /\ runtime' = r
      /\ pending' = [pending EXCEPT ![h] = TRUE]
      /\ requests' = requests + 1
      /\ claims' = [g \in Handlers |-> IF g = h THEN keys ELSE claims[g] \ changed]
      /\ owed' = [k \in Settings |-> IF k \in changed THEN NotOwed ELSE owed[k]]
      /\ UNCHANGED <<running, topology, db, truncated, unsaved>>

SetIfaceLimitHandler(h, i, rate) ==
  /\ i \in topology
  /\ Mutate(h, SetIfaceLimit(runtime, i, rate), {<<"limit", i>>})
  /\ UNCHANGED nextId

DeleteIfaceLimitHandler(h, i) ==
  /\ runtime.limits[i] # Absent
  /\ Mutate(h, DeleteIfaceLimit(runtime, i), {<<"limit", i>>})
  /\ UNCHANGED nextId

SetGuestDefaultHandler(h, i, rate) ==
  /\ i \in topology
  /\ Mutate(h, SetGuestDefault(runtime, i, rate), {<<"guest", i>>})
  /\ UNCHANGED nextId

SetGuestDefaultEnableHandler(h, i, enabled) ==
  /\ runtime.guests[i] # Absent
  /\ Mutate(h, SetGuestDefaultEnabled(runtime, i, enabled), {<<"guest", i>>})
  /\ UNCHANGED nextId

DeleteGuestDefaultHandler(h, i) ==
  /\ runtime.guests[i] # Absent
  /\ Mutate(h, DeleteGuestDefault(runtime, i),
            {<<"guest", i>>} \cup {<<"whitelist", i, m>> : m \in Macs})
  /\ UNCHANGED nextId

AddGuestWhitelistHandler(h, i, m) ==
  /\ i \in topology
  /\ Mutate(h, AddGuestWhitelist(runtime, i, m), {<<"whitelist", i, m>>})
  /\ UNCHANGED nextId

RemoveGuestWhitelistHandler(h, i, m) ==
  /\ <<i, m>> \in runtime.whitelist
  /\ Mutate(h, RemoveGuestWhitelist(runtime, i, m), {<<"whitelist", i, m>>})
  /\ UNCHANGED nextId

CreateSchedule(h, rule) ==
  /\ rule.iface \in topology /\ nextId \in RuleIds
  /\ Mutate(h, PutRule(runtime, nextId, rule), {<<"rule", nextId>>})
  /\ nextId' = nextId + 1

UpdateSchedule(h, id, rule) ==
  /\ rule.iface \in topology /\ runtime.rules[id] # Absent
  /\ Mutate(h, PutRule(runtime, id, rule), {<<"rule", id>>})
  /\ UNCHANGED nextId

DeleteSchedule(h, id) ==
  /\ runtime.rules[id] # Absent
  /\ Mutate(h, DeleteRule(runtime, id), {<<"rule", id>>})
  /\ UNCHANGED nextId

(* The part of delete_device_handler that concerns the policy.             *)
DeleteDeviceHandler(h, i, m) ==
  /\ i \in topology
  /\ Mutate(h, RemoveDevicePolicy(runtime, i, m),
            {<<"whitelist", i, m>>} \cup {<<"rule", id>> : id \in RulesOf(runtime, i, m)})
  /\ UNCHANGED nextId

-----------------------------------------------------------------------------
(* Second step of a handler: persist_policy_state.                         *)

Persist(h) ==
  /\ running /\ pending[h]
  /\ db' = Export(runtime)
  /\ pending' = [pending EXCEPT ![h] = FALSE]
  /\ claims' = [claims EXCEPT ![h] = {}]
  /\ owed' = [k \in Settings |-> IF k \in claims[h] THEN View(runtime)[k] ELSE owed[k]]
  /\ unsaved' = FALSE
  /\ UNCHANGED <<memory, requests, truncated>>

(* The save fails and the client is told so, or the client has gone and the *)
(* handler is dropped.  The change stays in memory.                        *)
GiveUp(h) ==
  /\ running /\ pending[h]
  /\ pending' = [pending EXCEPT ![h] = FALSE]
  /\ claims' = [claims EXCEPT ![h] = {}]
  /\ unsaved' = TRUE
  /\ UNCHANGED <<memory, db, requests, owed, truncated>>

-----------------------------------------------------------------------------
Crash ==
  /\ running
  /\ running' = FALSE
  /\ runtime' = EmptyRuntime
  /\ pending' = [h \in Handlers |-> FALSE] /\ claims' = [h \in Handlers |-> {}]
  /\ unsaved' = FALSE
  /\ UNCHANGED <<topology, db, nextId, requests, owed, truncated>>

(* The service starts with what import_runtime_state took before it failed, *)
(* if it did: the error is logged and nothing else.                        *)
Start(t) ==
  /\ ~ running
  /\ running' = TRUE /\ topology' = t
  /\ runtime' = Import(db, t)
  /\ truncated' = (truncated \/ ~ FullyImported(db, t))
  /\ UNCHANGED <<db, pending, nextId, requests, claims, owed, unsaved>>

(* The row cannot be read, or not be parsed: it starts with no policy.     *)
StartUnread(t) ==
  /\ ~ running
  /\ running' = TRUE /\ topology' = t
  /\ runtime' = EmptyRuntime
  /\ truncated' = TRUE
  /\ UNCHANGED <<db, pending, nextId, requests, claims, owed, unsaved>>

Handle(h) ==
  \/ \E i \in Ifaces, rate \in Rates :
       SetIfaceLimitHandler(h, i, rate) \/ SetGuestDefaultHandler(h, i, rate)
  \/ \E i \in Ifaces :
       DeleteIfaceLimitHandler(h, i) \/ DeleteGuestDefaultHandler(h, i)
  \/ \E i \in Ifaces, enabled \in BOOLEAN : SetGuestDefaultEnableHandler(h, i, enabled)
  \/ \E i \in Ifaces, m \in Macs :
       \/ AddGuestWhitelistHandler(h, i, m) \/ RemoveGuestWhitelistHandler(h, i, m)
       \/ DeleteDeviceHandler(h, i, m)
  \/ \E rule \in Rule : CreateSchedule(h, rule)
  \/ \E rule \in Rule, id \in RuleIds : UpdateSchedule(h, id, rule)
  \/ \E id \in RuleIds : DeleteSchedule(h, id)

Next ==
  \/ \E h \in Handlers : Handle(h) \/ Persist(h) \/ GiveUp(h)
  \/ Crash
  \/ \E t \in Topologies : Start(t) \/ StartUnread(t)

Spec == Init /\ [][Next]_vars

-----------------------------------------------------------------------------
(* Properties.                                                             *)

(* What a request was answered OK for is kept until another request changes *)
(* that setting: it is in the database, through every interleaving with     *)
(* other handlers, failed saves and crashes, and in force while the service *)
(* runs.  Conditional on no restart having cut the saved policy short, see  *)
(* Start and StartUnread: after one, the next save makes the cut permanent. *)
AckedSurvives ==
  ~ truncated =>
    \A k \in Settings : owed[k] # NotOwed =>
      View(db)[k] = owed[k] /\ (running => View(runtime)[k] = owed[k])

(* When no handler is on its way to the database and none gave up since the *)
(* last save, memory and database agree (persist_policy_state saves what    *)
(* the runtime is at the time of the save, not what the handler made it).   *)
SavedWhenQuiet ==
  running /\ ~ truncated /\ ~ unsaved /\ (\A h \in Handlers : ~ pending[h])
    => \A k \in Settings : View(db)[k] = View(runtime)[k]

(* However early an import stops, it invents nothing: a restart restores a  *)
(* setting as it was saved or not at all. In particular a guest default     *)
(* saved as disabled never comes back enabled, although set_guest_default   *)
(* enables what it sets (policy.rs 195-212).                                *)
Unset(k) == View(EmptyRuntime)[k]

RestartInventsNothing ==
  [][ ~ running /\ running' =>
        \A k \in Settings : View(runtime')[k] \in {View(db)[k], Unset(k)} ]_vars

-----------------------------------------------------------------------------
(* The abstract store, seen through what the GET handlers show of memory    *)
(* and of the row.                                                         *)
Durable == INSTANCE DurableSettings WITH
  Keys <- Settings, Blank <- View(EmptyRuntime),
  up <- running, memory <- View(runtime), saved <- View(db), promised <- owed, cut <- truncated

(* The handlers, the row and the import implement a durable map: whatever   *)
(* comes between the two steps of a handler, a save is all of the policy at *)
(* one instant and never a part of it or a mixture of two, a promise is of   *)
(* what that save holds, failures change nothing that was saved, and a      *)
(* restart adds nothing to it.                                             *)
ImplementsDurable == Durable!Spec
=============================================================================
