--------------------------- MODULE DevicesProofs ---------------------------
(***************************************************************************)
(* A host name that a client was told is set stays until it is changed, a   *)
(* deleted device stays deleted and its traffic forgotten, and totals agree *)
(* with the history.                                                       *)
(***************************************************************************)
EXTENDS Devices, TLAPS

(* Whoever writes the registry to the database does so while the service    *)
(* runs, so that it writes the name the registry holds for the client; and  *)
(* a rename that still holds when it comes to answer finds its own name in  *)
(* the registry.                                                           *)
NameInv ==
  /\ NameSurvives
  /\ acked \in Names \cup {Absent}
  /\ renaming # "no" => running /\ newName \in Names
  /\ deleting # "no" => running
  /\ pc # "idle" => running
  /\ holds => renaming = "save" /\ registry = newName

LEMMA NameInit == Init => NameInv
  BY DEF Init, NameInv, NameSurvives

(* The steps that leave the registry, the stored devices and the answers    *)
(* of renames alone.                                                       *)
LEMMA NameElsewhere ==
  ASSUME NameInv,
         UNCHANGED <<running, registry, dbDevice, acked, holds, renaming, newName>>,
         deleting' # "no" => running, pc' # "idle" => running
  PROVE  NameInv'
  BY DEF NameInv, NameSurvives

LEMMA NameStep == NameInv /\ [Next]_vars => NameInv'
<1> SUFFICES ASSUME NameInv, [Next]_vars PROVE NameInv'
  OBVIOUS
<1> USE DEF service, kernel, monitor, histogram, history, disk, ticking, renamer, bounds, deletion, naming
<1>1. CASE Send \/ ComeOrGo
  BY <1>1, NameElsewhere DEF Send, ComeOrGo, NameInv
<1>2. CASE Collect
  <2>1. CASE online
    <3>1. PICK name \in NamesFor(registry) : registry' = name
      BY <1>2, <2>1 DEF Collect
    <3>2. registry \in Names => registry' = registry
      BY <3>1 DEF NamesFor
    <3>3. UNCHANGED <<running, dbDevice, acked, holds, renaming, newName, deleting>> /\ running
      BY <1>2 DEF Collect
    <3> QED BY <3>2, <3>3 DEF NameInv, NameSurvives
  <2>2. CASE ~ online
    BY <1>2, <2>2, NameElsewhere DEF Collect, NameInv
  <2> QED BY <2>1, <2>2
<1>3. CASE Chart \/ Ingest \/ AppendBucket \/ Show \/ PersistPoints
  BY <1>3, NameElsewhere DEF Chart, Ingest, AppendBucket, Show, PersistPoints, NameInv
<1>4. CASE PersistDevices
  BY <1>4 DEF PersistDevices, NameInv, NameSurvives
<1>5. CASE Delete
  <2>1. CASE DeleteRuntime
    BY <2>1 DEF DeleteRuntime, NameInv, NameSurvives
  <2>2. CASE DeleteDevices
    BY <2>2 DEF DeleteDevices, NameInv, NameSurvives
  <2>3. CASE DeleteShown \/ DeleteRecent \/ DeleteHistogram \/ DeleteRows \/ DeletePoints \/ DropDelete
    BY <2>3, NameElsewhere
    DEF DeleteShown, DeleteRecent, DeleteHistogram, DeleteRows, DeletePoints, DropDelete, NameInv
  <2> QED BY <1>5, <2>1, <2>2, <2>3 DEF Delete
<1>6. ASSUME NEW name \in Names, RenameShown(name) PROVE NameInv'
  BY <1>6 DEF RenameShown, NameInv, NameSurvives
<1>7. CASE RenameRuntime
  BY <1>7 DEF RenameRuntime, RenameEnds, NameInv, NameSurvives
<1>8. CASE RenameSave
  BY <1>8 DEF RenameSave, RenameEnds, NameInv, NameSurvives
<1>9. CASE DropRename
  BY <1>9 DEF DropRename, RenameEnds, NameInv, NameSurvives
<1>10. CASE FlushDevices
  BY <1>10 DEF FlushDevices, NameInv, NameSurvives
<1>11. CASE FlushPoints
  BY <1>11, NameElsewhere DEF FlushPoints, NameInv
<1>12. CASE Crash
  BY <1>12 DEF Crash, RenameEnds, NameInv, NameSurvives
<1>13. CASE Start
  BY <1>13 DEF Start, NameInv, NameSurvives
<1>14. CASE UNCHANGED vars
  BY <1>14, NameElsewhere DEF vars, NameInv
<1> QED
  BY <1>1, <1>2, <1>3, <1>4, <1>5, <1>6, <1>7, <1>8, <1>9, <1>10, <1>11, <1>12, <1>13, <1>14
  DEF Next

(* An acknowledged host name survives ticks of the collector that find the  *)
(* device under another name, its saves, deletions that have not reached    *)
(* the registry, orderly shutdowns, crashes and restarts, whatever the      *)
(* number of requests and packets (collect_snapshot, save_monitor_runtime,  *)
(* set_device_hostname_handler).                                           *)
THEOREM NamesKept == Spec => []NameSurvives
<1>1. NameInv => NameSurvives BY DEF NameInv
<1> QED BY <1>1, NameInit, NameStep, PTL DEF Spec

-----------------------------------------------------------------------------
(* Deletions.                                                              *)

(* While no tick overlaps the deletion, and no rename holds the device from *)
(* before it, nothing puts the device back behind the handler: what a store *)
(* was emptied of stays out of it, and a rename that begins finds nothing   *)
(* in the snapshot to copy.                                                *)
Emptied ==
  quiet /\ ~ stale =>
    /\ shown = Absent /\ ~ (renaming = "runtime" /\ captured)
    /\ deleting \in {"recent", "histogram", "rows", "devices", "points"} => registry = Absent
    /\ deleting = "points" => dbDevice = Absent

GoneInv ==
  /\ StaysDeleted
  /\ gone => data = Absent /\ ~ (renaming = "runtime" /\ captured)
  /\ quiet => deleting # "no" /\ pc = "idle"
  /\ pc \in {"idle", "shown", "saved"} => data = Absent
  /\ Emptied

LEMMA GoneInit == Init => GoneInv
  BY DEF Init, GoneInv, StaysDeleted, Emptied

(* The steps that leave the entries of the device and the flags alone.      *)
LEMMA GoneElsewhere ==
  ASSUME GoneInv,
         UNCHANGED <<registry, shown, dbDevice, data, renaming, captured, deleting, quiet, stale,
                     gone, pc>>
  PROVE  GoneInv'
  BY DEF GoneInv, StaysDeleted, Emptied

LEMMA GoneStep == NameInv /\ GoneInv /\ [Next]_vars => GoneInv'
<1> SUFFICES ASSUME NameInv, GoneInv, [Next]_vars PROVE GoneInv'
  OBVIOUS
<1> USE DEF service, kernel, monitor, histogram, history, disk, ticking, renamer, bounds, deletion, naming
<1>1. CASE Send \/ ComeOrGo
  BY <1>1, GoneElsewhere DEF Send, ComeOrGo
<1>2. CASE Collect
  BY <1>2 DEF Collect, GoneInv, StaysDeleted, Emptied
<1>3. CASE Chart \/ Ingest \/ AppendBucket
  BY <1>3 DEF Chart, Ingest, AppendBucket, GoneInv, StaysDeleted, Emptied
<1>4. CASE Show
  BY <1>4 DEF Show, GoneInv, StaysDeleted, Emptied
<1>5. CASE PersistDevices \/ PersistPoints
  BY <1>5 DEF PersistDevices, PersistPoints, GoneInv, StaysDeleted, Emptied
<1>6. CASE Delete
  <2>1. CASE DeleteShown
    BY <2>1 DEF DeleteShown, GoneInv, StaysDeleted, Emptied
  <2>2. CASE DeleteRuntime
    BY <2>2 DEF DeleteRuntime, GoneInv, StaysDeleted, Emptied
  <2>3. CASE DeleteRecent \/ DeleteHistogram \/ DeleteRows
    BY <2>3 DEF DeleteRecent, DeleteHistogram, DeleteRows, GoneInv, StaysDeleted, Emptied
  <2>4. CASE DeleteDevices
    BY <2>4 DEF DeleteDevices, GoneInv, StaysDeleted, Emptied
  <2>5. CASE DeletePoints
    BY <2>5 DEF DeletePoints, GoneInv, StaysDeleted, Emptied
  <2>6. CASE DropDelete
    BY <2>6 DEF DropDelete, GoneInv, StaysDeleted, Emptied
  <2> QED BY <1>6, <2>1, <2>2, <2>3, <2>4, <2>5, <2>6 DEF Delete
<1>7. ASSUME NEW name \in Names, RenameShown(name) PROVE GoneInv'
  BY <1>7 DEF RenameShown, GoneInv, StaysDeleted, Emptied
<1>8. CASE RenameRuntime
  BY <1>8 DEF RenameRuntime, RenameEnds, GoneInv, StaysDeleted, Emptied
<1>9. CASE RenameSave \/ DropRename
  BY <1>9 DEF RenameSave, DropRename, RenameEnds, GoneInv, StaysDeleted, Emptied
<1>10. CASE FlushDevices
  BY <1>10 DEF FlushDevices, GoneInv, StaysDeleted, Emptied
<1>11. CASE FlushPoints
  BY <1>11, GoneElsewhere DEF FlushPoints
<1>12. CASE Crash
  BY <1>12 DEF Crash, RenameEnds, GoneInv, StaysDeleted, Emptied
<1>13. CASE Start
  <2>1. deleting = "no" /\ renaming = "no" /\ ~ quiet
    BY <1>13 DEF Start, NameInv, GoneInv
  <2> QED BY <1>13, <2>1 DEF Start, GoneInv, StaysDeleted, Emptied
<1>14. CASE UNCHANGED vars
  BY <1>14, GoneElsewhere DEF vars
<1> QED
  BY <1>1, <1>2, <1>3, <1>4, <1>5, <1>6, <1>7, <1>8, <1>9, <1>10, <1>11, <1>12, <1>13, <1>14
  DEF Next

(* A deleted device is in none of the registry, the snapshot and the stored *)
(* devices until the collector finds it online, unless a tick overlapped    *)
(* the request or a rename held a copy of it (delete_device_handler,        *)
(* set_device_hostname_handler), whatever the number of requests, saves and *)
(* restarts.                                                               *)
THEOREM DeletionsHold == Spec => []StaysDeleted
<1>1. GoneInv => StaysDeleted BY DEF GoneInv
<1> QED BY <1>1, NameInit, NameStep, GoneInit, GoneStep, PTL DEF Spec

(* What the deletion has emptied has nothing of before, since no tick fills  *)
(* it again while the deletion is quiet.                                   *)
ForgetInv ==
  quiet =>
    /\ deleting \in {"recent", "histogram", "rows", "devices", "points"} =>
         before \cap total = {}
    /\ deleting \in {"histogram", "rows", "devices", "points"} => before \cap recent = {}
    /\ deleting \in {"rows", "devices", "points"} => before \cap (current \cup completed) = {}
    /\ deleting \in {"devices", "points"} => before \cap (dbPoints \cup dbBuckets) = {}

LEMMA ForgetInit == Init => ForgetInv
  BY DEF Init, ForgetInv

LEMMA ForgetStep == NameInv /\ GoneInv /\ ForgetInv /\ [Next]_vars => ForgetInv'
<1> SUFFICES ASSUME NameInv, GoneInv, ForgetInv, [Next]_vars PROVE ForgetInv'
  OBVIOUS
<1> USE DEF service, kernel, monitor, histogram, history, disk, ticking, renamer, bounds, deletion, naming
<1>1. quiet => pc = "idle" /\ deleting # "no" /\ running
  BY DEF GoneInv, NameInv
<1>2. CASE Send \/ ComeOrGo
  BY <1>2 DEF Send, ComeOrGo, ForgetInv
<1>3. CASE Collect
  BY <1>3 DEF Collect, ForgetInv
<1>4. CASE Chart \/ Ingest \/ AppendBucket \/ Show \/ PersistDevices \/ PersistPoints
  <2>1. pc # "idle" /\ quiet' = quiet
    BY <1>4 DEF Chart, Ingest, AppendBucket, Show, PersistDevices, PersistPoints
  <2> QED BY <1>1, <2>1 DEF ForgetInv
<1>5. CASE Delete
  <2>1. CASE DeleteShown
    BY <2>1 DEF DeleteShown, ForgetInv
  <2>2. CASE DeleteRuntime
    BY <2>2 DEF DeleteRuntime, ForgetInv
  <2>3. CASE DeleteRecent
    BY <2>3 DEF DeleteRecent, ForgetInv
  <2>4. CASE DeleteHistogram
    BY <2>4 DEF DeleteHistogram, ForgetInv
  <2>5. CASE DeleteRows
    BY <2>5 DEF DeleteRows, ForgetInv
  <2>6. CASE DeleteDevices
    BY <2>6 DEF DeleteDevices, ForgetInv
  <2>7. CASE DeletePoints \/ DropDelete
    BY <2>7 DEF DeletePoints, DropDelete, ForgetInv
  <2> QED BY <1>5, <2>1, <2>2, <2>3, <2>4, <2>5, <2>6, <2>7 DEF Delete
<1>6. ASSUME NEW name \in Names, RenameShown(name) PROVE ForgetInv'
  BY <1>6 DEF RenameShown, ForgetInv
<1>7. CASE RenameRuntime \/ RenameSave \/ DropRename
  BY <1>7 DEF RenameRuntime, RenameSave, DropRename, ForgetInv
<1>8. CASE FlushDevices \/ FlushPoints
  BY <1>8 DEF FlushDevices, FlushPoints, ForgetInv
<1>9. CASE Crash
  BY <1>9 DEF Crash, ForgetInv
<1>10. CASE Start
  BY <1>1, <1>10 DEF Start, ForgetInv
<1>11. CASE UNCHANGED vars
  BY <1>11 DEF vars, ForgetInv
<1> QED
  BY <1>2, <1>3, <1>4, <1>5, <1>6, <1>7, <1>8, <1>9, <1>10, <1>11 DEF Next

(* When a client is told that a device is deleted, no store has any of the  *)
(* traffic it had when the request came, if no tick overlapped the request, *)
(* whatever renames, flushes, earlier crashes and dropped requests there    *)
(* were (delete_device_handler, persist_device_deletion_state).             *)
THEOREM DeletionForgets == Spec => QuietDeleteForgets
<1>1. ForgetInv /\ [Next]_vars => [DeletePoints /\ quiet => Forgotten]_vars
  <2> SUFFICES ASSUME ForgetInv, DeletePoints, quiet PROVE Forgotten
    OBVIOUS
  <2> QED
    BY DEF DeletePoints, ForgetInv, Forgotten, monitor, history, histogram
<1> QED
  BY <1>1, NameInit, NameStep, GoneInit, GoneStep, ForgetInit, ForgetStep, PTL
  DEF Spec, QuietDeleteForgets

-----------------------------------------------------------------------------
(* Totals.                                                                 *)

(* What the monitor, the histogram and the database hold.                   *)
StoresType ==
  /\ registry \in Entry /\ shown \in Entry /\ dbDevice \in Entry
  /\ \A store \in {total, recent, current, completed, dbPoints, dbBuckets, pending, before} :
       store \subseteq 1 .. sent
  /\ data \in Data \cup {Absent}
  /\ data # Absent => data.packets \subseteq 1 .. sent

(* The clocks, flags and places of the handlers.                            *)
ControlType ==
  /\ sent \in 0 .. MaxPackets /\ loadedAt \in 0 .. sent /\ baseline \in 0 .. (sent - loadedAt)
  /\ online \in BOOLEAN /\ running \in BOOLEAN
  /\ stopping \in {"no", "points", "done"}
  /\ pc \in {"idle", "collected", "charted", "ingested", "appended", "shown", "saved"}
  /\ deleting \in {"no", "runtime", "recent", "histogram", "rows", "devices", "points"}
  /\ renaming \in {"no", "runtime", "save"} /\ newName \in Entry /\ captured \in BOOLEAN
  /\ quiet \in BOOLEAN /\ stale \in BOOLEAN /\ gone \in BOOLEAN
  /\ acked \in Entry /\ holds \in BOOLEAN
  /\ deletes \in Nat
  /\ ~ running => baseline = 0

TypeInv == StoresType /\ ControlType

LEMMA TypeParts == TypeInv => TypeOK
<1> SUFFICES ASSUME StoresType, ControlType PROVE TypeOK
  BY DEF TypeInv
<1>1. /\ sent \in 0 .. MaxPackets /\ loadedAt \in 0 .. sent /\ baseline \in 0 .. (sent - loadedAt)
      /\ online \in BOOLEAN /\ running \in BOOLEAN
      /\ stopping \in {"no", "points", "done"}
  BY DEF ControlType
<1>2. /\ registry \in Entry /\ shown \in Entry /\ dbDevice \in Entry
      /\ \A store \in {total, recent, current, completed, dbPoints, dbBuckets, pending, before} :
           store \subseteq 1 .. sent
      /\ data \in Data \cup {Absent}
  BY DEF StoresType
<1>3. /\ pc \in {"idle", "collected", "charted", "ingested", "appended", "shown", "saved"}
      /\ deleting \in {"no", "runtime", "recent", "histogram", "rows", "devices", "points"}
      /\ renaming \in {"no", "runtime", "save"} /\ newName \in Entry /\ captured \in BOOLEAN
      /\ quiet \in BOOLEAN /\ stale \in BOOLEAN /\ gone \in BOOLEAN
      /\ acked \in Entry /\ holds \in BOOLEAN
  BY DEF ControlType
<1> QED BY <1>1, <1>2, <1>3, Zenon DEF TypeOK

(* Every name that a step writes to a store is an entry.                     *)
LEMMA EntryNames == Names \subseteq Entry /\ Known \subseteq Entry /\ Absent \in Entry
  BY DEF Entry, Known

LEMMA Bound == MaxPackets \in Nat
  BY DevicesConstants

LEMMA CounterType ==
  ASSUME ControlType
  PROVE  /\ sent \in Nat /\ loadedAt \in Nat /\ baseline \in Nat
         /\ loadedAt + baseline <= sent /\ sent <= MaxPackets
<1>1. /\ sent \in 0 .. MaxPackets /\ loadedAt \in 0 .. sent
      /\ baseline \in 0 .. (sent - loadedAt)
  BY DEF ControlType
<1> QED BY <1>1, Bound

(* A tick counts packets that were sent, under a name.                      *)
LEMMA CollectedType ==
  ASSUME TypeInv, NEW name \in NamesFor(registry)
  PROVE  /\ name \in Known /\ Uncounted \subseteq 1 .. sent
         /\ [name |-> name, packets |-> Uncounted] \in Data
<1>1. name \in Known
  BY DEF NamesFor, Known
<1>2. sent \in Nat /\ loadedAt \in Nat /\ baseline \in Nat /\ sent <= MaxPackets
  BY CounterType DEF TypeInv
<1>3. Uncounted \subseteq 1 .. sent
  BY <1>2 DEF Uncounted
<1>4. 1 .. sent \subseteq Packets
  BY <1>2, Bound DEF Packets
<1>5. Uncounted \in SUBSET Packets
  BY <1>3, <1>4
<1> QED BY <1>1, <1>3, <1>5 DEF Data

LEMMA ControlStep == TypeInv /\ NameInv /\ [Next]_vars => ControlType'
<1> SUFFICES ASSUME TypeInv, NameInv, [Next]_vars PROVE ControlType'
  OBVIOUS
<1> USE DEF service, kernel, monitor, histogram, history, disk, ticking, renamer, bounds, deletion, naming
<1>0. ControlType /\ registry \in Entry
  BY DEF TypeInv, StoresType
<1>a. sent \in Nat /\ loadedAt \in Nat /\ baseline \in Nat /\ MaxPackets \in Nat
        /\ loadedAt + baseline <= sent /\ sent <= MaxPackets
  BY <1>0, CounterType, Bound
<1>1. CASE Send
  BY <1>1, <1>0, <1>a DEF Send, ControlType
<1>2. CASE ComeOrGo
  BY <1>2, <1>0 DEF ComeOrGo, ControlType
<1>3. CASE Collect
  <2>1. baseline' \in 0 .. (sent - loadedAt)
    BY <1>3, <1>0, <1>a DEF Collect, ControlType
  <2> QED BY <1>3, <1>0, <2>1 DEF Collect, ControlType
<1>4. CASE Chart \/ Ingest \/ AppendBucket \/ Show \/ PersistDevices \/ PersistPoints
  BY <1>4, <1>0 DEF Chart, Ingest, AppendBucket, Show, PersistDevices, PersistPoints, ControlType
<1>5. CASE Delete
  <2>1. CASE DeleteShown
    BY <2>1, <1>0 DEF DeleteShown, ControlType
  <2>2. CASE DeleteRuntime
    <3>1. baseline' \in 0 .. (sent' - loadedAt')
      BY <2>2, <1>a DEF DeleteRuntime
    <3> QED BY <2>2, <1>0, <3>1, EntryNames DEF DeleteRuntime, ControlType
  <2>3. CASE DeleteRecent \/ DeleteHistogram \/ DeleteRows \/ DeleteDevices
    BY <2>3, <1>0 DEF DeleteRecent, DeleteHistogram, DeleteRows, DeleteDevices, ControlType
  <2>4. CASE DeletePoints
    <3>1. gone' \in BOOLEAN /\ quiet' \in BOOLEAN /\ stale' \in BOOLEAN
      BY <2>4 DEF DeletePoints
    <3> QED BY <2>4, <1>0, <3>1 DEF DeletePoints, ControlType
  <2>5. CASE DropDelete
    BY <2>5, <1>0 DEF DropDelete, ControlType
  <2> QED BY <1>5, <2>1, <2>2, <2>3, <2>4, <2>5 DEF Delete
<1>6. ASSUME NEW name \in Names, RenameShown(name) PROVE ControlType'
  BY <1>6, <1>0, EntryNames DEF RenameShown, ControlType
<1>7. CASE RenameRuntime \/ RenameSave \/ DropRename
  <2>1. CASE RenameRuntime
    <3>1. /\ renaming' \in {"no", "runtime", "save"} /\ newName' \in Entry
          /\ acked' \in Entry /\ captured' \in BOOLEAN /\ holds' \in BOOLEAN
      BY <2>1, <1>0, EntryNames, Zenon DEF RenameRuntime, RenameEnds, ControlType
    <3> QED BY <2>1, <1>0, <3>1 DEF RenameRuntime, ControlType
  <2>2. CASE RenameSave
    <3>1. /\ renaming' \in {"no", "runtime", "save"} /\ newName' \in Entry
          /\ acked' \in Entry /\ captured' \in BOOLEAN /\ holds' \in BOOLEAN
      BY <2>2, <1>0, EntryNames DEF RenameSave, RenameEnds, ControlType
    <3> QED BY <2>2, <1>0, <3>1 DEF RenameSave, ControlType
  <2>3. CASE DropRename
    BY <2>3, <1>0, EntryNames DEF DropRename, RenameEnds, ControlType
  <2> QED BY <1>7, <2>1, <2>2, <2>3
<1>8. CASE FlushDevices \/ FlushPoints
  BY <1>8, <1>0 DEF FlushDevices, FlushPoints, ControlType
<1>9. CASE Crash
  <2>1. baseline' \in 0 .. (sent' - loadedAt')
    BY <1>9, <1>a DEF Crash
  <2> QED BY <1>9, <1>0, <2>1, EntryNames DEF Crash, RenameEnds, ControlType
<1>10. CASE Start
  <2>1. baseline = 0 /\ baseline' = 0 /\ loadedAt' = sent /\ sent' = sent
    <3>1. ~ running /\ baseline' = baseline /\ loadedAt' = sent /\ sent' = sent
      BY <1>10 DEF Start
    <3>2. ~ running => baseline = 0
      BY <1>0 DEF ControlType
    <3> QED BY <3>1, <3>2
  <2>2. loadedAt' \in 0 .. sent' /\ baseline' \in 0 .. (sent' - loadedAt')
    BY <2>1, <1>a
  <2> QED BY <1>10, <1>0, <2>2 DEF Start, ControlType
<1>11. CASE UNCHANGED vars
  BY <1>11, <1>0 DEF vars, ControlType
<1> QED
  BY <1>1, <1>2, <1>3, <1>4, <1>5, <1>6, <1>7, <1>8, <1>9, <1>10, <1>11 DEF Next

(* A store that is emptied, filled from others or left alone.               *)
LEMMA StoresStep == TypeInv /\ ControlType' /\ [Next]_vars => StoresType'
<1> SUFFICES ASSUME TypeInv, ControlType', [Next]_vars PROVE StoresType'
  OBVIOUS
<1> USE DEF service, kernel, monitor, histogram, history, disk, ticking, renamer, bounds, deletion, naming
<1>a. sent' \in 0 .. MaxPackets /\ newName \in Entry
  BY DEF TypeInv, ControlType
<1>0. StoresType /\ newName \in Entry /\ sent \in Nat /\ sent' \in Nat
  BY <1>a, Bound, CounterType DEF TypeInv
<1>1. CASE Send
  <2>1. 1 .. sent \subseteq 1 .. sent'
    BY <1>1, <1>0 DEF Send
  <2> QED BY <1>1, <1>0, <2>1 DEF Send, StoresType
<1>2. CASE ComeOrGo
  BY <1>2, <1>0 DEF ComeOrGo, StoresType
<1>3. CASE Collect
  <2>1. CASE online
    <3>1. PICK name \in NamesFor(registry) :
            /\ data' = [name |-> name, packets |-> Uncounted]
            /\ registry' = name /\ total' = total \cup Uncounted
      BY <1>3, <2>1 DEF Collect
    <3>2. /\ name \in Entry /\ Uncounted \subseteq 1 .. sent
          /\ data' \in Data /\ data'.packets = Uncounted
      BY <3>1, CollectedType, EntryNames
    <3>3. UNCHANGED <<sent, shown, recent, current, completed, dbDevice, dbPoints, dbBuckets, pending, before>>
      BY <1>3 DEF Collect
    <3> QED BY <3>1, <3>2, <3>3, <1>0 DEF StoresType
  <2>2. CASE ~ online
    <3>1. data' # Absent => registry # Absent /\ data' = [name |-> registry, packets |-> {}]
      BY <1>3, <2>2 DEF Collect
    <3>2. data' # Absent => data' \in Data /\ data'.packets = {}
      BY <3>1, <1>0 DEF StoresType, Data, Entry
    <3>3. UNCHANGED <<sent, registry, total, shown, recent, current, completed, dbDevice, dbPoints,
                      dbBuckets, pending, before>>
      BY <1>3, <2>2 DEF Collect
    <3> QED BY <3>2, <3>3, <1>0 DEF StoresType
  <2> QED BY <2>1, <2>2
<1>4. CASE Chart \/ Ingest
  BY <1>4, <1>0 DEF Chart, Ingest, Sampled, StoresType
<1>5. CASE AppendBucket \/ PersistDevices \/ PersistPoints
  BY <1>5, <1>0 DEF AppendBucket, PersistDevices, PersistPoints, StoresType
<1>6. CASE Show
  <2>1. data # Absent => data.name \in Entry
    BY <1>0, EntryNames DEF StoresType, Data
  <2> QED BY <1>6, <2>1, <1>0, EntryNames DEF Show, StoresType
<1>7. CASE Delete
  <2>1. CASE DeleteShown
    <3>1. Counted \subseteq 1 .. sent
      BY <1>0 DEF Counted, Sampled, StoresType
    <3> QED BY <2>1, <3>1, <1>0, EntryNames DEF DeleteShown, StoresType
  <2>2. CASE DeleteRuntime \/ DeleteRecent \/ DeleteHistogram \/ DeleteRows
    BY <2>2, <1>0, EntryNames DEF DeleteRuntime, DeleteRecent, DeleteHistogram, DeleteRows, StoresType
  <2>3. CASE DeleteDevices \/ DeletePoints \/ DropDelete
    BY <2>3, <1>0 DEF DeleteDevices, DeletePoints, DropDelete, StoresType
  <2> QED BY <1>7, <2>1, <2>2, <2>3 DEF Delete
<1>8. ASSUME NEW name \in Names, RenameShown(name) PROVE StoresType'
  BY <1>8, <1>0, EntryNames DEF RenameShown, StoresType
<1>9. CASE RenameRuntime
  BY <1>9, <1>0 DEF RenameRuntime, StoresType
<1>10. CASE RenameSave \/ DropRename
  BY <1>10, <1>0 DEF RenameSave, DropRename, StoresType
<1>11. CASE FlushDevices \/ FlushPoints
  BY <1>11, <1>0 DEF FlushDevices, FlushPoints, StoresType
<1>12. CASE Crash
  BY <1>12, <1>0, EntryNames DEF Crash, StoresType
<1>13. CASE Start
  BY <1>13, <1>0 DEF Start, Recovered, StoresType
<1>14. CASE UNCHANGED vars
  BY <1>14, <1>0 DEF vars, StoresType
<1> QED
  BY <1>1, <1>2, <1>3, <1>4, <1>5, <1>6, <1>7, <1>8, <1>9, <1>10, <1>11, <1>12, <1>13, <1>14
  DEF Next

LEMMA TypeInit == Init => TypeInv
<1> SUFFICES ASSUME Init PROVE TypeInv
  OBVIOUS
<1>1. StoresType
  BY EntryNames DEF Init, StoresType
<1>2. sent = 0 /\ loadedAt = 0 /\ baseline = 0 /\ deletes = 0
  BY DEF Init
<1>3. /\ sent \in 0 .. MaxPackets /\ loadedAt \in 0 .. sent
      /\ baseline \in 0 .. (sent - loadedAt) /\ deletes \in Nat
  BY <1>2, Bound
<1>4. ControlType
  BY <1>2, <1>3, EntryNames, Zenon DEF Init, ControlType
<1> QED BY <1>1, <1>4 DEF TypeInv

LEMMA TypeStep == TypeInv /\ NameInv /\ [Next]_vars => TypeInv'
  BY ControlStep, StoresStep DEF TypeInv

(* The stores of the service hold what was sent and the handlers are where  *)
(* the code can be, for every number of packets, requests and crashes.      *)
THEOREM StoresTyped == Spec => []TypeOK
  BY NameInit, NameStep, TypeInit, TypeStep, TypeParts, PTL DEF Spec

(* As long as nothing was deleted, no handler of a deletion is at work, and  *)
(* the total is what the histogram covers, with the sample on its way.       *)
TotalsInv == TotalsAgree /\ (deletes = 0 => deleting = "no")

LEMMA TotalsInit == Init => TotalsInv
  BY DEF Init, TotalsInv, TotalsAgree, Sampled

LEMMA TotalsStep == TypeInv /\ NameInv /\ TotalsInv /\ [Next]_vars => TotalsInv'
<1> SUFFICES ASSUME TypeInv, NameInv, TotalsInv, [Next]_vars PROVE TotalsInv'
  OBVIOUS
<1> USE DEF service, kernel, monitor, histogram, history, disk, ticking, renamer, bounds, deletion, naming
<1>0. deletes \in Nat
  BY DEF TypeInv, ControlType
<1>1. CASE Collect
  <2>1. pc = "idle" /\ pc' = "collected" /\ UNCHANGED <<running, current, completed, deletes, deleting>>
    BY <1>1 DEF Collect
  <2>2. CASE online
    <3>1. PICK name \in NamesFor(registry) :
            /\ data' = [name |-> name, packets |-> Uncounted]
            /\ total' = total \cup Uncounted
      BY <1>1, <2>2 DEF Collect
    <3>2. data' # Absent /\ data'.packets = Uncounted
      BY <3>1, CollectedType, DevicesConstants
    <3> QED BY <2>1, <3>1, <3>2 DEF TotalsInv, TotalsAgree, Sampled
  <2>3. CASE ~ online
    <3>1. total' = total /\ (data' # Absent => data' = [name |-> registry, packets |-> {}])
      BY <1>1, <2>3 DEF Collect
    <3>2. data' # Absent => data'.packets = {}
      BY <3>1
    <3> QED BY <2>1, <3>1, <3>2 DEF TotalsInv, TotalsAgree, Sampled
  <2> QED BY <2>2, <2>3
<1>2. CASE Chart \/ Ingest
  BY <1>2 DEF Chart, Ingest, TotalsInv, TotalsAgree, Sampled
<1>3. CASE AppendBucket \/ Show \/ PersistDevices \/ PersistPoints
  BY <1>3 DEF AppendBucket, Show, PersistDevices, PersistPoints, TotalsInv, TotalsAgree, Sampled
<1>4. CASE DeleteShown
  <2>1. deletes' = deletes + 1
    BY <1>4 DEF DeleteShown
  <2>2. deletes' # 0
    BY <2>1, <1>0
  <2> QED BY <2>2 DEF TotalsInv, TotalsAgree, Sampled
<1>5. CASE Delete /\ ~ DeleteShown
  <2>1. deleting # "no" /\ deletes' = deletes
    BY <1>5
    DEF Delete, DeleteRuntime, DeleteRecent, DeleteHistogram, DeleteRows, DeleteDevices, DeletePoints, DropDelete
  <2> QED BY <2>1 DEF TotalsInv, TotalsAgree, Sampled
<1>6. ASSUME NEW name \in Names, RenameShown(name) PROVE TotalsInv'
  BY <1>6 DEF RenameShown, TotalsInv, TotalsAgree, Sampled
<1>7. CASE Send \/ ComeOrGo
  BY <1>7 DEF Send, ComeOrGo, TotalsInv, TotalsAgree, Sampled
<1>8. CASE RenameRuntime \/ RenameSave \/ DropRename
  BY <1>8 DEF RenameRuntime, RenameSave, DropRename, TotalsInv, TotalsAgree, Sampled
<1>9. CASE FlushDevices \/ FlushPoints
  BY <1>9 DEF FlushDevices, FlushPoints, TotalsInv, TotalsAgree, Sampled
<1>10. CASE Crash
  BY <1>10 DEF Crash, TotalsInv, TotalsAgree, Sampled
<1>11. CASE Start
  <2>1. pc = "idle" /\ pc' = pc
    BY <1>11 DEF Start, NameInv
  <2> QED BY <1>11, <2>1 DEF Start, Recovered, TotalsInv, TotalsAgree, Sampled
<1>12. CASE UNCHANGED vars
  BY <1>12 DEF vars, TotalsInv, TotalsAgree, Sampled
<1> QED
  BY <1>1, <1>2, <1>3, <1>4, <1>5, <1>6, <1>7, <1>8, <1>9, <1>10, <1>11, <1>12 DEF Next, Delete

(* The total shown of a device that was never deleted covers what its       *)
(* history covers, and that alone, through hours that end, saves, crashes    *)
(* and restarts, for every number of them (collect_snapshot,                *)
(* ingest_snapshot_collect_completed, cumulative_from_all).                 *)
THEOREM TotalsKept == Spec => []TotalsAgree
<1>1. TotalsInv => TotalsAgree BY DEF TotalsInv
<1> QED
  BY <1>1, NameInit, NameStep, TypeInit, TypeStep, TotalsInit, TotalsStep, PTL DEF Spec
=============================================================================
