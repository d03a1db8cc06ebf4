--------------------------- MODULE DurableSettings ---------------------------
(***************************************************************************)
(* What the policy promises, without handlers, locks or formats: a map of  *)
(* settings in memory, a copy of it that survives, and the promises made   *)
(* to clients.  Module PolicyStore implements it.                          *)
(***************************************************************************)
CONSTANTS
  Keys,    \* the settings
  Blank,   \* the map in which nothing is set
  NotOwed  \* no promise is made of a setting

VARIABLES
  up,        \* is the service running
  memory,    \* the settings in force
  saved,     \* the settings a restart finds
  promised,  \* for each setting what a client was told is kept, or NotOwed
  cut        \* was a part of what was saved ever left behind by a restart

settings == <<up, memory, saved, promised, cut>>

Init ==
  /\ up = TRUE /\ cut = FALSE
  /\ memory = Blank /\ saved = Blank
  /\ promised = [k \in Keys |-> NotOwed]

(* Settings change in memory only; the promises of those that do end.      *)
Change ==
  /\ up
  /\ DOMAIN memory' = Keys
  /\ promised' = [k \in Keys |-> IF memory'[k] = memory[k] THEN promised[k] ELSE NotOwed]
  /\ UNCHANGED <<up, saved, cut>>

(* All of memory is saved at once, as it is now; promises may be made of    *)
(* what it holds.                                                          *)
Save ==
  /\ up
  /\ saved' = memory
  /\ DOMAIN promised' = Keys
  /\ \A k \in Keys : promised'[k] \in {promised[k], memory[k]}
  /\ UNCHANGED <<up, memory, cut>>

Fail ==
  /\ up
  /\ up' = FALSE /\ memory' = Blank
  /\ UNCHANGED <<saved, promised, cut>>

(* Each setting comes back as it was saved or not at all; what does not     *)
(* come back is noted.                                                     *)
Recover ==
  /\ ~ up
  /\ up' = TRUE
  /\ \A k \in Keys : memory'[k] \in {saved[k], Blank[k]}
  /\ cut' \in BOOLEAN /\ (cut \/ memory' # saved => cut')
  /\ UNCHANGED <<saved, promised>>

Next == Change \/ Save \/ Fail \/ Recover

Spec == Init /\ [][Next]_settings
=============================================================================
