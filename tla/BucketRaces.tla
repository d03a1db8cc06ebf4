----------------------------- MODULE BucketRaces -----------------------------
(***************************************************************************)
(* One token bucket under packets of several CPUs: consume_iface_bucket,   *)
(* consume_device_bucket and refill_bucket (main.rs 305-456) access by      *)
(* access.  Module TokenBucket has each packet as one step; here nothing    *)
(* keeps two CPUs apart, as in the program, which takes no lock and uses no *)
(* atomic operation.                                                       *)
(*                                                                         *)
(* The tokens and the time of a bucket are plain loads and stores, which    *)
(* the compiler may delay: the time is stored at any point after the refill *)
(* is computed, and keeping the tokens in a register between refill and     *)
(* charge is the case in which no other CPU comes between.  An entry that   *)
(* was replaced by an insertion is memory that another key may be given:    *)
(* what a CPU with a pointer to it reads is arbitrary, and what it stores is *)
(* lost to this key.  To the other key that store is an arbitrary write     *)
(* into its bucket, which this module of one key does not have: what it     *)
(* bounds is what the packets of a key do to each other.                    *)
(*                                                                         *)
(* The limit does not change meanwhile, and the map has room for the key.   *)
(***************************************************************************)
EXTENDS RateLimit, FiniteSets

CONSTANTS
  CPUs,       \* the processors that packets of the key arrive on
  Budget,     \* the effective budget of the key
  Lengths,    \* packet lengths
  MaxLength,  \* the longest packet
  Absent,     \* no entry in the map
  Ticks,      \* the steps of the clock (bpf_ktime_get_ns)
  MaxTime, MaxSpent, MaxOverlaps  \* bounds on the clock and on what is counted

ASSUME RacesConstants ==
  /\ IsFiniteSet(CPUs)
  /\ Budget \in U64 \ {0} /\ MaxLength \in U64 /\ Lengths \subseteq 1 .. MaxLength
  /\ Absent \notin [from : Nat, tokens : U64, last : Nat]
  /\ Ticks \subseteq Nat \ {0} /\ MaxTime \in Nat /\ MaxSpent \in Nat /\ MaxOverlaps \in Nat

VARIABLES
  now,       \* the clock
  bucket,    \* the map's entry, and which insertion it is from
  inserted,  \* the number of insertions so far
  cpu,       \* how far each CPU has come with a packet
  \* What an observer notes of a window of its choice: its start, the bytes
  \* admitted in it, the packets that came while another was under way or were
  \* under way themselves at the start, and whether the packets under way have
  \* overlapped one another or the start.
  start, spent, overlaps, mixed

window == <<start, spent, overlaps, mixed>>
vars   == <<now, bucket, inserted, cpu, window>>

(* A full bucket, for whatever packet refills it.                          *)
Full == Greater(TokensForWindow(Budget, BurstWindow), MaxLength)

Entry == [from : Nat, tokens : U64, last : Nat]

\* `timed`: the time of the refill is still to be stored.
Steps == {"look", "insert", "fill", "filled", "take", "charge", "last"}
Packet ==
  [pc : Steps, len : Lengths, at : Nat, from : Nat, seen : Nat, value : U64, timed : BOOLEAN]
Idle == [pc |-> "idle"]

TypeOK ==
  /\ now \in Nat /\ inserted \in Nat
  /\ bucket \in Entry \cup {Absent}
  /\ cpu \in [CPUs -> Packet \cup {Idle}]
  /\ start \in 0 .. now /\ spent \in Nat /\ overlaps \in Nat /\ mixed \in BOOLEAN

Busy == {c \in CPUs : cpu[c] # Idle}

Init ==
  /\ now = 0 /\ bucket = Absent /\ inserted = 0
  /\ cpu = [c \in CPUs |-> Idle]
  /\ start = 0 /\ spent = 0 /\ overlaps = 0 /\ mixed = FALSE

-----------------------------------------------------------------------------
(* Steps of a CPU.                                                         *)

Goes(c, packet) == cpu' = [cpu EXCEPT ![c] = packet]

(* The packet is done; when it was the last, overlapping is over.          *)
Ends(c) ==
  /\ Goes(c, Idle)
  /\ mixed' = (mixed /\ Busy # {c})

Admit(c) == spent' = spent + cpu[c].len

(* The packet reads the clock, before it looks the bucket up.              *)
Clock(c, len) ==
  /\ cpu[c] = Idle /\ spent <= MaxSpent
  /\ Busy # {} => overlaps < MaxOverlaps
  /\ Goes(c, [pc |-> "look", len |-> len, at |-> now, from |-> 0, seen |-> 0, value |-> 0,
              timed |-> FALSE])
  /\ overlaps' = IF Busy = {} THEN overlaps ELSE overlaps + 1
  /\ mixed' = (Busy # {})
  /\ UNCHANGED <<now, bucket, inserted, start, spent>>

(* get_ptr_mut, and the load of the time if there is an entry: is there     *)
(* anything to refill?                                                     *)
Look(c) ==
  LET p == cpu[c]
  IN  /\ p.pc = "look"
      /\ IF bucket = Absent
           THEN Goes(c, [p EXCEPT !.pc = "insert"])
           ELSE Goes(c, [p EXCEPT !.from = bucket.from, !.seen = bucket.last,
                           !.pc = IF /\ p.at > bucket.last
                                     /\ RefillAmount(Budget, p.at - bucket.last) > 0
                                    THEN "fill" ELSE "take"])
      /\ UNCHANGED <<now, bucket, inserted, window>>

(* A new bucket is charged and inserted, over whatever is there by now.     *)
Insert(c) ==
  LET p == cpu[c]
      b == NewBucket(Budget, p.at)
  IN  /\ p.pc = "insert"
      /\ bucket' = [from |-> inserted + 1, tokens |-> Charge(b, p.len).tokens, last |-> p.at]
      /\ inserted' = inserted + 1
      /\ IF Admits(b, p.len) THEN Admit(c) ELSE UNCHANGED spent
      /\ Ends(c)
      /\ UNCHANGED <<now, start, overlaps>>

Own(c) == bucket.from = cpu[c].from

(* What a load of the tokens may return.                                   *)
Loaded(c) == IF Own(c) THEN {bucket.tokens} ELSE 0 .. Full

(* A store through the CPU's pointer.                                      *)
Puts(c, entry) == bucket' = IF Own(c) THEN entry ELSE bucket

(* Mutation of Filled: the tokens are not capped.                          *)
FilledUncapped(p, tokens) == SatAdd(tokens, RefillAmount(Budget, p.at - p.seen))

Filled(p, tokens) ==
  Lesser(SatAdd(tokens, RefillAmount(Budget, p.at - p.seen)),
         Greater(TokensForWindow(Budget, BurstWindow), p.len))

(* refill_bucket: the tokens are loaded, then stored; the time as well.     *)
Fill(c) ==
  /\ cpu[c].pc = "fill"
  /\ \E tokens \in Loaded(c) :
       Goes(c, [cpu[c] EXCEPT !.pc = "filled", !.value = Filled(cpu[c], tokens), !.timed = TRUE])
  /\ UNCHANGED <<now, bucket, inserted, window>>

StoreFilled(c) ==
  /\ cpu[c].pc = "filled"
  /\ Puts(c, [bucket EXCEPT !.tokens = cpu[c].value])
  /\ Goes(c, [cpu[c] EXCEPT !.pc = "take"])
  /\ UNCHANGED <<now, inserted, window>>

(* Mutation of StoreTime: the time is not moved on.                        *)
StoreNoTime(c) ==
  /\ cpu[c] # Idle /\ cpu[c].timed
  /\ IF cpu[c].pc = "last"
       THEN Ends(c)
       ELSE Goes(c, [cpu[c] EXCEPT !.timed = FALSE]) /\ UNCHANGED mixed
  /\ UNCHANGED <<now, bucket, inserted, start, spent, overlaps>>

StoreTime(c) ==
  /\ cpu[c] # Idle /\ cpu[c].timed
  /\ Puts(c, [bucket EXCEPT !.last = cpu[c].at])
  /\ IF cpu[c].pc = "last"
       THEN Ends(c)
       ELSE Goes(c, [cpu[c] EXCEPT !.timed = FALSE]) /\ UNCHANGED mixed
  /\ UNCHANGED <<now, inserted, start, spent, overlaps>>

(* The packet is through, once the time has been stored.                   *)
Through(c) ==
  IF cpu[c].timed
    THEN Goes(c, [cpu[c] EXCEPT !.pc = "last"]) /\ UNCHANGED mixed
    ELSE Ends(c)

(* Mutation of Take: they are not compared.                                *)
TakeUnchecked(c) ==
  /\ cpu[c].pc = "take"
  /\ \E tokens \in Loaded(c) :
       Goes(c, [cpu[c] EXCEPT !.pc = "charge", !.value = tokens - cpu[c].len])
  /\ UNCHANGED <<now, bucket, inserted, window>>

(* The tokens are loaded to be compared; too few of them drop the packet.   *)
Take(c) ==
  /\ cpu[c].pc = "take"
  /\ \E tokens \in Loaded(c) :
       IF tokens >= cpu[c].len
         THEN /\ Goes(c, [cpu[c] EXCEPT !.pc = "charge", !.value = tokens - cpu[c].len])
              /\ UNCHANGED mixed
         ELSE Through(c)
  /\ UNCHANGED <<now, bucket, inserted, start, spent, overlaps>>

StoreCharged(c) ==
  /\ cpu[c].pc = "charge"
  /\ Puts(c, [bucket EXCEPT !.tokens = cpu[c].value])
  /\ Admit(c)
  /\ Through(c)
  /\ UNCHANGED <<now, inserted, start, overlaps>>

Tick(d) ==
  /\ now + d <= MaxTime /\ now' = now + d
  /\ UNCHANGED <<bucket, inserted, cpu, window>>

(* The observer opens a window, at any instant.                            *)
Observe ==
  /\ start' = now /\ spent' = 0
  /\ overlaps' = Cardinality(Busy) /\ mixed' = (Busy # {})
  /\ UNCHANGED <<now, bucket, inserted, cpu>>

Access(c) ==
  \/ Look(c) \/ Insert(c) \/ Fill(c) \/ StoreFilled(c) \/ StoreTime(c) \/ Take(c) \/ StoreCharged(c)

Next ==
  \/ \E c \in CPUs, len \in Lengths : Clock(c, len)
  \/ \E c \in CPUs : Access(c)
  \/ \E d \in Ticks : Tick(d)
  \/ Observe

Spec == Init /\ [][Next]_vars

-----------------------------------------------------------------------------
(* Properties.                                                             *)

(* However the accesses of CPUs mix, a bucket never holds more than a full   *)
(* burst (or the longest packet), and its time is never ahead of the clock, *)
(* which would stop all refills until the clock has caught up               *)
(* (refill_bucket returns when now <= last): races of a key's own packets    *)
(* leave no lasting harm.                                                   *)
BucketSound == bucket # Absent => bucket.tokens <= Full /\ bucket.last <= now

(* What a lost update may cost: in every window a key is admitted no more    *)
(* than a full bucket and the rate allow, and for every packet that overlaps *)
(* another on the same bucket, or the start of the window, one full bucket   *)
(* and two packets.                                                        *)
RaceCost == Full + 2 * MaxLength

RacesBounded ==
  spent * Second <= (Full + overlaps * RaceCost) * Second + Budget * (now - start)
=============================================================================
