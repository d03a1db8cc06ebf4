-------------------------- MODULE BucketRacesProofs --------------------------
(* Proofs about BucketRaces for every number of CPUs and every value of the *)
(* constants: its types, what a bucket holds, and what races can cost.      *)
EXTENDS BucketRaces, RateLimitProofs, FiniteSetTheorems

(***************************************************************************)
(* The inductive invariant.                                                *)
(***************************************************************************)

(* When s bytes of the window that began at v have been admitted and o       *)
(* packets have overlapped, a key with x tokens left at time t is within the *)
(* bound, whatever it is admitted later for these tokens.                   *)
Covered(s, v, o, x, t) ==
  (s + x) * Second + Budget * v <= (Full + o * RaceCost) * Second + Budget * t

(* The bucket is covered: it will be full at time t, or holds what it holds. *)
BucketCovered(s, v, o, b, t) ==
  Covered(s, v, o, Full, t) \/ (b # Absent /\ Covered(s, v, o, b.tokens, b.last))

(* What the registers of a packet hold.                                    *)
Registers(p, b, t) ==
  /\ p.at <= t /\ p.value <= Full
  /\ p.pc \notin {"look", "insert"} => b # Absent
  /\ p.pc = "fill" => p.seen < p.at
  /\ p.pc = "charge" => p.value < Full
  /\ p.pc = "last" => p.timed
  /\ p.timed => p.pc \in {"filled", "take", "charge", "last"}

(* The time of the bucket, once the packet has stored it.                   *)
Behind(p, b) == IF p.timed THEN p.at ELSE b.last

(* A packet that has the bucket for itself, at every step of its way.       *)
Alone(s, v, o, p, b) ==
  /\ p.pc = "look" => BucketCovered(s, v, o, b, p.at)
  /\ p.pc = "insert" => b = Absent /\ Covered(s, v, o, Full, p.at)
  /\ p.pc = "fill" => p.seen = b.last /\ BucketCovered(s, v, o, b, p.at)
  /\ p.pc = "filled" => Covered(s, v, o, p.value, Behind(p, b))
  /\ p.pc \in {"take", "charge", "last"} => Covered(s, v, o, b.tokens, Behind(p, b))
  /\ p.pc = "charge" => p.value + p.len = b.tokens
  /\ p.pc \notin {"look", "insert"} => b.from = p.from

(* The packets that may still be admitted.                                 *)
Pending == {c \in Busy : cpu[c].pc # "last"}

AllRegisters == \A c \in Busy : Registers(cpu[c], bucket, now)

(* Only a packet that is still to be charged leaves a full bucket.          *)
NeverLeftFull ==
  bucket # Absent /\ bucket.tokens = Full
    => \E c \in CPUs : cpu[c].pc \in {"take", "charge"} /\ Own(c)

Quiet  == ~mixed /\ Busy = {} => BucketCovered(spent, start, overlaps, bucket, now)
Single == \A c \in CPUs : ~mixed /\ Busy = {c} => Alone(spent, start, overlaps, cpu[c], bucket)
Contended ==
  mixed => Covered(spent, start, overlaps, Full + Cardinality(Pending) * MaxLength, now)
Mixing == /\ mixed => Busy # {}
          /\ ~mixed => \A c, d \in Busy : c = d

IInv ==
  /\ TypeOK /\ BucketSound /\ AllRegisters /\ NeverLeftFull
  /\ Quiet /\ Single /\ Contended /\ Mixing

(***************************************************************************)
(* The arithmetic of a covered key.                                        *)
(***************************************************************************)

LEMMA Sizes ==
  /\ Full \in U64 /\ Full \in Nat /\ MaxLength \in Nat /\ MaxLength <= Full
  /\ TokensForWindow(Budget, BurstWindow) \in U64 /\ TokensForWindow(Budget, BurstWindow) <= Full
  /\ RaceCost \in Nat /\ RaceCost = Full + 2 * MaxLength
  /\ Second \in Nat \ {0} /\ Budget \in Nat \ {0} /\ U64Max \in Nat
<1>1. /\ MaxLength \in U64 /\ Budget \in Nat \ {0} /\ Second \in Nat \ {0} /\ U64Max \in Nat
      /\ BurstWindow \in Nat
  BY RateConstants, RacesConstants DEF U64
<1>2. TokensForWindow(Budget, BurstWindow) \in U64
  BY <1>1, TokensForWindowBound
<1>3. Full \in U64 /\ MaxLength <= Full /\ TokensForWindow(Budget, BurstWindow) <= Full
  BY <1>1, <1>2 DEF Full, Greater, U64
<1> QED
  BY <1>1, <1>2, <1>3 DEF RaceCost, U64

LEMMA ProductMonotone ==
  ASSUME NEW a \in Nat, NEW b \in Nat, NEW c \in Nat, b <= c
  PROVE  b * a <= c * a /\ b * a \in Nat /\ c * a \in Nat
<1>1. a * b <= a * c /\ a * b \in Nat /\ a * c \in Nat
  BY Product
<1>2. a * b = b * a /\ a * c = c * a
  OBVIOUS
<1> QED BY <1>1, <1>2

(* Tokens may turn into admitted bytes, and time may pass.                  *)
LEMMA CoveredKept ==
  ASSUME NEW s \in Nat, NEW v \in Nat, NEW o \in Nat, NEW x \in Nat, NEW t \in Nat,
         NEW s2 \in Nat, NEW x2 \in Nat, NEW t2 \in Nat,
         Covered(s, v, o, x, t), s2 + x2 <= s + x, t <= t2
  PROVE  Covered(s2, v, o, x2, t2)
<1>1. (s2 + x2) * Second <= (s + x) * Second /\ Budget * t <= Budget * t2
  BY Sizes, Product
<1> DEFINE a == (s + x) * Second      a2 == (s2 + x2) * Second
           b == Budget * t            b2 == Budget * t2
           c == (Full + o * RaceCost) * Second    d == Budget * v
<1>2. a \in Nat /\ a2 \in Nat /\ b \in Nat /\ b2 \in Nat /\ c \in Nat /\ d \in Nat
  BY Sizes, Product
<1>3. a + d <= c + b
  BY DEF Covered
<1>4. a2 <= a /\ b <= b2
  BY <1>1
<1> HIDE DEF a, a2, b, b2, c, d
<1>5. a2 + d <= c + b2
  BY <1>2, <1>3, <1>4
<1> QED
  BY <1>5 DEF Covered, a2, b2, c, d

(* A refill adds what the time since the last one has earned.              *)
LEMMA CoveredRefilled ==
  ASSUME NEW s \in Nat, NEW v \in Nat, NEW o \in Nat, NEW x \in Nat, NEW t \in Nat,
         NEW r \in Nat, NEW x2 \in Nat, NEW t2 \in Nat,
         Covered(s, v, o, x, t), x2 <= x + r, t <= t2, r * Second <= Budget * (t2 - t)
  PROVE  Covered(s, v, o, x2, t2)
<1>1. (s + x2) * Second <= (s + x + r) * Second /\ (s + x + r) * Second = (s + x) * Second + r * Second
  <2>1. s + x2 \in Nat /\ s + x + r \in Nat /\ s + x2 <= s + x + r /\ Second \in Nat
    BY Sizes
  <2>2. (s + x2) * Second <= (s + x + r) * Second
    BY <2>1, ProductMonotone
  <2>3. (s + x + r) * Second = (s + x) * Second + r * Second
    BY <2>1, Product
  <2> QED BY <2>2, <2>3
<1>2. Budget * t2 = Budget * t + Budget * (t2 - t)
  BY Sizes
<1> DEFINE a == (s + x) * Second      a2 == (s + x2) * Second
           b == Budget * t            b2 == Budget * t2    e == Budget * (t2 - t)   f == r * Second
           c == (Full + o * RaceCost) * Second    d == Budget * v
<1>3. /\ a \in Nat /\ a2 \in Nat /\ b \in Nat /\ b2 \in Nat /\ c \in Nat /\ d \in Nat
      /\ e \in Nat /\ f \in Nat
  <2>1. t2 - t \in Nat
    OBVIOUS
  <2> QED BY <2>1, Sizes, Product
<1>4. a + d <= c + b
  BY DEF Covered
<1>5. a2 <= a + f /\ f <= e /\ b2 = b + e
  BY <1>1, <1>2
<1> HIDE DEF a, a2, b, b2, c, d, e, f
<1>6. a2 + d <= c + b2
  BY <1>3, <1>4, <1>5
<1> QED
  BY <1>6 DEF Covered, a2, b2, c, d

(* A key that has not even earned a token since `last`, and is not full,    *)
(* is covered from then on.                                                *)
LEMMA CoveredSettled ==
  ASSUME NEW s \in Nat, NEW v \in Nat, NEW o \in Nat, NEW x \in Nat, NEW t \in Nat, NEW last \in Nat,
         Covered(s, v, o, Full, t), x < Full, t > last => RefillAmount(Budget, t - last) = 0
  PROVE  Covered(s, v, o, x, last)
<1>1. CASE t <= last
  <2>1. s + x <= s + Full /\ Full \in Nat
    BY Sizes
  <2> QED BY <1>1, <2>1, CoveredKept
<1>2. CASE t > last
  <2>1. t - last \in Nat /\ RefillAmount(Budget, t - last) = 0
    BY <1>2
  <2>2. Budget * (t - last) < Second
    BY <2>1, RefillNothing, Sizes
  <2>3. (s + x + 1) * Second <= (s + Full) * Second /\ (s + x + 1) * Second = (s + x) * Second + Second
    BY Sizes, Product
  <2>4. Budget * t = Budget * last + Budget * (t - last)
    BY <2>1, Sizes
  <2> DEFINE a == (s + Full) * Second   a2 == (s + x) * Second
             b == Budget * t            b2 == Budget * last    e == Budget * (t - last)
             c == (Full + o * RaceCost) * Second    d == Budget * v
  <2>5. /\ a \in Nat /\ a2 \in Nat /\ b \in Nat /\ b2 \in Nat /\ c \in Nat /\ d \in Nat /\ e \in Nat
    BY <2>1, Sizes, Product
  <2>6. a + d <= c + b
    BY DEF Covered
  <2>7. a2 + Second <= a /\ e < Second /\ b = b2 + e
    BY <2>2, <2>3, <2>4
  <2> HIDE DEF a, a2, b, b2, c, d, e
  <2>8. a2 + d <= c + b2
    BY <2>5, <2>6, <2>7, Sizes
  <2> QED
    BY <2>8 DEF Covered, a2, b2, c, d
<1> QED
  BY <1>1, <1>2

(* Every packet that overlaps allows for RaceCost more.                    *)
LEMMA CoveredOverlap ==
  ASSUME NEW s \in Nat, NEW v \in Nat, NEW o \in Nat, NEW x \in Nat, NEW t \in Nat, NEW x2 \in Nat,
         Covered(s, v, o, x, t), x2 <= x + RaceCost
  PROVE  Covered(s, v, o + 1, x2, t)
<1>1. (s + x2) * Second <= (s + x + RaceCost) * Second
      /\ (s + x + RaceCost) * Second = (s + x) * Second + RaceCost * Second
  <2>1. s + x2 \in Nat /\ s + x + RaceCost \in Nat /\ s + x2 <= s + x + RaceCost
        /\ Second \in Nat /\ RaceCost \in Nat
    BY Sizes
  <2>2. (s + x2) * Second <= (s + x + RaceCost) * Second
    BY <2>1, ProductMonotone
  <2>3. (s + x + RaceCost) * Second = (s + x) * Second + RaceCost * Second
    BY <2>1, Product
  <2> QED BY <2>2, <2>3
<1>2. Full + (o + 1) * RaceCost = (Full + o * RaceCost) + RaceCost /\ o * RaceCost \in Nat
  BY Sizes, Product
<1> DEFINE y == Full + o * RaceCost
<1>3. (y + RaceCost) * Second = y * Second + RaceCost * Second /\ y \in Nat
  BY <1>2, Sizes, Product
<1> DEFINE a == (s + x) * Second      a2 == (s + x2) * Second
           b == Budget * t            f == RaceCost * Second
           c == y * Second            d == Budget * v
<1>4. /\ a \in Nat /\ a2 \in Nat /\ b \in Nat /\ c \in Nat /\ d \in Nat /\ f \in Nat
  BY <1>3, Sizes, Product
<1>5. a + d <= c + b
  BY DEF Covered
<1>6. a2 <= a + f /\ (Full + (o + 1) * RaceCost) * Second = c + f
  BY <1>1, <1>2, <1>3
<1> HIDE DEF a, a2, b, c, d, f
<1>7. a2 + d <= c + f + b
  BY <1>4, <1>5, <1>6
<1> QED
  BY <1>6, <1>7 DEF Covered, a2, b, d

(* A window that opens now.                                                *)
LEMMA CoveredOpened ==
  ASSUME NEW o \in Nat, NEW x \in Nat, NEW t \in Nat, x <= Full + o * RaceCost
  PROVE  Covered(0, t, o, x, t)
<1>1. o * RaceCost \in Nat
  BY Sizes, Product
<1>2. x * Second <= (Full + o * RaceCost) * Second /\ Budget * t \in Nat
      /\ x * Second \in Nat /\ (Full + o * RaceCost) * Second \in Nat
  BY <1>1, Sizes, Product
<1> QED
  BY <1>2 DEF Covered

LEMMA CoveredBounded ==
  ASSUME NEW s \in Nat, NEW v \in Nat, NEW o \in Nat, NEW x \in Nat, NEW t \in Nat, v <= t,
         Covered(s, v, o, x, t)
  PROVE  s * Second <= (Full + o * RaceCost) * Second + Budget * (t - v)
<1>1. Covered(s, v, o, 0, t)
  <2>1. s + 0 <= s + x /\ 0 \in Nat /\ t <= t
    OBVIOUS
  <2> QED BY <2>1, CoveredKept
<1>2. Budget * t = Budget * v + Budget * (t - v) /\ s + 0 = s
  BY Sizes
<1> DEFINE a == s * Second   b == Budget * t   e == Budget * (t - v)
           c == (Full + o * RaceCost) * Second    d == Budget * v
<1>3. a \in Nat /\ b \in Nat /\ c \in Nat /\ d \in Nat /\ e \in Nat
  <2>1. t - v \in Nat
    OBVIOUS
  <2> QED BY <2>1, Sizes, Product
<1>4. a + d <= c + b /\ b = d + e
  BY <1>1, <1>2 DEF Covered
<1> HIDE DEF a, b, c, d, e
<1>5. a <= c + e
  BY <1>3, <1>4
<1> QED
  BY <1>5 DEF a, c, e
(***************************************************************************)
(* The packets under way, and what a step of one of them may disturb.      *)
(***************************************************************************)

LEMMA PacketTypes ==
  ASSUME NEW p \in Packet
  PROVE  /\ p.pc \in Steps /\ p.len \in Nat /\ 1 <= p.len /\ p.len <= MaxLength /\ p.len <= Full
         /\ p.len \in Lengths /\ p.at \in Nat /\ p.from \in Nat /\ p.seen \in Nat
         /\ p.value \in Nat /\ p.value \in U64 /\ p.timed \in BOOLEAN /\ p # Idle
<1>1. p.len \in 1 .. MaxLength
  BY RacesConstants DEF Packet
<1>2. p.pc # Idle.pc
  BY DEF Packet, Steps, Idle
<1>3. p.value \in U64 /\ p.value \in Nat
  BY RateConstants DEF Packet, U64
<1> QED
  BY <1>1, <1>2, <1>3, Sizes DEF Packet

LEMMA BusyTypes ==
  ASSUME TypeOK, NEW c \in CPUs
  PROVE  /\ c \in Busy => cpu[c] \in Packet
         /\ c \notin Busy => cpu[c] = Idle
         /\ cpu[c].pc \in Steps <=> c \in Busy
<1>1. cpu[c] \in Packet \/ cpu[c] = Idle
  BY DEF TypeOK
<1>2. Idle.pc \notin Steps
  BY DEF Idle, Steps
<1>3. cpu[c] \in Packet => cpu[c].pc \in Steps
  BY PacketTypes
<1> QED
  BY <1>1, <1>2, <1>3 DEF Busy

LEMMA EntryTypes ==
  ASSUME NEW b \in Entry
  PROVE  /\ b # Absent /\ b.tokens \in Nat /\ b.tokens \in U64 /\ b.last \in Nat /\ b.from \in Nat
<1>1. b # Absent
  BY RacesConstants DEF Entry
<1> QED
  BY <1>1, RateConstants DEF Entry, U64

LEMMA Counted ==
  /\ IsFiniteSet(Busy) /\ IsFiniteSet(Pending)
  /\ Cardinality(Busy) \in Nat /\ Cardinality(Pending) \in Nat
  /\ Cardinality(Pending) <= Cardinality(Busy)
<1>1. Busy \in SUBSET CPUs /\ Pending \in SUBSET Busy
  BY DEF Busy, Pending
<1>2. IsFiniteSet(Busy)
  BY <1>1, FS_Subset, RacesConstants
<1>3. IsFiniteSet(Pending) /\ Cardinality(Pending) <= Cardinality(Busy)
  BY <1>1, <1>2, FS_Subset
<1> QED
  BY <1>2, <1>3, FS_CardinalityType

(* A packet goes on.                                                       *)
LEMMA Moved ==
  ASSUME TypeOK, NEW c \in CPUs, c \in Busy, NEW q \in Packet, Goes(c, q)
  PROVE  /\ cpu' \in [CPUs -> Packet \cup {Idle}] /\ Busy' = Busy
         /\ cpu'[c] = q /\ \A d \in CPUs : d # c => cpu'[d] = cpu[d]
         /\ cpu[c].pc # "last" /\ q.pc # "last" => Pending' = Pending
         /\ cpu[c].pc # "last" /\ q.pc = "last" => Pending' = Pending \ {c} /\ c \in Pending
<1>1. cpu \in [CPUs -> Packet \cup {Idle}] /\ cpu' = [cpu EXCEPT ![c] = q]
  BY DEF TypeOK, Goes
<1>2. /\ cpu' \in [CPUs -> Packet \cup {Idle}]
      /\ cpu'[c] = q /\ \A d \in CPUs : d # c => cpu'[d] = cpu[d]
  BY <1>1
<1>3. q # Idle /\ cpu[c] # Idle
  BY PacketTypes DEF Busy
<1>4. Busy' = Busy
  BY <1>2, <1>3 DEF Busy
<1>5. Pending' = {d \in Busy : cpu'[d].pc # "last"} /\ Busy \subseteq CPUs
  BY <1>4 DEF Pending, Busy
<1>6. cpu[c].pc # "last" /\ q.pc # "last" => Pending' = Pending
  BY <1>2, <1>5 DEF Pending
<1>7. cpu[c].pc # "last" /\ q.pc = "last" => Pending' = Pending \ {c} /\ c \in Pending
  BY <1>2, <1>5 DEF Pending
<1> QED
  BY <1>2, <1>4, <1>6, <1>7

(* A packet is done.                                                       *)
LEMMA Ended ==
  ASSUME TypeOK, NEW c \in CPUs, c \in Busy, Ends(c)
  PROVE  /\ cpu' \in [CPUs -> Packet \cup {Idle}] /\ Busy' = Busy \ {c}
         /\ cpu'[c] = Idle /\ \A d \in CPUs : d # c => cpu'[d] = cpu[d]
         /\ Pending' = Pending \ {c}
<1>1. cpu \in [CPUs -> Packet \cup {Idle}] /\ cpu' = [cpu EXCEPT ![c] = Idle]
  BY DEF TypeOK, Ends, Goes
<1>2. /\ cpu' \in [CPUs -> Packet \cup {Idle}]
      /\ cpu'[c] = Idle /\ \A d \in CPUs : d # c => cpu'[d] = cpu[d]
  BY <1>1
<1>3. Busy' = Busy \ {c}
  BY <1>2 DEF Busy
<1>4. Pending' = {d \in Busy \ {c} : cpu'[d].pc # "last"} /\ Busy \subseteq CPUs
  BY <1>3 DEF Pending, Busy
<1>5. Pending' = Pending \ {c}
  BY <1>2, <1>4 DEF Pending
<1> QED
  BY <1>2, <1>3, <1>5

(* The packets under way go on being bounded when one of them admits its    *)
(* bytes.                                                                  *)
LEMMA ContendedKept ==
  ASSUME TypeOK, NEW n \in Nat, NEW m \in Nat, NEW s2 \in Nat,
         \/ s2 = spent /\ m <= n
         \/ s2 <= spent + MaxLength /\ m + 1 <= n,
         Covered(spent, start, overlaps, Full + n * MaxLength, now)
  PROVE  Covered(s2, start, overlaps, Full + m * MaxLength, now)
<1>1. /\ spent \in Nat /\ start \in Nat /\ overlaps \in Nat /\ now \in Nat
      /\ n * MaxLength \in Nat /\ m * MaxLength \in Nat /\ Full \in Nat /\ MaxLength \in Nat
  BY Sizes, Product DEF TypeOK
<1>2. CASE s2 = spent /\ m <= n
  <2>1. m * MaxLength <= n * MaxLength
    BY <1>2, Sizes, ProductMonotone
  <2>2. s2 + (Full + m * MaxLength) <= spent + (Full + n * MaxLength)
    BY <1>1, <1>2, <2>1
  <2>3. Full + m * MaxLength \in Nat /\ Full + n * MaxLength \in Nat /\ now <= now
    BY <1>1
  <2> QED BY <1>1, <2>2, <2>3, CoveredKept
<1>3. CASE s2 <= spent + MaxLength /\ m + 1 <= n
  <2>1. (m + 1) * MaxLength <= n * MaxLength /\ (m + 1) * MaxLength = m * MaxLength + MaxLength
    BY <1>3, Sizes, ProductMonotone
  <2>2. s2 + (Full + m * MaxLength) <= spent + (Full + n * MaxLength)
    BY <1>1, <1>3, <2>1
  <2>3. Full + m * MaxLength \in Nat /\ Full + n * MaxLength \in Nat /\ now <= now
    BY <1>1
  <2> QED BY <1>1, <2>2, <2>3, CoveredKept
<1> QED
  BY <1>2, <1>3

(* The registers of the other packets are not touched.                     *)
LEMMA RegistersKept ==
  ASSUME NEW p \in Packet, NEW b, NEW t \in Nat, NEW b2, NEW t2 \in Nat,
         Registers(p, b, t), t <= t2, b # Absent => b2 # Absent
  PROVE  Registers(p, b2, t2)
<1>1. p.at <= t2
  BY PacketTypes DEF Registers
<1> QED
  BY <1>1 DEF Registers

(* What is left to show of a step that leaves its packet under way ...      *)
LEMMA MoveKeeps ==
  ASSUME IInv, NEW c \in CPUs, c \in Busy, NEW q \in Packet, Goes(c, q),
         UNCHANGED <<now, start, overlaps, mixed>>, cpu[c].pc # "last",
         bucket' \in Entry \cup {Absent}, inserted' \in Nat, spent' \in Nat,
         \/ spent' = spent
         \/ spent' <= spent + MaxLength /\ q.pc = "last",
         bucket # Absent => bucket' # Absent,
         Registers(q, bucket', now), BucketSound', NeverLeftFull',
         ~mixed /\ Busy = {c} => Alone(spent', start, overlaps, q, bucket')
  PROVE  IInv'
<1>1. /\ cpu' \in [CPUs -> Packet \cup {Idle}] /\ Busy' = Busy
      /\ cpu'[c] = q /\ \A d \in CPUs : d # c => cpu'[d] = cpu[d]
  BY Moved DEF IInv
<1>2. TypeOK'
  BY <1>1 DEF IInv, TypeOK
<1>3. AllRegisters'
  <2> SUFFICES ASSUME NEW d \in Busy PROVE Registers(cpu'[d], bucket', now)
    BY <1>1 DEF AllRegisters
  <2>1. CASE d = c
    BY <1>1, <2>1
  <2>2. CASE d # c
    <3>1. d \in CPUs /\ cpu'[d] = cpu[d] /\ cpu[d] \in Packet /\ now \in Nat /\ now <= now
      BY <1>1, <2>2, BusyTypes DEF Busy, IInv, TypeOK
    <3>2. Registers(cpu[d], bucket, now)
      BY DEF IInv, AllRegisters
    <3> QED BY <3>1, <3>2, RegistersKept
  <2> QED BY <2>1, <2>2
<1>4. Quiet'
  BY <1>1 DEF Quiet
<1>5. Single'
  <2> SUFFICES ASSUME NEW d \in CPUs, ~mixed, Busy = {d}
               PROVE  Alone(spent', start, overlaps, cpu'[d], bucket')
    BY <1>1 DEF Single
  <2>1. d = c
    OBVIOUS
  <2> QED BY <1>1, <2>1
<1>6. Contended'
  <2> SUFFICES ASSUME mixed
               PROVE  Covered(spent', start, overlaps, Full + Cardinality(Pending') * MaxLength, now)
    BY DEF Contended
  <2> DEFINE n == Cardinality(Pending)
             m == Cardinality(Pending')
  <2>1. n \in Nat /\ Covered(spent, start, overlaps, Full + n * MaxLength, now) /\ TypeOK
    BY Counted DEF IInv, Contended
  <2>2. m \in Nat /\ (q.pc # "last" => m <= n) /\ (q.pc = "last" => m + 1 <= n)
    <3>1. CASE q.pc # "last"
      <4>1. Pending' = Pending
        BY <3>1, Moved DEF IInv
      <4> QED BY <2>1, <3>1, <4>1
    <3>2. CASE q.pc = "last"
      <4>1. Pending' = Pending \ {c} /\ c \in Pending
        BY <3>2, Moved DEF IInv
      <4>2. IsFiniteSet(Pending)
        BY Counted
      <4>3. Cardinality(Pending \ {c}) = Cardinality(Pending) - 1
        BY <4>1, <4>2, FS_RemoveElement
      <4>4. IsFiniteSet(Pending \ {c})
        BY <4>2, FS_RemoveElement
      <4>5. Cardinality(Pending \ {c}) \in Nat
        BY <4>4, FS_CardinalityType
      <4> QED BY <2>1, <3>2, <4>1, <4>3, <4>5
    <3> QED BY <3>1, <3>2
  <2> HIDE DEF n, m
  <2>3. \/ spent' = spent /\ m <= n
        \/ spent' <= spent + MaxLength /\ m + 1 <= n
    <3>1. m + 1 <= n => m <= n
      BY <2>1, <2>2
    <3> QED BY <2>2, <3>1
  <2>4. Covered(spent', start, overlaps, Full + m * MaxLength, now)
    BY <2>1, <2>2, <2>3, ContendedKept
  <2> QED BY <2>4 DEF m
<1>7. Mixing'
  BY <1>1 DEF IInv, Mixing
<1> QED
  BY <1>2, <1>3, <1>4, <1>5, <1>6, <1>7 DEF IInv

(* ... and of one that ends it.                                            *)
LEMMA EndKeeps ==
  ASSUME IInv, NEW c \in CPUs, c \in Busy, Ends(c), UNCHANGED <<now, start, overlaps>>,
         bucket' \in Entry \cup {Absent}, inserted' \in Nat, spent' \in Nat,
         \/ spent' = spent
         \/ spent' <= spent + MaxLength /\ cpu[c].pc # "last",
         bucket # Absent => bucket' # Absent,
         BucketSound', NeverLeftFull',
         ~mixed /\ Busy = {c} => BucketCovered(spent', start, overlaps, bucket', now)
  PROVE  IInv'
<1>1. /\ cpu' \in [CPUs -> Packet \cup {Idle}] /\ Busy' = Busy \ {c}
      /\ \A d \in CPUs : d # c => cpu'[d] = cpu[d]
      /\ Pending' = Pending \ {c}
  BY Ended DEF IInv
<1>0. mixed' = (mixed /\ Busy # {c})
  BY DEF Ends
<1>2. TypeOK'
  BY <1>0, <1>1 DEF IInv, TypeOK
<1>3. AllRegisters'
  <2> SUFFICES ASSUME NEW d \in Busy, d # c PROVE Registers(cpu'[d], bucket', now)
    BY <1>1 DEF AllRegisters
  <2>1. d \in CPUs /\ cpu'[d] = cpu[d] /\ cpu[d] \in Packet /\ now \in Nat /\ now <= now
    BY <1>1, BusyTypes DEF Busy, IInv, TypeOK
  <2>2. Registers(cpu[d], bucket, now)
    BY DEF IInv, AllRegisters
  <2> QED BY <2>1, <2>2, RegistersKept
<1> DEFINE n == Cardinality(Pending)
           m == Cardinality(Pending')
<1>4. /\ n \in Nat /\ m \in Nat /\ m <= n
      /\ cpu[c].pc # "last" => m + 1 <= n
  <2>1. IsFiniteSet(Pending) /\ n \in Nat
    BY Counted
  <2>2. /\ IsFiniteSet(Pending \ {c})
        /\ Cardinality(Pending \ {c}) = IF c \in Pending THEN n - 1 ELSE n
    BY <2>1, FS_RemoveElement
  <2>3. m \in Nat
    BY <1>1, <2>2, FS_CardinalityType
  <2>4. cpu[c].pc # "last" => c \in Pending
    BY DEF Pending
  <2> QED BY <1>1, <2>1, <2>2, <2>3, <2>4
<1>5. mixed => Covered(spent', start, overlaps, Full + m * MaxLength, now)
  <2> SUFFICES ASSUME mixed
               PROVE  Covered(spent', start, overlaps, Full + m * MaxLength, now)
    OBVIOUS
  <2>1. Covered(spent, start, overlaps, Full + n * MaxLength, now) /\ TypeOK
    BY DEF IInv, Contended
  <2> HIDE DEF n, m
  <2>2. \/ spent' = spent /\ m <= n
        \/ spent' <= spent + MaxLength /\ m + 1 <= n
    BY <1>4
  <2> QED BY <1>4, <2>1, <2>2, ContendedKept
<1>6. Quiet'
  <2> SUFFICES ASSUME Busy = {c}
               PROVE  BucketCovered(spent', start, overlaps, bucket', now)
    BY <1>1 DEF Quiet
  <2>1. CASE ~mixed
    BY <2>1
  <2>2. CASE mixed
    <3>1. /\ spent' \in Nat /\ start \in Nat /\ overlaps \in Nat /\ now \in Nat /\ now <= now
          /\ Full \in Nat /\ m * MaxLength \in Nat
      BY <1>4, Sizes, Product DEF IInv, TypeOK
    <3> HIDE DEF m
    <3>2. spent' + Full <= spent' + (Full + m * MaxLength) /\ Full + m * MaxLength \in Nat
      BY <3>1
    <3>3. Covered(spent', start, overlaps, Full, now)
      BY <1>5, <2>2, <3>1, <3>2, CoveredKept
    <3> QED BY <3>3 DEF BucketCovered
  <2> QED BY <2>1, <2>2
<1>7. Single'
  <2> SUFFICES ASSUME NEW d \in CPUs, ~mixed', Busy \ {c} = {d} PROVE FALSE
    BY <1>1 DEF Single
  <2>1. ~mixed
    BY <1>0
  <2>2. d \in Busy /\ d # c
    OBVIOUS
  <2> QED BY <2>1, <2>2 DEF IInv, Mixing
<1>8. Contended'
  BY <1>0, <1>5 DEF Contended
<1>9. Mixing'
  BY <1>0, <1>1 DEF IInv, Mixing
<1> QED
  BY <1>2, <1>3, <1>6, <1>7, <1>8, <1>9 DEF IInv
(***************************************************************************)
(* One lemma per action.                                                   *)
(***************************************************************************)

(* Nobody but a packet about to be charged is needed for the bucket to be   *)
(* left less than full.                                                    *)
LEMMA NeverLeftFullKept ==
  ASSUME NeverLeftFull, NEW c \in CPUs, \A d \in CPUs : d # c => cpu'[d] = cpu[d],
         bucket # Absent, bucket' # Absent,
         bucket'.tokens = bucket.tokens, bucket'.from = bucket.from,
         cpu[c].pc \in {"take", "charge"} /\ Own(c)
           => \/ bucket.tokens < Full
              \/ cpu'[c].pc \in {"take", "charge"} /\ cpu'[c].from = cpu[c].from
  PROVE  NeverLeftFull'
<1> SUFFICES ASSUME bucket.tokens = Full
             PROVE  \E d \in CPUs : cpu'[d].pc \in {"take", "charge"} /\ bucket'.from = cpu'[d].from
  BY DEF NeverLeftFull, Own
<1>1. PICK d \in CPUs : cpu[d].pc \in {"take", "charge"} /\ bucket.from = cpu[d].from
  BY DEF NeverLeftFull, Own
<1>2. ~(bucket.tokens < Full)
  BY Sizes
<1>3. CASE d = c
  BY <1>1, <1>2, <1>3 DEF Own
<1>4. CASE d # c
  BY <1>1, <1>4
<1> QED
  BY <1>3, <1>4

LEMMA LookKeeps ==
  ASSUME IInv, NEW c \in CPUs, Look(c)
  PROVE  IInv'
<1>1. cpu[c].pc = "look" /\ c \in Busy /\ cpu[c] \in Packet
  BY BusyTypes DEF IInv, Look, Steps
<1>2. PICK p \in Packet : p = cpu[c]
  BY <1>1
<1>3. /\ now \in Nat /\ spent \in Nat /\ start \in Nat /\ overlaps \in Nat /\ inserted \in Nat
      /\ bucket \in Entry \cup {Absent} /\ Registers(p, bucket, now)
      /\ UNCHANGED <<now, bucket, inserted, start, spent, overlaps, mixed>>
  BY <1>1, <1>2 DEF IInv, TypeOK, AllRegisters, Look, window
<1>4. BucketSound'
  BY <1>3 DEF IInv, BucketSound
<1>5. ~mixed /\ Busy = {c} => BucketCovered(spent, start, overlaps, bucket, p.at)
  BY <1>1, <1>2 DEF IInv, Single, Alone
<1>6. CASE bucket = Absent
  <2>1. PICK q \in Packet : q = [p EXCEPT !.pc = "insert"]
    BY DEF Packet, Steps
  <2>2. Goes(c, q)
    BY <1>2, <1>6, <2>1 DEF Look
  <2>3. Registers(q, bucket', now)
    BY <1>1, <1>2, <1>3, <2>1, PacketTypes DEF Registers, Packet
  <2>4. NeverLeftFull'
    BY <1>3, <1>6 DEF NeverLeftFull
  <2>5. ~mixed /\ Busy = {c} => Alone(spent', start, overlaps, q, bucket')
    <3>1. q.pc = "insert" /\ q.at = p.at
      BY <2>1 DEF Packet
    <3> QED BY <1>3, <1>5, <1>6, <3>1 DEF Alone, BucketCovered
  <2> QED BY <1>1, <1>2, <1>3, <1>4, <2>2, <2>3, <2>4, <2>5, MoveKeeps
<1>7. CASE bucket # Absent
  <2> DEFINE owed == p.at > bucket.last /\ RefillAmount(Budget, p.at - bucket.last) > 0
  <2>0. bucket \in Entry /\ bucket.from \in Nat /\ bucket.last \in Nat /\ bucket.tokens \in Nat
    BY <1>3, <1>7, EntryTypes
  <2>1. PICK q \in Packet : q = [p EXCEPT !.from = bucket.from, !.seen = bucket.last,
                                   !.pc = IF owed THEN "fill" ELSE "take"]
    <3>1. [p EXCEPT !.from = bucket.from, !.seen = bucket.last,
             !.pc = IF owed THEN "fill" ELSE "take"] \in Packet
      BY <2>0 DEF Packet, Steps
    <3> QED BY <3>1
  <2>2. Goes(c, q)
    BY <1>2, <1>7, <2>1 DEF Look
  <2>3. /\ q.from = bucket.from /\ q.seen = bucket.last /\ q.at = p.at /\ q.value = p.value
        /\ q.timed = p.timed /\ q.pc = IF owed THEN "fill" ELSE "take"
    BY <2>1 DEF Packet
  <2>4. Registers(q, bucket', now)
    <3>1. p.at <= now /\ p.value <= Full /\ ~p.timed
      BY <1>1, <1>2, <1>3 DEF Registers
    <3> QED BY <1>3, <1>7, <2>3, <3>1 DEF Registers
  <2>5. NeverLeftFull'
    BY <1>1, <1>3, <1>7, <2>2, NeverLeftFullKept, Moved DEF IInv
  <2>6. ASSUME ~mixed, Busy = {c} PROVE Alone(spent', start, overlaps, q, bucket')
    <3>1. BucketCovered(spent, start, overlaps, bucket, p.at)
      BY <1>5, <2>6
    <3>2. CASE owed
      BY <1>3, <2>3, <3>1, <3>2 DEF Alone
    <3>3. CASE ~owed
      <4>1. bucket.tokens < Full
        <5>1. bucket.tokens <= Full /\ Full \in Nat
          BY <1>7, Sizes DEF IInv, BucketSound
        <5>2. SUFFICES ASSUME bucket.tokens = Full PROVE FALSE
          BY <2>0, <5>1
        <5>3. PICK d \in CPUs : cpu[d].pc \in {"take", "charge"}
          BY <1>7, <5>2 DEF IInv, NeverLeftFull
        <5>4. d \in Busy
          BY <5>3, BusyTypes DEF IInv, Steps
        <5> QED BY <1>1, <2>6, <5>3, <5>4
      <4>2. p.at > bucket.last => RefillAmount(Budget, p.at - bucket.last) = 0
        <5> SUFFICES ASSUME p.at > bucket.last PROVE RefillAmount(Budget, p.at - bucket.last) = 0
          OBVIOUS
        <5>1. p.at - bucket.last \in Nat /\ Budget \in Nat
          BY <2>0, PacketTypes, Sizes
        <5>2. RefillAmount(Budget, p.at - bucket.last) \in U64
          BY <5>1, RefillEarned
        <5>3. ~ (RefillAmount(Budget, p.at - bucket.last) > 0)
          BY <3>3
        <5> HIDE DEF owed
        <5> QED BY <5>2, <5>3, Sizes DEF U64
      <4>3. Covered(spent, start, overlaps, bucket.tokens, bucket.last)
        <5>1. CASE Covered(spent, start, overlaps, Full, p.at)
          BY <1>3, <2>0, <4>1, <4>2, <5>1, PacketTypes, CoveredSettled
        <5> QED BY <3>1, <5>1 DEF BucketCovered
      <4>4. ~q.timed /\ q.pc = "take"
        BY <1>1, <1>2, <1>3, <2>3, <3>3 DEF Registers
      <4> QED BY <1>3, <2>3, <4>3, <4>4 DEF Alone, Behind
    <3> QED BY <3>2, <3>3
  <2> HIDE DEF owed
  <2> QED BY <1>1, <1>2, <1>3, <1>4, <2>2, <2>4, <2>5, <2>6, MoveKeeps
<1> QED
  BY <1>6, <1>7

(* What a load of the tokens may return is never more than a full bucket.   *)
LEMMA LoadedBound ==
  ASSUME IInv, bucket # Absent, NEW c \in CPUs, NEW tokens \in Loaded(c)
  PROVE  tokens \in Nat /\ tokens <= Full /\ (Own(c) => tokens = bucket.tokens)
<1>1. CASE Own(c)
  <2>1. bucket \in Entry
    BY DEF IInv, TypeOK
  <2> QED BY <1>1, <2>1, EntryTypes DEF Loaded, IInv, BucketSound
<1>2. CASE ~Own(c)
  BY <1>2, Sizes DEF Loaded
<1> QED
  BY <1>1, <1>2

(* The tokens that a refill stores.                                        *)
LEMMA FilledBound ==
  ASSUME NEW p \in Packet, p.seen < p.at, NEW tokens \in Nat
  PROVE  /\ Filled(p, tokens) \in U64 /\ Filled(p, tokens) \in Nat /\ Filled(p, tokens) <= Full
         /\ \E r \in Nat : Filled(p, tokens) <= tokens + r /\ r * Second <= Budget * (p.at - p.seen)
<1> DEFINE r == RefillAmount(Budget, p.at - p.seen)
           cap == Greater(TokensForWindow(Budget, BurstWindow), p.len)
<1>1. p.at - p.seen \in Nat
  BY PacketTypes
<1>2. r \in U64 /\ r * Second <= Budget * (p.at - p.seen)
  BY <1>1, Sizes, RefillEarned
<1>3. cap \in U64 /\ cap \in Nat /\ cap <= Full
  BY PacketTypes, Sizes DEF Greater, U64
<1> HIDE DEF r, cap
<1>4. r \in Nat /\ SatAdd(tokens, r) \in Nat /\ SatAdd(tokens, r) <= tokens + r
  BY <1>2, Sizes DEF SatAdd, Lesser, U64
<1>5. Filled(p, tokens) = Lesser(SatAdd(tokens, r), cap)
  BY DEF Filled, r, cap
<1>6. Filled(p, tokens) <= cap /\ Filled(p, tokens) <= tokens + r /\ Filled(p, tokens) \in Nat
  BY <1>3, <1>4, <1>5 DEF Lesser
<1>7. Filled(p, tokens) \in U64 /\ Filled(p, tokens) <= Full
  BY <1>3, <1>6, Sizes DEF U64
<1> QED
  BY <1>2, <1>4, <1>6, <1>7

LEMMA FillKeeps ==
  ASSUME IInv, NEW c \in CPUs, Fill(c)
  PROVE  IInv'
<1>1. cpu[c].pc = "fill" /\ c \in Busy /\ cpu[c] \in Packet
  BY BusyTypes DEF IInv, Fill, Steps
<1>2. PICK p \in Packet : p = cpu[c]
  BY <1>1
<1>3. /\ now \in Nat /\ spent \in Nat /\ start \in Nat /\ overlaps \in Nat /\ inserted \in Nat
      /\ Registers(p, bucket, now)
      /\ UNCHANGED <<now, bucket, inserted, start, spent, overlaps, mixed>>
  BY <1>1, <1>2 DEF IInv, TypeOK, AllRegisters, Fill, window
<1>4. BucketSound'
  BY <1>3 DEF IInv, BucketSound
<1>5. bucket # Absent /\ bucket \in Entry /\ p.seen < p.at /\ p.at <= now
  BY <1>1, <1>2, <1>3 DEF Registers, IInv, TypeOK
<1>6. PICK tokens \in Loaded(c) :
        Goes(c, [p EXCEPT !.pc = "filled", !.value = Filled(p, tokens), !.timed = TRUE])
  BY <1>2 DEF Fill
<1>7. tokens \in Nat /\ tokens <= Full /\ (Own(c) => tokens = bucket.tokens)
  BY <1>5, LoadedBound
<1>8. Filled(p, tokens) \in U64 /\ Filled(p, tokens) \in Nat /\ Filled(p, tokens) <= Full
  BY <1>5, <1>7, FilledBound
<1>9. PICK q \in Packet : q = [p EXCEPT !.pc = "filled", !.value = Filled(p, tokens), !.timed = TRUE]
  BY <1>8 DEF Packet, Steps
<1>10. /\ q.pc = "filled" /\ q.value = Filled(p, tokens) /\ q.timed = TRUE /\ q.at = p.at
       /\ q.from = p.from
  BY <1>9 DEF Packet
<1>11. Registers(q, bucket', now)
  BY <1>3, <1>5, <1>8, <1>10 DEF Registers
<1>12. NeverLeftFull'
  BY <1>1, <1>3, <1>5, <1>6, <1>9, NeverLeftFullKept, Moved DEF IInv
<1>13. ASSUME ~mixed, Busy = {c} PROVE Alone(spent', start, overlaps, q, bucket')
  <2>1. /\ p.seen = bucket.last /\ bucket.from = p.from
        /\ BucketCovered(spent, start, overlaps, bucket, p.at)
    BY <1>1, <1>2, <1>13 DEF IInv, Single, Alone
  <2>2. tokens = bucket.tokens
    BY <1>2, <1>7, <2>1 DEF Own
  <2>3. Covered(spent, start, overlaps, q.value, p.at)
    <3>1. CASE Covered(spent, start, overlaps, Full, p.at)
      <4>1. spent + q.value <= spent + Full /\ q.value \in Nat /\ Full \in Nat
            /\ p.at \in Nat /\ p.at <= p.at
        BY <1>3, <1>8, <1>10, Sizes, PacketTypes
      <4> QED BY <1>3, <3>1, <4>1, CoveredKept
    <3>2. CASE Covered(spent, start, overlaps, bucket.tokens, bucket.last)
      <4>1. PICK r \in Nat : Filled(p, tokens) <= tokens + r /\ r * Second <= Budget * (p.at - p.seen)
        BY <1>5, <1>7, FilledBound
      <4>2. /\ q.value \in Nat /\ q.value <= bucket.tokens + r
            /\ r * Second <= Budget * (p.at - bucket.last)
            /\ p.at \in Nat /\ bucket.last \in Nat /\ bucket.last <= p.at /\ bucket.tokens \in Nat
        BY <1>5, <1>8, <1>10, <2>1, <2>2, <4>1, PacketTypes, EntryTypes
      <4> QED BY <1>3, <3>2, <4>2, CoveredRefilled
    <3> QED BY <2>1, <3>1, <3>2 DEF BucketCovered
  <2> QED BY <1>3, <1>10, <2>1, <2>3 DEF Alone, Behind
<1> QED
  BY <1>1, <1>2, <1>3, <1>4, <1>5, <1>6, <1>9, <1>10, <1>11, <1>12, <1>13, MoveKeeps DEF IInv, TypeOK
LEMMA StoreFilledKeeps ==
  ASSUME IInv, NEW c \in CPUs, StoreFilled(c)
  PROVE  IInv'
<1>1. cpu[c].pc = "filled" /\ c \in Busy /\ cpu[c] \in Packet
  BY BusyTypes DEF IInv, StoreFilled, Steps
<1>2. PICK p \in Packet : p = cpu[c]
  BY <1>1
<1>3. /\ now \in Nat /\ spent \in Nat /\ start \in Nat /\ overlaps \in Nat /\ inserted \in Nat
      /\ Registers(p, bucket, now)
      /\ UNCHANGED <<now, inserted, start, spent, overlaps, mixed>>
  BY <1>1, <1>2 DEF IInv, TypeOK, AllRegisters, StoreFilled, window
<1>4. /\ bucket \in Entry /\ bucket # Absent /\ bucket.tokens <= Full /\ bucket.last <= now
      /\ p.value \in U64 /\ p.value <= Full /\ p.at <= now
  BY <1>1, <1>2, <1>3, PacketTypes DEF Registers, IInv, TypeOK, BucketSound
<1>5. /\ Own(c) => bucket' = [bucket EXCEPT !.tokens = p.value]
      /\ ~Own(c) => bucket' = bucket
  BY <1>2 DEF StoreFilled, Puts
<1>6. /\ bucket' \in Entry /\ bucket'.from = bucket.from /\ bucket'.last = bucket.last
      /\ bucket'.tokens = IF Own(c) THEN p.value ELSE bucket.tokens
  BY <1>4, <1>5 DEF Entry
<1>7. bucket' # Absent
  BY <1>6, EntryTypes
<1>8. PICK q \in Packet : q = [p EXCEPT !.pc = "take"]
  BY DEF Packet, Steps
<1>9. q.pc = "take" /\ q.value = p.value /\ q.timed = p.timed /\ q.at = p.at /\ q.from = p.from
  BY <1>8 DEF Packet
<1>10. Goes(c, q)
  BY <1>2, <1>8 DEF StoreFilled
<1>11. cpu'[c] = q /\ \A d \in CPUs : d # c => cpu'[d] = cpu[d]
  BY <1>1, <1>10, Moved DEF IInv
<1>12. BucketSound'
  BY <1>3, <1>4, <1>6 DEF BucketSound
<1>13. Registers(q, bucket', now)
  BY <1>4, <1>7, <1>9 DEF Registers
<1>14. NeverLeftFull'
  <2>1. CASE Own(c)
    BY <1>2, <1>6, <1>9, <1>11, <2>1 DEF NeverLeftFull, Own
  <2>2. CASE ~Own(c)
    BY <1>1, <1>4, <1>6, <1>7, <1>11, <2>2, NeverLeftFullKept DEF IInv
  <2> QED BY <2>1, <2>2
<1>15. ASSUME ~mixed, Busy = {c} PROVE Alone(spent', start, overlaps, q, bucket')
  <2>1. bucket.from = p.from /\ Covered(spent, start, overlaps, p.value, Behind(p, bucket))
    BY <1>1, <1>2, <1>15 DEF IInv, Single, Alone
  <2>2. bucket'.tokens = p.value /\ Behind(q, bucket') = Behind(p, bucket)
    BY <1>2, <1>6, <1>9, <2>1 DEF Own, Behind
  <2> QED BY <1>3, <1>6, <1>9, <2>1, <2>2 DEF Alone
<1> QED
  BY <1>1, <1>3, <1>6, <1>7, <1>10, <1>12, <1>13, <1>14, <1>15, MoveKeeps

LEMMA TakeKeeps ==
  ASSUME IInv, NEW c \in CPUs, Take(c)
  PROVE  IInv'
<1>1. cpu[c].pc = "take" /\ c \in Busy /\ cpu[c] \in Packet
  BY BusyTypes DEF IInv, Take, Steps
<1>2. PICK p \in Packet : p = cpu[c]
  BY <1>1
<1>3. /\ now \in Nat /\ spent \in Nat /\ start \in Nat /\ overlaps \in Nat /\ inserted \in Nat
      /\ Registers(p, bucket, now)
      /\ UNCHANGED <<now, bucket, inserted, start, spent, overlaps>>
  BY <1>1, <1>2 DEF IInv, TypeOK, AllRegisters, Take
<1>4. /\ bucket \in Entry /\ bucket # Absent /\ bucket.tokens <= Full /\ bucket.last <= now
      /\ p.value \in U64 /\ p.value <= Full /\ p.at <= now
      /\ bucket.tokens \in Nat /\ bucket.last \in Nat
  BY <1>1, <1>2, <1>3, PacketTypes, EntryTypes DEF Registers, IInv, TypeOK, BucketSound
<1>5. BucketSound'
  BY <1>3 DEF IInv, BucketSound
<1>6. ~mixed /\ Busy = {c}
        => bucket.from = p.from /\ Covered(spent, start, overlaps, bucket.tokens, Behind(p, bucket))
  BY <1>1, <1>2 DEF IInv, Single, Alone
<1>7. PICK tokens \in Loaded(c) :
        IF tokens >= p.len
          THEN Goes(c, [p EXCEPT !.pc = "charge", !.value = tokens - p.len]) /\ UNCHANGED mixed
          ELSE Through(c)
  BY <1>2 DEF Take
<1>8. tokens \in Nat /\ tokens <= Full /\ (Own(c) => tokens = bucket.tokens)
  BY <1>4, LoadedBound
<1>9. CASE tokens >= p.len
  <2>1. tokens - p.len \in U64 /\ tokens - p.len < Full /\ (tokens - p.len) + p.len = tokens
    BY <1>8, <1>9, PacketTypes, Sizes DEF U64
  <2>2. PICK q \in Packet : q = [p EXCEPT !.pc = "charge", !.value = tokens - p.len]
    BY <2>1 DEF Packet, Steps
  <2>3. /\ q.pc = "charge" /\ q.value = tokens - p.len /\ q.timed = p.timed /\ q.at = p.at
        /\ q.from = p.from /\ q.len = p.len
    BY <2>2 DEF Packet
  <2>4. Goes(c, q) /\ UNCHANGED mixed
    BY <1>7, <1>9, <2>2
  <2>5. cpu'[c] = q /\ \A d \in CPUs : d # c => cpu'[d] = cpu[d]
    BY <1>1, <2>4, Moved DEF IInv
  <2>6. Registers(q, bucket', now)
    <3>1. q.value <= Full /\ q.value < Full
      <4>1. q.value = tokens - p.len /\ p.len \in Nat
        BY <2>3, PacketTypes
      <4> QED BY <1>8, <2>1, <4>1, Sizes
    <3>2. q.at <= now /\ bucket' # Absent
      BY <1>3, <1>4, <2>3
    <3> QED BY <2>3, <3>1, <3>2 DEF Registers
  <2>7. NeverLeftFull'
    BY <1>2, <1>3, <1>4, <2>3, <2>5, NeverLeftFullKept DEF IInv
  <2>8. ASSUME ~mixed, Busy = {c} PROVE Alone(spent', start, overlaps, q, bucket')
    <3>1. tokens = bucket.tokens /\ bucket.from = p.from
      BY <1>2, <1>6, <1>8, <2>8 DEF Own
    <3>2. Covered(spent, start, overlaps, bucket.tokens, Behind(q, bucket))
      BY <1>6, <2>3, <2>8 DEF Behind
    <3>3. q.value + q.len = bucket.tokens
      BY <2>1, <2>3, <3>1
    <3> QED BY <1>3, <2>3, <3>1, <3>2, <3>3 DEF Alone
  <2> QED BY <1>1, <1>3, <1>4, <1>5, <2>3, <2>4, <2>6, <2>7, <2>8, MoveKeeps
<1>10. CASE ~(tokens >= p.len)
  <2>1. Own(c) => bucket.tokens < Full
    BY <1>8, <1>10, PacketTypes, Sizes
  <2>2. Through(c)
    BY <1>7, <1>10
  <2>3. CASE p.timed
    <3>1. PICK q \in Packet : q = [p EXCEPT !.pc = "last"]
      BY DEF Packet, Steps
    <3>2. q.pc = "last" /\ q.value = p.value /\ q.timed = p.timed /\ q.at = p.at /\ q.from = p.from
      BY <3>1 DEF Packet
    <3>3. Goes(c, q) /\ UNCHANGED mixed
      BY <1>2, <2>2, <2>3, <3>1 DEF Through
    <3>4. cpu'[c] = q /\ \A d \in CPUs : d # c => cpu'[d] = cpu[d]
      BY <1>1, <3>3, Moved DEF IInv
    <3>5. Registers(q, bucket', now)
      BY <1>3, <1>4, <2>3, <3>2 DEF Registers
    <3>6. NeverLeftFull'
      BY <1>3, <1>4, <2>1, <3>4, NeverLeftFullKept DEF IInv
    <3>7. ASSUME ~mixed, Busy = {c} PROVE Alone(spent', start, overlaps, q, bucket')
      <4>1. Covered(spent, start, overlaps, bucket.tokens, Behind(q, bucket))
        BY <1>6, <3>2, <3>7 DEF Behind
      <4> QED BY <1>3, <1>6, <3>2, <3>7, <4>1 DEF Alone
    <3> QED BY <1>1, <1>3, <1>4, <1>5, <3>2, <3>3, <3>5, <3>6, <3>7, MoveKeeps
  <2>4. CASE ~p.timed
    <3>1. Ends(c)
      BY <1>2, <2>2, <2>4 DEF Through
    <3>2. \A d \in CPUs : d # c => cpu'[d] = cpu[d]
      BY <1>1, <3>1, Ended DEF IInv
    <3>3. NeverLeftFull'
      BY <1>3, <1>4, <2>1, <3>2, NeverLeftFullKept DEF IInv
    <3>4. ASSUME ~mixed, Busy = {c} PROVE BucketCovered(spent', start, overlaps, bucket', now)
      <4>1. Covered(spent, start, overlaps, bucket.tokens, bucket.last)
        BY <1>6, <2>4, <3>4 DEF Behind
      <4> QED BY <1>3, <1>4, <4>1 DEF BucketCovered
    <3> QED BY <1>1, <1>3, <1>4, <1>5, <3>1, <3>3, <3>4, EndKeeps
  <2> QED BY <2>3, <2>4
<1> QED
  BY <1>9, <1>10
LEMMA StoreChargedKeeps ==
  ASSUME IInv, NEW c \in CPUs, StoreCharged(c)
  PROVE  IInv'
<1>1. cpu[c].pc = "charge" /\ c \in Busy /\ cpu[c] \in Packet
  BY BusyTypes DEF IInv, StoreCharged, Steps
<1>2. PICK p \in Packet : p = cpu[c]
  BY <1>1
<1>3. /\ now \in Nat /\ spent \in Nat /\ start \in Nat /\ overlaps \in Nat /\ inserted \in Nat
      /\ Registers(p, bucket, now) /\ spent' = spent + p.len
      /\ UNCHANGED <<now, inserted, start, overlaps>>
  BY <1>1, <1>2 DEF IInv, TypeOK, AllRegisters, StoreCharged, Admit
<1>4. /\ bucket \in Entry /\ bucket # Absent /\ bucket.tokens <= Full /\ bucket.last <= now
      /\ p.value \in U64 /\ p.value \in Nat /\ p.value < Full /\ p.value <= Full /\ p.at <= now
      /\ bucket.tokens \in Nat /\ bucket.last \in Nat /\ p.len \in Nat /\ p.len <= MaxLength
      /\ p.at \in Nat
  BY <1>1, <1>2, <1>3, PacketTypes, EntryTypes DEF Registers, IInv, TypeOK, BucketSound
<1>5. /\ Own(c) => bucket' = [bucket EXCEPT !.tokens = p.value]
      /\ ~Own(c) => bucket' = bucket
  BY <1>2 DEF StoreCharged, Puts
<1>6. /\ bucket' \in Entry /\ bucket'.from = bucket.from /\ bucket'.last = bucket.last
      /\ bucket'.tokens = IF Own(c) THEN p.value ELSE bucket.tokens
  BY <1>4, <1>5 DEF Entry
<1>7. bucket' # Absent
  BY <1>6, EntryTypes
<1>8. BucketSound'
  BY <1>3, <1>4, <1>6 DEF BucketSound
<1>9. Through(c)
  BY DEF StoreCharged
<1>10. spent' \in Nat /\ spent' <= spent + MaxLength
  BY <1>3, <1>4, Sizes
<1>11. ASSUME \A d \in CPUs : d # c => cpu'[d] = cpu[d]
       PROVE  NeverLeftFull'
  <2>1. CASE Own(c)
    BY <1>4, <1>6, <2>1, Sizes DEF NeverLeftFull
  <2>2. CASE ~Own(c)
    BY <1>4, <1>6, <1>7, <1>11, <2>2, NeverLeftFullKept DEF IInv
  <2> QED BY <2>1, <2>2
<1>12. ASSUME ~mixed, Busy = {c}
       PROVE  bucket'.from = p.from /\ Covered(spent', start, overlaps, bucket'.tokens, Behind(p, bucket'))
  <2>1. /\ bucket.from = p.from /\ p.value + p.len = bucket.tokens
        /\ Covered(spent, start, overlaps, bucket.tokens, Behind(p, bucket))
    BY <1>1, <1>2, <1>12 DEF IInv, Single, Alone
  <2>2. bucket'.tokens = p.value
    BY <1>2, <1>6, <2>1 DEF Own
  <2>3. spent' + p.value <= spent + bucket.tokens
    BY <1>3, <1>4, <2>1
  <2>4. Behind(p, bucket) \in Nat /\ Behind(p, bucket) <= Behind(p, bucket)
        /\ Behind(p, bucket') = Behind(p, bucket)
    BY <1>4, <1>6 DEF Behind
  <2>5. Covered(spent', start, overlaps, p.value, Behind(p, bucket))
    <3>1. /\ spent \in Nat /\ start \in Nat /\ overlaps \in Nat /\ spent' \in Nat
          /\ bucket.tokens \in Nat /\ p.value \in Nat /\ Behind(p, bucket) \in Nat
      BY <1>3, <1>4, <1>10, <2>4
    <3> QED BY <2>1, <2>3, <2>4, <3>1, CoveredKept
  <2> QED BY <1>6, <2>1, <2>2, <2>4, <2>5
<1>13. CASE p.timed
  <2>1. PICK q \in Packet : q = [p EXCEPT !.pc = "last"]
    BY DEF Packet, Steps
  <2>2. q.pc = "last" /\ q.value = p.value /\ q.timed = p.timed /\ q.at = p.at /\ q.from = p.from
    BY <2>1 DEF Packet
  <2>3. Goes(c, q) /\ UNCHANGED mixed
    BY <1>2, <1>9, <1>13, <2>1 DEF Through
  <2>4. \A d \in CPUs : d # c => cpu'[d] = cpu[d]
    BY <1>1, <2>3, Moved DEF IInv
  <2>5. Registers(q, bucket', now)
    BY <1>4, <1>7, <1>13, <2>2 DEF Registers
  <2>6. NeverLeftFull'
    BY <1>11, <2>4
  <2>7. ASSUME ~mixed, Busy = {c} PROVE Alone(spent', start, overlaps, q, bucket')
    <3>1. Behind(q, bucket') = Behind(p, bucket')
      BY <2>2 DEF Behind
    <3>2. bucket'.from = p.from /\ Covered(spent', start, overlaps, bucket'.tokens, Behind(p, bucket'))
      BY <1>12, <2>7
    <3> QED BY <2>2, <3>1, <3>2 DEF Alone
  <2> QED BY <1>1, <1>3, <1>6, <1>7, <1>8, <1>10, <2>2, <2>3, <2>5, <2>6, <2>7, MoveKeeps
<1>14. CASE ~p.timed
  <2>1. Ends(c)
    BY <1>2, <1>9, <1>14 DEF Through
  <2>2. \A d \in CPUs : d # c => cpu'[d] = cpu[d]
    BY <1>1, <2>1, Ended DEF IInv
  <2>3. NeverLeftFull'
    BY <1>11, <2>2
  <2>4. ASSUME ~mixed, Busy = {c} PROVE BucketCovered(spent', start, overlaps, bucket', now)
    <3>1. Covered(spent', start, overlaps, bucket'.tokens, Behind(p, bucket'))
      BY <1>12, <2>4
    <3>2. Behind(p, bucket') = bucket'.last
      BY <1>14 DEF Behind
    <3> QED BY <1>7, <3>1, <3>2 DEF BucketCovered
  <2> QED BY <1>1, <1>3, <1>6, <1>7, <1>8, <1>10, <2>1, <2>3, <2>4, EndKeeps
<1> QED
  BY <1>13, <1>14, PacketTypes

LEMMA StoreTimeKeeps ==
  ASSUME IInv, NEW c \in CPUs, StoreTime(c)
  PROVE  IInv'
<1>1. c \in Busy /\ cpu[c] \in Packet
  BY BusyTypes DEF IInv, StoreTime, Busy
<1>2. PICK p \in Packet : p = cpu[c]
  BY <1>1
<1>3. /\ now \in Nat /\ spent \in Nat /\ start \in Nat /\ overlaps \in Nat /\ inserted \in Nat
      /\ Registers(p, bucket, now) /\ p.timed
      /\ UNCHANGED <<now, inserted, start, spent, overlaps>>
  BY <1>1, <1>2 DEF IInv, TypeOK, AllRegisters, StoreTime
<1>4. /\ bucket \in Entry /\ bucket # Absent /\ bucket.tokens <= Full /\ bucket.last <= now
      /\ p.value \in U64 /\ p.value <= Full /\ p.at <= now /\ p.at \in Nat
      /\ p.pc \in {"filled", "take", "charge", "last"}
  BY <1>2, <1>3, PacketTypes, EntryTypes DEF Registers, IInv, TypeOK, BucketSound
<1>5. /\ Own(c) => bucket' = [bucket EXCEPT !.last = p.at]
      /\ ~Own(c) => bucket' = bucket
  BY <1>2 DEF StoreTime, Puts
<1>6. /\ bucket' \in Entry /\ bucket'.from = bucket.from /\ bucket'.tokens = bucket.tokens
      /\ bucket'.last = IF Own(c) THEN p.at ELSE bucket.last
  BY <1>4, <1>5 DEF Entry
<1>7. bucket' # Absent
  BY <1>6, EntryTypes
<1>8. BucketSound'
  BY <1>3, <1>4, <1>6 DEF BucketSound
<1>9. ASSUME ~mixed, Busy = {c} PROVE bucket.from = p.from /\ bucket'.last = p.at
  BY <1>1, <1>2, <1>4, <1>6, <1>9 DEF IInv, Single, Alone, Own
<1>10. CASE p.pc = "last"
  <2>1. Ends(c)
    BY <1>2, <1>10 DEF StoreTime
  <2>2. \A d \in CPUs : d # c => cpu'[d] = cpu[d]
    BY <1>1, <2>1, Ended DEF IInv
  <2>3. NeverLeftFull'
    BY <1>2, <1>4, <1>6, <1>7, <1>10, <2>2, NeverLeftFullKept DEF IInv
  <2>4. ASSUME ~mixed, Busy = {c} PROVE BucketCovered(spent', start, overlaps, bucket', now)
    <3>1. Covered(spent, start, overlaps, bucket.tokens, Behind(p, bucket))
      BY <1>1, <1>2, <1>10, <2>4 DEF IInv, Single, Alone
    <3>2. Behind(p, bucket) = bucket'.last
      BY <1>3, <1>9, <2>4 DEF Behind
    <3> QED BY <1>3, <1>6, <1>7, <3>1, <3>2 DEF BucketCovered
  <2> QED BY <1>1, <1>3, <1>6, <1>7, <1>8, <2>1, <2>3, <2>4, EndKeeps
<1>11. CASE p.pc # "last"
  <2>1. PICK q \in Packet : q = [p EXCEPT !.timed = FALSE]
    BY DEF Packet
  <2>2. q.pc = p.pc /\ q.value = p.value /\ q.timed = FALSE /\ q.at = p.at /\ q.from = p.from
        /\ q.len = p.len
    BY <2>1 DEF Packet
  <2>3. Goes(c, q) /\ UNCHANGED mixed
    BY <1>2, <1>11, <2>1 DEF StoreTime
  <2>4. cpu'[c] = q /\ \A d \in CPUs : d # c => cpu'[d] = cpu[d]
    BY <1>1, <2>3, Moved DEF IInv
  <2>5. Registers(q, bucket', now)
    <3>1. q.pc = "charge" => q.value < Full
      BY <1>3, <2>2 DEF Registers
    <3> QED BY <1>4, <1>7, <1>11, <2>2, <3>1 DEF Registers
  <2>6. NeverLeftFull'
    BY <1>2, <1>4, <1>6, <1>7, <2>2, <2>4, NeverLeftFullKept DEF IInv
  <2>7. ASSUME ~mixed, Busy = {c} PROVE Alone(spent', start, overlaps, q, bucket')
    <3>1. Alone(spent, start, overlaps, p, bucket)
      BY <1>1, <1>2, <2>7 DEF IInv, Single
    <3>2. Behind(q, bucket') = Behind(p, bucket)
      BY <1>3, <1>9, <2>2, <2>7 DEF Behind
    <3>3. bucket'.from = q.from
      BY <1>6, <1>9, <2>2, <2>7
    <3> QED BY <1>3, <1>4, <1>6, <2>2, <3>1, <3>2, <3>3 DEF Alone
  <2> QED BY <1>1, <1>2, <1>3, <1>6, <1>7, <1>8, <1>11, <2>3, <2>5, <2>6, <2>7, MoveKeeps
<1> QED
  BY <1>10, <1>11

LEMMA InsertKeeps ==
  ASSUME IInv, NEW c \in CPUs, Insert(c)
  PROVE  IInv'
<1>1. cpu[c].pc = "insert" /\ c \in Busy /\ cpu[c] \in Packet
  BY BusyTypes DEF IInv, Insert, Steps
<1>2. PICK p \in Packet : p = cpu[c]
  BY <1>1
<1> DEFINE b == NewBucket(Budget, p.at)
           left == Charge(b, p.len).tokens
<1>3. /\ now \in Nat /\ spent \in Nat /\ start \in Nat /\ overlaps \in Nat /\ inserted \in Nat
      /\ Registers(p, bucket, now) /\ Ends(c)
      /\ bucket' = [from |-> inserted + 1, tokens |-> left, last |-> p.at]
      /\ inserted' = inserted + 1
      /\ spent' = IF Admits(b, p.len) THEN spent + p.len ELSE spent
      /\ UNCHANGED <<now, start, overlaps>>
  BY <1>1, <1>2 DEF IInv, TypeOK, AllRegisters, Insert, Admit
<1>4. p.at \in Nat /\ p.at <= now /\ p.len \in Nat /\ p.len <= MaxLength /\ 1 <= p.len /\ p.len <= Full
  BY <1>3, PacketTypes DEF Registers
<1>5. b.tokens \in U64 /\ b.tokens \in Nat /\ b.tokens <= Full
  <2>1. /\ InitWindow \in Nat /\ BurstWindow \in Nat /\ InitWindow <= BurstWindow /\ Budget \in Nat
    BY RateConstants, Sizes
  <2>2. /\ TokensForWindow(Budget, InitWindow) \in U64
        /\ TokensForWindow(Budget, InitWindow) <= TokensForWindow(Budget, BurstWindow)
    BY <2>1, TokensForWindowBound, TokensForWindowMonotone
  <2>3. b.tokens = TokensForWindow(Budget, InitWindow)
    BY DEF NewBucket
  <2> QED BY <2>2, <2>3, Sizes DEF U64
<1>6. /\ left \in U64 /\ left \in Nat /\ left < Full /\ spent' \in Nat
      /\ spent' + left = spent + b.tokens /\ spent' <= spent + MaxLength
  <2>1. CASE Admits(b, p.len)
    <3>1. b.tokens >= p.len /\ left = b.tokens - p.len /\ spent' = spent + p.len
      BY <1>3, <2>1 DEF Admits, Charge, NewBucket
    <3> HIDE DEF b, left
    <3> QED BY <1>3, <1>4, <1>5, <3>1, Sizes DEF U64
  <2>2. CASE ~Admits(b, p.len)
    <3>1. ~ (b.tokens >= p.len) /\ left = b.tokens /\ spent' = spent
      BY <1>3, <2>2 DEF Admits, Charge
    <3> HIDE DEF b, left
    <3> QED BY <1>3, <1>4, <1>5, <3>1, Sizes
  <2> QED BY <2>1, <2>2
<1> HIDE DEF b, left
<1>7. /\ bucket' \in Entry /\ bucket'.tokens = left /\ bucket'.last = p.at
  BY <1>3, <1>4, <1>6 DEF Entry
<1>8. bucket' # Absent /\ inserted' \in Nat
  BY <1>3, <1>7, EntryTypes
<1>9. BucketSound'
  BY <1>3, <1>4, <1>6, <1>7, Sizes DEF BucketSound
<1>10. NeverLeftFull'
  BY <1>6, <1>7, Sizes DEF NeverLeftFull
<1>11. ASSUME ~mixed, Busy = {c} PROVE BucketCovered(spent', start, overlaps, bucket', now)
  <2>1. Covered(spent, start, overlaps, Full, p.at)
    BY <1>1, <1>2, <1>11 DEF IInv, Single, Alone
  <2>2. spent' + left <= spent + Full /\ Full \in Nat /\ p.at <= p.at
    BY <1>3, <1>4, <1>5, <1>6, Sizes
  <2>3. Covered(spent', start, overlaps, left, p.at)
    <3>1. /\ spent \in Nat /\ start \in Nat /\ overlaps \in Nat /\ spent' \in Nat
          /\ left \in Nat /\ p.at \in Nat
      BY <1>3, <1>4, <1>6
    <3> QED BY <2>1, <2>2, <3>1, CoveredKept
  <2> QED BY <1>7, <1>8, <2>3 DEF BucketCovered
<1> QED
  BY <1>1, <1>3, <1>6, <1>7, <1>8, <1>9, <1>10, <1>11, EndKeeps
(* In every state, the key is covered from some instant on.                *)
LEMMA CoveredSomehow ==
  ASSUME IInv
  PROVE  \E x \in Nat, t \in Nat : t <= now /\ Covered(spent, start, overlaps, x, t)
<1>1. now \in Nat /\ Full \in Nat
  BY Sizes DEF IInv, TypeOK
<1>2. bucket # Absent => bucket.tokens \in Nat /\ bucket.last \in Nat /\ bucket.last <= now
  BY EntryTypes DEF IInv, TypeOK, BucketSound
<1>3. CASE mixed
  <2>1. Full + Cardinality(Pending) * MaxLength \in Nat
    BY Counted, Sizes, Product
  <2>2. Covered(spent, start, overlaps, Full + Cardinality(Pending) * MaxLength, now)
    BY <1>3 DEF IInv, Contended
  <2> QED BY <1>1, <2>1, <2>2
<1>4. CASE ~mixed /\ Busy = {}
  <2>1. BucketCovered(spent, start, overlaps, bucket, now)
    BY <1>4 DEF IInv, Quiet
  <2> QED BY <1>1, <1>2, <2>1 DEF BucketCovered
<1>5. CASE ~mixed /\ Busy # {}
  <2>1. PICK d \in Busy : Busy = {d}
    BY <1>5 DEF IInv, Mixing
  <2>2. /\ d \in CPUs /\ cpu[d] \in Packet /\ Registers(cpu[d], bucket, now)
        /\ Alone(spent, start, overlaps, cpu[d], bucket)
    BY <1>5, <2>1, BusyTypes DEF IInv, Single, AllRegisters, Busy
  <2>3. PICK p \in Packet : p = cpu[d]
    BY <2>2
  <2>4. p.at \in Nat /\ p.at <= now /\ p.value \in Nat
    BY <2>2, <2>3, PacketTypes DEF Registers
  <2>5. bucket # Absent => Behind(p, bucket) \in Nat /\ Behind(p, bucket) <= now
    BY <1>2, <2>4 DEF Behind
  <2>6. CASE p.pc \in {"look", "insert", "fill"}
    <3>1. BucketCovered(spent, start, overlaps, bucket, p.at)
      BY <2>2, <2>3, <2>6 DEF Alone, BucketCovered
    <3> QED BY <1>1, <1>2, <2>4, <3>1 DEF BucketCovered
  <2>7. CASE p.pc = "filled"
    <3>1. Covered(spent, start, overlaps, p.value, Behind(p, bucket)) /\ bucket # Absent
      BY <2>2, <2>3, <2>7 DEF Alone, Registers
    <3> QED BY <2>4, <2>5, <3>1
  <2>8. CASE p.pc \in {"take", "charge", "last"}
    <3>1. Covered(spent, start, overlaps, bucket.tokens, Behind(p, bucket)) /\ bucket # Absent
      BY <2>2, <2>3, <2>8 DEF Alone, Registers
    <3> QED BY <1>2, <2>5, <3>1
  <2> QED BY <2>6, <2>7, <2>8, PacketTypes DEF Steps
<1> QED
  BY <1>3, <1>4, <1>5

(* A packet arrives: alone, it finds the bucket covered; on the heels of     *)
(* another, it makes the window's bound one RaceCost larger.                *)
LEMMA ClockKeeps ==
  ASSUME IInv, NEW c \in CPUs, NEW len \in Lengths, Clock(c, len)
  PROVE  IInv'
<1>1. PICK q \in Packet :
        q = [pc |-> "look", len |-> len, at |-> now, from |-> 0, seen |-> 0, value |-> 0,
             timed |-> FALSE]
  <2>1. now \in Nat /\ 0 \in U64 /\ "look" \in Steps
    BY RateConstants DEF IInv, TypeOK, U64, Steps
  <2>2. [pc |-> "look", len |-> len, at |-> now, from |-> 0, seen |-> 0, value |-> 0,
         timed |-> FALSE] \in Packet
    BY <2>1 DEF Packet
  <2> QED BY <2>2
<1>2. /\ q.pc = "look" /\ q.at = now /\ q.value = 0 /\ q.timed = FALSE
      /\ now \in Nat /\ spent \in Nat /\ start \in Nat /\ overlaps \in Nat /\ start <= now
      /\ UNCHANGED <<now, bucket, inserted, start, spent>>
      /\ overlaps' = IF Busy = {} THEN overlaps ELSE overlaps + 1
      /\ mixed' = (Busy # {})
  BY <1>1 DEF IInv, TypeOK, Clock
<1>3. /\ cpu' \in [CPUs -> Packet \cup {Idle}] /\ cpu'[c] = q
      /\ \A d \in CPUs : d # c => cpu'[d] = cpu[d]
      /\ cpu[c] = Idle
  <2>1. cpu \in [CPUs -> Packet \cup {Idle}] /\ cpu' = [cpu EXCEPT ![c] = q] /\ cpu[c] = Idle
    BY <1>1 DEF IInv, TypeOK, Clock, Goes
  <2> QED BY <2>1
<1>4. c \notin Busy /\ Busy' = Busy \cup {c}
  BY <1>3, PacketTypes DEF Busy
<1>5. TypeOK'
  <2>1. overlaps' \in Nat /\ mixed' \in BOOLEAN
    BY <1>2
  <2> QED BY <1>2, <1>3, <2>1 DEF IInv, TypeOK
<1>6. BucketSound'
  BY <1>2 DEF IInv, BucketSound
<1>7. AllRegisters'
  <2> SUFFICES ASSUME NEW d \in Busy \cup {c} PROVE Registers(cpu'[d], bucket', now')
    BY <1>4 DEF AllRegisters
  <2>1. CASE d = c
    BY <1>2, <1>3, <2>1, Sizes DEF Registers
  <2>2. CASE d # c
    <3>1. d \in CPUs /\ d \in Busy
      BY <2>2 DEF Busy
    <3> QED BY <1>2, <1>3, <2>2, <3>1 DEF IInv, AllRegisters
  <2> QED BY <2>1, <2>2
<1>8. NeverLeftFull'
  <2>1. cpu[c].pc \notin {"take", "charge"}
    BY <1>3 DEF Idle
  <2>2. CASE bucket = Absent
    BY <1>2, <2>2 DEF NeverLeftFull
  <2>3. CASE bucket # Absent
    BY <1>2, <1>3, <2>1, <2>3, NeverLeftFullKept DEF IInv
  <2> QED BY <2>2, <2>3
<1>9. Quiet'
  BY <1>4 DEF Quiet
<1>10. Single'
  <2> SUFFICES ASSUME NEW d \in CPUs, ~mixed', Busy \cup {c} = {d}
               PROVE  Alone(spent', start', overlaps', cpu'[d], bucket')
    BY <1>4 DEF Single
  <2>1. Busy = {} /\ d = c /\ ~mixed
    BY <1>2 DEF IInv, Mixing
  <2>2. BucketCovered(spent, start, overlaps, bucket, now)
    BY <2>1 DEF IInv, Quiet
  <2> QED BY <1>2, <1>3, <2>1, <2>2 DEF Alone
<1>11. Mixing'
  <2>1. CASE Busy = {}
    BY <1>2, <1>4, <2>1 DEF Mixing
  <2>2. CASE Busy # {}
    BY <1>2, <1>4, <2>2 DEF Mixing
  <2> QED BY <2>1, <2>2
<1>12. Contended'
  <2> SUFFICES ASSUME Busy # {}
               PROVE  Covered(spent, start, overlaps + 1, Full + Cardinality(Pending') * MaxLength, now)
    BY <1>2 DEF Contended
  <2> DEFINE n == Cardinality(Pending)
             m == Cardinality(Pending')
  <2>1. n \in Nat /\ m \in Nat /\ m <= n + 1
    <3>1. Pending' = Pending \cup {c}
      BY <1>2, <1>3, <1>4 DEF Pending, Busy
    <3>2. IsFiniteSet(Pending) /\ n \in Nat
      BY Counted
    <3>3. /\ IsFiniteSet(Pending \cup {c})
          /\ Cardinality(Pending \cup {c}) = IF c \in Pending THEN n ELSE n + 1
      BY <3>2, FS_AddElement
    <3> HIDE DEF n
    <3>4. m = IF c \in Pending THEN n ELSE n + 1
      BY <3>1, <3>3
    <3> HIDE DEF m
    <3> QED BY <3>2, <3>4
  <2>2. ASSUME mixed PROVE Covered(spent, start, overlaps + 1, Full + m * MaxLength, now)
    <3>1. Covered(spent, start, overlaps, Full + n * MaxLength, now)
      BY <2>2 DEF IInv, Contended
    <3> HIDE DEF n, m
    <3>2. /\ m * MaxLength <= (n + 1) * MaxLength /\ (n + 1) * MaxLength = n * MaxLength + MaxLength
          /\ m * MaxLength \in Nat /\ n * MaxLength \in Nat
      BY <2>1, Sizes, ProductMonotone, Product
    <3>3. /\ Full + m * MaxLength <= (Full + n * MaxLength) + RaceCost
          /\ Full + m * MaxLength \in Nat /\ Full + n * MaxLength \in Nat
      BY <3>2, Sizes
    <3> QED BY <1>2, <3>1, <3>3, CoveredOverlap
  <2>3. ASSUME ~mixed PROVE Covered(spent, start, overlaps + 1, Full + m * MaxLength, now)
    <3>4. \E x \in Nat, t \in Nat : t <= now /\ Covered(spent, start, overlaps, x, t)
      BY CoveredSomehow
    <3>5. Covered(spent, start, overlaps, 0, now)
      <4>1. PICK x \in Nat, t \in Nat : t <= now /\ Covered(spent, start, overlaps, x, t)
        BY <3>4
      <4>2. spent + 0 <= spent + x /\ 0 \in Nat /\ spent \in Nat
        BY <1>2
      <4> QED BY <1>2, <4>1, <4>2, CoveredKept
    <3>6. m <= 2
      <4>0. PICK d \in Busy : Busy = {d}
        BY <2>3 DEF IInv, Mixing
      <4>1. IsFiniteSet(Busy) /\ Cardinality(Busy) = 1
        BY <4>0, FS_Singleton
      <4>2. n <= 1
        BY <4>1, Counted
      <4> HIDE DEF n, m
      <4> QED BY <2>1, <4>2
    <3> HIDE DEF n, m
    <3>7. m * MaxLength <= 2 * MaxLength /\ m * MaxLength \in Nat
      BY <2>1, <3>6, Sizes, ProductMonotone
    <3>8. Full + m * MaxLength <= 0 + RaceCost /\ Full + m * MaxLength \in Nat /\ 0 \in Nat
      BY <3>7, Sizes
    <3> QED BY <1>2, <3>5, <3>8, CoveredOverlap
  <2> QED BY <2>2, <2>3
<1> QED
  BY <1>5, <1>6, <1>7, <1>8, <1>9, <1>10, <1>11, <1>12 DEF IInv

LEMMA TickKeeps ==
  ASSUME IInv, NEW d \in Ticks, Tick(d)
  PROVE  IInv'
<1>1. /\ now \in Nat /\ now' \in Nat /\ now <= now' /\ start \in Nat /\ start <= now
      /\ spent \in Nat /\ overlaps \in Nat
      /\ UNCHANGED <<bucket, inserted, cpu, start, spent, overlaps, mixed>>
  BY RacesConstants DEF IInv, TypeOK, Tick, window
<1>2. Busy' = Busy /\ Pending' = Pending
  BY <1>1 DEF Busy, Pending
<1>3. TypeOK'
  BY <1>1 DEF IInv, TypeOK
<1>4. BucketSound'
  <2>1. bucket # Absent => bucket.last \in Nat
    BY EntryTypes DEF IInv, TypeOK
  <2> QED BY <1>1, <2>1 DEF IInv, BucketSound
<1>5. AllRegisters'
  <2> SUFFICES ASSUME NEW c \in Busy PROVE Registers(cpu[c], bucket, now')
    BY <1>1, <1>2 DEF AllRegisters
  <2>1. cpu[c] \in Packet /\ Registers(cpu[c], bucket, now)
    BY BusyTypes DEF IInv, AllRegisters, Busy
  <2> QED BY <1>1, <2>1, RegistersKept
<1>6. NeverLeftFull' /\ Single' /\ Mixing'
  <2>1. NeverLeftFull'
    BY <1>1 DEF IInv, NeverLeftFull, Own
  <2>2. Single'
    BY <1>1, <1>2 DEF IInv, Single
  <2>3. Mixing'
    BY <1>1, <1>2 DEF IInv, Mixing
  <2> QED BY <2>1, <2>2, <2>3
<1>7. ASSUME NEW x \in Nat, Covered(spent, start, overlaps, x, now)
      PROVE  Covered(spent, start, overlaps, x, now')
  <2>1. spent + x <= spent + x
    BY <1>1
  <2> QED BY <1>1, <1>7, <2>1, CoveredKept
<1>8. Quiet'
  <2> SUFFICES ASSUME ~mixed, Busy = {} PROVE BucketCovered(spent, start, overlaps, bucket, now')
    BY <1>1, <1>2 DEF Quiet
  <2>1. BucketCovered(spent, start, overlaps, bucket, now)
    BY DEF IInv, Quiet
  <2> QED BY <1>7, <2>1, Sizes DEF BucketCovered
<1>9. Contended'
  <2>1. Full + Cardinality(Pending) * MaxLength \in Nat
    BY Counted, Sizes, Product
  <2> QED BY <1>1, <1>2, <1>7, <2>1 DEF IInv, Contended
<1> QED
  BY <1>3, <1>4, <1>5, <1>6, <1>8, <1>9 DEF IInv

LEMMA ObserveKeeps ==
  ASSUME IInv, Observe
  PROVE  IInv'
<1>1. /\ now \in Nat /\ start' = now /\ spent' = 0
      /\ overlaps' = Cardinality(Busy) /\ mixed' = (Busy # {})
      /\ UNCHANGED <<now, bucket, inserted, cpu>>
  BY DEF IInv, TypeOK, Observe
<1>2. Busy' = Busy /\ Pending' = Pending
  BY <1>1 DEF Busy, Pending
<1>3. overlaps' \in Nat
  BY <1>1, Counted
<1>4. TypeOK'
  BY <1>1, <1>3 DEF IInv, TypeOK
<1>5. BucketSound' /\ AllRegisters' /\ NeverLeftFull'
  BY <1>1, <1>2 DEF IInv, BucketSound, AllRegisters, NeverLeftFull, Own
<1>6. Quiet'
  <2>1. Full <= Full + overlaps' * RaceCost /\ Full \in Nat
    <3>1. overlaps' * RaceCost \in Nat
      BY <1>3, Sizes, Product
    <3> QED BY <3>1, Sizes
  <2>2. Covered(0, now, overlaps', Full, now)
    BY <1>1, <1>3, <2>1, CoveredOpened
  <2> QED BY <1>1, <2>2 DEF Quiet, BucketCovered
<1>7. Single' /\ Mixing'
  BY <1>1, <1>2 DEF Single, Mixing
<1>8. Contended'
  <2> DEFINE m == Cardinality(Pending)
             n == Cardinality(Busy)
  <2>1. m \in Nat /\ n \in Nat /\ m <= n
    BY Counted
  <2> HIDE DEF m, n
  <2>2. m * MaxLength <= n * MaxLength /\ m * MaxLength \in Nat /\ n * MaxLength \in Nat
    BY <2>1, Sizes, ProductMonotone
  <2>3. n * MaxLength <= n * RaceCost /\ n * RaceCost \in Nat
    <3>1. MaxLength <= RaceCost
      BY Sizes
    <3> QED BY <2>1, <3>1, Sizes, Product
  <2>4. Full + m * MaxLength <= Full + n * RaceCost /\ Full + m * MaxLength \in Nat
    BY <2>2, <2>3, Sizes
  <2>5. Covered(0, now, n, Full + m * MaxLength, now)
    BY <1>1, <2>1, <2>4, CoveredOpened
  <2> QED BY <1>1, <1>2, <2>5 DEF Contended, m, n
<1> QED
  BY <1>4, <1>5, <1>6, <1>7, <1>8 DEF IInv

LEMMA InitIInv == Init => IInv
<1> SUFFICES ASSUME Init PROVE IInv
  OBVIOUS
<1>1. /\ now = 0 /\ bucket = Absent /\ inserted = 0 /\ cpu = [c \in CPUs |-> Idle]
      /\ start = 0 /\ spent = 0 /\ overlaps = 0 /\ mixed = FALSE
  BY DEF Init
<1>2. Busy = {}
  BY <1>1 DEF Busy
<1>3. TypeOK
  <2>1. start \in 0 .. now
    BY <1>1
  <2> QED BY <1>1, <2>1 DEF TypeOK
<1>4. Covered(0, 0, 0, Full, 0)
  <2>1. Full <= Full + 0 * RaceCost /\ Full \in Nat
    BY Sizes
  <2> QED BY <2>1, CoveredOpened
<1>5. Quiet
  BY <1>1, <1>4 DEF Quiet, BucketCovered
<1>6. Contended
  BY <1>1 DEF Contended
<1>7. BucketSound /\ AllRegisters /\ NeverLeftFull /\ Single /\ Mixing
  BY <1>1, <1>2 DEF BucketSound, AllRegisters, NeverLeftFull, Single, Mixing
<1> QED
  BY <1>3, <1>5, <1>6, <1>7 DEF IInv

LEMMA NextIInv == IInv /\ [Next]_vars => IInv'
<1> SUFFICES ASSUME IInv, [Next]_vars PROVE IInv'
  OBVIOUS
<1>1. ASSUME NEW c \in CPUs, NEW len \in Lengths, Clock(c, len) PROVE IInv'
  BY <1>1, ClockKeeps
<1>2. ASSUME NEW c \in CPUs, Access(c) PROVE IInv'
  BY <1>2, LookKeeps, InsertKeeps, FillKeeps, StoreFilledKeeps, StoreTimeKeeps, TakeKeeps,
     StoreChargedKeeps DEF Access
<1>3. ASSUME NEW d \in Ticks, Tick(d) PROVE IInv'
  BY <1>3, TickKeeps
<1>4. CASE Observe
  BY <1>4, ObserveKeeps
<1>5. CASE UNCHANGED vars
  BY <1>5 DEF vars, window, IInv, TypeOK, BucketSound, AllRegisters, NeverLeftFull, Own, Quiet,
     Single, Contended, Mixing, Busy, Pending
<1> QED
  BY <1>1, <1>2, <1>3, <1>4, <1>5 DEF Next

LEMMA AlwaysIInv == Spec => []IInv
BY InitIInv, NextIInv, PTL DEF Spec

(***************************************************************************)
(* The theorems.                                                           *)
(***************************************************************************)

(* The state and the registers of all CPUs keep their types: no difference   *)
(* of tokens and length underflows in consume_iface_bucket and               *)
(* consume_device_bucket, whatever another CPU has stored meanwhile.        *)
THEOREM RacesType == Spec => []TypeOK
<1>1. IInv => TypeOK
  BY DEF IInv
<1> QED BY <1>1, AlwaysIInv, PTL

(* For any number of CPUs, no race of refill_bucket's stores leaves more     *)
(* than a full burst in a bucket, or a time ahead of the clock.             *)
THEOREM RacesSound == Spec => []BucketSound
<1>1. IInv => BucketSound
  BY DEF IInv
<1> QED BY <1>1, AlwaysIInv, PTL

(* For any number of CPUs, any budget and any packets, what is admitted in   *)
(* any window is bounded by a full bucket, the rate, and one RaceCost for    *)
(* every packet that overlapped another (main.rs 305-456).                  *)
THEOREM RacesAdmitBounded == Spec => []RacesBounded
<1>1. IInv => RacesBounded
  <2> SUFFICES ASSUME IInv PROVE RacesBounded
    OBVIOUS
  <2>1. /\ now \in Nat /\ spent \in Nat /\ start \in Nat /\ overlaps \in Nat /\ start <= now
    BY DEF IInv, TypeOK
  <2>2. \E x \in Nat, t \in Nat : t <= now /\ Covered(spent, start, overlaps, x, t)
    BY CoveredSomehow
  <2>3. PICK x \in Nat, t \in Nat : t <= now /\ Covered(spent, start, overlaps, x, t)
    BY <2>2
  <2>4. Covered(spent, start, overlaps, x, now)
    <3>1. spent + x <= spent + x
      BY <2>1
    <3> QED BY <2>1, <2>3, <3>1, CoveredKept
  <2> QED BY <2>1, <2>4, CoveredBounded DEF RacesBounded
<1> QED BY <1>1, AlwaysIInv, PTL
=============================================================================
