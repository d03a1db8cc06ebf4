-------------------------- MODULE TokenBucketProofs --------------------------
(* Proofs about TokenBucket for every value of the constants: its types and *)
(* the conformance of every bucket to its limit.                            *)
EXTENDS TokenBucket, RateLimitProofs

(***************************************************************************)
(* One bucket and its meter under one packet.                              *)
(***************************************************************************)

(* Refilling preserves the balance, and a bucket that is not refilled in    *)
(* spite of time gone by owes less than a byte for the time before the      *)
(* window (refill_bucket, main.rs 425-456).                                 *)
LEMMA RefillBalanced ==
  ASSUME NEW b \in Bucket, NEW w \in Meter, NEW budget \in Nat \ {0}, NEW t \in Nat,
         NEW len \in 1 .. MaxLength,
         CreditCovers(w, budget, t), Balanced(b, w, budget, t)
  PROVE  LET r == Refill(b, budget, t, len)
         IN  /\ r \in Bucket /\ Balanced(r, w, budget, t)
             /\ r.last < w.start => budget * (w.start - r.last) < Second
<1> DEFINE refill == RefillAmount(budget, t - b.last)
           cap    == Greater(TokensForWindow(budget, BurstWindow), len)
           full   == Lesser(SatAdd(b.tokens, refill), cap)
           gone   == t - b.last
<1>1. /\ b.tokens \in Nat /\ b.last \in Nat /\ b.tokens <= U64Max
      /\ w.start \in Nat /\ w.credit \in Nat /\ w.spent \in Nat
      /\ b.last <= t /\ w.start <= t /\ gone \in Nat
      /\ Second \in Nat \ {0} /\ U64Max \in Nat /\ BurstWindow \in Nat
      /\ MaxLength \in Nat /\ MaxLength <= U64Max /\ len \in Nat /\ len <= MaxLength
  BY RateConstants, DataPathConstants DEF Bucket, Meter, U64, Balanced, CreditCovers
<1>2. /\ refill \in Nat /\ refill * Second <= budget * gone
      /\ TokensForWindow(budget, BurstWindow) \in Nat
      /\ TokensForWindow(budget, BurstWindow) <= U64Max
  <2>1. TokensForWindow(budget, BurstWindow) \in U64
    BY <1>1, TokensForWindowBound
  <2>2. refill \in U64 /\ refill * Second <= budget * gone
    BY <1>1, RefillEarned
  <2> HIDE DEF refill
  <2> QED BY <1>1, <2>1, <2>2 DEF U64
<1>3. cap \in Nat /\ cap <= w.credit /\ cap <= U64Max
  BY <1>1, <1>2 DEF Greater, CreditCovers
<1> HIDE DEF cap
<1>4. full \in U64 /\ full \in Nat /\ full <= cap /\ full <= b.tokens + refill
  BY <1>1, <1>2, <1>3 DEF Lesser, SatAdd, U64
<1> HIDE DEF full, refill
<1>5. CASE t <= b.last \/ refill = 0
  <2>1. Refill(b, budget, t, len) = b
    BY <1>5 DEF Refill, refill
  <2>2. b.last < w.start => budget * (w.start - b.last) < Second
    <3> SUFFICES ASSUME b.last < w.start PROVE budget * (w.start - b.last) < Second
      OBVIOUS
    <3>1. refill = 0
      BY <1>1, <1>5
    <3>2. budget * gone < Second
      BY <1>1, <3>1, RefillNothing DEF refill
    <3>3. w.start - b.last \in Nat /\ w.start - b.last <= gone
      BY <1>1
    <3>4. budget * (w.start - b.last) <= budget * gone
      BY <1>1, <3>3, Product
    <3>5. budget * (w.start - b.last) \in Nat /\ budget * gone \in Nat
      BY <1>1, <3>3, Product
    <3> QED BY <1>1, <3>2, <3>4, <3>5
  <2> QED BY <2>1, <2>2
<1>6. CASE ~ (t <= b.last \/ refill = 0)
  <2> DEFINE r == [tokens |-> full, last |-> t]
  <2>1. Refill(b, budget, t, len) = r
    BY <1>6 DEF Refill, refill, full, cap
  <2>2. r \in Bucket /\ r.last = t /\ r.tokens = full
    BY <1>4 DEF Bucket
  <2> HIDE DEF r
  <2>3. (w.spent + full) * Second <= (w.credit + 1) * Second + budget * (t - w.start)
    <3> DEFINE since == t - w.start
    <3>0. since \in Nat /\ budget * since \in Nat
      BY <1>1, Product
    <3>1. CASE w.start <= b.last
      <4>1. (w.spent + b.tokens) * Second
              <= (w.credit + 1) * Second + budget * (b.last - w.start)
        BY <3>1 DEF Balanced
      <4>2. budget * (b.last - w.start) + budget * gone = budget * since
        BY <1>1
      <4>3. (w.spent + full) * Second <= (w.spent + b.tokens + refill) * Second
        BY <1>1, <1>2, <1>4, Product
      <4>4. (w.spent + b.tokens + refill) * Second
              = (w.spent + b.tokens) * Second + refill * Second
        BY <1>1, <1>2
      <4>5. b.last - w.start \in Nat /\ budget * (b.last - w.start) \in Nat
            /\ budget * gone \in Nat
        BY <1>1, <3>1, Product
      <4> HIDE DEF since, gone
      <4> QED BY <1>1, <1>2, <1>4, <3>0, <4>1, <4>2, <4>3, <4>4, <4>5 DEF since
    <3>2. CASE b.last < w.start /\ w.spent = 0
      <4>1. full <= w.credit + 1
        BY <1>1, <1>3, <1>4
      <4>2. full * Second <= (w.credit + 1) * Second
        BY <1>1, <1>4, <4>1, Product
      <4> QED BY <1>1, <1>4, <3>0, <3>2, <4>2
    <3>3. CASE b.last < w.start /\ w.spent > 0
      <4>1. w.spent + b.tokens <= w.credit /\ budget * (w.start - b.last) < Second
        BY <1>1, <3>3 DEF Balanced
      <4> DEFINE older  == budget * (w.start - b.last)
                 newer  == budget * since
                 earned == refill * Second
                 credit == w.credit * Second
                 used   == (w.spent + full) * Second
      <4>2. w.start - b.last \in Nat /\ older \in Nat /\ newer \in Nat
        BY <1>1, <3>0, <3>3, Product
      <4>3. earned <= older + newer /\ earned \in Nat
        <5>1. older + newer = budget * gone
          BY <1>1
        <5> QED BY <1>1, <1>2, <5>1, Product
      <4>4. used <= credit + earned /\ used \in Nat /\ credit \in Nat
        <5>1. w.spent + full <= w.credit + refill
          BY <1>1, <1>2, <1>4, <4>1
        <5>2. used <= (w.credit + refill) * Second /\ used \in Nat
          BY <1>1, <1>2, <1>4, <5>1, Product
        <5>3. (w.credit + refill) * Second = credit + earned /\ credit \in Nat
          BY <1>1, <1>2, Product
        <5> QED BY <5>2, <5>3
      <4>5. (w.credit + 1) * Second = credit + Second
        BY <1>1
      <4>6. older < Second
        BY <4>1
      <4> HIDE DEF older, newer, earned, credit, used
      <4>7. used <= credit + Second + newer
        BY <1>1, <4>2, <4>3, <4>4, <4>6
      <4> QED BY <4>5, <4>7 DEF used, newer
    <3> QED BY <1>1, <3>1, <3>2, <3>3
  <2>4. Balanced(r, w, budget, t)
    BY <1>1, <2>2, <2>3 DEF Balanced
  <2> QED BY <1>1, <2>1, <2>2, <2>4
<1> QED
  BY <1>5, <1>6

(* Charging an admitted packet moves its bytes from the bucket to the meter. *)
LEMMA ChargeBalanced ==
  ASSUME NEW b \in Bucket, NEW w \in Meter, NEW budget \in Nat, NEW t \in Nat,
         NEW len \in 1 .. MaxLength, Balanced(b, w, budget, t), Admits(b, len),
         b.last < w.start => budget * (w.start - b.last) < Second
  PROVE  /\ Charge(b, len) \in Bucket
         /\ Balanced(Charge(b, len), [w EXCEPT !.spent = @ + len], budget, t)
<1> DEFINE c == Charge(b, len)
           v == [w EXCEPT !.spent = @ + len]
<1>1. /\ b.tokens \in Nat /\ b.last \in Nat /\ len \in Nat /\ w.spent \in Nat
      /\ w.start \in Nat /\ b.tokens >= len /\ b.tokens <= U64Max /\ U64Max \in Nat
  BY RateConstants, DataPathConstants DEF Bucket, Meter, U64, Admits
<1>2. c = [b EXCEPT !.tokens = @ - len]
  BY DEF Charge
<1>3. c \in Bucket /\ c.tokens = b.tokens - len /\ c.last = b.last
  BY <1>1, <1>2 DEF Bucket, U64
<1>4. v.spent = w.spent + len /\ v.start = w.start /\ v.credit = w.credit
  BY DEF Meter
<1>5. v.spent + c.tokens = w.spent + b.tokens
  BY <1>1, <1>3, <1>4
<1> HIDE DEF c, v
<1>6. Balanced(c, v, budget, t)
  <2>1. CASE w.start <= b.last
    BY <1>1, <1>3, <1>4, <1>5, <2>1 DEF Balanced
  <2>2. CASE b.last < w.start
    BY <1>1, <1>3, <1>4, <1>5, <2>2 DEF Balanced
  <2> QED BY <1>1, <2>1, <2>2
<1> QED
  BY <1>3, <1>6 DEF c, v

(* A bucket made during the window starts within its credit.               *)
LEMMA NewBucketBalanced ==
  ASSUME NEW w \in Meter, NEW budget \in Nat, NEW t \in Nat,
         CreditCovers(w, budget, t), w.spent = 0
  PROVE  LET b == NewBucket(budget, t)
         IN  b \in Bucket /\ Balanced(b, w, budget, t) /\ b.last = t
<1> DEFINE b == NewBucket(budget, t)
           grant == TokensForWindow(budget, InitWindow)
<1>1. /\ InitWindow \in Nat /\ BurstWindow \in Nat /\ InitWindow <= BurstWindow
      /\ Second \in Nat \ {0} /\ U64Max \in Nat
      /\ w.start \in Nat /\ w.credit \in Nat /\ w.start <= t
  BY RateConstants DEF Meter, CreditCovers
<1>2. grant \in U64 /\ grant \in Nat
  <2>1. grant \in U64
    BY <1>1, TokensForWindowBound
  <2> HIDE DEF grant
  <2> QED BY <1>1, <2>1 DEF U64
<1>3. grant <= TokensForWindow(budget, BurstWindow)
  BY <1>1, TokensForWindowMonotone
<1>4. TokensForWindow(budget, BurstWindow) \in Nat
  <2>1. TokensForWindow(budget, BurstWindow) \in U64
    BY <1>1, TokensForWindowBound
  <2> QED BY <1>1, <2>1 DEF U64
<1>5. grant <= w.credit + 1
  BY <1>1, <1>2, <1>3, <1>4 DEF CreditCovers
<1>6. b \in Bucket /\ b.tokens = grant /\ b.last = t
  BY <1>2 DEF NewBucket, Bucket
<1> HIDE DEF b, grant
<1>7. grant * Second <= (w.credit + 1) * Second /\ budget * (t - w.start) \in Nat
  BY <1>1, <1>2, <1>5, Product
<1>8. Balanced(b, w, budget, t)
  BY <1>1, <1>2, <1>6, <1>7 DEF Balanced
<1> QED
  BY <1>6, <1>8 DEF b

(* The balance does not depend on how much time has passed since.          *)
LEMMA BalancedLater ==
  ASSUME NEW b \in Bucket, NEW w \in Meter, NEW budget \in Nat, NEW t \in Nat, NEW u \in Nat,
         t <= u, CreditCovers(w, budget, t)
  PROVE  /\ CreditCovers(w, budget, u)
         /\ Balanced(b, w, budget, t) => Balanced(b, w, budget, u)
  BY DEF Balanced, CreditCovers, Bucket, Meter

(* A meter just opened: nothing is counted, and what the bucket holds is    *)
(* within the credit.                                                       *)
LEMMA FreshBalanced ==
  ASSUME NEW budget \in Nat, NEW tokens \in U64, now \in Nat
  PROVE  /\ Fresh(tokens, budget) \in Meter
         /\ Fresh(tokens, budget).spent = 0
         /\ CreditCovers(Fresh(tokens, budget), budget, now)
         /\ \A b \in Bucket : b.tokens = tokens /\ b.last <= now
              => Balanced(b, Fresh(tokens, budget), budget, now)
<1> DEFINE w == Fresh(tokens, budget)
<1>1. /\ TokensForWindow(budget, BurstWindow) \in Nat /\ MaxLength \in Nat
      /\ tokens \in Nat /\ Second \in Nat \ {0}
  BY RateConstants, DataPathConstants, TokensForWindowBound DEF U64
<1>2. /\ w \in Meter /\ w.spent = 0 /\ w.start = now
      /\ tokens <= w.credit /\ TokensForWindow(budget, BurstWindow) <= w.credit
      /\ MaxLength <= w.credit /\ w.credit \in Nat
  BY <1>1 DEF Fresh, Meter, Greater
<1>3. CreditCovers(w, budget, now)
  BY <1>2 DEF CreditCovers
<1> HIDE DEF w
<1>4. ASSUME NEW b \in Bucket, b.tokens = tokens, b.last <= now
      PROVE  Balanced(b, w, budget, now)
  <2>1. CASE b.last < now
    BY <1>1, <1>2, <1>4, <2>1 DEF Balanced, Bucket
  <2>2. CASE b.last = now
    <3>1. tokens * Second <= (w.credit + 1) * Second
      BY <1>1, <1>2, Product
    <3>2. budget * (now - now) = 0
      OBVIOUS
    <3> QED BY <1>1, <1>2, <1>4, <2>2, <3>1, <3>2 DEF Balanced, Bucket
  <2> QED BY <1>4, <2>1, <2>2 DEF Bucket
<1> QED
  BY <1>2, <1>3, <1>4 DEF w

(***************************************************************************)
(* The state and its types.                                                *)
(***************************************************************************)

LEMMA BudgetTypes ==
  ASSUME TypeOK
  PROVE  /\ \A k \in IfaceKeys : IfaceBudget(k) \in U64
         /\ \A k \in DeviceKeys : DeviceLimit(k) \in Limit
         /\ \A k \in DeviceFieldKeys : DeviceBudget(k) \in U64
<1>1. \A k \in IfaceKeys : IfaceBudget(k) \in U64
  BY EffectiveBudgetType DEF IfaceBudget, IfaceKeys, TypeOK, Limit
<1>2. ASSUME NEW k \in DeviceKeys PROVE DeviceLimit(k) \in Limit
  BY StricterLattice DEF DeviceLimit, DeviceKeys, TypeOK
<1>3. ASSUME NEW k \in DeviceFieldKeys PROVE DeviceBudget(k) \in U64
  <2>1. <<k[1], k[2]>> \in DeviceKeys /\ k[3] \in Fields
    BY DEF DeviceFieldKeys, DeviceKeys
  <2>2. DeviceLimit(<<k[1], k[2]>>)[k[3]] \in U64
    BY <1>2, <2>1 DEF Limit
  <2> QED BY <2>2, EffectiveBudgetType DEF DeviceBudget
<1> QED
  BY <1>1, <1>2, <1>3

LEMMA TokenTypes ==
  ASSUME TypeOK
  PROVE  /\ \A k \in IfaceKeys : IfaceTokens(k) \in U64
         /\ \A k \in DeviceFieldKeys : DeviceTokens(k) \in U64
<1>1. 0 \in U64
  BY RateConstants DEF U64
<1>2. ASSUME NEW k \in IfaceKeys PROVE IfaceTokens(k) \in U64
  BY <1>1 DEF IfaceTokens, TypeOK, Bucket
<1>3. ASSUME NEW k \in DeviceFieldKeys PROVE DeviceTokens(k) \in U64
  <2>1. <<k[1], k[2]>> \in DeviceKeys /\ k[3] \in Fields
    BY DEF DeviceFieldKeys, DeviceKeys
  <2> QED BY <1>1, <2>1 DEF DeviceTokens, TypeOK, Bucket
<1> QED
  BY <1>2, <1>3

LEMMA FieldOfType ==
  ASSUME NEW t \in Versions \X Directions
  PROVE  FieldOf(t[1], t[2]) \in Fields
BY DEF Versions, Directions, Fields, FieldOf

(* The refilled bucket is a bucket whatever the meter says.                *)
LEMMA RefillType ==
  ASSUME NEW b \in Bucket, NEW budget \in Nat, NEW t \in Nat, NEW len \in 1 .. MaxLength
  PROVE  Refill(b, budget, t, len) \in Bucket
<1> DEFINE refill == RefillAmount(budget, t - b.last)
           cap    == Greater(TokensForWindow(budget, BurstWindow), len)
<1>1. CASE t <= b.last \/ refill = 0
  BY <1>1 DEF Refill
<1>2. CASE ~ (t <= b.last \/ refill = 0)
  <2>1. /\ U64Max \in Nat /\ BurstWindow \in Nat /\ len \in U64
        /\ b.tokens \in U64 /\ b.last \in Nat
    BY RateConstants, DataPathConstants DEF U64, Bucket
  <2>2. t - b.last \in Nat
    BY <1>2, <2>1
  <2>3. refill \in U64 /\ TokensForWindow(budget, BurstWindow) \in U64
    BY <2>1, <2>2, RefillEarned, TokensForWindowBound
  <2> HIDE DEF refill
  <2>4. Lesser(SatAdd(b.tokens, refill), cap) \in U64
    BY <2>1, <2>3 DEF Lesser, Greater, SatAdd, U64
  <2> QED BY <1>2, <2>4 DEF Refill, Bucket, refill
<1> QED
  BY <1>1, <1>2

LEMMA ChargeType ==
  ASSUME NEW b \in Bucket, NEW len \in 1 .. MaxLength
  PROVE  Charge(b, len) \in Bucket
BY RateConstants, DataPathConstants DEF Charge, Admits, Bucket, U64

LEMMA NewBucketType ==
  ASSUME NEW budget \in Nat, NEW t \in Nat
  PROVE  NewBucket(budget, t) \in Bucket
<1>1. TokensForWindow(budget, InitWindow) \in U64
  BY RateConstants, TokensForWindowBound
<1> QED
  BY <1>1 DEF NewBucket, Bucket

LEMMA EntryTypes ==
  ASSUME TypeOK, NEW len \in 1 .. MaxLength
  PROVE  /\ \A k \in IfaceKeys : IfaceBucket(k, len) \in Bucket
         /\ \A k \in DeviceKeys, f \in Fields : DeviceEntry(k, f, len) \in [Fields -> Bucket]
<1>0. U64 \subseteq Nat /\ now \in Nat
  BY RateConstants DEF U64, TypeOK
<1>1. ASSUME NEW k \in IfaceKeys PROVE IfaceBucket(k, len) \in Bucket
  <2>1. IfaceBudget(k) \in Nat
    BY <1>0, BudgetTypes
  <2> QED BY <1>0, <2>1, RefillType, NewBucketType DEF IfaceBucket, TypeOK
<1>2. ASSUME NEW k \in DeviceKeys, NEW f \in Fields
      PROVE  DeviceEntry(k, f, len) \in [Fields -> Bucket]
  <2>1. <<k[1], k[2], f>> \in DeviceFieldKeys
    BY DEF DeviceKeys, DeviceFieldKeys
  <2>2. DeviceBudget(<<k[1], k[2], f>>) \in Nat
    BY <1>0, <2>1, BudgetTypes
  <2>3. CASE deviceBuckets[k] = NoBucket
    <3>1. ASSUME NEW g \in Fields
          PROVE  NewBucket(EffectiveBudget(DeviceLimit(k)[g]), now) \in Bucket
      <4>1. DeviceLimit(k)[g] \in U64
        BY BudgetTypes DEF Limit
      <4>2. EffectiveBudget(DeviceLimit(k)[g]) \in Nat
        BY <1>0, <4>1, EffectiveBudgetType
      <4> QED BY <1>0, <4>2, NewBucketType
    <3> QED BY <2>3, <3>1 DEF DeviceEntry
  <2>4. CASE deviceBuckets[k] # NoBucket
    <3>1. deviceBuckets[k] \in [Fields -> Bucket]
      BY <2>4 DEF TypeOK
    <3>2. Refill(deviceBuckets[k][f], DeviceBudget(<<k[1], k[2], f>>), now, len) \in Bucket
      BY <1>0, <2>2, <3>1, RefillType
    <3> QED BY <2>4, <3>1, <3>2 DEF DeviceEntry
  <2> QED BY <2>3, <2>4
<1> QED
  BY <1>1, <1>2

LEMMA SpendType ==
  ASSUME NEW K, NEW meter \in [K -> Meter], NEW k \in K, NEW b, NEW len \in Nat
  PROVE  Spend(meter, k, b, len) \in [K -> Meter]
BY DEF Spend, Meter

(***************************************************************************)
(* One packet.                                                             *)
(***************************************************************************)

(* A full map stays full: entries are updated and never removed.           *)
LEMMA FullStaysFull ==
  ASSUME NEW K, NEW V, NEW map \in [K -> V], NEW k \in K, NEW b, b # NoBucket, Full(map)
  PROVE  Full(Store(map, k, b))
<1>1. CASE map[k] = NoBucket
  BY <1>1 DEF Store
<1>2. CASE map[k] # NoBucket
  <2> DEFINE new == [map EXCEPT ![k] = b]
  <2>1. Store(map, k, b) = new
    BY <1>2 DEF Store
  <2>2. DOMAIN new = DOMAIN map
    OBVIOUS
  <2>3. \A j \in DOMAIN map : new[j] # NoBucket <=> map[j] # NoBucket
    BY <1>2
  <2> HIDE DEF new
  <2>4. {j \in DOMAIN new : new[j] # NoBucket} = {j \in DOMAIN map : map[j] # NoBucket}
    BY <2>2, <2>3
  <2> QED BY <2>1, <2>4 DEF Full
<1> QED
  BY <1>1, <1>2

LEMMA ConsumeBalanced ==
  ASSUME NEW r \in Bucket, NEW w \in Meter, NEW budget \in Nat, NEW t \in Nat,
         NEW len \in 1 .. MaxLength, Balanced(r, w, budget, t),
         r.last < w.start => budget * (w.start - r.last) < Second
  PROVE  /\ Charge(r, len) \in Bucket
         /\ Balanced(Charge(r, len),
                     IF Admits(r, len) THEN [w EXCEPT !.spent = @ + len] ELSE w, budget, t)
<1>1. CASE Admits(r, len)
  BY <1>1, ChargeBalanced
<1>2. CASE ~ Admits(r, len)
  BY <1>2 DEF Charge
<1> QED
  BY <1>1, <1>2

LEMMA CreditKept ==
  ASSUME NEW w \in Meter, NEW budget \in Nat, NEW t \in Nat, NEW n \in Nat,
         CreditCovers(w, budget, t)
  PROVE  CreditCovers([w EXCEPT !.spent = @ + n], budget, t)
BY DEF CreditCovers, Meter

(* consume_iface_bucket preserves what holds of every interface bucket.    *)
LEMMA ConsumeIfaceStep ==
  ASSUME TypeOK, IfaceInv, NEW k \in IfaceKeys, NEW len \in 1 .. MaxLength,
         IfaceBudget(k) > 0, ConsumeIface(k, len), UNCHANGED <<now, limits>>
  PROVE  /\ ifaceBuckets' \in [IfaceKeys -> Bucket \cup {NoBucket}]
         /\ ifaceMeter' \in [IfaceKeys -> Meter]
         /\ IfaceInv'
<1> DEFINE r == IfaceBucket(k, len)
           c == Charge(r, len)
<1>0. len \in Nat /\ now \in Nat /\ U64 \subseteq Nat /\ NoBucket \notin Bucket
  BY RateConstants, DataPathConstants DEF TypeOK, U64
<1>1. r \in Bucket /\ c \in Bucket /\ c # NoBucket
  BY <1>0, EntryTypes, ChargeType
<1> HIDE DEF r, c
<1>2. /\ ifaceBuckets' = Store(ifaceBuckets, k, c)
      /\ ifaceMeter' = Spend(ifaceMeter, k, r, len)
  BY DEF ConsumeIface, r, c
<1>3. /\ ifaceBuckets' \in [IfaceKeys -> Bucket \cup {NoBucket}]
      /\ ifaceMeter' \in [IfaceKeys -> Meter]
  BY <1>0, <1>1, <1>2, SpendType DEF TypeOK, Store
<1>4. now' = now /\ \A j \in IfaceKeys : IfaceBudget(j)' = IfaceBudget(j)
  BY DEF limits, IfaceBudget
<1>5. Full(ifaceBuckets) => Full(ifaceBuckets')
  BY <1>1, <1>2, FullStaysFull DEF TypeOK
<1>6. ASSUME NEW j \in IfaceKeys, j # k
      PROVE  ifaceBuckets'[j] = ifaceBuckets[j] /\ ifaceMeter'[j] = ifaceMeter[j]
  BY <1>2, <1>6 DEF Store, Spend, TypeOK
<1>7. ifaceMeter'[k] = IF Admits(r, len) THEN [ifaceMeter[k] EXCEPT !.spent = @ + len]
                                         ELSE ifaceMeter[k]
  BY <1>2 DEF Spend, TypeOK
<1>8. ifaceMeter[k] \in Meter /\ IfaceBudget(k) \in Nat \ {0}
      /\ CreditCovers(ifaceMeter[k], IfaceBudget(k), now)
  <2>1. IfaceBudget(k) \in Nat
    BY <1>0, BudgetTypes
  <2>2. ifaceMeter[k] \in Meter
    BY DEF TypeOK
  <2> QED BY <2>1, <2>2 DEF IfaceInv
<1>9. CreditCovers(ifaceMeter'[k], IfaceBudget(k), now)
  BY <1>0, <1>7, <1>8, CreditKept
<1>10. CASE ifaceBuckets[k] = NoBucket /\ Full(ifaceBuckets)
  <2>1. ifaceBuckets' = ifaceBuckets
    BY <1>2, <1>10 DEF Store
  <2> QED BY <1>3, <1>4, <1>5, <1>6, <1>9, <1>10, <2>1 DEF IfaceInv
<1>11. CASE ~ (ifaceBuckets[k] = NoBucket /\ Full(ifaceBuckets))
  <2>1. ifaceBuckets'[k] = c
    BY <1>2, <1>11 DEF Store, TypeOK
  <2>2. /\ Balanced(r, ifaceMeter[k], IfaceBudget(k), now)
        /\ r.last < ifaceMeter[k].start
             => IfaceBudget(k) * (ifaceMeter[k].start - r.last) < Second
    <3>1. CASE ifaceBuckets[k] = NoBucket
      <4>1. ifaceMeter[k].spent = 0 /\ r = NewBucket(IfaceBudget(k), now)
        BY <1>11, <3>1 DEF IfaceInv, IfaceBucket, r
      <4>2. r.last = now /\ Balanced(r, ifaceMeter[k], IfaceBudget(k), now)
        BY <1>0, <1>8, <4>1, NewBucketBalanced
      <4> QED BY <1>0, <1>8, <4>2 DEF CreditCovers, Meter
    <3>2. CASE ifaceBuckets[k] # NoBucket
      <4>1. /\ ifaceBuckets[k] \in Bucket
            /\ r = Refill(ifaceBuckets[k], IfaceBudget(k), now, len)
            /\ Balanced(ifaceBuckets[k], ifaceMeter[k], IfaceBudget(k), now)
        BY <3>2 DEF TypeOK, IfaceInv, IfaceBucket, r
      <4> QED BY <1>0, <1>8, <4>1, RefillBalanced
    <3> QED BY <3>1, <3>2
  <2>3. Balanced(c, ifaceMeter'[k], IfaceBudget(k), now)
    BY <1>0, <1>1, <1>7, <1>8, <2>2, ConsumeBalanced DEF c
  <2> QED BY <1>1, <1>3, <1>4, <1>5, <1>6, <1>9, <2>1, <2>3 DEF IfaceInv
<1> QED
  BY <1>10, <1>11

(* consume_device_bucket does the same for the four fields of an entry.    *)
LEMMA ConsumeDeviceStep ==
  ASSUME TypeOK, DeviceInv, NEW k \in DeviceKeys, NEW f \in Fields,
         NEW len \in 1 .. MaxLength, DeviceBudget(<<k[1], k[2], f>>) > 0,
         ConsumeDevice(k, f, len), UNCHANGED <<now, limits>>
  PROVE  /\ deviceBuckets' \in [DeviceKeys -> [Fields -> Bucket] \cup {NoBucket}]
         /\ deviceMeter' \in [DeviceFieldKeys -> Meter]
         /\ DeviceInv'
<1> DEFINE entry == DeviceEntry(k, f, len)
           new   == [entry EXCEPT ![f] = Charge(@, len)]
           key   == <<k[1], k[2], f>>
<1>0. len \in Nat /\ now \in Nat /\ U64 \subseteq Nat /\ NoBucket \notin [Fields -> Bucket]
  BY RateConstants, DataPathConstants DEF TypeOK, U64
<1>1. entry \in [Fields -> Bucket] /\ key \in DeviceFieldKeys /\ k = <<k[1], k[2]>>
  BY EntryTypes DEF DeviceKeys, DeviceFieldKeys
<1> HIDE DEF entry, key
<1>2. new \in [Fields -> Bucket] /\ new # NoBucket
  BY <1>0, <1>1, ChargeType
<1>3. /\ new[f] = Charge(entry[f], len)
      /\ \A g \in Fields : g # f => new[g] = entry[g]
  BY <1>1
<1> HIDE DEF new
<1>4. /\ deviceBuckets' = Store(deviceBuckets, k, new)
      /\ deviceMeter' = Spend(deviceMeter, key, entry[f], len)
  BY DEF ConsumeDevice, entry, new, key
<1>5. /\ deviceBuckets' \in [DeviceKeys -> [Fields -> Bucket] \cup {NoBucket}]
      /\ deviceMeter' \in [DeviceFieldKeys -> Meter]
  BY <1>0, <1>1, <1>2, <1>4, SpendType DEF TypeOK, Store
<1>6. now' = now /\ \A j \in DeviceFieldKeys : DeviceBudget(j)' = DeviceBudget(j)
  BY DEF limits, DeviceBudget, DeviceLimit
<1>7. Full(deviceBuckets) => Full(deviceBuckets')
  BY <1>2, <1>4, FullStaysFull DEF TypeOK
<1>8. \A j \in DeviceKeys : j # k => deviceBuckets'[j] = deviceBuckets[j]
  BY <1>4 DEF Store, TypeOK
<1>9. \A j \in DeviceFieldKeys : j # key => deviceMeter'[j] = deviceMeter[j]
  BY <1>4 DEF Spend, TypeOK
<1>10. deviceMeter'[key] = IF Admits(entry[f], len)
                             THEN [deviceMeter[key] EXCEPT !.spent = @ + len]
                             ELSE deviceMeter[key]
  BY <1>1, <1>4 DEF Spend, TypeOK
<1>11. \A j \in DeviceFieldKeys :
         /\ deviceMeter[j] \in Meter /\ DeviceBudget(j) \in Nat
         /\ CreditCovers(deviceMeter[j], DeviceBudget(j), now)
  <2>1. \A j \in DeviceFieldKeys : deviceMeter[j] \in Meter
    BY DEF TypeOK
  <2>2. \A j \in DeviceFieldKeys : DeviceBudget(j) \in Nat
    BY <1>0, BudgetTypes
  <2> QED BY <2>1, <2>2 DEF DeviceInv
<1>12. DeviceBudget(key) \in Nat \ {0}
  BY <1>1, <1>11 DEF key
<1>13. CreditCovers(deviceMeter'[key], DeviceBudget(key), now)
  BY <1>0, <1>1, <1>10, <1>11, CreditKept
<1>14. ASSUME NEW j \in DeviceFieldKeys
       PROVE  CreditCovers(deviceMeter'[j], DeviceBudget(j)', now')
  <2>1. CASE j = key
    BY <1>6, <1>13, <2>1
  <2>2. CASE j # key
    BY <1>6, <1>9, <1>11, <2>2
  <2> QED BY <2>1, <2>2
<1>15. ASSUME NEW j \in DeviceFieldKeys, <<j[1], j[2]>> # k
       PROVE  /\ deviceBuckets'[<<j[1], j[2]>>] = deviceBuckets[<<j[1], j[2]>>]
              /\ deviceMeter'[j] = deviceMeter[j]
  <2>1. <<j[1], j[2]>> \in DeviceKeys
    BY DEF DeviceFieldKeys, DeviceKeys
  <2>2. j # key
    BY <1>1, <1>15 DEF key
  <2> QED BY <1>8, <1>9, <1>15, <2>1, <2>2
<1>16. ASSUME NEW j \in DeviceFieldKeys, <<j[1], j[2]>> = k
       PROVE  j = <<k[1], k[2], j[3]>> /\ j[3] \in Fields
  BY <1>1, <1>16 DEF DeviceFieldKeys
<1>17. CASE deviceBuckets[k] = NoBucket /\ Full(deviceBuckets)
  <2>1. deviceBuckets' = deviceBuckets
    BY <1>4, <1>17 DEF Store
  <2>2. ASSUME NEW j \in DeviceFieldKeys
        PROVE  /\ deviceBuckets'[<<j[1], j[2]>>] = NoBucket
                    => deviceMeter'[j].spent = 0 \/ Full(deviceBuckets')
               /\ deviceBuckets'[<<j[1], j[2]>>] # NoBucket
                    => Balanced(deviceBuckets'[<<j[1], j[2]>>][j[3]], deviceMeter'[j],
                                DeviceBudget(j)', now')
    BY <1>6, <1>7, <1>15, <1>17, <2>1 DEF DeviceInv
  <2> QED BY <1>5, <1>14, <2>2 DEF DeviceInv
<1>18. CASE ~ (deviceBuckets[k] = NoBucket /\ Full(deviceBuckets))
  <2>1. deviceBuckets'[k] = new
    BY <1>4, <1>18 DEF Store, TypeOK
  <2>2. ASSUME NEW g \in Fields
        PROVE  LET j == <<k[1], k[2], g>>
               IN  /\ j \in DeviceFieldKeys
                   /\ Balanced(entry[g], deviceMeter[j], DeviceBudget(j), now)
                   /\ g = f /\ entry[g].last < deviceMeter[j].start
                        => DeviceBudget(j) * (deviceMeter[j].start - entry[g].last) < Second
    <3> DEFINE j == <<k[1], k[2], g>>
    <3>1. j \in DeviceFieldKeys /\ <<j[1], j[2]>> = k /\ j[3] = g
      BY <1>1 DEF DeviceFieldKeys, DeviceKeys
    <3>2. CASE deviceBuckets[k] = NoBucket
      <4>1. deviceMeter[j].spent = 0
        BY <1>18, <3>1, <3>2 DEF DeviceInv
      <4>2. entry[g] = NewBucket(DeviceBudget(j), now)
        BY <1>1, <3>1, <3>2 DEF DeviceEntry, DeviceBudget, entry
      <4> HIDE DEF j
      <4>3. entry[g].last = now /\ Balanced(entry[g], deviceMeter[j], DeviceBudget(j), now)
        BY <1>0, <1>11, <3>1, <4>1, <4>2, NewBucketBalanced
      <4>4. ~ (entry[g].last < deviceMeter[j].start)
        BY <1>0, <1>11, <3>1, <4>3 DEF CreditCovers, Meter
      <4> QED BY <3>1, <4>3, <4>4 DEF j
    <3>3. CASE deviceBuckets[k] # NoBucket
      <4>1. /\ deviceBuckets[k] \in [Fields -> Bucket]
            /\ Balanced(deviceBuckets[k][g], deviceMeter[j], DeviceBudget(j), now)
        BY <3>1, <3>3 DEF TypeOK, DeviceInv
      <4>2. CASE g # f
        <5>1. entry[g] = deviceBuckets[k][g]
          BY <3>3, <4>1, <4>2 DEF DeviceEntry, entry
        <5> QED BY <3>1, <4>1, <4>2, <5>1
      <4>3. CASE g = f
        <5>1. entry[g] = Refill(deviceBuckets[k][g], DeviceBudget(j), now, len)
          BY <3>3, <4>1, <4>3 DEF DeviceEntry, entry
        <5>2. DeviceBudget(j) \in Nat \ {0}
          BY <1>12, <4>3 DEF key
        <5> HIDE DEF j
        <5>3. /\ Balanced(entry[g], deviceMeter[j], DeviceBudget(j), now)
              /\ entry[g].last < deviceMeter[j].start
                   => DeviceBudget(j) * (deviceMeter[j].start - entry[g].last) < Second
          BY <1>0, <1>11, <3>1, <4>1, <5>1, <5>2, RefillBalanced
        <5> QED BY <3>1, <5>3 DEF j
      <4> QED BY <4>2, <4>3
    <3> QED BY <3>2, <3>3
  <2>3. ASSUME NEW g \in Fields
        PROVE  Balanced(new[g], deviceMeter'[<<k[1], k[2], g>>], DeviceBudget(<<k[1], k[2], g>>), now)
    <3>1. CASE g # f
      <4>1. <<k[1], k[2], g>> # key
        BY <3>1 DEF key
      <4>2. deviceMeter'[<<k[1], k[2], g>>] = deviceMeter[<<k[1], k[2], g>>]
        BY <1>9, <2>2, <4>1
      <4> QED BY <1>3, <2>2, <3>1, <4>2
    <3>2. CASE g = f
      <4>1. /\ Balanced(entry[f], deviceMeter[key], DeviceBudget(key), now)
            /\ entry[f].last < deviceMeter[key].start
                 => DeviceBudget(key) * (deviceMeter[key].start - entry[f].last) < Second
        BY <2>2 DEF key
      <4>2. entry[f] \in Bucket /\ deviceMeter[key] \in Meter /\ DeviceBudget(key) \in Nat
        BY <1>1, <1>11
      <4>3. Balanced(Charge(entry[f], len), deviceMeter'[key], DeviceBudget(key), now)
        BY <1>0, <1>10, <4>1, <4>2, ConsumeBalanced
      <4> QED BY <1>3, <3>2, <4>3 DEF key
    <3> QED BY <3>1, <3>2
  <2>4. ASSUME NEW j \in DeviceFieldKeys
        PROVE  /\ deviceBuckets'[<<j[1], j[2]>>] = NoBucket
                    => deviceMeter'[j].spent = 0 \/ Full(deviceBuckets')
               /\ deviceBuckets'[<<j[1], j[2]>>] # NoBucket
                    => Balanced(deviceBuckets'[<<j[1], j[2]>>][j[3]], deviceMeter'[j],
                                DeviceBudget(j)', now')
    <3>1. CASE <<j[1], j[2]>> = k
      BY <1>2, <1>6, <1>16, <2>1, <2>3, <3>1
    <3>2. CASE <<j[1], j[2]>> # k
      BY <1>6, <1>7, <1>15, <3>2 DEF DeviceInv
    <3> QED BY <3>1, <3>2
  <2> QED BY <1>5, <1>14, <2>4 DEF DeviceInv
<1> QED
  BY <1>17, <1>18

LEMMA PacketStep ==
  ASSUME TypeOK, IfaceInv, DeviceInv, NEW i \in Ifaces, NEW m \in Macs \cup {NoMac},
         NEW f \in Fields, NEW len \in Lengths, Packet(i, m, f, len)
  PROVE  TypeOK' /\ IfaceInv' /\ DeviceInv'
<1>1. len \in 1 .. MaxLength /\ <<i, f>> \in IfaceKeys /\ UNCHANGED <<now, limits>>
  BY DataPathConstants DEF IfaceKeys, Packet
<1>2. /\ ifaceBuckets' \in [IfaceKeys -> Bucket \cup {NoBucket}]
      /\ ifaceMeter' \in [IfaceKeys -> Meter] /\ IfaceInv'
  <2>1. CASE IfaceBudget(<<i, f>>) > 0
    BY <1>1, <2>1, ConsumeIfaceStep DEF Packet, IfaceStage
  <2>2. CASE ~ (IfaceBudget(<<i, f>>) > 0)
    BY <1>1, <2>2 DEF Packet, IfaceStage, IfaceInv, IfaceBudget, limits, TypeOK
  <2> QED BY <2>1, <2>2
<1>3. /\ deviceBuckets' \in [DeviceKeys -> [Fields -> Bucket] \cup {NoBucket}]
      /\ deviceMeter' \in [DeviceFieldKeys -> Meter] /\ DeviceInv'
  <2>1. CASE ~ IfaceDrops(<<i, f>>, len) /\ DeviceLimited(i, m, f)
    <3>1. m \in Macs /\ DeviceBudget(<<i, m, f>>) > 0 /\ ConsumeDevice(<<i, m>>, f, len)
      BY <2>1 DEF Packet, DeviceLimited
    <3>2. <<i, m>> \in DeviceKeys
      BY <3>1 DEF DeviceKeys
    <3> QED BY <1>1, <3>1, <3>2, ConsumeDeviceStep
  <2>2. CASE ~ (~ IfaceDrops(<<i, f>>, len) /\ DeviceLimited(i, m, f))
    BY <1>1, <2>2 DEF Packet, DeviceInv, DeviceBudget, DeviceLimit, limits, TypeOK
  <2> QED BY <2>1, <2>2
<1> QED
  BY <1>1, <1>2, <1>3 DEF TypeOK, limits

(***************************************************************************)
(* The other steps: the clock, the observer and the limit maps.            *)
(***************************************************************************)

(* A meter that is reopened is balanced against the bucket it finds.       *)
LEMMA ReopenedIface ==
  ASSUME TypeOK, IfaceInv, NEW k \in IfaceKeys, NEW budget \in Nat
  PROVE  LET w == Fresh(IfaceTokens(k), budget)
         IN  /\ w \in Meter /\ CreditCovers(w, budget, now) /\ w.spent = 0
             /\ ifaceBuckets[k] # NoBucket => Balanced(ifaceBuckets[k], w, budget, now)
<1>1. IfaceTokens(k) \in U64 /\ now \in Nat
  BY TokenTypes DEF TypeOK
<1>2. CASE ifaceBuckets[k] # NoBucket
  <2>1. /\ ifaceBuckets[k] \in Bucket /\ ifaceBuckets[k].last <= now
        /\ ifaceBuckets[k].tokens = IfaceTokens(k)
    BY <1>2 DEF TypeOK, IfaceInv, Balanced, IfaceTokens
  <2> QED BY <1>1, <2>1, FreshBalanced
<1> QED
  BY <1>1, <1>2, FreshBalanced

LEMMA ReopenedDevice ==
  ASSUME TypeOK, DeviceInv, NEW k \in DeviceFieldKeys, NEW budget \in Nat
  PROVE  LET w == Fresh(DeviceTokens(k), budget)
             entry == deviceBuckets[<<k[1], k[2]>>]
         IN  /\ w \in Meter /\ CreditCovers(w, budget, now) /\ w.spent = 0
             /\ entry # NoBucket => Balanced(entry[k[3]], w, budget, now)
<1> DEFINE entry == deviceBuckets[<<k[1], k[2]>>]
<1>1. DeviceTokens(k) \in U64 /\ now \in Nat
  BY TokenTypes DEF TypeOK
<1>2. <<k[1], k[2]>> \in DeviceKeys /\ k[3] \in Fields
  BY DEF DeviceFieldKeys, DeviceKeys
<1>3. CASE entry # NoBucket
  <2>1. /\ entry[k[3]] \in Bucket /\ entry[k[3]].last <= now
        /\ entry[k[3]].tokens = DeviceTokens(k)
    BY <1>2, <1>3 DEF TypeOK, DeviceInv, Balanced, DeviceTokens
  <2> HIDE DEF entry
  <2>2. Balanced(entry[k[3]], Fresh(DeviceTokens(k), budget), budget, now)
    BY <1>1, <2>1, FreshBalanced
  <2> QED BY <1>1, <2>2, FreshBalanced DEF entry
<1> QED
  BY <1>1, <1>3, FreshBalanced

LEMMA TickStep ==
  ASSUME TypeOK, IfaceInv, DeviceInv, NEW d \in Ticks, Tick(d)
  PROVE  TypeOK' /\ IfaceInv' /\ DeviceInv'
<1>1. now \in Nat /\ now' \in Nat /\ now <= now' /\ UNCHANGED <<limits, buckets, meters>>
  BY DataPathConstants DEF Tick, TypeOK
<1>2. TypeOK'
  BY <1>1 DEF TypeOK, limits, buckets, meters
<1>3. U64 \subseteq Nat
  BY RateConstants DEF U64
<1>4. IfaceInv'
  <2>1. ASSUME NEW k \in IfaceKeys
        PROVE  /\ ifaceMeter[k] \in Meter /\ IfaceBudget(k) \in Nat
               /\ ifaceBuckets[k] # NoBucket => ifaceBuckets[k] \in Bucket
    BY <1>3, BudgetTypes DEF TypeOK
  <2>2. \A k \in IfaceKeys : IfaceBudget(k)' = IfaceBudget(k)
    BY <1>1 DEF limits, IfaceBudget
  <2>3. ifaceBuckets' = ifaceBuckets /\ ifaceMeter' = ifaceMeter
    BY <1>1 DEF buckets, meters
  <2>4. ASSUME NEW k \in IfaceKeys
        PROVE  /\ CreditCovers(ifaceMeter[k], IfaceBudget(k), now')
               /\ ifaceBuckets[k] # NoBucket
                    => Balanced(ifaceBuckets[k], ifaceMeter[k], IfaceBudget(k), now')
    <3>1. CreditCovers(ifaceMeter[k], IfaceBudget(k), now)
      BY DEF IfaceInv
    <3>2. CreditCovers(ifaceMeter[k], IfaceBudget(k), now')
      BY <1>1, <2>1, <3>1 DEF CreditCovers, Meter
    <3>3. CASE ifaceBuckets[k] # NoBucket
      <4>1. Balanced(ifaceBuckets[k], ifaceMeter[k], IfaceBudget(k), now)
        BY <3>3 DEF IfaceInv
      <4> QED BY <1>1, <2>1, <3>1, <3>2, <3>3, <4>1, BalancedLater
    <3> QED BY <3>2, <3>3
  <2> QED BY <2>2, <2>3, <2>4 DEF IfaceInv
<1>5. DeviceInv'
  <2>1. ASSUME NEW k \in DeviceFieldKeys
        PROVE  /\ deviceMeter[k] \in Meter /\ DeviceBudget(k) \in Nat
               /\ deviceBuckets[<<k[1], k[2]>>] # NoBucket
                    => deviceBuckets[<<k[1], k[2]>>][k[3]] \in Bucket
    <3>1. <<k[1], k[2]>> \in DeviceKeys /\ k[3] \in Fields
      BY DEF DeviceFieldKeys, DeviceKeys
    <3>2. DeviceBudget(k) \in Nat
      BY <1>3, BudgetTypes
    <3> QED BY <3>1, <3>2 DEF TypeOK
  <2>2. \A k \in DeviceFieldKeys : DeviceBudget(k)' = DeviceBudget(k)
    BY <1>1 DEF limits, DeviceBudget, DeviceLimit
  <2>3. deviceBuckets' = deviceBuckets /\ deviceMeter' = deviceMeter
    BY <1>1 DEF buckets, meters
  <2>4. ASSUME NEW k \in DeviceFieldKeys
        PROVE  /\ CreditCovers(deviceMeter[k], DeviceBudget(k), now')
               /\ deviceBuckets[<<k[1], k[2]>>] # NoBucket
                    => Balanced(deviceBuckets[<<k[1], k[2]>>][k[3]], deviceMeter[k],
                                DeviceBudget(k), now')
    <3>1. CreditCovers(deviceMeter[k], DeviceBudget(k), now)
      BY DEF DeviceInv
    <3>2. CreditCovers(deviceMeter[k], DeviceBudget(k), now')
      <4>1. deviceMeter[k].start \in Nat
        BY <2>1 DEF Meter
      <4> QED BY <1>1, <3>1, <4>1 DEF CreditCovers
    <3>3. CASE deviceBuckets[<<k[1], k[2]>>] # NoBucket
      <4>1. Balanced(deviceBuckets[<<k[1], k[2]>>][k[3]], deviceMeter[k], DeviceBudget(k), now)
        BY <3>3 DEF DeviceInv
      <4> QED BY <1>1, <2>1, <3>1, <3>2, <3>3, <4>1, BalancedLater
    <3> QED BY <3>2, <3>3
  <2> QED BY <2>2, <2>3, <2>4 DEF DeviceInv
<1> QED
  BY <1>2, <1>4, <1>5

LEMMA ObserveStep ==
  ASSUME TypeOK, IfaceInv, DeviceInv,
         \/ \E k \in IfaceKeys : ObserveIface(k)
         \/ \E k \in DeviceFieldKeys : ObserveDevice(k)
  PROVE  TypeOK' /\ IfaceInv' /\ DeviceInv'
<1>0. U64 \subseteq Nat
  BY RateConstants DEF U64
<1>1. ASSUME NEW k \in IfaceKeys, ObserveIface(k)
      PROVE  TypeOK' /\ IfaceInv' /\ DeviceInv'
  <2> DEFINE w == Fresh(IfaceTokens(k), IfaceBudget(k))
  <2>1. IfaceBudget(k) \in Nat
    BY <1>0, BudgetTypes
  <2>2. /\ w \in Meter /\ CreditCovers(w, IfaceBudget(k), now) /\ w.spent = 0
        /\ ifaceBuckets[k] # NoBucket => Balanced(ifaceBuckets[k], w, IfaceBudget(k), now)
    BY <2>1, ReopenedIface
  <2> HIDE DEF w
  <2>3. ifaceMeter' = [ifaceMeter EXCEPT ![k] = w] /\ UNCHANGED <<now, limits, buckets, deviceMeter>>
    BY <1>1 DEF ObserveIface, w
  <2>4. TypeOK' /\ ifaceMeter \in [IfaceKeys -> Meter]
    BY <2>2, <2>3 DEF TypeOK, limits, buckets
  <2>5. IfaceInv'
    BY <2>2, <2>3, <2>4 DEF IfaceInv, IfaceBudget, limits, buckets
  <2>6. DeviceInv'
    BY <2>3 DEF DeviceInv, DeviceBudget, DeviceLimit, limits, buckets
  <2> QED BY <2>4, <2>5, <2>6
<1>2. ASSUME NEW k \in DeviceFieldKeys, ObserveDevice(k)
      PROVE  TypeOK' /\ IfaceInv' /\ DeviceInv'
  <2> DEFINE w == Fresh(DeviceTokens(k), DeviceBudget(k))
             entry == deviceBuckets[<<k[1], k[2]>>]
  <2>1. DeviceBudget(k) \in Nat
    BY <1>0, BudgetTypes
  <2>2. /\ w \in Meter /\ CreditCovers(w, DeviceBudget(k), now) /\ w.spent = 0
        /\ entry # NoBucket => Balanced(entry[k[3]], w, DeviceBudget(k), now)
    BY <2>1, ReopenedDevice
  <2> HIDE DEF w
  <2>3. deviceMeter' = [deviceMeter EXCEPT ![k] = w] /\ UNCHANGED <<now, limits, buckets, ifaceMeter>>
    BY <1>2 DEF ObserveDevice, w
  <2>4. TypeOK' /\ deviceMeter \in [DeviceFieldKeys -> Meter]
    BY <2>2, <2>3 DEF TypeOK, limits, buckets
  <2>5. IfaceInv'
    BY <2>3 DEF IfaceInv, IfaceBudget, limits, buckets
  <2>6. \A j \in DeviceFieldKeys : DeviceBudget(j)' = DeviceBudget(j)
    BY <2>3 DEF DeviceBudget, DeviceLimit, limits
  <2>7. DeviceInv'
    BY <2>2, <2>3, <2>4, <2>6 DEF DeviceInv, buckets
  <2> QED BY <2>4, <2>5, <2>7
<1> QED
  BY <1>1, <1>2

(* Rewriting limits: buckets stay, the meters whose budget changes reopen.  *)
LEMMA WriteIfaceStep ==
  ASSUME TypeOK, IfaceInv, DeviceInv, NEW i \in Ifaces, NEW limit \in Limit,
         WriteIfaceLimit(i, limit)
  PROVE  TypeOK' /\ IfaceInv' /\ DeviceInv'
<1>1. /\ ifaceLimit' \in [Ifaces -> Limit] /\ ifaceMeter' = [k \in IfaceKeys |->
           IF IfaceBudget(k)' = IfaceBudget(k)
             THEN ifaceMeter[k] ELSE Fresh(IfaceTokens(k), IfaceBudget(k)')]
      /\ UNCHANGED <<now, deviceLimitGlobal, deviceLimitIface, buckets, deviceMeter>>
  BY DEF WriteIfaceLimit, RestartIfaces, TypeOK
<1>2. \A k \in IfaceKeys : IfaceBudget(k)' \in Nat
  <2>1. ASSUME NEW k \in IfaceKeys PROVE ifaceLimit'[k[1]][k[2]] \in U64
    BY <1>1 DEF IfaceKeys, Limit
  <2> QED BY <2>1, EffectiveBudgetType, RateConstants DEF IfaceBudget, U64
<1>3. ASSUME NEW k \in IfaceKeys
      PROVE  /\ ifaceMeter'[k] \in Meter /\ CreditCovers(ifaceMeter'[k], IfaceBudget(k)', now)
             /\ ifaceBuckets[k] = NoBucket => ifaceMeter'[k].spent = 0 \/ Full(ifaceBuckets)
             /\ ifaceBuckets[k] # NoBucket
                  => Balanced(ifaceBuckets[k], ifaceMeter'[k], IfaceBudget(k)', now)
  <2>1. CASE IfaceBudget(k)' = IfaceBudget(k)
    BY <1>1, <2>1 DEF IfaceInv, TypeOK
  <2>2. CASE IfaceBudget(k)' # IfaceBudget(k)
    <3>1. ifaceMeter'[k] = Fresh(IfaceTokens(k), IfaceBudget(k)')
      BY <1>1, <2>2
    <3> QED BY <1>2, <3>1, ReopenedIface
  <2> QED BY <2>1, <2>2
<1>4. TypeOK'
  BY <1>1, <1>3 DEF TypeOK, buckets
<1>5. IfaceInv'
  BY <1>1, <1>3 DEF IfaceInv, buckets
<1>6. DeviceInv'
  BY <1>1 DEF DeviceInv, DeviceBudget, DeviceLimit, buckets
<1> QED
  BY <1>4, <1>5, <1>6

LEMMA WriteDeviceStep ==
  ASSUME TypeOK, IfaceInv, DeviceInv,
         deviceLimitGlobal' \in [Macs -> Limit], deviceLimitIface' \in [DeviceKeys -> Limit],
         RestartDevices, UNCHANGED <<now, ifaceLimit, buckets, ifaceMeter>>
  PROVE  TypeOK' /\ IfaceInv' /\ DeviceInv'
<1>1. deviceMeter' = [k \in DeviceFieldKeys |->
           IF DeviceBudget(k)' = DeviceBudget(k)
             THEN deviceMeter[k] ELSE Fresh(DeviceTokens(k), DeviceBudget(k)')]
  BY DEF RestartDevices
<1>2. ASSUME NEW k \in DeviceFieldKeys PROVE DeviceBudget(k)' \in Nat
  <2>1. <<k[1], k[2]>> \in DeviceKeys /\ k[2] \in Macs /\ k[3] \in Fields
    BY DEF DeviceFieldKeys, DeviceKeys
  <2>2. StricterLimit(deviceLimitGlobal'[k[2]], deviceLimitIface'[<<k[1], k[2]>>]) \in Limit
    BY <2>1, StricterLattice
  <2>3. DeviceLimit(<<k[1], k[2]>>)'[k[3]] \in U64
    BY <2>1, <2>2 DEF DeviceLimit, Limit
  <2> QED BY <2>3, EffectiveBudgetType, RateConstants DEF DeviceBudget, U64
<1>3. ASSUME NEW k \in DeviceFieldKeys
      PROVE  LET entry == deviceBuckets[<<k[1], k[2]>>]
             IN  /\ deviceMeter'[k] \in Meter
                 /\ CreditCovers(deviceMeter'[k], DeviceBudget(k)', now)
                 /\ entry = NoBucket => deviceMeter'[k].spent = 0 \/ Full(deviceBuckets)
                 /\ entry # NoBucket
                      => Balanced(entry[k[3]], deviceMeter'[k], DeviceBudget(k)', now)
  <2>1. CASE DeviceBudget(k)' = DeviceBudget(k)
    BY <1>1, <2>1 DEF DeviceInv, TypeOK
  <2>2. CASE DeviceBudget(k)' # DeviceBudget(k)
    <3>1. deviceMeter'[k] = Fresh(DeviceTokens(k), DeviceBudget(k)')
      BY <1>1, <2>2
    <3> QED BY <1>2, <3>1, ReopenedDevice
  <2> QED BY <2>1, <2>2
<1>4. TypeOK'
  BY <1>1, <1>3 DEF TypeOK, buckets
<1>5. IfaceInv'
  BY DEF IfaceInv, IfaceBudget, buckets
<1>6. DeviceInv'
  BY <1>3 DEF DeviceInv, buckets
<1> QED
  BY <1>4, <1>5, <1>6

(***************************************************************************)
(* The theorems.                                                           *)
(***************************************************************************)

IInv == TypeOK /\ IfaceInv /\ DeviceInv

LEMMA InitIInv == Init => IInv
<1> SUFFICES ASSUME Init PROVE IInv
  OBVIOUS
<1>1. 0 \in U64 /\ NoLimits \in Limit /\ now \in Nat /\ EffectiveBudget(0) = 0
  BY RateConstants DEF NoLimits, Limit, U64, Init, EffectiveBudget
<1>2. /\ Fresh(0, 0) \in Meter /\ Fresh(0, 0).spent = 0
      /\ CreditCovers(Fresh(0, 0), 0, now)
  BY <1>1, FreshBalanced
<1>3. TypeOK
  BY <1>1, <1>2 DEF TypeOK, Init
<1>4. \A k \in IfaceKeys : IfaceBudget(k) = 0
  BY <1>1 DEF IfaceBudget, Init, NoLimits, IfaceKeys
<1>5. \A k \in DeviceFieldKeys : DeviceBudget(k) = 0
  BY <1>1 DEF DeviceBudget, DeviceLimit, StricterLimit, StricterField, Init, NoLimits,
              DeviceFieldKeys, DeviceKeys
<1>6. IfaceInv
  BY <1>2, <1>4 DEF IfaceInv, Init
<1>7. \A k \in DeviceFieldKeys : deviceBuckets[<<k[1], k[2]>>] = NoBucket
  BY DEF DeviceFieldKeys, DeviceKeys, Init
<1>8. DeviceInv
  BY <1>2, <1>5, <1>7 DEF DeviceInv, Init
<1> QED
  BY <1>3, <1>6, <1>8 DEF IInv

LEMMA NextIInv == IInv /\ [Next]_vars => IInv'
<1> SUFFICES ASSUME TypeOK, IfaceInv, DeviceInv, [Next]_vars
             PROVE  TypeOK' /\ IfaceInv' /\ DeviceInv'
  BY DEF IInv
<1>0. /\ IfaceLimits \subseteq Limit /\ GlobalLimits \subseteq Limit
      /\ DeviceLimits \subseteq Limit
  BY DataPathConstants
<1>1. ASSUME NEW i \in Ifaces, NEW m \in Macs \cup {NoMac}, NEW t \in Traffic,
             NEW len \in Lengths, Packet(i, m, FieldOf(t[1], t[2]), len)
      PROVE  TypeOK' /\ IfaceInv' /\ DeviceInv'
  <2>1. FieldOf(t[1], t[2]) \in Fields
    BY DataPathConstants, FieldOfType
  <2> QED BY <1>1, <2>1, PacketStep
<1>2. ASSUME NEW i \in Ifaces, NEW limit \in IfaceLimits, WriteIfaceLimit(i, limit)
      PROVE  TypeOK' /\ IfaceInv' /\ DeviceInv'
  BY <1>0, <1>2, WriteIfaceStep
<1>3. ASSUME NEW m \in Macs, NEW limit \in GlobalLimits, WriteDeviceGlobal(m, limit)
      PROVE  TypeOK' /\ IfaceInv' /\ DeviceInv'
  BY <1>0, <1>3, WriteDeviceStep DEF WriteDeviceGlobal, TypeOK
<1>4. ASSUME NEW k \in DeviceKeys, NEW limit \in DeviceLimits, WriteDeviceIface(k, limit)
      PROVE  TypeOK' /\ IfaceInv' /\ DeviceInv'
  BY <1>0, <1>4, WriteDeviceStep DEF WriteDeviceIface, TypeOK
<1>5. ASSUME NEW d \in Ticks, Tick(d) PROVE TypeOK' /\ IfaceInv' /\ DeviceInv'
  BY <1>5, TickStep
<1>6. ASSUME NEW i \in Ifaces, NEW t \in Traffic, ObserveIface(<<i, FieldOf(t[1], t[2])>>)
      PROVE  TypeOK' /\ IfaceInv' /\ DeviceInv'
  <2>1. <<i, FieldOf(t[1], t[2])>> \in IfaceKeys
    BY DataPathConstants, FieldOfType DEF IfaceKeys
  <2> QED BY <1>6, <2>1, ObserveStep
<1>7. ASSUME NEW i \in Ifaces, NEW m \in Macs, NEW t \in Traffic,
             ObserveDevice(<<i, m, FieldOf(t[1], t[2])>>)
      PROVE  TypeOK' /\ IfaceInv' /\ DeviceInv'
  <2>1. <<i, m, FieldOf(t[1], t[2])>> \in DeviceFieldKeys
    BY DataPathConstants, FieldOfType DEF DeviceFieldKeys
  <2> QED BY <1>7, <2>1, ObserveStep
<1>8. CASE UNCHANGED vars
  BY <1>8 DEF vars, limits, buckets, meters, TypeOK, IfaceInv, IfaceBudget, DeviceInv,
              DeviceBudget, DeviceLimit
<1> QED
  BY <1>1, <1>2, <1>3, <1>4, <1>5, <1>6, <1>7, <1>8 DEF Next

(* Every state of the data path is well typed: no arithmetic leaves u64.    *)
THEOREM TypeCorrect == Spec => []TypeOK
<1>1. IInv => TypeOK
  BY DEF IInv
<1> QED
  BY <1>1, InitIInv, NextIInv, PTL DEF Spec

LEMMA BalancedMetered ==
  ASSUME NEW b \in Bucket, NEW w \in Meter, NEW budget \in Nat, now \in Nat,
         CreditCovers(w, budget, now), Balanced(b, w, budget, now)
  PROVE  Metered(w, budget)
<1>1. /\ b.tokens \in Nat /\ b.last \in Nat /\ w.start \in Nat /\ w.spent \in Nat
      /\ w.credit \in Nat /\ Second \in Nat \ {0} /\ w.start <= now /\ b.last <= now
  BY RateConstants DEF Bucket, Meter, U64, CreditCovers, Balanced
<1>2. budget * (now - w.start) \in Nat
  BY <1>1, Product
<1>3. CASE w.start <= b.last
  <2>1. (w.spent + b.tokens) * Second
          <= (w.credit + 1) * Second + budget * (b.last - w.start)
    BY <1>3 DEF Balanced
  <2>2. b.last - w.start \in Nat /\ b.last - w.start <= now - w.start
    BY <1>1, <1>3
  <2>3. budget * (b.last - w.start) <= budget * (now - w.start)
    BY <1>1, <2>2, Product
  <2>4. w.spent * Second <= (w.spent + b.tokens) * Second
    BY <1>1, Product
  <2>5. /\ w.spent * Second \in Nat /\ (w.spent + b.tokens) * Second \in Nat
        /\ (w.credit + 1) * Second \in Nat /\ budget * (b.last - w.start) \in Nat
    BY <1>1, <2>2, Product
  <2> QED BY <1>2, <2>1, <2>3, <2>4, <2>5 DEF Metered
<1>4. CASE ~ (w.start <= b.last)
  <2>1. w.spent + b.tokens <= w.credit
    BY <1>4 DEF Balanced
  <2>2. w.spent <= w.credit + 1
    BY <1>1, <2>1
  <2>3. w.spent * Second <= (w.credit + 1) * Second
    BY <1>1, <2>2, Product
  <2> QED BY <1>1, <1>2, <2>3 DEF Metered
<1> QED
  BY <1>3, <1>4

(* A limit is a rate, for every configuration: in every window of time, of  *)
(* any start and length, each interface's field is admitted no more than a  *)
(* burst, a byte of rounding and its effective budget over the window       *)
(* (main.rs 305-362, 425-456).                                             *)
THEOREM IfaceConforms == Spec => []IfaceConformance
<1>1. IInv => IfaceConformance
  <2> SUFFICES ASSUME IInv, NEW k \in IfaceKeys, ifaceBuckets[k] # NoBucket
               PROVE  Metered(ifaceMeter[k], IfaceBudget(k))
    BY DEF IfaceConformance
  <2>1. IfaceBudget(k) \in Nat
    BY BudgetTypes, RateConstants DEF IInv, U64
  <2>2. ifaceBuckets[k] \in Bucket /\ ifaceMeter[k] \in Meter /\ now \in Nat
    BY DEF IInv, TypeOK
  <2>3. /\ CreditCovers(ifaceMeter[k], IfaceBudget(k), now)
        /\ Balanced(ifaceBuckets[k], ifaceMeter[k], IfaceBudget(k), now)
    BY DEF IInv, IfaceInv
  <2> QED BY <2>1, <2>2, <2>3, BalancedMetered
<1> QED
  BY <1>1, InitIInv, NextIInv, PTL DEF Spec

(* The same of each field of each device, under the stricter of its limits  *)
(* (main.rs 364-423).                                                      *)
THEOREM DeviceConforms == Spec => []DeviceConformance
<1>1. IInv => DeviceConformance
  <2> SUFFICES ASSUME IInv, NEW k \in DeviceFieldKeys, deviceBuckets[<<k[1], k[2]>>] # NoBucket
               PROVE  Metered(deviceMeter[k], DeviceBudget(k))
    BY DEF DeviceConformance
  <2>1. DeviceBudget(k) \in Nat
    BY BudgetTypes, RateConstants DEF IInv, U64
  <2>2. <<k[1], k[2]>> \in DeviceKeys /\ k[3] \in Fields
    BY DEF DeviceFieldKeys, DeviceKeys
  <2>3. /\ deviceBuckets[<<k[1], k[2]>>][k[3]] \in Bucket
        /\ deviceMeter[k] \in Meter /\ now \in Nat
    BY <2>2 DEF IInv, TypeOK
  <2>4. /\ CreditCovers(deviceMeter[k], DeviceBudget(k), now)
        /\ Balanced(deviceBuckets[<<k[1], k[2]>>][k[3]], deviceMeter[k], DeviceBudget(k), now)
    BY DEF IInv, DeviceInv
  <2> QED BY <2>1, <2>3, <2>4, BalancedMetered
<1> QED
  BY <1>1, InitIInv, NextIInv, PTL DEF Spec

(* Nothing limited goes uncharged while the bucket maps have room.         *)
THEOREM Charged == Spec => []NothingUncharged
<1>1. IInv => NothingUncharged
  <2> SUFFICES ASSUME IfaceInv, DeviceInv, TypeOK PROVE NothingUncharged
    BY DEF IInv
  <2>1. \A k \in IfaceKeys :
          ifaceBuckets[k] = NoBucket /\ ifaceMeter[k].spent > 0 => Full(ifaceBuckets)
    BY DEF IfaceInv
  <2>2. \A k \in DeviceFieldKeys :
          deviceBuckets[<<k[1], k[2]>>] = NoBucket /\ deviceMeter[k].spent > 0
            => Full(deviceBuckets)
    BY DEF DeviceInv
  <2> QED BY <2>1, <2>2 DEF NothingUncharged
<1> QED
  BY <1>1, InitIInv, NextIInv, PTL DEF Spec
(***************************************************************************)
(* Two budgets, one after the other.                                       *)
(***************************************************************************)

(* A packet that the interface's budget refuses is never paid for by its    *)
(* device, whatever the two buckets hold (should_drop_by_rate_limit).       *)
THEOREM Gated == Spec => IfaceGates
<1> DEFINE Gate(k) ==
      /\ deviceMeter'[k].spent > deviceMeter[k].spent
      /\ IfaceBudget(<<k[1], k[3]>>) > 0
      => ifaceMeter'[<<k[1], k[3]>>].spent > ifaceMeter[<<k[1], k[3]>>].spent
<1>1. ASSUME TypeOK, [Next]_vars, NEW k \in DeviceFieldKeys PROVE Gate(k)
  <2>0. deviceMeter[k].spent \in Nat
    BY <1>1 DEF TypeOK, Meter
  <2>1. ASSUME deviceMeter'[k].spent = deviceMeter[k].spent \/ deviceMeter'[k].spent = 0 PROVE Gate(k)
    BY <2>0, <2>1
  <2>2. ASSUME deviceMeter' = deviceMeter PROVE Gate(k)
    BY <2>1, <2>2
  <2>3. ASSUME NEW i \in Ifaces, NEW m \in Macs \cup {NoMac}, NEW t \in Traffic, NEW len \in Lengths,
               Packet(i, m, FieldOf(t[1], t[2]), len)
        PROVE  Gate(k)
    <3> DEFINE f == FieldOf(t[1], t[2])
    <3>1. f \in Fields /\ len \in Nat /\ 0 < len
      BY DataPathConstants, FieldOfType
    <3>2. CASE ~ (~ IfaceDrops(<<i, f>>, len) /\ DeviceLimited(i, m, f))
      BY <2>2, <2>3, <3>2 DEF Packet
    <3>3. CASE ~ IfaceDrops(<<i, f>>, len) /\ DeviceLimited(i, m, f)
      <4>1. m \in Macs /\ ConsumeDevice(<<i, m>>, f, len) /\ IfaceStage(<<i, f>>, len)
        BY <2>3, <3>3 DEF Packet, DeviceLimited
      <4>2. CASE k # <<i, m, f>>
        <5>1. deviceMeter'[k] = deviceMeter[k]
          BY <1>1, <4>1, <4>2 DEF ConsumeDevice, Spend, TypeOK
        <5> QED BY <2>1, <5>1
      <4>3. CASE k = <<i, m, f>>
        <5> SUFFICES ASSUME IfaceBudget(<<i, f>>) > 0
                     PROVE  ifaceMeter'[<<i, f>>].spent > ifaceMeter[<<i, f>>].spent
          BY <4>3
        <5>1. Admits(IfaceBucket(<<i, f>>, len), len)
          BY <3>3 DEF IfaceDrops
        <5>2. ifaceMeter' = [ifaceMeter EXCEPT ![<<i, f>>].spent = @ + len]
          BY <4>1, <5>1 DEF IfaceStage, ConsumeIface, Spend
        <5>3. <<i, f>> \in IfaceKeys /\ ifaceMeter \in [IfaceKeys -> Meter]
          BY <1>1, <3>1 DEF IfaceKeys, TypeOK
        <5>4. ifaceMeter[<<i, f>>].spent \in Nat
              /\ ifaceMeter'[<<i, f>>].spent = ifaceMeter[<<i, f>>].spent + len
          BY <5>2, <5>3 DEF Meter
        <5> HIDE DEF f
        <5> QED BY <3>1, <5>4
      <4> QED BY <4>2, <4>3
    <3> QED BY <3>2, <3>3
  <2>4. ASSUME RestartDevices PROVE Gate(k)
    <3>1. \/ deviceMeter'[k] = deviceMeter[k]
          \/ deviceMeter'[k] = Fresh(DeviceTokens(k), DeviceBudget(k)')
      BY <2>4 DEF RestartDevices
    <3>2. Fresh(DeviceTokens(k), DeviceBudget(k)').spent = 0
      BY DEF Fresh
    <3> QED BY <2>1, <3>1, <3>2
  <2>5. ASSUME NEW j, ObserveDevice(j) PROVE Gate(k)
    <3>1. \/ deviceMeter'[k] = deviceMeter[k]
          \/ deviceMeter'[k] = Fresh(DeviceTokens(j), DeviceBudget(j))
      BY <1>1, <2>5 DEF ObserveDevice, TypeOK
    <3>2. Fresh(DeviceTokens(j), DeviceBudget(j)).spent = 0
      BY DEF Fresh
    <3> QED BY <2>1, <3>1, <3>2
  <2>6. ASSUME NEW i, NEW limit, WriteIfaceLimit(i, limit) PROVE Gate(k)
    BY <2>2, <2>6 DEF WriteIfaceLimit
  <2>7. ASSUME NEW d, Tick(d) PROVE Gate(k)
    BY <2>2, <2>7 DEF Tick, meters
  <2>8. ASSUME NEW j, ObserveIface(j) PROVE Gate(k)
    BY <2>2, <2>8 DEF ObserveIface
  <2>9. ASSUME UNCHANGED vars PROVE Gate(k)
    BY <2>2, <2>9 DEF vars, meters
  <2> HIDE DEF Gate
  <2> QED
    BY <1>1, <2>3, <2>4, <2>5, <2>6, <2>7, <2>8, <2>9 DEF Next, WriteDeviceGlobal, WriteDeviceIface
<1>2. TypeOK /\ [Next]_vars => [\A k \in DeviceFieldKeys : Gate(k)]_vars
  BY <1>1
<1> QED
  BY <1>2, TypeCorrect, PTL DEF Spec, IfaceGates

(***************************************************************************)
(* Bursts.                                                                 *)
(***************************************************************************)

(* The limits in the maps are among those that user space may write.       *)
Configured ==
  /\ \A i \in Ifaces : ifaceLimit[i] \in IfaceLimits \cup {NoLimits}
  /\ \A m \in Macs : deviceLimitGlobal[m] \in GlobalLimits \cup {NoLimits}
  /\ \A k \in DeviceKeys : deviceLimitIface[k] \in DeviceLimits \cup {NoLimits}

InForce(budget, f, configured) ==
  budget = 0 \/ \E limit \in configured : budget = EffectiveBudget(limit[f])

LEMMA BudgetsInForce ==
  ASSUME Configured
  PROVE  /\ \A k \in IfaceKeys : InForce(IfaceBudget(k), k[2], IfaceLimits)
         /\ \A k \in DeviceKeys, f \in Fields :
              InForce(EffectiveBudget(DeviceLimit(k)[f]), f, GlobalLimits \cup DeviceLimits)
<1>0. EffectiveBudget(0) = 0 /\ \A f \in Fields : NoLimits[f] = 0
  BY DEF EffectiveBudget, NoLimits
<1>1. ASSUME NEW k \in IfaceKeys PROVE InForce(IfaceBudget(k), k[2], IfaceLimits)
  <2>1. k[1] \in Ifaces /\ k[2] \in Fields
    BY DEF IfaceKeys
  <2> QED BY <1>0, <2>1 DEF Configured, InForce, IfaceBudget
<1>2. ASSUME NEW k \in DeviceKeys, NEW f \in Fields
      PROVE  InForce(EffectiveBudget(DeviceLimit(k)[f]), f, GlobalLimits \cup DeviceLimits)
  <2> DEFINE a == deviceLimitGlobal[k[2]]
             b == deviceLimitIface[k]
  <2>1. k[2] \in Macs
    BY DEF DeviceKeys
  <2>2. DeviceLimit(k)[f] = a[f] \/ DeviceLimit(k)[f] = b[f]
    BY DEF DeviceLimit, StricterLimit, StricterField, Lesser
  <2>3. a \in GlobalLimits \cup {NoLimits} /\ b \in DeviceLimits \cup {NoLimits}
    BY <2>1 DEF Configured
  <2> HIDE DEF a, b
  <2> QED BY <1>0, <2>2, <2>3 DEF InForce
<1> QED
  BY <1>1, <1>2

(* Whatever a packet does to a bucket, it stays within a configured burst.  *)
LEMMA BucketBounded ==
  ASSUME NEW budget \in Nat, NEW f \in Fields, NEW configured \in SUBSET Limit,
         InForce(budget, f, configured),
         NEW t \in Nat, NEW len \in 1 .. MaxLength
  PROVE  /\ Bounded(NewBucket(budget, t).tokens, f, configured)
         /\ \A b \in Bucket : Bounded(b.tokens, f, configured)
              => /\ Bounded(Refill(b, budget, t, len).tokens, f, configured)
                 /\ Bounded(Charge(b, len).tokens, f, configured)
<1> DEFINE burst == TokensForWindow(budget, BurstWindow)
           grant == TokensForWindow(budget, InitWindow)
<1>1. /\ MaxLength \in Nat /\ len \in Nat /\ len <= MaxLength /\ U64Max \in Nat
      /\ BurstWindow \in Nat /\ InitWindow \in Nat /\ InitWindow <= BurstWindow
      /\ Second \in Nat \ {0}
  BY RateConstants, DataPathConstants DEF U64
<1>2. /\ burst \in U64 /\ grant \in U64 /\ grant <= burst /\ burst * Second <= budget * BurstWindow
  BY <1>1, TokensForWindowBound, TokensForWindowMonotone
<1>3. burst \in Nat /\ grant \in Nat
  BY <1>1, <1>2 DEF U64
<1>4. ASSUME NEW n \in Nat, n <= burst PROVE Bounded(n, f, configured)
  <2>1. CASE budget = 0
    <3>1. burst * Second <= 0
      BY <1>1, <1>2, <2>1
    <3> HIDE DEF burst
    <3>2. burst = 0
      <4>1. SUFFICES ASSUME burst > 0 PROVE FALSE
        BY <1>3
      <4>2. Second * 1 <= Second * burst
        BY <1>1, <1>3, <4>1, Product
      <4> QED BY <1>1, <1>3, <3>1, <4>2
    <3> QED BY <1>1, <1>4, <3>2 DEF Bounded
  <2>2. CASE \E limit \in configured : budget = EffectiveBudget(limit[f])
    BY <1>4, <2>2 DEF Bounded
  <2> QED BY <2>1, <2>2 DEF InForce
<1>5. Bounded(NewBucket(budget, t).tokens, f, configured)
  BY <1>2, <1>3, <1>4 DEF NewBucket
<1>6. ASSUME NEW b \in Bucket, Bounded(b.tokens, f, configured)
      PROVE  Bounded(Refill(b, budget, t, len).tokens, f, configured)
  <2> DEFINE earned == SatAdd(b.tokens, RefillAmount(budget, t - b.last))
             r      == Refill(b, budget, t, len)
  <2>1. CASE r = b
    BY <1>6, <2>1
  <2>2. CASE r # b
    <3>1. r.tokens = Lesser(earned, Greater(burst, len)) /\ t > b.last
      BY <2>2 DEF Refill, Bucket
    <3>2. r.tokens \in Nat
      BY <1>1, RefillType DEF Bucket, U64
    <3> HIDE DEF earned, r, burst
    <3>3. r.tokens <= burst \/ r.tokens <= MaxLength
      <4>1. earned \in Int
        <5> DEFINE refill == RefillAmount(budget, t - b.last)
        <5>1. b.tokens \in Nat /\ t - b.last \in Nat
          BY <1>1, <3>1 DEF Bucket, U64
        <5>2. refill \in U64
          BY <5>1, RefillEarned
        <5> HIDE DEF refill
        <5>3. SatAdd(b.tokens, refill) \in Int
          BY <1>1, <5>1, <5>2 DEF SatAdd, Lesser, U64
        <5> QED BY <5>3 DEF earned, refill
      <4>2. Greater(burst, len) = burst \/ Greater(burst, len) = len
        BY DEF Greater
      <4>3. Greater(burst, len) \in Int /\ r.tokens <= Greater(burst, len)
        BY <1>1, <1>3, <3>1, <4>1, <4>2 DEF Lesser
      <4> QED BY <1>1, <1>3, <3>2, <4>2, <4>3
    <3>4. Bounded(r.tokens, f, configured)
      <4>1. CASE r.tokens <= burst
        BY <1>4, <3>2, <4>1
      <4>2. CASE r.tokens <= MaxLength
        BY <4>2 DEF Bounded
      <4> QED BY <3>3, <4>1, <4>2
    <3> QED BY <3>4 DEF r
  <2> QED BY <2>1, <2>2
<1>7. ASSUME NEW b \in Bucket, Bounded(b.tokens, f, configured)
      PROVE  Bounded(Charge(b, len).tokens, f, configured)
  <2> DEFINE c == Charge(b, len)
  <2>1. c.tokens \in Nat /\ b.tokens \in Nat /\ c.tokens <= b.tokens
    <3>1. b.tokens \in Nat
      BY <1>1 DEF Bucket, U64
    <3>2. CASE Admits(b, len)
      <4>1. c = [b EXCEPT !.tokens = @ - len] /\ b.tokens >= len
        BY <3>2 DEF Charge, Admits
      <4>2. c.tokens = b.tokens - len
        BY <4>1 DEF Bucket
      <4> HIDE DEF c
      <4> QED BY <1>1, <3>1, <4>1, <4>2
    <3>3. CASE ~Admits(b, len)
      BY <3>1, <3>3 DEF Charge
    <3> QED BY <3>2, <3>3
  <2> HIDE DEF c
  <2>2. CASE b.tokens <= MaxLength
    <3>1. c.tokens <= MaxLength
      BY <1>1, <2>1, <2>2
    <3> QED BY <3>1 DEF Bounded, c
  <2>3. CASE \E limit \in configured :
                b.tokens <= TokensForWindow(EffectiveBudget(limit[f]), BurstWindow)
    <3>1. PICK limit \in configured :
            b.tokens <= TokensForWindow(EffectiveBudget(limit[f]), BurstWindow)
      BY <2>3
    <3> DEFINE n == TokensForWindow(EffectiveBudget(limit[f]), BurstWindow)
    <3>2. n \in U64
      <4>1. limit[f] \in U64
        BY DEF Limit
      <4>2. EffectiveBudget(limit[f]) \in Nat
        BY <1>1, <4>1, EffectiveBudgetType DEF U64
      <4> QED BY <1>1, <4>2, TokensForWindowBound
    <3>3. b.tokens <= n
      BY <3>1
    <3> HIDE DEF n
    <3>4. c.tokens <= n
      <4>1. n \in Nat
        BY <1>1, <3>2 DEF U64
      <4> QED BY <2>1, <3>3, <4>1
    <3> QED BY <3>4 DEF Bounded, n, c
  <2> QED BY <1>7, <2>2, <2>3 DEF Bounded
<1> QED
  BY <1>5, <1>6, <1>7
LEMMA NextBurst ==
  ASSUME TypeOK, Configured, BurstBounded, [Next]_vars
  PROVE  Configured' /\ BurstBounded'
<1> DEFINE DeviceAll == GlobalLimits \cup DeviceLimits
<1>0. /\ U64 \subseteq Nat /\ now \in Nat /\ MaxLength \in Nat
      /\ IfaceLimits \in SUBSET Limit /\ DeviceAll \in SUBSET Limit
  BY RateConstants, DataPathConstants DEF U64, TypeOK
<1>1. /\ \A k \in IfaceKeys : IfaceBudget(k) \in Nat /\ InForce(IfaceBudget(k), k[2], IfaceLimits)
      /\ \A k \in DeviceKeys, f \in Fields :
           /\ EffectiveBudget(DeviceLimit(k)[f]) \in Nat
           /\ InForce(EffectiveBudget(DeviceLimit(k)[f]), f, DeviceAll)
  <2>1. ASSUME NEW k \in DeviceKeys, NEW f \in Fields
        PROVE  EffectiveBudget(DeviceLimit(k)[f]) \in Nat
    <3>1. DeviceLimit(k)[f] \in U64
      BY BudgetTypes DEF Limit
    <3> QED BY <1>0, <3>1, EffectiveBudgetType
  <2> QED BY <1>0, <2>1, BudgetTypes, BudgetsInForce
<1>2. ASSUME UNCHANGED limits PROVE Configured'
  BY <1>2 DEF Configured, limits
<1>3. ASSUME UNCHANGED ifaceBuckets
      PROVE  \A k \in IfaceKeys : Bounded(IfaceTokens(k)', k[2], IfaceLimits)
  BY <1>3 DEF BurstBounded, IfaceTokens
<1>4. ASSUME UNCHANGED deviceBuckets
      PROVE  \A k \in DeviceFieldKeys : Bounded(DeviceTokens(k)', k[3], DeviceAll)
  BY <1>4 DEF BurstBounded, DeviceTokens
<1>5. ASSUME UNCHANGED buckets PROVE BurstBounded'
  BY <1>3, <1>4, <1>5 DEF buckets, BurstBounded
<1>6. ASSUME NEW i \in Ifaces, NEW m \in Macs \cup {NoMac}, NEW f \in Fields, NEW len \in Lengths,
             Packet(i, m, f, len)
      PROVE  BurstBounded'
  <2>0. len \in 1 .. MaxLength
    BY DataPathConstants
  <2>1. ASSUME NEW k \in IfaceKeys PROVE Bounded(IfaceTokens(k)', k[2], IfaceLimits)
    <3>1. CASE ifaceBuckets'[k] = ifaceBuckets[k]
      BY <3>1 DEF BurstBounded, IfaceTokens
    <3>2. CASE ifaceBuckets'[k] # ifaceBuckets[k]
      <4>1. ConsumeIface(<<i, f>>, len)
        BY <1>6, <3>2 DEF Packet, IfaceStage
      <4>2. k = <<i, f>> /\ ifaceBuckets'[k] = Charge(IfaceBucket(k, len), len)
        <5>1. <<i, f>> \in IfaceKeys /\ ifaceBuckets \in [IfaceKeys -> Bucket \cup {NoBucket}]
          BY DEF IfaceKeys, TypeOK
        <5> QED BY <3>2, <4>1, <5>1 DEF ConsumeIface, Store
      <4> DEFINE b == IfaceBucket(k, len)
      <4>3. b \in Bucket /\ k[2] \in Fields /\ IfaceBudget(k) \in Nat
            /\ InForce(IfaceBudget(k), k[2], IfaceLimits)
        BY <1>1, <2>0, EntryTypes DEF IfaceKeys
      <4>4. Bounded(b.tokens, k[2], IfaceLimits)
        <5>1. CASE ifaceBuckets[k] = NoBucket
          BY <1>0, <2>0, <4>3, <5>1, BucketBounded DEF IfaceBucket
        <5>2. CASE ifaceBuckets[k] # NoBucket
          <6>1. ifaceBuckets[k] \in Bucket /\ Bounded(ifaceBuckets[k].tokens, k[2], IfaceLimits)
            BY <5>2 DEF TypeOK, BurstBounded, IfaceTokens
          <6>2. Bounded(Refill(ifaceBuckets[k], IfaceBudget(k), now, len).tokens, k[2], IfaceLimits)
            BY <1>0, <2>0, <4>3, <6>1, BucketBounded
          <6> QED BY <5>2, <6>2 DEF IfaceBucket
        <5> QED BY <5>1, <5>2
      <4>5. ifaceBuckets'[k] = Charge(b, len)
        BY <4>2
      <4> HIDE DEF b
      <4>6. Bounded(Charge(b, len).tokens, k[2], IfaceLimits) /\ Charge(b, len) \in Bucket
        BY <1>0, <2>0, <4>3, <4>4, BucketBounded, ChargeType
      <4>7. Charge(b, len) # NoBucket
        BY <4>6, DataPathConstants
      <4> QED BY <4>5, <4>6, <4>7 DEF IfaceTokens
    <3> QED BY <3>1, <3>2
  <2>2. ASSUME NEW k \in DeviceFieldKeys PROVE Bounded(DeviceTokens(k)', k[3], DeviceAll)
    <3> DEFINE j == <<k[1], k[2]>>
               g == k[3]
    <3>0. j \in DeviceKeys /\ g \in Fields
      BY DEF DeviceFieldKeys, DeviceKeys
    <3>1. CASE deviceBuckets'[j] = deviceBuckets[j]
      BY <3>1 DEF BurstBounded, DeviceTokens
    <3>2. CASE deviceBuckets'[j] # deviceBuckets[j]
      <4>1. m \in Macs /\ ConsumeDevice(<<i, m>>, f, len)
        BY <1>6, <3>2 DEF Packet, DeviceLimited
      <4> DEFINE entry == DeviceEntry(j, f, len)
                 left  == [entry EXCEPT ![f] = Charge(@, len)]
      <4>2. j = <<i, m>> /\ deviceBuckets'[j] = left
        <5>1. <<i, m>> \in DeviceKeys /\ deviceBuckets \in [DeviceKeys -> [Fields -> Bucket] \cup {NoBucket}]
          BY <4>1 DEF DeviceKeys, TypeOK
        <5> QED BY <3>0, <3>2, <4>1, <5>1 DEF ConsumeDevice, Store
      <4>3. entry \in [Fields -> Bucket]
        BY <2>0, <3>0, EntryTypes
      <4>4. EffectiveBudget(DeviceLimit(j)[g]) \in Nat
            /\ InForce(EffectiveBudget(DeviceLimit(j)[g]), g, DeviceAll)
        BY <1>1, <3>0
      <4>5. Bounded(entry[g].tokens, g, DeviceAll)
        <5>1. CASE deviceBuckets[j] = NoBucket
          <6>1. entry[g] = NewBucket(EffectiveBudget(DeviceLimit(j)[g]), now)
            BY <3>0, <5>1 DEF DeviceEntry
          <6> QED BY <1>0, <2>0, <3>0, <4>4, <6>1, BucketBounded
        <5>2. CASE deviceBuckets[j] # NoBucket
          <6>1. /\ deviceBuckets[j] \in [Fields -> Bucket]
                /\ Bounded(deviceBuckets[j][g].tokens, g, DeviceAll)
            BY <3>0, <5>2 DEF TypeOK, BurstBounded, DeviceTokens
          <6>2. entry = [deviceBuckets[j] EXCEPT ![f] =
                           Refill(@, DeviceBudget(<<j[1], j[2], f>>), now, len)]
            BY <5>2 DEF DeviceEntry
          <6>3. CASE g = f
            <7>1. entry[g] = Refill(deviceBuckets[j][g], EffectiveBudget(DeviceLimit(j)[g]), now, len)
              BY <3>0, <6>1, <6>2, <6>3 DEF DeviceBudget
            <7>2. deviceBuckets[j][g] \in Bucket
              BY <3>0, <6>1
            <7> HIDE DEF j, g, entry
            <7> QED BY <1>0, <2>0, <3>0, <4>4, <6>1, <7>1, <7>2, BucketBounded
          <6>4. CASE g # f
            BY <3>0, <6>1, <6>2, <6>4
          <6> QED BY <6>3, <6>4
        <5> QED BY <5>1, <5>2
      <4>6. left \in [Fields -> Bucket] /\ Bounded(left[g].tokens, g, DeviceAll)
        <5>1. entry[g] \in Bucket
          BY <3>0, <4>3
        <5>2. Bounded(Charge(entry[g], len).tokens, g, DeviceAll) /\ Charge(entry[f], len) \in Bucket
          <6>1. Charge(entry[f], len) \in Bucket
            BY <2>0, <4>3, ChargeType
          <6> HIDE DEF j, g, entry
          <6>2. Bounded(Charge(entry[g], len).tokens, g, DeviceAll)
            BY <1>0, <2>0, <3>0, <4>4, <4>5, <5>1, BucketBounded
          <6> QED BY <6>1, <6>2
        <5> HIDE DEF entry, g
        <5>3. left[g] = IF g = f THEN Charge(entry[g], len) ELSE entry[g]
          BY <3>0, <4>3
        <5>4. left \in [Fields -> Bucket]
          BY <4>3, <5>2
        <5> QED BY <4>5, <5>2, <5>3, <5>4
      <4>7. deviceBuckets'[j] # NoBucket /\ Bounded(deviceBuckets'[j][g].tokens, g, DeviceAll)
        <5>1. left # NoBucket
          BY <4>6, DataPathConstants
        <5> HIDE DEF left
        <5> QED BY <4>2, <4>6, <5>1
      <4> QED BY <4>7 DEF DeviceTokens
    <3> QED BY <3>1, <3>2
  <2> QED BY <2>1, <2>2 DEF BurstBounded
<1>7. ASSUME NEW i \in Ifaces, NEW limit \in IfaceLimits, WriteIfaceLimit(i, limit)
      PROVE  Configured' /\ BurstBounded'
  <2>1. Configured'
    BY <1>7 DEF WriteIfaceLimit, Configured, TypeOK
  <2> QED BY <1>5, <1>7, <2>1 DEF WriteIfaceLimit
<1>8. ASSUME NEW m \in Macs, NEW limit \in GlobalLimits, WriteDeviceGlobal(m, limit)
      PROVE  Configured' /\ BurstBounded'
  <2>1. Configured'
    BY <1>8 DEF WriteDeviceGlobal, Configured, TypeOK
  <2> QED BY <1>5, <1>8, <2>1 DEF WriteDeviceGlobal
<1>9. ASSUME NEW k \in DeviceKeys, NEW limit \in DeviceLimits, WriteDeviceIface(k, limit)
      PROVE  Configured' /\ BurstBounded'
  <2>1. Configured'
    BY <1>9 DEF WriteDeviceIface, Configured, TypeOK
  <2> QED BY <1>5, <1>9, <2>1 DEF WriteDeviceIface
<1>10. ASSUME NEW d, Tick(d) PROVE Configured' /\ BurstBounded'
  BY <1>2, <1>5, <1>10 DEF Tick
<1>11. ASSUME NEW k, ObserveIface(k) \/ ObserveDevice(k) PROVE Configured' /\ BurstBounded'
  BY <1>2, <1>5, <1>11 DEF ObserveIface, ObserveDevice
<1>12. ASSUME UNCHANGED vars PROVE Configured' /\ BurstBounded'
  BY <1>2, <1>5, <1>12 DEF vars
<1>13. ASSUME NEW i \in Ifaces, NEW m \in Macs \cup {NoMac}, NEW t \in Traffic, NEW len \in Lengths,
              Packet(i, m, FieldOf(t[1], t[2]), len)
       PROVE  Configured' /\ BurstBounded'
  <2>1. FieldOf(t[1], t[2]) \in Fields
    BY DataPathConstants, FieldOfType
  <2> QED BY <1>2, <1>6, <1>13, <2>1 DEF Packet
<1> QED
  BY <1>7, <1>8, <1>9, <1>10, <1>11, <1>12, <1>13 DEF Next

(* Tokens never pile up, for every configuration and whichever limits        *)
(* replace one another: no bucket outgrows the longest packet or the burst   *)
(* of a limit that was configured (the cap of refill_bucket).               *)
THEOREM Bursts == Spec => []BurstBounded
<1>1. Init => Configured /\ BurstBounded
  <2> SUFFICES ASSUME Init PROVE Configured /\ BurstBounded
    OBVIOUS
  <2>1. Configured
    BY DEF Init, Configured
  <2>2. MaxLength \in Nat
    BY RateConstants, DataPathConstants DEF U64
  <2>3. \A k \in IfaceKeys : IfaceTokens(k) = 0
    BY DEF Init, IfaceTokens
  <2>4. \A k \in DeviceFieldKeys : DeviceTokens(k) = 0
    <3>1. \A k \in DeviceFieldKeys : <<k[1], k[2]>> \in DeviceKeys
      BY DEF DeviceFieldKeys, DeviceKeys
    <3> QED BY <3>1 DEF Init, DeviceTokens
  <2> QED BY <2>1, <2>2, <2>3, <2>4 DEF BurstBounded, Bounded
<1>2. TypeOK /\ (Configured /\ BurstBounded) /\ [Next]_vars => (Configured /\ BurstBounded)'
  BY NextBurst
<1> QED
  BY <1>1, <1>2, TypeCorrect, PTL DEF Spec
=============================================================================
