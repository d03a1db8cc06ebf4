--------------------------- MODULE RateLimitProofs ---------------------------
(* Facts about the arithmetic of RateLimit, for every value of the constants *)
(* that RateConstants admits, the source's own among them.                   *)
EXTENDS RateLimit, TLAPS

(* Integer division and multiplication, as the solvers can use them.       *)
LEMMA Division ==
  ASSUME NEW a \in Nat, NEW d \in Nat \ {0}
  PROVE  /\ a \div d \in Nat /\ a % d \in 0 .. (d - 1)
         /\ a = d * (a \div d) + (a % d)
         /\ d * (a \div d) <= a /\ a < d * ((a \div d) + 1)
  BY SMT

LEMMA DivisionMonotone ==
  ASSUME NEW a \in Nat, NEW b \in Nat, NEW d \in Nat \ {0}, a <= b
  PROVE  a \div d <= b \div d
  BY SMT

LEMMA Product ==
  ASSUME NEW a \in Nat, NEW b \in Nat, NEW c \in Nat
  PROVE  /\ a * b \in Nat
         /\ a * (b + c) = a * b + a * c /\ (b + c) * a = b * a + c * a
         /\ b <= c => a * b <= a * c
         /\ a > 0 /\ b < c => a * b < a * c
  BY SMT

(* No bucket is ever given more than floor(budget * window / Second).      *)
LEMMA TokensForWindowBound ==
  ASSUME NEW budget \in Nat, NEW window \in Nat
  PROVE  /\ TokensForWindow(budget, window) \in U64
         /\ TokensForWindow(budget, window) * Second <= budget * window
<1> DEFINE whole == budget \div Second
           frac  == budget % Second
           part  == SatMul(frac, window) \div Second
<1>1. /\ whole \in Nat /\ frac \in Nat /\ budget = Second * whole + frac
      /\ Second \in Nat \ {0} /\ U64Max \in Nat
  BY Division, RateConstants
<1> HIDE DEF whole, frac
<1>2. /\ whole * window \in Nat /\ frac * window \in Nat
      /\ SatMul(whole, window) \in U64 /\ SatMul(whole, window) <= whole * window
      /\ SatMul(frac, window) \in Nat /\ SatMul(frac, window) <= frac * window
  BY <1>1, Product DEF SatMul, Lesser, U64
<1>3. part \in Nat /\ Second * part <= frac * window
  <2> DEFINE earned == SatMul(frac, window)
  <2>1. earned \in Nat /\ earned <= frac * window /\ frac * window \in Nat
    BY <1>2
  <2> HIDE DEF earned
  <2>2. earned \div Second \in Nat /\ Second * (earned \div Second) <= earned
    BY <1>1, <2>1, Division
  <2>3. Second * (earned \div Second) <= frac * window
    BY <1>1, <2>1, <2>2, Product
  <2> QED BY <2>2, <2>3 DEF earned
<1> DEFINE total == SatAdd(SatMul(whole, window), part)
<1>4. total \in U64 /\ total \in Nat /\ total <= whole * window + part
  BY <1>1, <1>2, <1>3 DEF SatAdd, Lesser, U64
<1> HIDE DEF part, total
<1>5. total * Second <= (whole * window + part) * Second
  BY <1>1, <1>2, <1>3, <1>4, Product
<1>6. (whole * window + part) * Second <= budget * window
  BY <1>1, <1>2, <1>3
<1>7. total * Second <= budget * window
  BY <1>1, <1>2, <1>3, <1>4, <1>5, <1>6, Product
<1> QED
  BY <1>4, <1>7 DEF TokensForWindow, whole, frac, part, total

(* A longer window never buys less: what is granted to a new bucket is      *)
(* within a burst.                                                          *)
LEMMA TokensForWindowMonotone ==
  ASSUME NEW budget \in Nat, NEW v \in Nat, NEW w \in Nat, v <= w
  PROVE  TokensForWindow(budget, v) <= TokensForWindow(budget, w)
<1> DEFINE whole == budget \div Second
           frac  == budget % Second
<1>1. whole \in Nat /\ frac \in Nat /\ Second \in Nat \ {0} /\ U64Max \in Nat
  BY Division, RateConstants
<1> HIDE DEF whole, frac
<1>2. whole * v <= whole * w /\ frac * v <= frac * w
      /\ whole * v \in Nat /\ frac * v \in Nat /\ whole * w \in Nat /\ frac * w \in Nat
  BY <1>1, Product
<1>3. /\ SatMul(whole, v) <= SatMul(whole, w) /\ SatMul(frac, v) <= SatMul(frac, w)
      /\ SatMul(whole, v) \in Nat /\ SatMul(whole, w) \in Nat
      /\ SatMul(frac, v) \in Nat /\ SatMul(frac, w) \in Nat
  BY <1>1, <1>2 DEF SatMul, Lesser
<1>4. /\ SatMul(frac, v) \div Second <= SatMul(frac, w) \div Second
      /\ SatMul(frac, v) \div Second \in Nat /\ SatMul(frac, w) \div Second \in Nat
  BY <1>1, <1>3, DivisionMonotone, Division
<1> QED
  BY <1>1, <1>3, <1>4 DEF TokensForWindow, SatAdd, Lesser, whole, frac

(* Refilling never credits more than the budget earned in the time.        *)
LEMMA RefillEarned ==
  ASSUME NEW budget \in Nat, NEW elapsed \in Nat
  PROVE  /\ RefillAmount(budget, elapsed) \in U64
         /\ RefillAmount(budget, elapsed) * Second <= budget * elapsed
<1> DEFINE time == Lesser(elapsed, Second)
<1>1. time \in Nat /\ time <= elapsed
  BY RateConstants DEF Lesser
<1> HIDE DEF time
<1>2. /\ TokensForWindow(budget, time) \in U64
      /\ TokensForWindow(budget, time) * Second <= budget * time
  BY <1>1, TokensForWindowBound
<1>3. budget * time <= budget * elapsed /\ budget * time \in Nat /\ budget * elapsed \in Nat
  BY <1>1, Product
<1>4. TokensForWindow(budget, time) * Second \in Nat
  BY <1>2, RateConstants, Product DEF U64
<1>5. TokensForWindow(budget, time) * Second <= budget * elapsed
  BY <1>2, <1>3, <1>4
<1> QED
  BY <1>2, <1>5 DEF RefillAmount, time

(* A refill that buys nothing leaves less than one token of time behind:    *)
(* what refill_bucket keeps by not moving last_refill.                      *)
LEMMA RefillNothing ==
  ASSUME NEW budget \in Nat \ {0}, NEW elapsed \in Nat, RefillAmount(budget, elapsed) = 0
  PROVE  budget * elapsed < Second
<1> DEFINE whole == budget \div Second
           frac  == budget % Second
           time  == Lesser(elapsed, Second)
<1>1. /\ whole \in Nat /\ frac \in 0 .. (Second - 1) /\ budget = Second * whole + frac
      /\ Second \in Nat \ {0} /\ U64Max \in Nat /\ Second * Second <= U64Max
  BY Division, RateConstants
<1>2. time \in Nat /\ time <= Second /\ (time = elapsed \/ time = Second)
  BY <1>1 DEF Lesser
<1> HIDE DEF whole, frac, time
<1>3. /\ whole * time \in Nat /\ frac * time \in Nat /\ frac * time <= frac * Second
      /\ frac * Second <= Second * Second /\ Second * Second \in Nat
  BY <1>1, <1>2, Product
<1>4. SatMul(frac, time) = frac * time
  BY <1>1, <1>3 DEF SatMul, Lesser
<1>5. SatAdd(SatMul(whole, time), (frac * time) \div Second) = 0
  BY <1>4 DEF RefillAmount, TokensForWindow, whole, frac, time
<1>6. (frac * time) \div Second \in Nat /\ frac * time < Second * (((frac * time) \div Second) + 1)
  BY <1>1, <1>3, Division
<1>7. SatMul(whole, time) \in Nat
  BY <1>1, <1>3 DEF SatMul, Lesser
<1>8. SatMul(whole, time) = 0 /\ (frac * time) \div Second = 0
  BY <1>1, <1>5, <1>6, <1>7, RateConstants DEF SatAdd, Lesser
<1>9. whole * time = 0 /\ frac * time < Second
  BY <1>1, <1>3, <1>6, <1>8, RateConstants DEF SatMul, Lesser
<1>10. budget * time = Second * (whole * time) + frac * time
  BY <1>1, <1>2
<1>11. budget * time < Second
  BY <1>1, <1>3, <1>9, <1>10
<1>12. time = elapsed
  <2>1. SUFFICES ASSUME time = Second PROVE FALSE
    BY <1>2
  <2>2. Second * 1 <= Second * budget
    BY <1>1, Product
  <2> QED BY <1>1, <1>11, <2>1, <2>2
<1> QED
  BY <1>11, <1>12

(* Scaling keeps a limit a limit: 0 stays 0 and nothing else becomes 0.    *)
LEMMA EffectiveBudgetType ==
  ASSUME NEW raw \in U64
  PROVE  EffectiveBudget(raw) \in U64 /\ (EffectiveBudget(raw) = 0 <=> raw = 0)
<1>1. SatMul(raw, SafetyPercent) \in U64
  BY RateConstants, Product DEF SatMul, Lesser, U64
<1>2. SatMul(raw, SafetyPercent) \div 100 \in U64
  BY <1>1, RateConstants DEF U64
<1> QED
  BY <1>2, RateConstants DEF EffectiveBudget, Greater, U64

(* Limits form a lattice with "unlimited" (0) as its top: the stricter of   *)
(* several limits does not depend on the order or the grouping in which the *)
(* data path and the policy engine combine them, repeating a limit changes  *)
(* nothing, and the result is unlimited only where every limit is           *)
(* (stricter_limit_value, merge_limit).                                     *)
THEOREM StricterLattice ==
  ASSUME NEW a \in Limit, NEW b \in Limit, NEW c \in Limit
  PROVE  /\ StricterLimit(a, b) \in Limit
         /\ StricterLimit(a, b) = StricterLimit(b, a)
         /\ StricterLimit(a, StricterLimit(b, c)) = StricterLimit(StricterLimit(a, b), c)
         /\ StricterLimit(a, a) = a /\ StricterLimit(a, NoLimits) = a
         /\ \A f \in Fields : /\ StricterLimit(a, b)[f] = 0 <=> a[f] = 0 /\ b[f] = 0
                              /\ a[f] > 0 => StricterLimit(a, b)[f] <= a[f]
<1>1. \A f \in Fields : a[f] \in Nat /\ b[f] \in Nat /\ c[f] \in Nat
  BY RateConstants DEF Limit, U64
<1>2. StricterLimit(a, b) \in Limit
  BY DEF StricterLimit, StricterField, Lesser, Limit, U64
<1>3. StricterLimit(a, b) = StricterLimit(b, a)
  BY <1>1 DEF StricterLimit, StricterField, Lesser
<1>4. StricterLimit(a, StricterLimit(b, c)) = StricterLimit(StricterLimit(a, b), c)
  BY <1>1 DEF StricterLimit, StricterField, Lesser
<1>5. StricterLimit(a, a) = a /\ StricterLimit(a, NoLimits) = a
  BY <1>1 DEF StricterLimit, StricterField, Lesser, NoLimits, Limit
<1>6. \A f \in Fields : /\ StricterLimit(a, b)[f] = 0 <=> a[f] = 0 /\ b[f] = 0
                        /\ a[f] > 0 => StricterLimit(a, b)[f] <= a[f]
  BY <1>1 DEF StricterLimit, StricterField, Lesser
<1> QED
  BY <1>2, <1>3, <1>4, <1>5, <1>6
=============================================================================
