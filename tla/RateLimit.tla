------------------------------ MODULE RateLimit ------------------------------
(***************************************************************************)
(* The arithmetic of rate limiting: the pure functions of the eBPF data    *)
(* path (bandix-plus-ebpf/src/main.rs) that turn a configured limit into a *)
(* number of tokens, and the lattice of limits shared by the data path and *)
(* the policy engine (policy.rs merge_limit / stricter_limit).             *)
(*                                                                         *)
(* The u64 arithmetic saturates at U64Max; times are in clock units, of    *)
(* which there are Second in a second.                                     *)
(***************************************************************************)
EXTENDS Integers

CONSTANTS
  U64Max,        \* the largest u64
  Second,        \* BPS_DENOM_NS
  BurstWindow,   \* BURST_WINDOW_NS
  InitWindow,    \* INIT_WINDOW_NS
  SafetyPercent  \* RATE_SAFETY_PERCENT

(* The source's values satisfy all of this (10^9 * 10^9 < 2^64 - 1): the   *)
(* fractional products frac * elapsed never saturate.                      *)
ASSUME RateConstants ==
  /\ U64Max \in Nat /\ Second \in Nat \ {0}
  /\ InitWindow \in 1 .. Second /\ BurstWindow \in InitWindow .. Second
  /\ SafetyPercent \in 1 .. 100
  /\ Second * Second <= U64Max /\ 100 <= U64Max

U64 == 0 .. U64Max

Lesser(a, b)  == IF a < b THEN a ELSE b
Greater(a, b) == IF a < b THEN b ELSE a

-----------------------------------------------------------------------------
(* The four fields of a RateLimitValue: an IP version and a direction.     *)

Versions   == {"v4", "v6"}
Directions == {"ingress", "egress"}
Fields     == {"up_v4", "up_v6", "down_v4", "down_v6"}
Limit      == [Fields -> U64]
NoLimits   == [f \in Fields |-> 0]

(* Ingress traffic of an interface is upload, egress traffic is download.  *)
FieldOf(version, direction) ==
  CASE version = "v4" /\ direction = "ingress" -> "up_v4"
    [] version = "v6" /\ direction = "ingress" -> "up_v6"
    [] version = "v4" /\ direction = "egress"  -> "down_v4"
    [] version = "v6" /\ direction = "egress"  -> "down_v6"

ProjectBudget(limit, version, direction) == limit[FieldOf(version, direction)]

(* 0 means unlimited, so it is the top of the order and not its bottom.    *)
StricterField(a, b) ==
  IF a = 0 THEN b ELSE IF b = 0 THEN a ELSE Lesser(a, b)

StricterLimit(a, b) == [f \in Fields |-> StricterField(a[f], b[f])]

-----------------------------------------------------------------------------
(* Saturating u64 arithmetic and the budget conversions.                   *)

SatAdd(a, b) == Lesser(a + b, U64Max)
SatMul(a, b) == Lesser(a * b, U64Max)

(* A non-zero limit never becomes zero (which would mean unlimited).       *)
EffectiveBudget(raw) ==
  IF raw = 0 THEN 0 ELSE Greater(SatMul(raw, SafetyPercent) \div 100, 1)

(* floor(budget * window / Second), split to stay within 64 bits.          *)
TokensForWindow(budget, window) ==
  SatAdd(SatMul(budget \div Second, window),
         SatMul(budget % Second, window) \div Second)

(* What refill_bucket earns in a time: at most one second is credited.     *)
RefillAmount(budget, elapsed) ==
  TokensForWindow(budget, Lesser(elapsed, Second))

Bucket == [tokens : U64, last : Nat]

(* Mutations of Refill: the time is not moved on; the tokens are not capped. *)
RefillKeepingTime(b, budget, now, len) ==
  IF now <= b.last THEN b
  ELSE [b EXCEPT !.tokens = Lesser(SatAdd(@, RefillAmount(budget, now - b.last)),
                                   Greater(TokensForWindow(budget, BurstWindow), len))]

RefillUncapped(b, budget, now, len) ==
  IF now <= b.last \/ RefillAmount(budget, now - b.last) = 0 THEN b
  ELSE [tokens |-> SatAdd(b.tokens, RefillAmount(budget, now - b.last)), last |-> now]

(* refill_bucket: the time since `last` is spent only when it buys at least *)
(* one token; a refill clamps the tokens to the burst cap, or to the length *)
(* of the packet at hand when that is larger.                               *)
Refill(b, budget, now, len) ==
  LET refill == RefillAmount(budget, now - b.last)
      cap    == Greater(TokensForWindow(budget, BurstWindow), len)
  IN  IF now <= b.last \/ refill = 0
        THEN b
        ELSE [tokens |-> Lesser(SatAdd(b.tokens, refill), cap), last |-> now]

Admits(b, len) == b.tokens >= len

(* Mutation of Charge: a refused packet is charged too.                    *)
ChargeAlways(b, len) == [b EXCEPT !.tokens = @ - len]

(* The bucket a packet leaves behind: charged when it is admitted.         *)
Charge(b, len) ==
  IF Admits(b, len) THEN [b EXCEPT !.tokens = @ - len] ELSE b

NewBucket(budget, now) ==
  [tokens |-> TokensForWindow(budget, InitWindow), last |-> now]
=============================================================================
