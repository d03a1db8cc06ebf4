---------------------------- MODULE MCTokenBucket ----------------------------
(* A small instance of TokenBucket for TLC. One second is eight clock units, *)
(* the burst window two and the initial window one, in the proportion of    *)
(* the source's 100 ms and 50 ms.                                           *)
EXTENDS TokenBucket, TLC

Up(rate) == [f \in Fields |-> IF f = "up_v4" THEN rate ELSE 0]

\* 95% of 10 is 9: one whole token a unit and a fraction; 95% of 2 is 1: an
\* eighth of a token a unit, so that the five units of one step buy nothing.
FastLimit == {NoLimits, Up(10)}
SlowLimit == {NoLimits, Up(2)}
UpTraffic == {<<"v4", "ingress">>}

DeviceSymmetry == Permutations(Macs)
=============================================================================
