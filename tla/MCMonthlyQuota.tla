--------------------------- MODULE MCMonthlyQuota ---------------------------
(* Three requests over two months: a and b are the same cacheable request, *)
(* with two routes and an estimate of one token; c asks for the second     *)
(* model only, with no estimate and no cache.                              *)
EXTENDS MonthlyQuota, TLC

CONSTANTS a, b, c

MCChainOf == [r \in Requests |-> IF r = c THEN <<"m2">> ELSE <<"m1", "m2">>]
MCEstimateOf == [r \in Requests |-> IF r = c THEN 0 ELSE 1]
MCSymmetry == Permutations({a, b})
=============================================================================
