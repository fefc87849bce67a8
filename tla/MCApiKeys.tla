----------------------------- MODULE MCApiKeys ------------------------------
(* Three operator calls and one tenant request: two calls race on the one  *)
(* key that exists, and the third follows them or interferes.              *)
EXTENDS ApiKeys, TLC

CONSTANTS c1, c2, c3, k1, k2, k3, k4

MCSymmetry == Permutations({c1, c2, c3}) \cup Permutations({k2, k3, k4})
=============================================================================
