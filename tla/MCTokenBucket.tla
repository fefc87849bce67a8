--------------------------- MODULE MCTokenBucket ----------------------------
(* Two calls of two processes, which differ only by what they have read    *)
(* and by their clocks, and both of those are state.                       *)
EXTENDS TokenBucket, TLC

CONSTANTS p1, p2, c1, c2

MCSymmetry == Permutations({p1, p2}) \cup Permutations({c1, c2})
=============================================================================
