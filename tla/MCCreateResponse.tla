-------------------------- MODULE MCCreateResponse --------------------------
(* Small instances of CreateResponse.  Three requests are the fewest in    *)
(* which a key is claimed and failed by one request while a second one     *)
(* slips past the lease and a third claims it again.                       *)
EXTENDS CreateResponse, TLC

CONSTANTS r1, r2, r3, k1, f1

MCRequests == {r1, r2, r3}

(* All share one key, and all opt in to the cache with one fingerprint.    *)
MCKeyOf == [r \in MCRequests |-> k1]
MCPrintOf == [r \in MCRequests |-> f1]

(* r3 has no key and r2 does not use the cache.                            *)
MCKeyOfMixed == (r1 :> k1) @@ (r2 :> k1) @@ (r3 :> NoKey)
MCPrintOfMixed == (r1 :> f1) @@ (r2 :> NoPrint) @@ (r3 :> f1)

(* No request carries an Idempotency-Key.                                  *)
MCKeyOfNone == [r \in MCRequests |-> NoKey]

(* Correlation ids: generated by the server, or r1's reused by r2.         *)
MCIdOf == [r \in MCRequests |-> r]
MCIdOfReused == [r \in MCRequests |-> IF r = r2 THEN r1 ELSE r]

MCSymmetry == Permutations(MCRequests)
=============================================================================
