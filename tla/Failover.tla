------------------------------ MODULE Failover ------------------------------
(***************************************************************************)
(* What ProviderExecutor promises its caller, with retries, backoff and    *)
(* streaming left out: routes are settled one by one, in the order of the  *)
(* chain, until one serves the request; if none does, the error is decided *)
(* by what became of each route.  ADR 0003 describes it.                   *)
(***************************************************************************)
EXTENDS Naturals

CONSTANT MaxRoutes

VARIABLES
    length,   \* the number of routes in the chain
    verdict,  \* verdict[i]: what became of route i
    outcome   \* what the caller gets: a kind, and the route it is about

vars == <<length, verdict, outcome>>

Settled == {"unavailable", "unregistered", "failed"}
Pending == [kind |-> "pending", route |-> 0]
Served(i) == [kind |-> "served", route |-> i]
Aborted == [kind |-> "aborted", route |-> 0]

Chain == 1..length
With(v) == {i \in Chain : verdict[i] = v}
IsNext(i) == i \in With("untried") /\ \A j \in 1..(i - 1) : verdict[j] \in Settled

(* The last provider failure wins over every skipped route; an error about *)
(* the model needs every route to be refused; an error about an adapter    *)
(* names the first route without one.                                      *)
IsFailure(e) ==
    \/ /\ e.kind = "provider_error"
       /\ e.route \in With("failed")
       /\ \A j \in With("failed") : j <= e.route
    \/ /\ e = [kind |-> "not_available", route |-> 1]
       /\ With("unavailable") = Chain
    \/ /\ e.kind = "not_registered"
       /\ With("failed") = {}
       /\ e.route \in With("unregistered")
       /\ \A j \in With("unregistered") : e.route <= j

Init ==
    /\ length \in 1..MaxRoutes
    /\ verdict = [i \in 1..length |-> "untried"]
    /\ outcome = Pending

Settle(i, v) ==
    /\ outcome = Pending
    /\ IsNext(i)
    /\ verdict' = [verdict EXCEPT ![i] = v]
    /\ UNCHANGED <<length, outcome>>

Serve(i) ==
    /\ outcome = Pending
    /\ IsNext(i)
    /\ verdict' = [verdict EXCEPT ![i] = "served"]
    /\ outcome' = Served(i)
    /\ UNCHANGED length

(* The policy, the provider or the caller ends the call with an exception  *)
(* that is neither a refused model nor a provider error.                   *)
Abort ==
    /\ outcome = Pending
    /\ outcome' = Aborted
    /\ UNCHANGED <<length, verdict>>

GiveUp ==
    /\ outcome = Pending
    /\ \A i \in Chain : verdict[i] \in Settled
    /\ \E kind \in {"provider_error", "not_available", "not_registered"}, i \in Chain :
         /\ IsFailure([kind |-> kind, route |-> i])
         /\ outcome' = [kind |-> kind, route |-> i]
    /\ UNCHANGED <<length, verdict>>

Next ==
    \/ \E i \in Chain : Serve(i) \/ \E v \in Settled : Settle(i, v)
    \/ Abort
    \/ GiveUp

Spec == Init /\ [][Next]_vars
=============================================================================
