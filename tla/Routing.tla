------------------------------- MODULE Routing -------------------------------
(***************************************************************************)
(* Route resolution (domain/routing.py): the provider of a model, and the  *)
(* chain of routes to try for a request.  A catalog maps each model to its *)
(* provider, or to NoProvider if it does not list the model.               *)
(***************************************************************************)
EXTENDS Sequences, SequencesExt

CONSTANT NoProvider

Supported(model, catalog) == catalog[model] # NoProvider
Route(model, catalog) == [model |-> model, provider |-> catalog[model]]

(* A fallback that the catalog does not list, or that is in the chain      *)
(* already, is passed over.                                                *)
\* Variant: the models in the chain are not remembered.
ExtendRepeating(chain, model, catalog) ==
    IF Supported(model, catalog) THEN Append(chain, Route(model, catalog)) ELSE chain

Extend(chain, model, catalog) ==
    IF Supported(model, catalog) /\ \A i \in 1..Len(chain) : chain[i].model # model
    THEN Append(chain, Route(model, catalog)) ELSE chain

RouteChain(model, catalog, fallbacks) ==
    FoldLeft(LAMBDA chain, fallback : Extend(chain, fallback, catalog),
             <<Route(model, catalog)>>, fallbacks)
=============================================================================
