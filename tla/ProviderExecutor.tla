-------------------------- MODULE ProviderExecutor --------------------------
(***************************************************************************)
(* ProviderExecutor.execute and .stream                                    *)
(* (application/resilience/provider_executor.py): one call, over a chain   *)
(* of routes, each tried with bounded retries.  Every await is an action:  *)
(* the policy hook, a provider call, a streamed event, a backoff sleep.    *)
(* The policy and the consumer of the stream do what they like at each of  *)
(* them; what a provider does is in Adapters.                              *)
(***************************************************************************)
EXTENDS Naturals, Adapters, Routing, FiniteSetsExt

CONSTANTS
    Models,        \* models a client may request or a catalog may list
    Providers,     \* provider names, those of the adapters
    MaxRetries,    \* provider_max_retries: at most MaxRetries + 1 calls of a route
    MaxFallbacks,  \* bound: entries of a model in the failover catalog
    MaxEvents      \* bound: events a provider streams in one call

ASSUME ExecutorAssumption ==
    /\ MaxRetries \in Nat
    /\ MaxFallbacks \in Nat
    /\ MaxEvents \in Nat
    /\ NoProvider \notin Providers

VARIABLES
    mode,         \* "execute" or "stream"
    request,      \* what is hard to translate in the request
    routes,       \* the chain: model and provider of each route
    registered,   \* providers with an adapter
    i,            \* the route of the current iteration of the for loop
    at,           \* the await the call stands at
    attempt,      \* retries made on this route
    started,      \* stream: an event of this route has been yielded
    lastError,    \* route of the last ProviderError, or 0
    unavailable,  \* skipped_unavailable: number of routes refused by policy
    unregistered, \* skipped_unregistered: routes whose adapter is missing
    result,       \* how the call ended
    calls,        \* history: provider calls made per route, counted up to
                  \* one more than are allowed
    answered,     \* history: complete answers of each route, counted up to 2
    events,       \* history: the route of every event yielded
    verdict       \* history: what became of each route

call == <<mode, request, routes, registered>>
loop == <<i, at, attempt, started, lastError, unavailable, unregistered>>
history == <<calls, answered, events, verdict>>
vars == <<call, loop, result, history>>

Chain == 1..Len(routes)
Running == [kind |-> "pending", route |-> 0]

(* _routes_for: with failover disabled the failover catalog is not looked  *)
(* at, as if it had no entry.  A model that the catalog does not list is   *)
(* refused before anything else.                                           *)
RoutesFor(model) ==
    {RouteChain(model, catalog, fallbacks) :
        catalog \in {c \in [Models -> Providers \cup {NoProvider}] : Supported(model, c)},
        fallbacks \in UNION {[1..n -> Models] : n \in 0..MaxFallbacks}}

Init ==
    /\ mode \in {"execute", "stream"}
    /\ request \in Requests
    /\ routes \in UNION {RoutesFor(model) : model \in Models}
    /\ registered \in SUBSET Providers
    /\ i = 1 /\ at = "hook" /\ attempt = 0 /\ started = FALSE
    /\ lastError = 0 /\ unavailable = 0 /\ unregistered = <<>>
    /\ result = Running
    /\ calls = [j \in 1..Len(routes) |-> 0]
    /\ answered = [j \in 1..Len(routes) |-> 0]
    /\ events = <<>>
    /\ verdict = [j \in 1..Len(routes) |-> "untried"]

-----------------------------------------------------------------------------
Finish(kind, route) ==
    /\ at' = "done"
    /\ result' = [kind |-> kind, route |-> route]

(* "continue": on to the next route, or out of the loop.                   *)
Continue(v) ==
    /\ verdict' = [verdict EXCEPT ![i] = v]
    /\ i' = i + 1
    /\ at' = IF i = Len(routes) THEN "decide" ELSE "hook"
    /\ UNCHANGED result

Invoke ==
    /\ at' = "call"
    /\ started' = FALSE
    /\ calls' = [calls EXCEPT ![i] = IF @ <= MaxRetries + 1 THEN @ + 1 ELSE @]

(* before_route and, in the same step, ModelRouter.resolve.                *)
HookAllows ==
    /\ at = "hook"
    /\ routes[i].provider \in registered
    /\ attempt' = 0
    /\ Invoke
    /\ UNCHANGED <<call, i, lastError, unavailable, unregistered, result, answered,
                   events, verdict>>

HookAllowsUnregistered ==
    /\ at = "hook"
    /\ routes[i].provider \notin registered
    /\ unregistered' = Append(unregistered, i)
    /\ Continue("unregistered")
    /\ UNCHANGED <<call, attempt, started, lastError, unavailable, calls, answered, events>>

HookRefuses ==
    /\ at = "hook"
    /\ unavailable' = unavailable + 1
    /\ Continue("unavailable")
    /\ UNCHANGED <<call, attempt, started, lastError, unregistered, calls, answered, events>>

(* QuotaExceededError, or any exception but ModelNotAvailableError.        *)
HookRaises ==
    /\ at = "hook"
    /\ Finish("aborted", 0)
    /\ UNCHANGED <<call, i, attempt, started, lastError, unavailable, unregistered, history>>

-----------------------------------------------------------------------------
(* The adapter of the route makes something of an answer; an untranslated  *)
(* request is not even sent.                                               *)
Receives(answer, outcome) ==
    /\ Outcome(routes[i].provider, request, answer) = outcome
    /\ answered' = [answered EXCEPT ![i] =
                       IF Translates(routes[i].provider, request) /\ IsComplete(answer) /\ @ < 2
                       THEN @ + 1 ELSE @]

CallSucceeds(answer) ==
    /\ mode = "execute"
    /\ Receives(answer, "served")
    /\ verdict' = [verdict EXCEPT ![i] = "served"]
    /\ Finish("served", i)
    /\ UNCHANGED <<call, i, attempt, started, lastError, unavailable, unregistered,
                   calls, events>>

\* Variant: the bound is compared with <= instead of <.
RetryAllowedOnceMore(retryable) == retryable /\ attempt <= MaxRetries /\ ~started
\* Variant: a stream is retried although the client has seen events.
RetryAllowedMidStream(retryable) == retryable /\ attempt < MaxRetries

RetryAllowed(retryable) == retryable /\ attempt < MaxRetries /\ ~started

\* Variant: the retry does not count.
CallRetriesUncounted(answer) ==
    /\ RetryAllowed(TRUE)
    /\ Receives(answer, "transient")
    /\ at' = "backoff"
    /\ UNCHANGED <<call, i, attempt, started, lastError, unavailable, unregistered,
                   result, calls, events, verdict>>

(* A ProviderError before the first event: retry, or try the next route.   *)
CallRetries(answer) ==
    /\ RetryAllowed(TRUE)
    /\ Receives(answer, "transient")
    /\ attempt' = attempt + 1
    /\ at' = "backoff"
    /\ UNCHANGED <<call, i, started, lastError, unavailable, unregistered, result,
                   calls, events, verdict>>

CallFails(answer) ==
    /\ ~started
    /\ \E outcome \in {"transient", "final"} :
        /\ Receives(answer, outcome)
        /\ ~RetryAllowed(outcome = "transient")
    /\ lastError' = i
    /\ Continue("failed")
    /\ UNCHANGED <<call, attempt, started, unavailable, unregistered, calls, events>>

(* An exception that is not a ProviderError is not caught anywhere.        *)
CallRaises ==
    /\ at = "call" /\ ~started
    /\ Finish("aborted", 0)
    /\ UNCHANGED <<call, i, attempt, started, lastError, unavailable, unregistered, history>>

Backoff ==
    /\ at = "backoff"
    /\ Invoke
    /\ UNCHANGED <<call, i, attempt, lastError, unavailable, unregistered, result,
                   answered, events, verdict>>

-----------------------------------------------------------------------------
(* Streaming: events are handed to the consumer as they come.              *)
StreamEvent ==
    /\ at = "call" /\ mode = "stream"
    /\ Translates(routes[i].provider, request)
    /\ Len(events) < MaxEvents
    /\ started' = TRUE
    /\ events' = Append(events, i)
    /\ verdict' = [verdict EXCEPT ![i] = "served"]
    /\ UNCHANGED <<call, i, at, attempt, lastError, unavailable, unregistered, result,
                   calls, answered>>

(* The provider's stream ends, possibly without having yielded anything.   *)
StreamEnds ==
    /\ at = "call" /\ mode = "stream"
    /\ Translates(routes[i].provider, request)
    /\ verdict' = [verdict EXCEPT ![i] = "served"]
    /\ Finish("served", i)
    /\ UNCHANGED <<call, i, attempt, started, lastError, unavailable, unregistered,
                   calls, answered, events>>

(* Any error after the first event reaches the consumer as it is.          *)
StreamBreaks ==
    /\ at = "call" /\ started
    /\ Finish("broken", i)
    /\ UNCHANGED <<call, i, attempt, started, lastError, unavailable, unregistered, history>>

(* The consumer closes the generator: GeneratorExit at the yield.          *)
ConsumerLeaves ==
    /\ at = "call" /\ started
    /\ Finish("closed", i)
    /\ UNCHANGED <<call, i, attempt, started, lastError, unavailable, unregistered, history>>

-----------------------------------------------------------------------------
(* After the loop: which error is raised.                                  *)
\* Variant: one refused route is enough to report the model as refused.
DecideEagerly ==
    IF lastError # 0 THEN Finish("provider_error", lastError)
    ELSE IF unavailable > 0 THEN Finish("not_available", 1)
    ELSE IF unregistered # <<>> THEN Finish("not_registered", Head(unregistered))
    ELSE Finish("not_registered", 1)

Decision ==
    IF lastError # 0 THEN Finish("provider_error", lastError)
    ELSE IF unavailable > 0 /\ unavailable = Len(routes) THEN Finish("not_available", 1)
    ELSE IF unregistered # <<>> THEN Finish("not_registered", Head(unregistered))
    ELSE Finish("not_registered", 1)

Decide ==
    /\ at = "decide"
    /\ Decision
    /\ UNCHANGED <<call, i, attempt, started, lastError, unavailable, unregistered, history>>

Hook == HookAllows \/ HookAllowsUnregistered \/ HookRefuses \/ HookRaises
Call == \/ /\ at = "call"
           /\ \E answer \in Answers :
                CallSucceeds(answer) \/ CallRetries(answer) \/ CallFails(answer)
        \/ CallRaises \/ Backoff
Stream == StreamEvent \/ StreamEnds \/ StreamBreaks \/ ConsumerLeaves
Step == Hook \/ Call \/ Stream \/ Decide

Idle == at = "done" /\ UNCHANGED vars
Next == Step \/ Idle

Spec == Init /\ [][Next]_vars

(* Awaits end: a provider call by its HTTP timeout, a sleep by the clock;  *)
(* that the hook's database read ends, which has no timeout, is assumed.   *)
FairSpec == Spec /\ WF_vars(Step)

-----------------------------------------------------------------------------
(* Properties.                                                             *)
TypeOK ==
    /\ mode \in {"execute", "stream"}
    /\ request \in Requests
    /\ routes \in Seq([model : Models, provider : Providers])
    /\ Len(routes) \in 1..(MaxFallbacks + 1)
    /\ registered \in SUBSET Providers
    /\ i \in 1..(Len(routes) + 1)
    /\ at \in {"hook", "call", "backoff", "decide", "done"}
    /\ attempt \in 0..MaxRetries
    /\ started \in BOOLEAN
    /\ lastError \in 0..Len(routes)
    /\ unavailable \in 0..Len(routes)
    /\ unregistered \in Seq(Chain)
    /\ result \in [kind : {"pending", "served", "broken", "closed", "aborted",
                           "provider_error", "not_available", "not_registered"},
                   route : 0..Len(routes)]
    /\ calls \in [Chain -> Nat]
    /\ answered \in [Chain -> 0..2]
    /\ events \in Seq(Chain)
    /\ verdict \in [Chain -> {"untried", "unavailable", "unregistered", "failed", "served"}]

(* However often the failover catalog names it, a model is called at most  *)
(* MaxRetries + 1 times, and not at all once the policy refused it or when *)
(* its provider has no adapter.                                            *)
CallsAreBounded ==
    \A j \in Chain :
        /\ MapThenSumSet(LAMBDA k : calls[k],
                         {k \in Chain : routes[k].model = routes[j].model}) <= MaxRetries + 1
        /\ verdict[j] \in {"unavailable", "unregistered"} => calls[j] = 0

(* Once the client has been sent an event no provider is called again, so  *)
(* nothing it has seen is generated twice or continued by another model.   *)
RouteIsSticky == [][events # <<>> => calls' = calls]_vars

(* A provider that has answered in full is paid, so the same route is not  *)
(* asked again, however unusable the answer is; and of a request that its  *)
(* adapter cannot translate it never hears.                                *)
AnsweredOnce ==
    \A j \in Chain :
        /\ answered[j] <= 1
        /\ result.kind = "served" /\ mode = "execute" => answered[result.route] = 1
        /\ ~Translates(routes[j].provider, request) => answered[j] = 0 /\ calls[j] <= 1

(* The executor implements Failover: retries, backoff and the rest of a    *)
(* stream are stuttering, and the error follows from the routes' verdicts. *)
AbstractOutcome ==
    CASE started -> [kind |-> "served", route |-> i]
      [] OTHER -> result
F == INSTANCE Failover WITH MaxRoutes <- MaxFallbacks + 1,
                            length <- Len(routes), outcome <- AbstractOutcome
ImplementsFailover == F!Spec

(* Every call comes to an end.                                             *)
CallEnds == <>(at = "done")
=============================================================================
