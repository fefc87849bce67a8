---------------------------- MODULE MonthlyQuota ----------------------------
(***************************************************************************)
(* EnforceOrganizationPolicy (application/policy) as the route hook of     *)
(* CreateResponse: before each route of a request's chain the model        *)
(* entitlements, the policy row and the month's usage are read, one        *)
(* statement after another; the tokens a generation uses are inserted      *)
(* after the provider call.  Nothing is reserved in between, so requests   *)
(* that are in flight together do not see each other's tokens.  A request  *)
(* that finds its response in the cache is checked once, for the model it  *)
(* requested, and uses no tokens.                                          *)
(*                                                                         *)
(* Instants are counted in ticks, so many to a second; a month is a number *)
(* of seconds.  One organization; its policy is changed in the database.   *)
(***************************************************************************)
EXTENDS Integers, Sequences, FiniteSetsExt

CONSTANTS
    Requests,
    Models,
    ChainOf,         \* ChainOf[r]: the models of r's route chain
    EstimateOf,      \* EstimateOf[r]: its max_output_tokens, or 0 for none
    Caching,         \* requests with cache: true; their messages are the same
    Nobody,          \* no request
    Limits,          \* monthly_token_limit values; Unlimited is NULL
    Unlimited,
    MaxTokens,       \* bound: tokens one generation uses
    TicksPerSecond,
    SecondsPerMonth,
    MaxTime,         \* bound: ticks modelled
    MaxChanges       \* bound: changes of the policy

ASSUME QuotaAssumption ==
    /\ ChainOf \in [Requests -> Seq(Models) \ {<<>>}]
    /\ EstimateOf \in [Requests -> Nat]
    /\ IsFiniteSet(Requests)
    /\ Caching \subseteq Requests /\ Nobody \notin Requests
    /\ Limits \subseteq Nat \ {0}
    /\ Unlimited \notin Limits
    /\ MaxTokens \in Nat /\ MaxTime \in Nat /\ MaxChanges \in Nat
    /\ TicksPerSecond \in Nat \ {0} /\ SecondsPerMonth \in Nat \ {0}

VARIABLES
    time,       \* now
    limit,      \* organization_policies.monthly_token_limit
    entitled,   \* organization_model_entitlements
    pc,         \* pc[r]: the await r stands at, or how it ended
    route,      \* route[r]: its position in the chain
    now,        \* now[r]: the clock reading of the quota check in progress, or 0
    ceiling,    \* ceiling[r]: the limit that check has read, or 0
    row,        \* row[r]: tokens of its usage row and month of created_at, once generated
    cache,      \* cache[f]: the request whose response is cached under f, or Nobody
    source,     \* source[r]: the request whose response r found there, or Nobody
    comeback,   \* history: when the Retry-After of r's 429 has passed, or 0
    everEntitled, \* history: models r was entitled to at some time since it arrived
    highest,    \* history: the highest limit so far
    peak,       \* history: the most requests between clock and insert so far
    changes     \* policy changes so far

policy == <<limit, entitled, changes>>
history == <<comeback, everEntitled, highest, peak>>
requests == <<pc, route, now, ceiling, row, cache, source>>
vars == <<time, policy, requests, history>>

-----------------------------------------------------------------------------
(* domain/organization_policy.py                                           *)
IsModelAllowed(model) == entitled = {} \/ model \in entitled

\* Variant: > where the code has >=.
WouldExceedStrictly(used, bound, more) == used + more > bound
WouldExceed(used, bound, more) == used + more >= bound

MonthTicks == TicksPerSecond * SecondsPerMonth
MonthOf(t) == t \div MonthTicks
MonthEnd(t) == (MonthOf(t) + 1) * MonthTicks

\* Variant: the seconds since the start of the month.
SecondsIntoMonth(t) == Max({1, (t % MonthTicks) \div TicksPerSecond})
SecondsUntilMonthEnd(t) == Max({1, (MonthEnd(t) - t) \div TicksPerSecond})

(* fingerprint_generation_request: model, messages, max_output_tokens.     *)
Fingerprint(r) == <<ChainOf[r][1], EstimateOf[r]>>
Fingerprints == {Fingerprint(r) : r \in Caching}

Committed == {r \in Requests : pc[r] \in {"fill", "served"}}

(* The sum of the tokens of a month's rows, counting tokens one by one.    *)
TokensIn(month) ==
    {token \in Requests \X (1..MaxTokens) :
        LET r == token[1] IN r \in Committed /\ row[r].month = month /\ token[2] <= row[r].tokens}
Used(month) == Cardinality(TokensIn(month))

AtOrAbove(a, b) == a = Unlimited \/ (b # Unlimited /\ a >= b)
NoRow == [tokens |-> 0, month |-> 0]
Steps == {"lookup", "entitle", "policy", "sum", "generate", "record", "fill"}
Ends == {"served", "replayed", "refused", "exceeded", "failed"}
IsHit(r) == source[r] # Nobody
InFlight == {r \in Requests : pc[r] \in {"sum", "generate", "record"} /\ ~IsHit(r)}

Init ==
    /\ time = 0
    /\ limit \in Limits
    /\ entitled \in SUBSET Models
    /\ pc = [r \in Requests |-> "arriving"]
    /\ route = [r \in Requests |-> 1]
    /\ now = [r \in Requests |-> 0]
    /\ ceiling = [r \in Requests |-> 0]
    /\ row = [r \in Requests |-> NoRow]
    /\ cache = [f \in Fingerprints |-> Nobody]
    /\ source = [r \in Requests |-> Nobody]
    /\ comeback = [r \in Requests |-> 0]
    /\ everEntitled = [r \in Requests |-> {}]
    /\ highest = limit
    /\ peak = 0
    /\ changes = 0

-----------------------------------------------------------------------------
Goto(r, step) == pc' = [pc EXCEPT ![r] = step]

\* Variant: the end of the chain is not noticed.
TryPastEnd(r, ending) == Goto(r, "entitle") /\ route' = [route EXCEPT ![r] = @ + 1]

(* On to the next route, or the end of the chain.                          *)
TryNext(r, ending) ==
    IF route[r] = Len(ChainOf[r])
    THEN Goto(r, ending) /\ UNCHANGED route
    ELSE Goto(r, "entitle") /\ route' = [route EXCEPT ![r] = @ + 1]

\* Variant: every route is checked as if it were the requested model.
CheckedRequested(r) == ChainOf[r][1]
Checked(r) == ChainOf[r][route[r]]

Arrive(r) ==
    /\ pc[r] = "arriving"
    /\ Goto(r, IF r \in Caching THEN "lookup" ELSE "entitle")
    /\ everEntitled' = [everEntitled EXCEPT ![r] = {m \in Models : IsModelAllowed(m)}]
    /\ UNCHANGED <<time, policy, route, now, ceiling, row, cache, source,
                   comeback, highest, peak>>

(* The response cache.  An entry that has expired, and a Redis error, are  *)
(* a miss too.                                                             *)
\* Variant: a hit is answered without a look at the policy.
LookupHitUnchecked(r) ==
    /\ pc[r] = "lookup" /\ cache[Fingerprint(r)] # Nobody
    /\ source' = [source EXCEPT ![r] = cache[Fingerprint(r)]]
    /\ Goto(r, "replayed")
    /\ UNCHANGED <<time, policy, route, now, ceiling, row, cache, history>>

LookupHit(r) ==
    /\ pc[r] = "lookup" /\ cache[Fingerprint(r)] # Nobody
    /\ source' = [source EXCEPT ![r] = cache[Fingerprint(r)]]
    /\ Goto(r, "entitle")
    /\ UNCHANGED <<time, policy, route, now, ceiling, row, cache, history>>

LookupMiss(r) ==
    /\ pc[r] = "lookup"
    /\ Goto(r, "entitle")
    /\ UNCHANGED <<time, policy, route, now, ceiling, row, cache, source, history>>

(* list_entitlements                                                       *)
ModelAllowed(r) ==
    /\ pc[r] = "entitle"
    /\ IsModelAllowed(Checked(r))
    /\ Goto(r, "policy")
    /\ UNCHANGED <<time, policy, route, now, ceiling, row, cache, source, history>>

ModelRefused(r) ==
    /\ pc[r] = "entitle"
    /\ ~IsModelAllowed(Checked(r))
    /\ IF IsHit(r) THEN Goto(r, "refused") /\ UNCHANGED route ELSE TryNext(r, "refused")
    /\ UNCHANGED <<time, policy, now, ceiling, row, cache, source, history>>

(* r is in flight from the clock reading of its check to the end.          *)
EnterFlight(r) ==
    peak' = IF IsHit(r) THEN peak ELSE Max({peak, Cardinality(InFlight \cup {r})})

(* The policy lets r go on: to the provider, or to the response it found.  *)
Pass(r) == Goto(r, IF IsHit(r) THEN "replayed" ELSE "generate")

(* get_policy and, in the same step, the clock.                            *)
ReadPolicy(r) ==
    /\ pc[r] = "policy"
    /\ EnterFlight(r)
    /\ IF limit = Unlimited
       THEN Pass(r) /\ UNCHANGED <<now, ceiling>>
       ELSE /\ Goto(r, "sum")
            /\ now' = [now EXCEPT ![r] = time]
            /\ ceiling' = [ceiling EXCEPT ![r] = limit]
    /\ UNCHANGED <<time, policy, route, row, cache, source, comeback, everEntitled, highest>>

(* sum_tokens_for_organization_in_period, over the month of that reading.  *)
QuotaLeft(r) ==
    /\ pc[r] = "sum"
    /\ ~WouldExceed(Used(MonthOf(now[r])), ceiling[r], EstimateOf[r])
    /\ Pass(r)
    /\ now' = [now EXCEPT ![r] = 0]
    /\ ceiling' = [ceiling EXCEPT ![r] = 0]
    /\ UNCHANGED <<time, policy, route, row, cache, source, history>>

QuotaExceeded(r) ==
    /\ pc[r] = "sum"
    /\ WouldExceed(Used(MonthOf(now[r])), ceiling[r], EstimateOf[r])
    /\ Goto(r, "exceeded")
    /\ comeback' = [comeback EXCEPT ![r] =
           time + TicksPerSecond * SecondsUntilMonthEnd(now[r])]
    /\ UNCHANGED <<time, policy, route, now, ceiling, row, cache, source,
                   everEntitled, highest, peak>>

(* The provider answers, and created_at is taken at once.  The tokens are  *)
(* the provider's: the estimate does not bound them.                       *)
Generate(r) ==
    /\ pc[r] = "generate"
    /\ \E n \in 0..MaxTokens : row' = [row EXCEPT ![r] = [tokens |-> n, month |-> MonthOf(time)]]
    /\ Goto(r, "record")
    /\ UNCHANGED <<time, policy, route, now, ceiling, cache, source, history>>

GenerateFails(r) ==
    /\ pc[r] = "generate"
    /\ TryNext(r, "failed")
    /\ UNCHANGED <<time, policy, now, ceiling, row, cache, source, history>>

(* usage_records.add commits.                                              *)
Record(r) ==
    /\ pc[r] = "record"
    /\ Goto(r, IF r \in Caching THEN "fill" ELSE "served")
    /\ UNCHANGED <<time, policy, route, now, ceiling, row, cache, source, history>>

RecordFails(r) ==
    /\ pc[r] = "record"
    /\ Goto(r, "failed")
    /\ UNCHANGED <<time, policy, route, now, ceiling, row, cache, source, history>>

(* RedisResponseCache.set, which swallows a Redis error.                   *)
Fill(r) ==
    /\ pc[r] = "fill"
    /\ cache' \in {cache, [cache EXCEPT ![Fingerprint(r)] = r]}
    /\ Goto(r, "served")
    /\ UNCHANGED <<time, policy, route, now, ceiling, row, source, history>>

-----------------------------------------------------------------------------
(* The environment: the clock, and the policy's rows.                      *)
Tick ==
    /\ time < MaxTime
    /\ time' = time + 1
    /\ UNCHANGED <<policy, requests, history>>

SetLimit ==
    /\ changes < MaxChanges
    /\ changes' = changes + 1
    /\ limit' \in (Limits \cup {Unlimited}) \ {limit}
    /\ highest' = IF AtOrAbove(limit', highest) THEN limit' ELSE highest
    /\ UNCHANGED <<time, entitled, requests, comeback, everEntitled, peak>>

SetEntitlements ==
    /\ changes < MaxChanges
    /\ changes' = changes + 1
    /\ entitled' \in SUBSET Models \ {entitled}
    /\ everEntitled' = [r \in Requests |-> everEntitled[r] \cup
           (IF pc[r] = "arriving" THEN {} ELSE {m \in Models : IsModelAllowed(m)'})]
    /\ UNCHANGED <<time, limit, requests, comeback, highest, peak>>

Finished == \A r \in Requests : pc[r] \in Ends
Idle == Finished /\ UNCHANGED vars

Step(r) ==
    \/ Arrive(r) \/ LookupHit(r) \/ LookupMiss(r)
    \/ ModelAllowed(r) \/ ModelRefused(r) \/ ReadPolicy(r)
    \/ QuotaLeft(r) \/ QuotaExceeded(r)
    \/ Generate(r) \/ GenerateFails(r) \/ Record(r) \/ RecordFails(r) \/ Fill(r)

Next ==
    \/ \E r \in Requests : Step(r)
    \/ Tick \/ SetLimit \/ SetEntitlements \/ Idle

Spec == Init /\ [][Next]_vars

-----------------------------------------------------------------------------
(* Properties.                                                             *)
TypeOK ==
    /\ time \in 0..MaxTime
    /\ limit \in Limits \cup {Unlimited}
    /\ entitled \in SUBSET Models
    /\ pc \in [Requests -> Steps \cup Ends \cup {"arriving"}]
    /\ \A r \in Requests : route[r] \in 1..Len(ChainOf[r])
    /\ now \in [Requests -> 0..MaxTime]
    /\ ceiling \in [Requests -> Limits \cup {0}]
    /\ row \in [Requests -> [tokens : 0..MaxTokens, month : 0..MonthOf(MaxTime)]]
    /\ cache \in [Fingerprints -> Caching \cup {Nobody}]
    /\ source \in [Requests -> Caching \cup {Nobody}]
    /\ comeback \in [Requests -> Nat]
    /\ everEntitled \in [Requests -> SUBSET Models]
    /\ highest \in Limits \cup {Unlimited}
    /\ peak \in Nat
    /\ changes \in 0..MaxChanges

(* The check does not keep the month's usage below the limit, but what it  *)
(* lets past is no more than the generations that were in flight together, *)
(* over the turn of the month too: the last request checked in a month has *)
(* seen less than the limit, and what it has not seen was in flight.       *)
OvershootIsConcurrency ==
    highest # Unlimited =>
        \A month \in 0..MonthOf(MaxTime) : Used(month) <= highest - 1 + peak * MaxTokens

(* The model that serves a request is one the organization was entitled to *)
(* at some time since it arrived, on whichever route of the chain.         *)
ServedByEntitledModel ==
    \A r \in Committed : ChainOf[r][route[r]] \in everEntitled[r]

(* A response from the cache answers a request whose requested model the   *)
(* organization was entitled to since it came; it is one that was billed   *)
(* for the same request, by a model that was allowed while it was made.    *)
HitIsEntitledAndBilled ==
    \A r \in Requests : pc[r] = "replayed" =>
        /\ Fingerprint(source[r]) = Fingerprint(r)
        /\ ChainOf[r][1] \in everEntitled[r]
        /\ source[r] \in Committed
        /\ ChainOf[source[r]][route[source[r]]] \in everEntitled[source[r]]

(* A client that waits for as long as Retry-After says comes back in the   *)
(* next month, or less than a second before it: the fraction is cut off.   *)
RetryAfterReachesNextMonth ==
    \A r \in Requests : pc[r] = "exceeded" =>
        MonthEnd(now[r]) - comeback[r] < TicksPerSecond
=============================================================================
