# A verification of AI-Runtime in TLA+

AI-Runtime is a FastAPI gateway in front of the APIs of OpenAI, Anthropic and
Gemini. A tenant (an *organization*) sends `POST /v1/responses` with its API
key; the gateway authenticates it, applies a rate limit, an idempotency key, a
response cache, model entitlements and a monthly token quota, calls a provider
with retries and failover, records usage and an audit event, and answers with
JSON or with a stream of server-sent events. State lives in PostgreSQL (through
SQLAlchemy) and in Redis; a process keeps none between requests. All paths
below are relative to `src/ai_runtime/`, except those of the Python SDK
(`sdk/python/`).

Concurrency comes from asyncio and from several API processes: every `await` is
a point where any other request can run, a Redis or database command can fail,
lose its reply or never return, a key can expire, or the process can end. The
modules have one action per await, with everything the code does up to the next
one inside it.

## Components

| Component | State | Operations | What is hard | What makes it correct |
| --- | --- | --- | --- | --- |
| `application/responses/create_response.py` `execute` | locals of one coroutine, writes to everything below | one request from rate limit to answer | races for one key, errors at each await, what is undone when a later step fails | one response and one bill per key; a 200 is billed and audited; no lost lease |
| `infrastructure/redis/idempotency_store.py`, `response_cache.py` | `idem:{org}:{key}` (absent, in_progress, completed), `cache:resp:{org}:{fingerprint}`, with TTLs | begin, complete, release; get, set | SET NX and GET, GET and DELETE are two commands; failing open | a completed record stays; a lease belongs to somebody |
| `infrastructure/redis/rate_limiter.py` | a hash of tokens and a timestamp | one Lua script | clocks of several processes, readings that are overtaken on their way, TTL, rounding, lost replies | bounded admissions in any window; Retry-After is enough |
| `application/resilience/provider_executor.py`, `domain/routing.py`, `application/routing/model_router.py` | locals of one call | execute, stream | bounded retries, failover, errors before and after the first event, which error wins | bounded calls; a started stream is not restarted |
| `application/policy/enforce_organization_policy.py`, `domain/organization_policy.py` | policy and entitlement rows, usage rows | check before each route and before a cache hit | check-then-act, policy changes, the turn of the month, cached responses that outlive a policy | bounded overshoot; only entitled models serve, themselves or from the cache |
| `application/api_keys/*`, `application/auth/*` | `api_keys`, `audit_events` rows | create, revoke, rotate, authenticate | unconditional writes of stale copies, two commits, crashes | revoked is final; a rotation leaves a replacement; the log is complete |
| `api/routes/responses.py`, `providers/*/adapter.py` `stream` | locals of a chain of generators | stream one response | broken streams, blank text, errors after the first frame, disconnects | what completes is what was sent, billed, audited; what fails without a word was whole |
| usage and audit repositories | `usage_records` (unique request id), `audit_events` | add, monthly sum | a commit whose reply is lost | see the users of these rows |
| `providers/*/adapter.py` `generate` | none | translate, send, read the answer | what can be retried, bodies with something missing | a complete answer is not bought twice |
| `application/prompts/*`, `application/organizations/*`, `application/mcp/*`, `application/semantic/*`, their repositories | `prompt_templates`, `organizations`, `mcp_servers`, `semantic_chunks` rows | create a version, a tenant, a server, a chunk; resolve, retrieve, discover | select-then-insert races, commits whose answer is lost, names joined with dots | dense versions; true answers; tenants kept apart; tool names that tell the tool |
| `application/context/build_context.py` | none | budget and truncation of the messages | units of a call and its results, a chain of models with different windows | every route fits; no more is dropped than needed |
| `api/app.py`, `api/middleware/`, `api/exception_handlers.py`, `api/dependencies.py`, `api/routes/*` | locals of one request: its id, status and log record | identify, log, authenticate, route, answer, end a stream | errors outside the handlers, errors after the head is sent, clients that are gone | one error body per failure; one log record per request, of the status that was sent |
| `sdk/python/src/ai_runtime_sdk/*` | locals of one call; the event and data lines of an `SseParser` | create, stream, create and list prompts | a connection that breaks, hangs or is answered by somebody else, between any two lines | nothing that ended early looks like success; errors are those of this request |
| settings, pricing, deployment | see `PROJECT.json` | | | left out, see below |

Interaction: the route handler first prepares the request (prompt template,
retrieval, tools of MCP servers, context budget), reading tables that other
requests write meanwhile, then calls `CreateResponse`, which awaits the rate
limiter, the idempotency store, the cache, the policy and the executor in turn;
the executor calls back into the policy before each route (`before_route`) and
awaits an adapter. Streaming is the same chain with generators, pulled by the
HTTP server. API key operations share only database rows with authentication.
Around every route stand the middleware and the handlers that turn an exception
into a head, a body and a log record; at the other end of the connection, behind a
load balancer, the SDK turns them into values and exceptions again.

## Modules

| Module | Models | Composes or implements |
| --- | --- | --- |
| `CreateResponse` | `CreateResponse.execute` with the idempotency store and the cache | |
| `Routing` | `resolve_model_route`, `resolve_route_chain` (operators) | |
| `Adapters` | `generate` of the adapters: which requests they translate, what they make of each answer (operators) | |
| `ProviderExecutor` | `execute` and `stream` of the executor, over chains built by `Routing`, calling what `Adapters` describes | implements `Failover` |
| `Failover` | the promise of the executor: routes are settled in order until one serves, else the error follows from their verdicts | abstract specification |
| `TokenBucket` | calls that read the clock of their process and later run the Lua script | |
| `MonthlyQuota` | the policy check on each route of concurrent requests and on a hit of the response cache, with the usage rows it sums and the entries it may serve | |
| `ApiKeys` | create, revoke and rotate racing with authentication | |
| `StreamResponse` | adapters, executor, use case and SSE generator of one stream | |
| `Context` | `BuildContext`: budget, units, truncation (operators), and what the documentation promises of them | |
| `Preparation` | `post_responses` before the use case, with the operations that write the tables it reads: prompts, servers, chunks, organizations | composes `Context` and `Routing` |
| `EventStream` | the frames of a streamed response and `SseParser`, the SDK's exceptions (operators) | |
| `HttpExchange` | one call of the SDK, the connection, and the layers around the route that answers it | composes `EventStream`; the route inside is `CreateResponse`, `StreamResponse` or `Preparation` |
| `MC*` | small instances: request, key and route assignments, symmetry sets | |
| `*_proofs` | theorems about the module they extend | |

How state and actions correspond to the code is in the `map` of `PROJECT.json`,
definition by definition. The conventions:

* `pc`, `at`, `door` hold the await a coroutine stands at. Python locals become
  functions of the request (`claimed` is `claimed_idempotency`, `via` the
  `outcome` label, `attempt`, `started`, `lastError` those of the executor).
* A Redis command or a commit has a *fate*: answered, executed with the reply
  lost, or not executed. The last two raise in the code, and count against a
  bound. A duplicate `request_id` is refused at no cost.
* `except Exception` is an operator (`Fail`) used by every action inside the
  `try`; what happens outside it (`HitDenied`, `AuditFails`, `InspectBusy`) does
  not use it. Cancellation, the end of a process and an await that never returns
  (`Stop`, `Hang`, `Crash`, `Disconnect`) are seen by no handler.
* Variables marked *history* are never read by a guard of the code's actions;
  they only let a property speak of the past. The owner in `Lease(r)` is such a
  ghost too: the code stores no owner.
* `\* Variant` operators are the code with a plausible mistake in it. They are
  used by nothing; each shows that some property notices the mistake.

Details worth knowing:

* **CreateResponse.** A response is named by the request that generated it. The
  client's retry is another request with the same key. `IdOf` gives each request
  its `X-Request-ID`, which the client may choose and the usage row must not
  repeat. A 200 reaches the client in the step of the audit insert, the last
  await. `Coordinated(k)` says when the store promises anything about a key: its
  record has not expired, and no request was let through without its lease. Of other
  keys the module promises that every 200 is billed and audited and that leases are
  explained, not that there is one response. `unsettled` remembers the requests whose own
  complete or release Redis refused, so that a leftover lease is excused by what
  happened to its request, not by a fault anywhere. `stopped` are the requests that
  never go on, for whatever reason. A Redis command is sent once: the client is made
  without a retry policy, and the model takes redis-py to resend nothing by itself.
* **TokenBucket.** Tokens are counted in units of which a request takes `Cost`,
  so the refill per second is whole; with `Cost = 60` it is
  `requests_per_minute`. `consume` reads the clock, and then awaits the script: `reading`
  holds what each call in flight has read and sent, and the scripts run in any order.
  `credit` accumulates the refill that no clock distance accounts for: a reading that
  is behind the last one, or an early expiry. It arises even with equal clocks, when one
  call overtakes another: the older timestamp is stored last, and the seconds between
  the two are refilled again. `CreditIsSkewAndDelay` bounds it by the skew, once per
  run, and by `late`, the time that all readings together were under way. `promise` is a
  clock reading, so `RetryAfterSuffices` holds whatever the clocks: it speaks of calls
  that have read that time or a later one. A request let through because the script did
  not run is not metered at all.
* **MonthlyQuota.** A request is in flight from the clock reading of its check
  to the insert of its row. A check before the turn of the month whose row is
  dated after it is counted in neither month's sum as the other requests saw it;
  this is why flight begins at the clock reading and not at the sum. A hit
  of the response cache passes the same check before it is returned, once and for the
  requested model, whichever model made the response; it is never in flight, for it
  adds no row. An entry may be gone whenever it is looked for. The sum over the usage
  rows is the number of tokens in them (`TokensIn`): a token is a request and a number.
* **StreamResponse.** A chunk that carries an id, text and usage is read as
  several chunks in that order. An error object in a provider's stream is passed
  over, as in the adapters. A call that failed before the first event is followed
  by another one or by an error: which, is the business of `ProviderExecutor`. A stream
  of OpenAI or Gemini that ends early without a transport error is its end to the code,
  and to the model. An *aborted* stream is one that the server ends without a last
  event: `AbortedStreamIsWhole` says what its client has, and when it is billed.
* **Adapters.** A request is told apart by what one of the dialects cannot
  express; an answer is a status and, for 200, a body told apart by which of the
  fields the adapter checks is usable. A status of 3xx is not an error to the
  adapters: the body is read, and found unusable.
* **Context, Preparation.** A message is its role, its size in tokens, whether it
  carries tool calls, and who wrote its text; a variable of a template is the
  size of its value, 0 if blank; a chunk is its distance from the query. Names of
  servers and tools are sequences of the parts between dots, so that two names
  joined differently can be equal. A row carries the name of the call that wrote
  it, which stands for its content. Each SQL statement and each call to an
  embedding provider or MCP server is a step that may fail; a commit may take
  effect and not be acknowledged. Authorization and body validation precede
  `Arrive`.
* **HttpExchange.** `srv` is the point of the server, `at` that of the SDK, `link`
  and `page` the connection between them. The app is built without `debug`, so
  `ServerErrorMiddleware`, the outermost layer, answers what no other handler took
  with `unhandled_error_handler` and raises it again: that is outside
  `RequestContextMiddleware`, whose record then has its initial status 500. An
  error before the head becomes a head and a body; after it, it ends the
  connection. What a route can raise is a set of failures (`AtTheDoor`,
  `OfPreparation`, `OfGeneration`, `OfCreation`): which of them, and when, is the
  business of the other modules. A payload of the SDK cannot ask for retrieval or
  MCP tools, so their errors are absent. Before any of them the router may answer: a
  name of `prompts.list` that is empty, or has a slash in it, is not one segment of a
  path once the server has unquoted it, and gets a redirect without a body, or a 404
  whose body is no error envelope. No handler is registered for these. A client made
  by the SDK does not follow redirects. The server sends whole frames; the SDK
  reads lines, and the connection can end or fall silent between any two. That the
  last frame lacks its blank line, which `iter_events` allows for, therefore does
  not happen. The load balancer may answer in the server's place with a page that
  is no JSON, also one that claims to be a 200, and also one that is not UTF-8: its
  `UnicodeDecodeError` is none of the SDK's exceptions (`escaped`). A request *hangs* where
  an await of the server never returns; it is then in no log.
* **ApiKeys.** A secret is drawn at random and verified against one hash, so a
  presented secret is the key it belongs to. Suspension is changed only in the
  database: no use case does it.

## Runs

| Run | Instance | Question and answer |
| --- | --- | --- |
| `create_shared` | 3 requests, one key, one fingerprint; 2 Redis faults, 2 database faults, 1 expiry, 1 request that stops | One key, one response, one bill; every 200 billed and audited; completed records stay; leftover leases have an explanation. Holds. |
| `create_mixed` | r1, r2 share a key, r1, r3 a fingerprint, r2 reuses r1's request id; 1 Redis fault, 1 database fault, any number of requests that stop, no expiry | Unequal requests: each one ends that is not stopped, and each lease is resolved without its TTL unless its own request was stopped, refused by Redis, or denied on a cache hit. Holds. |
| `create_leak` | no faults | A policy denial on a cache hit keeps the lease: ADR 0003 says that leases are released on failure. Violated. |
| `create_unbilled` | no faults, no keys | A reused `X-Request-ID` makes a paid generation fail at the usage insert: it is recorded nowhere. Violated. |
| `executor` | 3 models, 2 providers, every catalog and every list of up to 2 fallbacks, 2 retries, 2 events; adapters that differ in what they translate | Every kind of answer. Bounded calls per model, no call after the first event, nothing asked for again that was answered in full, refinement of `Failover`, termination. Holds. |
| `token_bucket` | 2 processes whose clocks agree or differ by a second, 2 calls in flight, a request costs 3 units, capacity 6, refill 2, 5 seconds, 4 script runs | Admissions in every window, credit bounded by skew and delay, Retry-After is enough, with readings that arrive late and in any order. Holds. |
| `quota` | 3 requests: two are the same cacheable one with two routes and an estimate of a token, the third asks for the second model only; months of 2 seconds, seconds of 2 ticks; one policy change | The month's usage exceeds `limit - 1` by no more than what was in flight together; served models were entitled; a cache hit was asked for under a model that is allowed and was billed when it was made; Retry-After reaches the next month to within a second. Holds. |
| `api_keys` | 3 operator calls of any kind, one login, 4 keys of which one exists; 1 commit fault, 1 crash, 2 changes of suspension | Final revocation, rotation with replacement, complete log, no login after revocation. Holds. |
| `prepare` | Conversations of up to 4 messages against windows of 18 and 14 tokens, each alone; 3 creations of versions, chunks, servers or organizations, in two tenants, racing with a request that uses them | Dense versions; answers that are true of the tables; reads that see what was acknowledged; tenants kept apart; prepared requests fit every route; truncation drops the oldest turns and no more than needed; discovered names are unique. Holds. |
| `stream` | 6 chunks a call, 2 calls, 2 database failures, all three dialects | What completes is what was sent, billed and audited; nothing broken is billed; a stream that ends without a last event was whole, and is billed only after a database failure. Holds. |
| `exchange` | every SDK call, valid or not; 2 pieces of text, 3 deltas; names that the router does not take; a crash, an await that hangs, a broken or silent connection, a page of the load balancer, decodable or not, a client that leaves, at any point | What the SDK's caller is given is what was sent, frame by frame; what looks like success is the whole completed response; an error is the one of this request; one log record of the status sent; the call ends, and the request ends or hangs. Holds. |
| `stream_abort` | 3 chunks, 1 call, no database failure | A blank response or a reused request id ends a started stream without `response.error`, which ADR 0004 promises. Violated. |

**Bounds.** Three requests are the fewest in which one fails and releases a key
while a second one is between its SET NX and GET and a third claims it; three
operator calls let two race on a key and a third follow. Two faults of a kind let
a fault hit the handling of another one. Three routes over two providers give
every mix of refused, unregistered, failing and serving routes with a repeated
provider; two retries separate an off-by-one from the bound. Six chunks hold an
id, two pieces of text and both token counts with one to spare. Two calls of the rate
limiter overtake each other; four script runs empty the bucket, refuse, and admit again
after a reading that came late; five seconds fill an idle bucket, which takes three, and
let it expire, which takes four. A month is
counted in two seconds of two ticks so that rounding to seconds matters. In
`prepare` a message costs 4 tokens and its size, so windows of 18 and 14 and caps
of 6 and 11 lie between one message and four: each conversation meets a budget
that holds all of it, part of it and none of it. Four messages hold a turn
before a call with two results. In `exchange` three deltas of two pieces leave a
frame that is neither first nor last, and tell a frame that is repeated, dropped or
joined to its neighbour from the right one. Three creations let two race for a version, name
or slug while a third is of another tenant or comes later. Every
bound is a CONSTANT and stands in a guard; the theorems hold for all values. Only
`executor` and `quota` run their `TypeOK`; that of the other modules is proved and
left out of the runs.

**Symmetry** is used only in runs of safety properties, over requests that have
the same key, fingerprint and routes, calls of any kind, processes, and keys that do not
exist yet.

**Fairness.** Weak fairness stands for asyncio, which resumes every coroutine whose
await has returned or raised. Whether an await does either depends on what is awaited.
Redis and the database are awaited without a timeout (`infrastructure/redis/client.py:8`,
`infrastructure/db/engine.py:11`), and so is a client that stops reading its response: in
`create_mixed` any request may stop at any await for good (`Stop`, no fairness after it),
and in `exchange` the server may hang at any (`Hang`). `EveryRequestEnds`,
`LeaseResolves` and `EveryExchangeEnds` say what is true of the others, and of the SDK's
call whatever becomes of the server. Nothing else is assumed of the environment: no
expiry, no fault, no crash has to happen or to stay away. `LeaseResolves` is checked
without expiry, so it does not lean on the TTL.

What is assumed to end by itself: a provider call, by the timeouts of the `httpx` client
(its defaults), a sleep of the executor, by the clock, and in `executor` the database
read of the `before_route` hook, which has no timeout: `CallEnds` is about retries and
failover, and holds as long as that read returns. On the other side, every wait of the
SDK: `httpx` gives up when nothing has come for as long as its caller allows (the SDK
sets 60 seconds unless told otherwise; an `http_client` of the caller's own without a
timeout is outside of this), which ends a call whose connection has fallen silent or
whose server hangs. That the connection breaks, the load balancer answers, or the client
leaves is not assumed.

## Theorems

`tlapm` checks every proof with its SMT and Zenon backends, temporal steps with
LS4. All theorems are about `Spec` and hold for every value of the constants that
satisfies the assumptions named in the modules (bounds are naturals, absent
values are no members, functions have their domains).

* **`CreateResponse_proofs`.** None of the properties is inductive. `IInv` adds
  to the type invariant what ties the program point to the data: `PathInv` (where
  a request stands, what it has in hand, what it has generated and counted),
  `KeyInv` (who is at work on a coordinated key: at most one request that wrote
  the lease, whose ghost owner is right, and completed records that name the
  response of every reply), `BillInv` (usage rows belong to generations, and at
  most one of them on a coordinated key stands), `LeaseInv`. `Invariance` goes
  through the actions one by one; `TypeCorrect`, `OneResponse`, `BilledOnce`,
  `ServedBilledAudited`, `LeaseExplained` follow, and `CompletedIsStable` as an
  action property from the same invariant.
* **`TokenBucket_proofs`.** `WindowBound` speaks of pairs of admissions; the
  invariant adds what links each admission to the bucket as it is now: the tokens
  left are at most what capacity and refill since that admission allow. The proof
  is linear arithmetic over the script's cases, with lemmas on refill. `ReadingInv`
  says that a reading under way is that of some process, at a time that is past, and
  `LastInv` when, and how far from the clocks of then, the script last ran; they carry
  `CreditIsAlwaysSkewAndDelay`. `PromiseInv` says that what is left and the refill until
  a promised reading cover a request, whatever was stored in between; it carries
  `RetryAfterAlwaysSuffices`. Both assume that a full bucket holds a request:
  `settings.py:79` refuses a burst below 1.
* **`ApiKeys_proofs`.** Rows only move forward (`Forward`: absent, active,
  revoked), so everything `KeyInv` says about a row survives the other calls'
  steps; each action then needs only its own conjunct.
* **`StreamResponse_proofs`.** `TextInv` ties what was sent to what the current
  call has assembled, `RowInv` the usage row to the program point. `AbortInv` says what
  has been recorded before each insert; it carries `AbortedAlwaysWhole`.
* **`Preparation_proofs`.** `RowInv` says that a row names a call of its own
  organization, `SourceInv` that texts and tools come from such rows, `VersionInv`
  that what a call has read before its insert is 0 or a version that is there:
  with the unique constraint the number inserted is then the next one. `NameInv`
  is `ToolNamesAreDistinct` before the command is prepared. `TruthInv` says that a
  call has a row only once it is answered, and that what made a conflict is still
  there; it carries `AnswersAlwaysTrue`. `TableInv` and `ReadInv` carry
  `AcknowledgedIsRead`: what was known when a call arrived is in its table, so a
  search that comes back empty proves that nothing was known; and what the prompt's
  message and the context message say of the tables stays true until the request is
  prepared, whatever is inserted meanwhile.
* **`Preparation_proofs`, the context.** `TruncationAlwaysExact` and
  `PreparedAlwaysFits` rest on lemmas about `BuildContext` for conversations of any
  length, in which each of the code's loops is followed round by round. The tokens of a set of
  messages are the *weight* of their indexes, a function on the subsets that adds over
  disjoint ones (`WeightAdds`); every count and sum of the code is such a weight
  (`CountIsWeight`, `WithoutWeighs`, `UnitCostIsWeight`). `Grouping` is the invariant
  of `_group_units`: each unit begins with a turn and holds what is said up to the next
  one. `Stands` is the invariant of the loop that drops: what was dropped is what lies
  before the next turn, the total is the cost of the rest, and no rest before fitted.
  `BuildIsExact` puts them together. `BudgetBounds` says that the budget leaves room
  for the output in each window that is known, and `ChainModels` that the executor's
  chain holds no other model than those the budget was made for. `SizeInv` carries the
  lemmas' hypothesis, that there is a message and all have a size, from the request
  and the rows to the point where the context is fitted; `ExactInv` keeps the result.
  The assumptions on a request are those of the schema: a prompt or at least one
  message; `Unbounded`, the budget that is `None`, is no number.
  `IInv`, `ReadInv`, `SizeInv` and `ExactInv` were checked with TLC before.
* **`ProviderExecutor_proofs`.** `RefinesFailover` maps every step of the executor
  to one of `Failover` or to a stutter. A step that settles a route needs
  `VerdictInv` (the routes before the current one are settled, those after it
  untried); the error that is decided after the loop needs `MemoryInv`, which ties
  the three variables of the loop to the verdicts: the last failed route, the number
  of refused ones, the first one without an adapter. `AnswerInv` carries
  `AnsweredAtMostOnce`, with `AdapterFacts` about every answer there can be, and
  `StartInv` carries `StreamIsSticky`. `ChainsFit` says of every chain that
  `resolve_route_chain` can build that it consists of routes of different models, has a
  first one, and no more than one for each fallback beside it. With it `CountInv`
  (attempts and calls of the current route go together, a route that was passed over
  has no calls) gives `ExecutorTypeCorrect` and `CallsBounded`: the calls of a
  model are those of one route.
* **`MonthlyQuota_proofs`.** The invariant follows a request: what it may try now was
  allowed when it was checked (`OnlyEntitledModelsServe`), an entry of the cache names
  a request with a row of its own (`OnlyBilledResponsesAreHits`), and the clock
  readings of a check are in order, from which `RetryAfterIsLongEnough` is arithmetic
  on months and rounded-up seconds of any length. `OvershootIsConcurrency` is not
  inductive, for a request that has passed its check may still add its row. `UsageInv`
  charges a month at once with `MaxTokens` for every request in flight that may be
  billed to it: at the moment a check passes, the rows it has not seen are among these, so
  the sum with the charges is below the limit and what is in flight; the rows that come
  later are within what was charged (`QuotaOvershootIsBounded`). Requests are finitely many.
* **`HttpExchange_proofs`.** The invariant has two halves and a link. The server's
  says what head, frames, log and failure there are at each point. The client's says
  that it has read whole frames and a part of the next, and that the parser holds just
  that part. The link is that lines are read only of frames that were sent.
  `EveryPrefixIsSent`, `NoFalseSuccess`, `NoFalseError` and `LogIsTrue` follow, for
  streams of any length.

The library's induction theorems take an operator as a parameter, which these provers
cannot instantiate. The lemmas on folds and sums do without: that `<` on the numbers is
well founded is a fact about a set, and gives an induction in which the claim is a set
too (`CountInduction`, and `SubsetInduction` over the subsets of a finite set). A fold is
a function on subsets that is chosen to satisfy its equation; `FoldExists` shows that there
is one, and the induction what it returns.

Every safety property that a run checks and finds to hold, and the refinement of `Failover`,
is stated by a theorem. Only model-checked is liveness (`EveryRequestEnds`, `LeaseResolves`, `CallEnds`,
`EveryExchangeEnds`): it rests on fairness and `ENABLED`, which are out of these provers' reach.
The operators `EventStream` and `Adapters` are built from are proved about only as far as the
theorems above use them.

## Not modelled

* What a JSON body is parsed into: the fields of request schemas (bodies are of the
  kinds that are accepted or refused), the JSON that adapters, the SDK and the MCP
  client send, token counts below zero.
* Float rounding in the Lua script; month lengths.
* Metrics and log records other than `generation_requests_total` and
  `request_completed`.
* Hashing of secrets, cost estimates, DI wiring, settings, migrations, Terraform.
* The text of prompts and chunks, vectors, URLs and headers of MCP servers.
* Operations that only read: the lists of keys, prompts, servers and tools.
* Several organizations outside `Preparation`: every key and row carries the
  organization id, and nothing joins two, except the unique request id, which
  `IdOf` covers.
* The order of `post_responses` as a whole: retrieval and discovery call the
  embedding provider and MCP servers before the rate limit, the entitlements and the
  quota are checked (`api/routes/responses.py:112`; `docs/foundation/requirements.md:31`
  says that entitlements come before provider execution). Each side is a module; no
  run joins them.

## Divergences without a run

Met while modelling, beside the three findings of `PROJECT.json`:

* `docs/foundation/api-design.md:139` has the usage row of a stream persisted after
  `response.completed`, and ADR 0004 (`docs/adr/0004-sse-streaming-boundary.md:23`)
  "after the completed event". The code writes row and audit event before it hands
  `response.completed` on (`create_response.py:231-240`), that is, after the completed
  event of the provider, as the docstring at line 207 has it. `CompletedIsStreamedAndBilled`
  is the promise of the code: a client that leaves on seeing the event has been billed.
* The same line of `api-design.md`: "Usage is not written if the stream fails after
  starting." A stream whose audit insert fails, or whose row was committed with the
  reply lost, has failed and its row is there. `AbortedStreamIsWhole` says that it takes
  a database failure, and that the client has the whole text.
* `docs/foundation/api-design.md:115` budgets requests with `prompt`, `context` or `rag`
  and no others; `needs_context_check` (`api/schemas/responses.py:188`) has more cases, as
  `NeedsContextCheck` of `Preparation` shows.
* `_prompt_path` of the SDK escapes a name "so it stays in one segment"
  (`sdk/python/src/ai_runtime_sdk/client.py:141`). The server unquotes the path before it
  routes it: `prompts.list("a/b")` gets a 404 without an error envelope, of code
  `internal_error` to the caller, and `prompts.list("")` a redirect, `invalid_response`.
* `AIRuntimeError` is "an error returned by the API or a response the client could not
  parse", but a body that is not UTF-8 raises `UnicodeDecodeError`, for only the
  JSON error is caught (`client.py:46`, `client.py:74`).
* Two calls of the rate limiter that overtake each other on the way to Redis have the
  same seconds refilled twice, with equal clocks too: nothing keeps the older timestamp
  from being stored (`rate_limiter.py:43`). `CreditIsSkewAndDelay` bounds it.
* A request whose key is revoked between the two reads of authentication is let in;
  `RevocationIsImmediate` speaks of keys revoked before the request came.
* A record that is released between the SET NX and the GET of another request lets
  that one generate without a lease, so that two responses are generated under one
  key (`InspectVanished` of `CreateResponse`; `Coordinated` leaves this key out).
* A cache hit is checked against the requested model only: it may be a response that
  a fallback made whose entitlement was withdrawn since (`HitIsEntitledAndBilled` says
  what does hold).
* Two revocations, or two rotations, of one key that race both succeed
  (`revoke_and_add`, `save`); `revoke_api_key.py:14` says that revoking twice is an
  error. `RevokedStays` and `RotationReplaces` hold all the same.
* An embedding of the wrong dimension, or a tool name that an MCP server should
  not have used, is answered with 422 although the request is not at fault
  (`EmbedFails`, `ListFails`).
* Two inline tools of one name are accepted; only discovered names are compared
  (`ToolNamesAreDistinct` says so).
* `stream` with `mcp` is refused only if a tool was found: with servers that list
  none it is accepted, while `docs/foundation/api-design.md:109` rejects it.
* A tool result that does not follow its call directly is a unit of its own, and
  truncation can part the two (`BelongsToCall` states what is kept together).

## Plan

Done in this order, the most important behaviour first: `CreateResponse` and its
proofs; `Failover` and `ProviderExecutor` with `Routing`; `TokenBucket` and its
proofs; `MonthlyQuota`; `ApiKeys` and its proofs; `StreamResponse` and its proofs;
`Context`, `Preparation` and its proofs; `Adapters` under `ProviderExecutor`; the
cache in `MonthlyQuota`; `EventStream` and `HttpExchange`; the proofs of
`HttpExchange`, `MonthlyQuota` and `ProviderExecutor`; the quota's overshoot, the
executor's chains and calls, reads after acknowledgement, and the context budget for
conversations of any length.

Next:

1. A composition of `Preparation` with the gates of `CreateResponse`: embedding and
   MCP calls come before the rate limit, the entitlements and the quota.
2. Theorems: `SseParser` as the inverse of the frames of `EventStream`, as a lemma of its
   own; what is left of the adapters' operators.
