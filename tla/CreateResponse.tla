--------------------------- MODULE CreateResponse ---------------------------
(***************************************************************************)
(* CreateResponse.execute (application/responses/create_response.py) with  *)
(* the Redis adapters it calls: the idempotency store and the response     *)
(* cache.  Every request is one coroutine; every await in the code is a    *)
(* point where another request or a key expiry can come between, and where *)
(* the request may stop for good; so every await is one action here.  One  *)
(* organization: every Redis key and every row carries the organization    *)
(* id, and nothing below joins two.                                        *)
(*                                                                         *)
(* A response is named by the request whose provider call produced it.     *)
(***************************************************************************)
EXTENDS Naturals, FiniteSets

CONSTANTS
    Requests,        \* the HTTP requests (a client's retry is another request)
    Keys, NoKey,     \* Idempotency-Key values, and the absent header
    Prints, NoPrint, \* cache fingerprints, and "cache: false"
    NoResponse,      \* no response yet
    KeyOf,           \* KeyOf[r]: the request's Idempotency-Key
    PrintOf,         \* PrintOf[r]: its cache fingerprint
    IdOf,            \* IdOf[r]: its X-Request-ID, which the client may choose
    MaxRedisFaults, MaxDbFaults, MaxExpiries, MaxStops  \* bounds on the environment

ASSUME RequestAssumption ==
    /\ KeyOf \in [Requests -> Keys \cup {NoKey}]
    /\ PrintOf \in [Requests -> Prints \cup {NoPrint}]
    /\ NoKey \notin Keys
    /\ NoPrint \notin Prints
    /\ NoResponse \notin Requests

ASSUME BoundAssumption ==
    /\ MaxRedisFaults \in Nat
    /\ MaxDbFaults \in Nat
    /\ MaxExpiries \in Nat
    /\ MaxStops \in Nat

VARIABLES
    pc,          \* pc[r]: the await request r stands at
    claimed,     \* claimed[r]: the local claimed_idempotency
    resp,        \* resp[r]: the response it is about to return
    via,         \* via[r]: the outcome label: provider, cache or idempotent
    answer,      \* answer[r]: what the client has been told
    counted,     \* counted[r]: results added to generation_requests_total
    record,      \* record[k]: the Redis value of idem:{organization}:{k}
    cache,       \* cache[f]: the Redis value of cache:resp:{organization}:{f}
    usage,       \* requests with a committed usage_records row
    audited,     \* requests with a committed audit_events row
    generated,   \* history: requests whose provider call succeeded
    unleased,    \* history: requests told IdempotencyMiss without writing the lease
    unsettled,   \* history: requests whose own complete or release Redis refused
    expired,     \* history: keys whose idempotency record expired by its TTL
    stopped,     \* requests that never resume from the await they stand at
    redisFaults, dbFaults, expiries  \* environment events so far

locals == <<pc, claimed, resp, via, answer, counted>>
stores == <<record, cache, usage, audited>>
history == <<generated, unleased, unsettled, expired>>
environment == <<stopped, redisFaults, dbFaults, expiries>>
vars == <<locals, stores, history, environment>>

-----------------------------------------------------------------------------
(* Values of an idempotency record.  The code stores no owner: the "of" of *)
(* a lease only remembers, for the properties, which request's SET wrote   *)
(* it, and no action reads it.                                             *)
Absent == [status |-> "absent", of |-> NoResponse]
Lease(r) == [status |-> "in_progress", of |-> r]
Completed(q) == [status |-> "completed", of |-> q]
IsAbsent(k) == record[k].status = "absent"
IsLease(k) == record[k].status = "in_progress"
IsCompleted(k) == record[k].status = "completed"

Records == [status : {"absent", "in_progress", "completed"},
            of : Requests \cup {NoResponse}]

Working == {"lookup", "hitPolicy", "generate", "usage", "fill", "complete"}
Releasing == {"releaseRead", "releaseDelete"}
InFlight == Working \cup Releasing \cup {"arrived", "claim", "inspect", "audit"}
Steps == InFlight \cup {"answered"}
Answers == {"none", "ok", "rate_limited", "conflict", "error"}
Outcomes == {"none", "provider", "cache", "idempotent"}

Keyed(r) == KeyOf[r] # NoKey
Cacheable(r) == PrintOf[r] # NoPrint

(* A Redis command is executed and answered, executed with the reply lost, *)
(* or not executed; the last two raise RedisError.  Likewise a commit.     *)
(* (That neither ever happens is Stop.)                                    *)
Fates == {"answered", "lost", "refused"}
Faulty(fate) == IF fate = "answered" THEN 0 ELSE 1
RedisCommand(fate) ==
    /\ redisFaults + Faulty(fate) <= MaxRedisFaults
    /\ redisFaults' = redisFaults + Faulty(fate)
    /\ UNCHANGED <<stopped, dbFaults, expiries>>
Commit(fate) ==
    /\ dbFaults + Faulty(fate) <= MaxDbFaults
    /\ dbFaults' = dbFaults + Faulty(fate)
    /\ UNCHANGED <<stopped, redisFaults, expiries>>

Goto(r, step) == pc' = [pc EXCEPT ![r] = step]

(* A request that is answered leaves the handler.                          *)
Answer(r, code) ==
    /\ Goto(r, "answered")
    /\ answer' = [answer EXCEPT ![r] = code]

Count(r, result) == counted' = [counted EXCEPT ![r] = @ \cup {result}]

-----------------------------------------------------------------------------
Init ==
    /\ pc = [r \in Requests |-> "arrived"]
    /\ claimed = [r \in Requests |-> FALSE]
    /\ resp = [r \in Requests |-> NoResponse]
    /\ via = [r \in Requests |-> "none"]
    /\ answer = [r \in Requests |-> "none"]
    /\ counted = [r \in Requests |-> {}]
    /\ record = [k \in Keys |-> Absent]
    /\ cache = [f \in Prints |-> NoResponse]
    /\ usage = {} /\ audited = {}
    /\ generated = {} /\ unleased = {} /\ unsettled = {} /\ expired = {}
    /\ stopped = {} /\ redisFaults = 0 /\ dbFaults = 0 /\ expiries = 0

(* rate_limiter.consume: the bucket itself is module TokenBucket.          *)
AfterClaim(r) == IF Cacheable(r) THEN "lookup" ELSE "generate"

Admit(r) ==
    /\ pc[r] = "arrived"
    /\ Goto(r, IF Keyed(r) THEN "claim" ELSE AfterClaim(r))
    /\ UNCHANGED <<claimed, resp, via, answer, counted, stores, history, environment>>

Throttle(r) ==
    /\ pc[r] = "arrived"
    /\ Answer(r, "rate_limited")
    /\ Count(r, "error")
    /\ UNCHANGED <<claimed, resp, via, stores, history, environment>>

-----------------------------------------------------------------------------
(* idempotency_store.begin: SET NX EX, then a separate GET when it lost.   *)
ProceedAsMiss(r) ==
    /\ claimed' = [claimed EXCEPT ![r] = TRUE]
    /\ Goto(r, AfterClaim(r))
    /\ UNCHANGED <<resp, via, answer, counted>>

\* Variant: the lease is SET without NX, so it overwrites what is there.
ClaimOverwrites(r) ==
    /\ pc[r] = "claim"
    /\ record' = [record EXCEPT ![KeyOf[r]] = Lease(r)]
    /\ ProceedAsMiss(r)
    /\ UNCHANGED <<cache, usage, audited, history, environment>>

ClaimWon(r) ==
    /\ pc[r] = "claim"
    /\ IsAbsent(KeyOf[r])
    /\ record' = [record EXCEPT ![KeyOf[r]] = Lease(r)]
    /\ ProceedAsMiss(r)
    /\ UNCHANGED <<cache, usage, audited, history, environment>>

\* Variant: a lost SET NX is taken for a miss without reading the record.
ClaimLostProceeds(r) ==
    /\ pc[r] = "claim"
    /\ ~IsAbsent(KeyOf[r])
    /\ ProceedAsMiss(r)
    /\ UNCHANGED <<stores, history, environment>>

ClaimLost(r) ==
    /\ pc[r] = "claim"
    /\ ~IsAbsent(KeyOf[r])
    /\ Goto(r, "inspect")
    /\ UNCHANGED <<claimed, resp, via, answer, counted, stores, history, environment>>

(* RedisError on the SET: fail open, whether or not the SET took effect.   *)
ClaimFailsOpen(r) ==
    /\ pc[r] = "claim"
    /\ \E fate \in {"lost", "refused"} :
         LET wrote == fate = "lost" /\ IsAbsent(KeyOf[r]) IN
         /\ RedisCommand(fate)
         /\ record' = IF wrote THEN [record EXCEPT ![KeyOf[r]] = Lease(r)] ELSE record
         /\ unleased' = IF wrote THEN unleased ELSE unleased \cup {r}
    /\ ProceedAsMiss(r)
    /\ UNCHANGED <<cache, usage, audited, generated, unsettled, expired>>

(* The GET finds nothing: the record went away after the SET NX lost.      *)
InspectVanished(r) ==
    /\ pc[r] = "inspect"
    /\ IsAbsent(KeyOf[r])
    /\ unleased' = unleased \cup {r}
    /\ ProceedAsMiss(r)
    /\ UNCHANGED <<stores, generated, unsettled, expired, environment>>

InspectFailsOpen(r) ==
    /\ pc[r] = "inspect"
    /\ RedisCommand("refused")
    /\ unleased' = unleased \cup {r}
    /\ ProceedAsMiss(r)
    /\ UNCHANGED <<stores, generated, unsettled, expired>>

\* Variant: a busy key is polled again instead of being answered 409.
InspectPolls(r) ==
    /\ pc[r] = "inspect"
    /\ IsLease(KeyOf[r])
    /\ Goto(r, "claim")
    /\ UNCHANGED <<claimed, resp, via, answer, counted, stores, history, environment>>

InspectBusy(r) ==
    /\ pc[r] = "inspect"
    /\ IsLease(KeyOf[r])
    /\ Answer(r, "conflict")
    /\ Count(r, "error")
    /\ UNCHANGED <<claimed, resp, via, stores, history, environment>>

InspectReplay(r) ==
    /\ pc[r] = "inspect"
    /\ IsCompleted(KeyOf[r])
    /\ resp' = [resp EXCEPT ![r] = record[KeyOf[r]].of]
    /\ via' = [via EXCEPT ![r] = "idempotent"]
    /\ Goto(r, "audit")
    /\ UNCHANGED <<claimed, answer, counted, stores, history, environment>>

-----------------------------------------------------------------------------
(* response_cache.get, and the policy check of a hit, outside the try.     *)
LookupHit(r) ==
    /\ pc[r] = "lookup"
    /\ cache[PrintOf[r]] # NoResponse
    /\ resp' = [resp EXCEPT ![r] = cache[PrintOf[r]]]
    /\ via' = [via EXCEPT ![r] = "cache"]
    /\ Goto(r, "hitPolicy")
    /\ UNCHANGED <<claimed, answer, counted, stores, history, environment>>

LookupMiss(r) ==
    /\ pc[r] = "lookup"
    /\ \/ cache[PrintOf[r]] = NoResponse /\ UNCHANGED environment
       \/ RedisCommand("refused")
    /\ Goto(r, "generate")
    /\ UNCHANGED <<claimed, resp, via, answer, counted, stores, history>>

AfterFill(r) == IF claimed[r] THEN "complete" ELSE "audit"

HitAllowed(r) ==
    /\ pc[r] = "hitPolicy"
    /\ Goto(r, AfterFill(r))
    /\ UNCHANGED <<claimed, resp, via, answer, counted, stores, history, environment>>

(* A denial leaves the handler at once: no release and no error metric.    *)
HitDenied(r) ==
    /\ pc[r] = "hitPolicy"
    /\ Answer(r, "error")
    /\ UNCHANGED <<claimed, resp, via, counted, stores, history, environment>>

-----------------------------------------------------------------------------
(* The try block.  Fail is its "except Exception".                         *)
FinishError(r) ==
    /\ Answer(r, "error")
    /\ Count(r, "error")

\* Variant: the except clause forgets to release the lease.
FailKeepsLease(r) == FinishError(r)

Fail(r) ==
    IF claimed[r]
    THEN Goto(r, "releaseRead") /\ UNCHANGED <<answer, counted>>
    ELSE FinishError(r)

(* provider_executor.execute: see module ProviderExecutor for its inside.  *)
GenerateSucceeds(r) ==
    /\ pc[r] = "generate"
    /\ generated' = generated \cup {r}
    /\ resp' = [resp EXCEPT ![r] = r]
    /\ via' = [via EXCEPT ![r] = "provider"]
    /\ Goto(r, "usage")
    /\ UNCHANGED <<claimed, answer, counted, stores, unleased, unsettled, expired, environment>>

GenerateFails(r) ==
    /\ pc[r] = "generate"
    /\ Fail(r)
    /\ UNCHANGED <<claimed, resp, via, stores, history, environment>>

AfterUsage(r) == IF Cacheable(r) THEN "fill" ELSE AfterFill(r)

(* usage_records.request_id is unique: a second row for it is refused.     *)
DuplicateId(r) == \E q \in usage : IdOf[q] = IdOf[r]

UsageRecorded(r) ==
    /\ pc[r] = "usage"
    /\ ~DuplicateId(r)
    /\ usage' = usage \cup {r}
    /\ Goto(r, AfterUsage(r))
    /\ UNCHANGED <<claimed, resp, via, answer, counted, record, cache, audited,
                   history, environment>>

\* Variant: a failed insert is swallowed and the response is served anyway.
UsageRefusedServes(r) ==
    /\ pc[r] = "usage"
    /\ \/ DuplicateId(r) /\ UNCHANGED environment
       \/ Commit("refused")
    /\ Goto(r, AfterUsage(r))
    /\ UNCHANGED <<claimed, resp, via, answer, counted, stores, history>>

UsageRefused(r) ==
    /\ pc[r] = "usage"
    /\ \/ DuplicateId(r) /\ UNCHANGED environment
       \/ Commit("refused")
    /\ Fail(r)
    /\ UNCHANGED <<claimed, resp, via, stores, history>>

(* The row is committed, and the commit's reply or the refresh after it    *)
(* fails: the handler sees an exception for a request that is billed.      *)
UsageCommitLost(r) ==
    /\ pc[r] = "usage"
    /\ ~DuplicateId(r)
    /\ Commit("lost")
    /\ usage' = usage \cup {r}
    /\ Fail(r)
    /\ UNCHANGED <<claimed, resp, via, record, cache, audited, history>>

FillCache(r) ==
    /\ pc[r] = "fill"
    /\ \E fate \in Fates :
         /\ RedisCommand(fate)
         /\ cache' = IF fate = "refused" THEN cache
                     ELSE [cache EXCEPT ![PrintOf[r]] = resp[r]]
    /\ Goto(r, AfterFill(r))
    /\ UNCHANGED <<claimed, resp, via, answer, counted, record, usage, audited, history>>

-----------------------------------------------------------------------------
(* The lease of r is left behind if the command that ends it is refused.   *)
Settle(r, fate) ==
    /\ unsettled' = IF fate = "refused" THEN unsettled \cup {r} ELSE unsettled
    /\ UNCHANGED <<generated, unleased, expired>>

(* idempotency_store.complete: an unconditional SET; a RedisError is       *)
(* swallowed and the request goes on.                                      *)
Complete(r) ==
    /\ pc[r] = "complete"
    /\ \E fate \in Fates :
         /\ RedisCommand(fate)
         /\ record' = IF fate = "refused" THEN record
                      ELSE [record EXCEPT ![KeyOf[r]] = Completed(resp[r])]
         /\ Settle(r, fate)
    /\ Goto(r, "audit")
    /\ UNCHANGED <<claimed, resp, via, answer, counted, cache, usage, audited>>

(* _record_generation_success: the counter, then the audit insert.         *)
Audit(r) ==
    /\ pc[r] = "audit"
    /\ audited' = audited \cup {r}
    /\ Count(r, "success")
    /\ Answer(r, "ok")
    /\ UNCHANGED <<claimed, resp, via, record, cache, usage, history, environment>>

AuditInsertFails(r) ==
    /\ pc[r] = "audit"
    /\ \E fate \in {"lost", "refused"} :
         /\ Commit(fate)
         /\ audited' = IF fate = "lost" THEN audited \cup {r} ELSE audited
    /\ UNCHANGED <<claimed, resp, via, record, cache, usage, history>>

(* A replay or a cache hit is audited outside the try block.               *)
AuditFails(r) ==
    /\ AuditInsertFails(r)
    /\ via[r] # "provider"
    /\ Answer(r, "error")
    /\ Count(r, "success")

(* A generation is audited inside it: the request has already counted as a *)
(* success, and a claimed key is now released.                             *)
AuditFailsInTry(r) ==
    /\ AuditInsertFails(r)
    /\ via[r] = "provider"
    /\ \/ claimed[r] /\ Goto(r, "releaseRead") /\ Count(r, "success") /\ UNCHANGED answer
       \/ /\ ~claimed[r]
          /\ Answer(r, "error")
          /\ counted' = [counted EXCEPT ![r] = @ \cup {"success", "error"}]

-----------------------------------------------------------------------------
(* idempotency_store.release: a GET, then a DELETE if it read a lease.     *)
\* Variant: the DELETE is issued whatever the GET returned.
ReleaseReadsNothing(r) ==
    /\ pc[r] = "releaseRead"
    /\ Goto(r, "releaseDelete")
    /\ UNCHANGED <<claimed, resp, via, answer, counted, stores, history, environment>>

ReleaseRead(r) ==
    /\ pc[r] = "releaseRead"
    /\ IsLease(KeyOf[r])
    /\ Goto(r, "releaseDelete")
    /\ UNCHANGED <<claimed, resp, via, answer, counted, stores, history, environment>>

ReleaseSkipped(r) ==
    /\ pc[r] = "releaseRead"
    /\ \/ ~IsLease(KeyOf[r]) /\ UNCHANGED <<history, environment>>
       \/ RedisCommand("refused") /\ Settle(r, "refused")
    /\ FinishError(r)
    /\ UNCHANGED <<claimed, resp, via, stores>>

ReleaseDelete(r) ==
    /\ pc[r] = "releaseDelete"
    /\ \E fate \in Fates :
         /\ RedisCommand(fate)
         /\ record' = IF fate = "refused" THEN record
                      ELSE [record EXCEPT ![KeyOf[r]] = Absent]
         /\ Settle(r, fate)
    /\ FinishError(r)
    /\ UNCHANGED <<claimed, resp, via, cache, usage, audited>>

-----------------------------------------------------------------------------
(* The environment: TTL expiry of either kind of key.                      *)
ExpireRecord(k) ==
    /\ ~IsAbsent(k)
    /\ expiries < MaxExpiries
    /\ expiries' = expiries + 1
    /\ record' = [record EXCEPT ![k] = Absent]
    /\ expired' = expired \cup {k}
    /\ UNCHANGED <<locals, cache, usage, audited, generated, unleased, unsettled,
                   stopped, redisFaults, dbFaults>>

ExpireCache(f) ==
    /\ cache[f] # NoResponse
    /\ expiries < MaxExpiries
    /\ expiries' = expiries + 1
    /\ cache' = [cache EXCEPT ![f] = NoResponse]
    /\ UNCHANGED <<locals, record, usage, audited, history, stopped, redisFaults, dbFaults>>

(* A request never resumes: its process ends, its coroutine is cancelled   *)
(* (which "except Exception" does not see), or Redis or the database never *)
(* answers, for which neither client has a timeout.  The command under way *)
(* may have been executed.  Only for the last one of a request is that     *)
(* told from stopping at the next await.                                   *)
Stop(r) ==
    /\ pc[r] \in InFlight
    /\ Cardinality(stopped) < MaxStops
    /\ stopped' = stopped \cup {r}
    /\ \/ UNCHANGED <<record, audited>>
       \/ pc[r] = "audit" /\ audited' = audited \cup {r} /\ UNCHANGED record
       \/ /\ pc[r] = "releaseDelete"
          /\ record' = [record EXCEPT ![KeyOf[r]] = Absent]
          /\ UNCHANGED audited
    /\ UNCHANGED <<locals, cache, usage, history, redisFaults, dbFaults, expiries>>

-----------------------------------------------------------------------------
Begin(r) ==
    \/ ClaimWon(r) \/ ClaimLost(r) \/ ClaimFailsOpen(r)
    \/ InspectVanished(r) \/ InspectFailsOpen(r) \/ InspectBusy(r) \/ InspectReplay(r)

CacheHit(r) == LookupHit(r) \/ LookupMiss(r) \/ HitAllowed(r) \/ HitDenied(r)

Attempt(r) ==
    \/ GenerateSucceeds(r) \/ GenerateFails(r)
    \/ UsageRecorded(r) \/ UsageRefused(r) \/ UsageCommitLost(r)
    \/ FillCache(r) \/ Complete(r)
    \/ Audit(r) \/ AuditFails(r) \/ AuditFailsInTry(r)

Release(r) == ReleaseRead(r) \/ ReleaseSkipped(r) \/ ReleaseDelete(r)

Step(r) ==
    Admit(r) \/ Throttle(r) \/ Begin(r) \/ CacheHit(r) \/ Attempt(r) \/ Release(r)

Finished == \A r \in Requests : pc[r] = "answered" \/ r \in stopped
Idle == Finished /\ UNCHANGED vars

Next ==
    \/ \E r \in Requests \ stopped : Step(r) \/ Stop(r)
    \/ \E k \in Keys : ExpireRecord(k)
    \/ \E f \in Prints : ExpireCache(f)
    \/ Idle

(* The event loop resumes every coroutine whose await returned or raised.  *)
(* That it does is not assumed of Redis and the database: any number of    *)
(* requests may be stopped.  Only the provider's calls end by a timeout.   *)
Fairness == \A r \in Requests : WF_vars(r \notin stopped /\ Step(r))

Spec == Init /\ [][Next]_vars
FairSpec == Spec /\ Fairness

-----------------------------------------------------------------------------
(* Properties.                                                             *)

TypeOK ==
    /\ pc \in [Requests -> Steps]
    /\ claimed \in [Requests -> BOOLEAN]
    /\ resp \in [Requests -> Requests \cup {NoResponse}]
    /\ via \in [Requests -> Outcomes]
    /\ answer \in [Requests -> Answers]
    /\ counted \in [Requests -> SUBSET {"success", "error"}]
    /\ record \in [Keys -> Records]
    /\ cache \in [Prints -> Requests \cup {NoResponse}]
    /\ usage \in SUBSET Requests
    /\ audited \in SUBSET Requests
    /\ generated \in SUBSET Requests
    /\ unleased \in SUBSET Requests
    /\ unsettled \in SUBSET Requests
    /\ expired \in SUBSET Keys
    /\ stopped \in SUBSET Requests
    /\ redisFaults \in 0..MaxRedisFaults
    /\ dbFaults \in 0..MaxDbFaults
    /\ expiries \in 0..MaxExpiries

(* A key is coordinated while its record has not expired and no request    *)
(* with it was let through without writing the lease.  Redis errors after  *)
(* the claim, database errors and stops do not end coordination.           *)
Coordinated(k) ==
    /\ k \notin expired
    /\ \A r \in unleased : KeyOf[r] # k

Replies(k) == {r \in Requests : KeyOf[r] = k /\ answer[r] = "ok"}

(* However many requests share a coordinated key, and whichever of them    *)
(* fail, stop or meet Redis errors, all the 200s carry one response.       *)
OneResponsePerKey ==
    \A k \in Keys : Coordinated(k) =>
        \A r, q \in Replies(k) : resp[r] = resp[q]

(* A request that does not fail: it is not on its way to an error answer,  *)
(* and has not got one.                                                    *)
Standing(r) == pc[r] \notin Releasing /\ answer[r] # "error"

(* A coordinated key is billed at most once, except by requests that fail: *)
(* their client is told so, or hears nothing if they stop while releasing. *)
BilledOncePerKey ==
    \A k \in Keys : Coordinated(k) =>
        \A r, q \in usage :
            KeyOf[r] = k /\ KeyOf[q] = k /\ Standing(r) /\ Standing(q) => r = q

(* Whatever path served it, a 200 carries a response with a committed      *)
(* usage row, has its own audit event, and counts as one success.          *)
ServedIsBilledAndAudited ==
    \A r \in Requests : answer[r] = "ok" =>
        /\ resp[r] \in usage
        /\ r \in audited
        /\ counted[r] = {"success"}

(* A lease outlives the answer to the request that wrote it only because   *)
(* that request was denied by policy on a cache hit, or because Redis      *)
(* refused the very command by which it would have completed or released.  *)
LeaseIsExplained ==
    \A k \in Keys : IsLease(k) =>
        LET r == record[k].of IN
        \/ pc[r] \in InFlight
        \/ answer[r] = "error" /\ via[r] = "cache"
        \/ r \in unsettled

(* A completed record of a coordinated key is never replaced or deleted:   *)
(* not by a late complete, nor by a release that read a lease before.      *)
CompletedStays ==
    [][\A k \in Keys : IsCompleted(k) /\ Coordinated(k)' => record'[k] = record[k]]_vars

(* Every request is answered unless it is stopped.                         *)
EveryRequestEnds ==
    \A r \in Requests : <>(pc[r] = "answered" \/ r \in stopped)

(* A lease is eventually completed or released, unless its own request was *)
(* stopped, denied on a cache hit, or refused by Redis when it did so:     *)
(* faults, stops and failures of other requests do not keep a key busy.    *)
LeaseResolves ==
    \A k \in Keys : \A r \in Requests :
        record[k] = Lease(r) ~>
            \/ record[k] # Lease(r)
            \/ r \in stopped \cup unsettled
            \/ answer[r] = "error" /\ via[r] = "cache"

-----------------------------------------------------------------------------
(* What the documents say and the code does not do.                        *)

(* ADR 0003: "Idempotency leases still release on failure".  Without a     *)
(* fault, an expiry or a stop, no lease of a request answered with an      *)
(* error remains.                                                          *)
FailureReleasesLease ==
    (redisFaults = 0 /\ dbFaults = 0) =>
        \A k \in Keys, r \in Requests : answer[r] = "error" => record[k] # Lease(r)

(* requirements.md: "Usage recording must be durable or recoverable after  *)
(* a provider response."  Without a database fault, every answered request *)
(* whose provider call succeeded has its usage row.                        *)
GenerationIsBilled ==
    dbFaults = 0 =>
        \A r \in generated : pc[r] = "answered" => r \in usage
=============================================================================
