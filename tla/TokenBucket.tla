---------------------------- MODULE TokenBucket -----------------------------
(***************************************************************************)
(* RedisRateLimiter (infrastructure/redis/rate_limiter.py): the Lua token  *)
(* bucket of one organization.  A call reads the clock of its API process  *)
(* and sends the reading with the script; the script is atomic, but the    *)
(* clocks are not the same, and the scripts of calls in flight run in any  *)
(* order, each as long after its reading as Redis and the network take.    *)
(*                                                                         *)
(* Tokens are counted in units of which one request takes Cost, so that    *)
(* refill_per_second is a whole number: with Cost = 60 it is               *)
(* requests_per_minute.  Rounding of floats is not modelled.               *)
(***************************************************************************)
EXTENDS Integers, Sequences

CONSTANTS
    Processes, \* API processes
    Calls,     \* calls of consume() that may be in flight together
    Skew,      \* no clock is further ahead of Redis's than this
    Cost,      \* units one request takes
    Capacity,  \* units in a full bucket: burst * Cost
    Rate,      \* units refilled per second
    MaxTime,   \* bound: seconds modelled
    MaxRuns    \* bound: script executions modelled

ASSUME BucketAssumption ==
    /\ Skew \in Nat
    /\ Cost \in Nat \ {0}
    /\ Capacity \in Nat /\ Capacity >= Cost
    /\ Rate \in Nat \ {0}
    /\ MaxTime \in Nat
    /\ MaxRuns \in Nat

VARIABLES
    ahead,     \* ahead[p]: seconds by which p's clock is ahead of Redis's
    time,      \* Redis's clock
    reading,   \* reading[c]: what the call c has read and sent, or NoReading
    present,   \* the hash rl:org:{organization_id} exists
    tokens,    \* its "tokens" (of the last hash, while there is none)
    timestamp, \* its "timestamp" (likewise)
    deadline,  \* when EXPIRE deletes it
    runs,      \* history: script executions so far
    late,      \* history: seconds between reading and script, of all executions
    credit,    \* history: seconds of refill that no clock reading accounts for
    grants,    \* history: clock reading and credit of every metered admission
    promise    \* history: the clock reading at which a Retry-After ends, or None

bucket == <<present, tokens, timestamp, deadline>>
history == <<late, credit, grants, promise>>
vars == <<ahead, time, reading, bucket, runs, history>>

None == -1
NoReading == [now |-> None, at |-> None]
AtLeastZero(x) == IF x > 0 THEN x ELSE 0
AtMost(bound, x) == IF x < bound THEN x ELSE bound
CeilDiv(a, b) == (a + b - 1) \div b

Clock(p) == time + ahead[p]
FillTime == CeilDiv(Capacity, Rate)

\* Variant: the key expires after the time of one token, not of a full bucket.
TtlOfOneToken == CeilDiv(Cost, Rate)
Ttl == FillTime + 1

ClocksWithin(d) == \A p, q \in Processes : ahead[p] - ahead[q] <= d

Init ==
    /\ ahead \in [Processes -> 0..Skew]
    /\ time = 0
    /\ reading = [c \in Calls |-> NoReading]
    /\ present = FALSE /\ tokens = Capacity /\ timestamp = 0 /\ deadline = 0
    /\ runs = 0 /\ late = 0 /\ credit = 0 /\ grants = <<>> /\ promise = None

-----------------------------------------------------------------------------
(* The script.                                                             *)
Elapsed(now) == AtLeastZero(now - timestamp)

\* Variant: the refill is not capped by the capacity.
RefilledUncapped(now) ==
    IF present THEN tokens + Elapsed(now) * Rate ELSE Capacity

Refilled(now) ==
    IF present THEN AtMost(Capacity, tokens + Elapsed(now) * Rate) ELSE Capacity

\* Variant: math.floor instead of math.ceil.
RetryAfterFloor(now) == (Cost - Refilled(now)) \div Rate
RetryAfter(now) == CeilDiv(Cost - Refilled(now), Rate)

(* Seconds of refill a run hands out beyond the distance between its clock *)
(* reading and the last one: a clock that is behind, or an early expiry.   *)
Unaccounted(now) ==
    AtLeastZero((IF present THEN Elapsed(now) ELSE IF runs = 0 THEN 0 ELSE FillTime)
                - (now - timestamp))

(* consume() reads the clock before it awaits the script.                  *)
ReadClock(c) ==
    /\ reading[c] = NoReading
    /\ runs < MaxRuns
    /\ \E p \in Processes : reading' = [reading EXCEPT ![c] = [now |-> Clock(p), at |-> time]]
    /\ UNCHANGED <<ahead, time, bucket, runs, history>>

(* The script stores the reading it was sent, also an older one than last. *)
Store(c, left) ==
    /\ present' = TRUE
    /\ tokens' = left
    /\ timestamp' = reading[c].now
    /\ deadline' = time + Ttl
    /\ runs < MaxRuns
    /\ runs' = runs + 1
    /\ late' = late + (time - reading[c].at)
    /\ credit' = credit + Unaccounted(reading[c].now)
    /\ reading' = [reading EXCEPT ![c] = NoReading]
    /\ UNCHANGED <<ahead, time>>

Allow(c) ==
    /\ reading[c] # NoReading
    /\ Refilled(reading[c].now) >= Cost
    /\ Store(c, Refilled(reading[c].now) - Cost)
    /\ grants' = Append(grants, [now |-> reading[c].now, credit |-> credit'])
    /\ promise' = None

Deny(c) ==
    /\ reading[c] # NoReading
    /\ Refilled(reading[c].now) < Cost
    /\ Store(c, Refilled(reading[c].now))
    /\ promise' = IF promise = None THEN reading[c].now + RetryAfter(reading[c].now) ELSE promise
    /\ UNCHANGED grants

(* The script ran and its reply was lost: the adapter fails open, and the  *)
(* token is spent if there was one.                                        *)
FailOpen(c) ==
    /\ reading[c] # NoReading
    /\ LET left == Refilled(reading[c].now) IN
       Store(c, IF left >= Cost THEN left - Cost ELSE left)
    /\ promise' = None
    /\ UNCHANGED grants

(* A script that did not run changes nothing and admits its call           *)
(* unmetered.                                                              *)
NotRun(c) ==
    /\ reading[c] # NoReading
    /\ reading' = [reading EXCEPT ![c] = NoReading]
    /\ UNCHANGED <<ahead, time, bucket, runs, history>>

Expire ==
    /\ present /\ time >= deadline
    /\ present' = FALSE
    /\ UNCHANGED <<ahead, time, reading, tokens, timestamp, deadline, runs, history>>

Tick ==
    /\ time < MaxTime
    /\ time' = time + 1
    /\ UNCHANGED <<ahead, reading, bucket, runs, history>>

Stop == time = MaxTime /\ runs = MaxRuns /\ UNCHANGED vars

Next ==
    \/ \E c \in Calls : ReadClock(c) \/ Allow(c) \/ Deny(c) \/ FailOpen(c) \/ NotRun(c)
    \/ Expire \/ Tick \/ Stop

Spec == Init /\ [][Next]_vars

-----------------------------------------------------------------------------
Readings == [now : Nat, at : Nat]

TypeOK ==
    /\ ahead \in [Processes -> 0..Skew]
    /\ time \in Nat
    /\ reading \in [Calls -> Readings \cup {NoReading}]
    /\ present \in BOOLEAN
    /\ tokens \in 0..Capacity
    /\ timestamp \in Nat
    /\ deadline \in Nat
    /\ runs \in Nat
    /\ late \in Int
    /\ credit \in Nat
    /\ grants \in Seq([now : Nat, credit : Nat])
    /\ promise \in Nat \cup {None}

(* Between any two metered admissions the organization was admitted no     *)
(* more often than a full bucket and the refill of the time between them,  *)
(* as the clocks read it plus the credit they caused, allow.               *)
WindowBound ==
    \A m, n \in 1..Len(grants) : m <= n =>
        (n - m + 1) * Cost <= Capacity
            + Rate * (grants[n].now - grants[m].now + grants[n].credit - grants[m].credit)

(* A run hands out unaccounted refill for no longer than the clocks differ *)
(* plus the time from its reading to its script: EXPIRE never adds a       *)
(* token, nor do equal clocks; only a call that was overtaken, or expired, *)
(* in flight has seconds refilled twice, and no more than it was under way.*)
CreditIsSkewAndDelay == \A d \in 0..Skew : ClocksWithin(d) => credit <= d * runs + late

(* A call whose clock has reached the end of a Retry-After is not refused, *)
(* whatever was refused or overtaken in between, unless somebody else took *)
(* a token since.                                                          *)
RetryAfterSuffices ==
    [][\A c \in Calls : Deny(c) /\ promise # None => reading[c].now < promise]_vars
=============================================================================
