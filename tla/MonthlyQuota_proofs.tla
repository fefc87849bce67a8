------------------------ MODULE MonthlyQuota_proofs -------------------------
(***************************************************************************)
(* Which models serve a request, what a hit in the response cache answers  *)
(* it with, when a client that is told to wait comes back, and by how much *)
(* a month's quota is overshot: for any finite set of requests, any chains,*)
(* changes of the policy and length of a month.                            *)
(***************************************************************************)
EXTENDS MonthlyQuota, FiniteSetTheorems, TLAPS

(* The types that the rest needs.                                          *)
FlightTypes ==
    /\ pc \in [Requests -> Steps \cup Ends \cup {"arriving"}]
    /\ route \in [Requests -> Nat]
    /\ \A r \in Requests : route[r] \in 1..Len(ChainOf[r])
    /\ cache \in [Fingerprints -> Caching \cup {Nobody}]
    /\ source \in [Requests -> Caching \cup {Nobody}]
    /\ everEntitled \in [Requests -> SUBSET Models]

(* Beyond its check, a request's model is one that was allowed; what is    *)
(* allowed now is remembered by every request that has come.               *)
Checks == {"policy", "sum", "generate", "record", "fill", "served", "replayed"}
EntitledInv ==
    \A r \in Requests :
        /\ pc[r] # "arriving" =>
             \A m \in Models : IsModelAllowed(m) => m \in everEntitled[r]
        /\ pc[r] \in Checks => ChainOf[r][route[r]] \in everEntitled[r]

(* A response is in the cache only after its usage row is committed, and   *)
(* only a request for the same is answered with it.                        *)
IsCommitted(r) == r \in Requests /\ pc[r] \in {"fill", "served"}
CacheInv ==
    /\ \A f \in Fingerprints :
         cache[f] # Nobody => Fingerprint(cache[f]) = f /\ IsCommitted(cache[f])
    /\ \A r \in Requests :
         /\ pc[r] \in {"lookup", "fill"} => r \in Caching
         /\ pc[r] \in {"arriving", "lookup"} => ~IsHit(r) /\ route[r] = 1
         /\ pc[r] = "replayed" => IsHit(r)
         /\ IsHit(r) => /\ pc[r] \in {"entitle", "policy", "sum", "replayed", "refused", "exceeded"}
                        /\ route[r] = 1
                        /\ Fingerprint(source[r]) = Fingerprint(r)
                        /\ IsCommitted(source[r])

(* A clock reading is not in the future; a 429 was given at some time      *)
(* after it.                                                               *)
ClockInv ==
    /\ time \in Nat
    /\ now \in [Requests -> Nat] /\ comeback \in [Requests -> Int]
    /\ \A r \in Requests :
         /\ now[r] <= time
         /\ pc[r] = "exceeded" => MonthEnd(now[r]) - comeback[r] < TicksPerSecond

QuotaInv == FlightTypes /\ EntitledInv /\ CacheInv /\ ClockInv

(* Whole seconds are at most a fraction of one short of the ticks they are *)
(* taken from.                                                             *)
LEMMA WholeSeconds ==
    ASSUME NEW ticks \in Int, NEW length \in Nat, length > 0
    PROVE  ticks \div length \in Int /\ ticks < length * (ticks \div length) + length
OBVIOUS

(* The larger of two numbers.                                              *)
LEMMA LargerOfTwo ==
    ASSUME NEW m \in Int, NEW n \in Int
    PROVE  Max({m, n}) \in {m, n} /\ Max({m, n}) >= m /\ Max({m, n}) >= n
<1>1. \E x \in {m, n} : \A y \in {m, n} : x >= y
  OBVIOUS
<1>2. Max({m, n}) \in {m, n} /\ \A y \in {m, n} : Max({m, n}) >= y
  BY <1>1, Zenon DEF Max
<1> QED
  BY <1>2

(* More seconds are no fewer ticks.                                        *)
LEMMA Scaled ==
    ASSUME NEW ticks \in Nat, NEW low \in Int, NEW high \in Int, high >= low
    PROVE  ticks * low \in Int /\ ticks * high \in Int /\ ticks * low <= ticks * high
OBVIOUS

(* seconds_until_month_end, at any time of any month.                      *)
LEMMA RetryAfterBound ==
    ASSUME NEW t \in Nat
    PROVE  /\ SecondsUntilMonthEnd(t) \in Nat /\ MonthEnd(t) \in Int
           /\ MonthEnd(t) - (t + TicksPerSecond * SecondsUntilMonthEnd(t)) < TicksPerSecond
<1>1. MonthTicks \in Nat /\ MonthTicks > 0 /\ TicksPerSecond \in Nat /\ TicksPerSecond > 0
  BY QuotaAssumption DEF MonthTicks
<1>2. MonthEnd(t) \in Int
  <2>1. t \div MonthTicks \in Int
    BY <1>1, WholeSeconds
  <2> QED
    BY <1>1, <2>1 DEF MonthEnd, MonthOf
<1>3. PICK left \in Int : left = MonthEnd(t) - t
  BY <1>2
<1>4. PICK q \in Int : /\ q = left \div TicksPerSecond
                       /\ left < TicksPerSecond * q + TicksPerSecond
  BY <1>1, WholeSeconds
<1>5. PICK s \in Nat : s = Max({1, q}) /\ s >= q
  <2>1. PICK s \in Int : s = Max({1, q}) /\ s >= 1 /\ s >= q
    BY LargerOfTwo
  <2> QED
    BY <2>1
<1>6. SecondsUntilMonthEnd(t) = s
  BY <1>3, <1>4, <1>5 DEF SecondsUntilMonthEnd
<1>7. PICK low \in Int, high \in Int :
         low = TicksPerSecond * q /\ high = TicksPerSecond * s /\ low <= high
  BY <1>1, <1>5, Scaled
<1>8. MonthEnd(t) - (t + high) < TicksPerSecond
  BY <1>1, <1>3, <1>7, <1>2, <1>4
<1> QED
  BY <1>2, <1>6, <1>7, <1>8

-----------------------------------------------------------------------------
(* No request has come yet.                                                *)
LEMMA QuotaInit == Init => QuotaInv
<1> SUFFICES ASSUME Init PROVE QuotaInv
  OBVIOUS
<1>1. FlightTypes
  BY QuotaAssumption DEF Init, FlightTypes
<1>2. EntitledInv
  BY DEF Init, EntitledInv, Checks
<1>3. CacheInv
  BY DEF Init, CacheInv, IsHit
<1>4. ClockInv
  BY DEF Init, ClockInv
<1> QED
  BY <1>1, <1>3, <1>2, <1>4 DEF QuotaInv

(* On to the next route, within the chain.                                 *)
LEMMA NextRoute ==
    ASSUME FlightTypes, NEW r \in Requests, NEW ending \in Ends, TryNext(r, ending)
    PROVE  /\ pc' \in [Requests -> Steps \cup Ends \cup {"arriving"}]
           /\ pc'[r] \in {"entitle", ending}
           /\ \A o \in Requests \ {r} : pc'[o] = pc[o] /\ route'[o] = route[o]
           /\ route' \in [Requests -> Nat]
           /\ \A o \in Requests : route'[o] \in 1..Len(ChainOf[o])
<1> USE DEF FlightTypes, TryNext, Goto
<1>1. Len(ChainOf[r]) \in Nat
  BY QuotaAssumption
<1>2. CASE route[r] = Len(ChainOf[r])
  BY <1>2 DEF Steps
<1>3. CASE route[r] # Len(ChainOf[r])
  <2>1. route[r] + 1 \in 1..Len(ChainOf[r])
    BY <1>1, <1>3
  <2>2. route' = [route EXCEPT ![r] = route[r] + 1] /\ pc' = [pc EXCEPT ![r] = "entitle"]
    BY <1>3
  <2>3. \A o \in Requests : route'[o] = IF o = r THEN route[r] + 1 ELSE route[o]
    BY <2>2
  <2>4. route' \in [Requests -> Nat] /\ \A o \in Requests : route'[o] \in 1..Len(ChainOf[o])
    BY <2>1, <2>2, <2>3
  <2> QED
    BY <2>2, <2>3, <2>4 DEF Steps
<1> QED
  BY <1>2, <1>3

(* Every step of a request keeps the types.                                *)
LEMMA FlightStep ==
    ASSUME QuotaInv, NEW r \in Requests, Step(r)
    PROVE  FlightTypes'
<1> USE DEF FlightTypes, Goto, policy, history
<1>0. FlightTypes /\ CacheInv /\ Caching \subseteq Requests
  BY QuotaAssumption DEF QuotaInv
<1>1. CASE Arrive(r)
  BY <1>0, <1>1 DEF Arrive, Steps
<1>2. CASE LookupHit(r)
  <2>1. Fingerprint(r) \in Fingerprints
    BY <1>0, <1>2 DEF LookupHit, CacheInv, Fingerprints
  <2> QED
    BY <1>0, <1>2, <2>1 DEF LookupHit, Steps
<1>3. CASE LookupMiss(r) \/ ModelAllowed(r) \/ QuotaExceeded(r) \/ Generate(r)
  BY <1>0, <1>3 DEF LookupMiss, ModelAllowed, QuotaExceeded, Generate, Steps, Ends
<1>4. CASE ModelRefused(r)
  <2>1. CASE IsHit(r)
    BY <1>0, <1>4, <2>1 DEF ModelRefused, Ends
  <2>2. CASE ~IsHit(r)
    BY <1>0, <1>4, <2>2, NextRoute DEF ModelRefused, Ends
  <2> QED
    BY <2>1, <2>2
<1>5. CASE ReadPolicy(r) \/ QuotaLeft(r)
  BY <1>0, <1>5 DEF ReadPolicy, QuotaLeft, Pass, Steps, Ends
<1>6. CASE GenerateFails(r)
  BY <1>0, <1>6, NextRoute DEF GenerateFails, Ends
<1>7. CASE Record(r) \/ RecordFails(r)
  BY <1>0, <1>7 DEF Record, RecordFails, Steps, Ends
<1>8. CASE Fill(r)
  BY <1>0, <1>8 DEF Fill, CacheInv, Ends
<1> QED
  BY <1>1, <1>3, <1>5, <1>7, <1>2, <1>4, <1>6, <1>8 DEF Step

(* A request gets past its check only with a model that is allowed.        *)
LEMMA EntitledStep ==
    ASSUME QuotaInv, NEW r \in Requests, Step(r)
    PROVE  EntitledInv'
<1> USE DEF Goto, policy, history, Checks, EntitledInv
<1>0. FlightTypes /\ EntitledInv /\ CacheInv
  BY DEF QuotaInv
<1>1. CASE Arrive(r)
  <2>1. \A m \in Models : IsModelAllowed(m)' <=> IsModelAllowed(m)
    BY <1>1 DEF Arrive, IsModelAllowed
  <2> QED
    BY <1>0, <1>1, <2>1 DEF Arrive, FlightTypes
<1>2. ASSUME UNCHANGED <<entitled, everEntitled>>,
             \A o \in Requests \ {r} : pc'[o] = pc[o] /\ route'[o] = route[o],
             pc[r] # "arriving",
             pc'[r] \in Checks => ChainOf[r][route'[r]] \in everEntitled[r]
      PROVE EntitledInv'
  BY <1>0, <1>2 DEF IsModelAllowed
<1>3. CASE ModelAllowed(r)
  <2>1. ChainOf[r][route[r]] \in Models
    BY <1>0, QuotaAssumption DEF FlightTypes
  <2> QED
    BY <1>0, <1>2, <1>3, <2>1 DEF ModelAllowed, Checked, FlightTypes
<1>4. CASE ModelRefused(r)
  <2>1. CASE IsHit(r)
    BY <1>0, <1>2, <1>4, <2>1 DEF ModelRefused, FlightTypes
  <2>2. CASE ~IsHit(r)
    BY <1>0, <1>2, <1>4, <2>2, NextRoute DEF ModelRefused, Ends
  <2> QED
    BY <2>1, <2>2
<1>5. CASE GenerateFails(r)
  BY <1>0, <1>2, <1>5, NextRoute DEF GenerateFails, Ends
<1>6. CASE LookupHit(r) \/ LookupMiss(r) \/ QuotaExceeded(r) \/ RecordFails(r)
  BY <1>0, <1>2, <1>6 DEF LookupHit, LookupMiss, QuotaExceeded, RecordFails, FlightTypes
<1>7. CASE ReadPolicy(r) \/ QuotaLeft(r) \/ Generate(r) \/ Record(r) \/ Fill(r)
  <2>1. UNCHANGED <<entitled, everEntitled, route>> /\ pc[r] \in Checks
    BY <1>7 DEF ReadPolicy, QuotaLeft, Generate, Record, Fill
  <2>2. \A o \in Requests \ {r} : pc'[o] = pc[o]
    BY <1>0, <1>7 DEF ReadPolicy, QuotaLeft, Generate, Record, Fill, Pass, FlightTypes
  <2> QED
    BY <1>0, <1>2, <2>1, <2>2
<1> QED
  BY <1>1, <1>4, <1>6, <1>3, <1>5, <1>7 DEF Step

(* Only what is committed gets into the cache, and out of it.              *)
LEMMA CacheStep ==
    ASSUME QuotaInv, NEW r \in Requests, Step(r)
    PROVE  CacheInv'
<1> USE DEF Goto, policy, history, IsHit
<1>0. FlightTypes /\ CacheInv /\ pc \in [Requests -> Steps \cup Ends \cup {"arriving"}]
      /\ source \in [Requests -> Caching \cup {Nobody}]
  BY DEF QuotaInv, FlightTypes
<1>1. ASSUME UNCHANGED <<cache, source>>,
             \A o \in Requests \ {r} : pc'[o] = pc[o] /\ route'[o] = route[o],
             IsCommitted(r) => pc'[r] \in {"fill", "served"},
             pc'[r] \in {"lookup", "fill"} => r \in Caching,
             pc'[r] \in {"arriving", "lookup"} => ~IsHit(r) /\ route'[r] = 1,
             pc'[r] = "replayed" => IsHit(r),
             IsHit(r) => /\ pc'[r] \in {"entitle", "policy", "sum", "replayed", "refused", "exceeded"}
                         /\ route'[r] = 1
      PROVE CacheInv'
  <2>1. \A o : IsCommitted(o) => IsCommitted(o)'
    BY <1>1 DEF IsCommitted
  <2>2. \A f \in Fingerprints : cache[f] # Nobody => Fingerprint(cache[f]) = f /\ IsCommitted(cache[f])
    BY <1>0 DEF CacheInv
  <2>3. ASSUME NEW o \in Requests
        PROVE  /\ pc'[o] \in {"lookup", "fill"} => o \in Caching
               /\ pc'[o] \in {"arriving", "lookup"} => ~IsHit(o) /\ route'[o] = 1
               /\ pc'[o] = "replayed" => IsHit(o)
               /\ IsHit(o) => /\ pc'[o] \in {"entitle", "policy", "sum", "replayed", "refused", "exceeded"}
                              /\ route'[o] = 1
                              /\ Fingerprint(source[o]) = Fingerprint(o)
                              /\ IsCommitted(source[o])
    BY <1>0, <1>1 DEF CacheInv
  <2> QED
    BY <1>1, <2>1, <2>2, <2>3 DEF CacheInv
<1>2. CASE Arrive(r) \/ LookupMiss(r) \/ ModelAllowed(r) \/ QuotaExceeded(r) \/ Generate(r)
           \/ Record(r) \/ RecordFails(r)
  BY <1>0, <1>1, <1>2 DEF Arrive, LookupMiss, ModelAllowed, QuotaExceeded, Generate, Record,
                          RecordFails, CacheInv, IsCommitted
<1>3. CASE ModelRefused(r)
  <2>1. CASE IsHit(r)
    BY <1>0, <1>1, <1>3, <2>1 DEF ModelRefused, CacheInv, IsCommitted
  <2>2. CASE ~IsHit(r)
    BY <1>0, <1>1, <1>3, <2>2, NextRoute DEF ModelRefused, Ends, CacheInv, IsCommitted
  <2> QED
    BY <2>1, <2>2
<1>4. CASE GenerateFails(r)
  <2>1. ~IsHit(r)
    BY <1>0, <1>4 DEF GenerateFails, CacheInv
  <2> QED
    BY <1>0, <1>1, <1>4, <2>1, NextRoute DEF GenerateFails, Ends, IsCommitted
<1>5. CASE ReadPolicy(r) \/ QuotaLeft(r)
  <2>1. pc'[r] \in {"sum", IF IsHit(r) THEN "replayed" ELSE "generate"}
        /\ pc[r] \in {"policy", "sum"} /\ UNCHANGED <<cache, source, route>>
        /\ \A o \in Requests \ {r} : pc'[o] = pc[o]
    BY <1>0, <1>5 DEF ReadPolicy, QuotaLeft, Pass
  <2> QED
    BY <1>0, <1>1, <2>1 DEF CacheInv, IsCommitted
<1>6. CASE LookupHit(r)
  <2>1. /\ pc[r] = "lookup" /\ pc'[r] = "entitle" /\ route[r] = 1
        /\ UNCHANGED <<cache, route>> /\ \A o \in Requests \ {r} : pc'[o] = pc[o] /\ source'[o] = source[o]
        /\ source'[r] = cache[Fingerprint(r)] /\ cache[Fingerprint(r)] # Nobody
    BY <1>0, <1>6 DEF LookupHit, CacheInv
  <2>2. Fingerprint(r) \in Fingerprints
    BY <1>0, <2>1 DEF CacheInv, Fingerprints
  <2>3. \A o : IsCommitted(o) => IsCommitted(o)'
    BY <2>1 DEF IsCommitted
  <2>4. Fingerprint(source'[r]) = Fingerprint(r) /\ IsCommitted(source'[r])
    BY <1>0, <2>1, <2>2 DEF CacheInv
  <2>5. ASSUME NEW o \in Requests
        PROVE  /\ pc'[o] \in {"lookup", "fill"} => o \in Caching
               /\ pc'[o] \in {"arriving", "lookup"} => source'[o] = Nobody /\ route'[o] = 1
               /\ pc'[o] = "replayed" => source'[o] # Nobody
               /\ source'[o] # Nobody =>
                    /\ pc'[o] \in {"entitle", "policy", "sum", "replayed", "refused", "exceeded"}
                    /\ route'[o] = 1
                    /\ Fingerprint(source'[o]) = Fingerprint(o)
                    /\ IsCommitted(source'[o])
    BY <1>0, <2>1, <2>4 DEF CacheInv
  <2>6. \A f \in Fingerprints : cache[f] # Nobody => Fingerprint(cache[f]) = f /\ IsCommitted(cache[f])
    BY <1>0 DEF CacheInv
  <2> QED
    BY <2>1, <2>3, <2>5, <2>6 DEF CacheInv
<1>7. CASE Fill(r)
  <2>1. /\ pc[r] = "fill" /\ pc'[r] = "served" /\ r \in Caching /\ source[r] = Nobody
        /\ UNCHANGED <<route, source>> /\ \A o \in Requests \ {r} : pc'[o] = pc[o]
    BY <1>0, <1>7 DEF Fill, CacheInv
  <2>2. \A o : IsCommitted(o) => IsCommitted(o)'
    BY <2>1 DEF IsCommitted
  <2>3. IsCommitted(r)'
    BY <2>1 DEF IsCommitted
  <2>4. ASSUME NEW f \in Fingerprints, cache'[f] # Nobody
        PROVE  /\ Fingerprint(cache'[f]) = f /\ cache'[f] \in Requests
               /\ pc'[cache'[f]] \in {"fill", "served"}
    <3>1. CASE cache'[f] = cache[f]
      <4>1. Fingerprint(cache[f]) = f /\ IsCommitted(cache[f])
        BY <1>0, <2>4, <3>1 DEF CacheInv
      <4> QED
        BY <2>1, <3>1, <4>1 DEF IsCommitted
    <3>2. CASE f = Fingerprint(r) /\ cache'[f] = r
      BY <2>1, <3>2
    <3> QED
      BY <1>0, <1>7, <3>1, <3>2 DEF Fill, FlightTypes
  <2>5. (\A f \in Fingerprints :
           cache[f] # Nobody => Fingerprint(cache[f]) = f /\ IsCommitted(cache[f]))'
    BY <2>4 DEF IsCommitted, Fingerprint
  <2>6. ASSUME NEW o \in Requests
        PROVE  /\ pc'[o] \in {"lookup", "fill"} => o \in Caching
               /\ pc'[o] \in {"arriving", "lookup"} => source[o] = Nobody /\ route[o] = 1
               /\ pc'[o] = "replayed" => source[o] # Nobody
               /\ source[o] # Nobody =>
                    /\ pc'[o] \in {"entitle", "policy", "sum", "replayed", "refused", "exceeded"}
                    /\ route[o] = 1
                    /\ Fingerprint(source[o]) = Fingerprint(o)
                    /\ IsCommitted(source[o])
    BY <1>0, <2>1 DEF CacheInv
  <2> QED
    BY <2>1, <2>2, <2>5, <2>6 DEF CacheInv
<1> QED
  BY <1>2, <1>4, <1>6, <1>3, <1>5, <1>7 DEF Step

(* A refusal is given after the clock was read for it.                     *)
LEMMA ClockStep ==
    ASSUME QuotaInv, NEW r \in Requests, Step(r)
    PROVE  ClockInv'
<1> USE DEF Goto, policy, history, ClockInv
<1>0. ClockInv /\ FlightTypes
  BY DEF QuotaInv
<1>1. time' = time
  BY DEF Step, Arrive, LookupHit, LookupMiss, ModelAllowed, ModelRefused, ReadPolicy, QuotaLeft,
         QuotaExceeded, Generate, GenerateFails, Record, RecordFails, Fill
<1>2. CASE QuotaExceeded(r)
  <2>1. /\ pc[r] = "sum" /\ now' = now
        /\ comeback' = [comeback EXCEPT ![r] = time + TicksPerSecond * SecondsUntilMonthEnd(now[r])]
        /\ \A o \in Requests \ {r} : pc'[o] = pc[o]
    BY <1>0, <1>2 DEF QuotaExceeded, FlightTypes
  <2>0. now[r] \in Nat /\ TicksPerSecond \in Nat
    BY <1>0, QuotaAssumption
  <2>2. PICK wait \in Int : /\ wait = TicksPerSecond * SecondsUntilMonthEnd(now[r])
                            /\ MonthEnd(now[r]) \in Int
                            /\ MonthEnd(now[r]) - (now[r] + wait) < TicksPerSecond
    <3>1. /\ SecondsUntilMonthEnd(now[r]) \in Int /\ MonthEnd(now[r]) \in Int
          /\ MonthEnd(now[r]) - (now[r] + TicksPerSecond * SecondsUntilMonthEnd(now[r]))
               < TicksPerSecond
      BY <2>0, RetryAfterBound
    <3>2. TicksPerSecond * SecondsUntilMonthEnd(now[r]) \in Int
      BY <2>0, <3>1, Scaled
    <3> QED
      BY <3>1, <3>2
  <2>3. time + wait \in Int /\ now[r] \in Nat /\ now[r] <= time /\ TicksPerSecond \in Nat
    BY <1>0, QuotaAssumption
  <2>4. MonthEnd(now[r]) - (time + wait) < TicksPerSecond
    BY <1>0, <2>2, <2>3
  <2>5. comeback' = [comeback EXCEPT ![r] = time + wait]
    BY <2>1, <2>2
  <2>6. \A o \in Requests : MonthEnd(now[o])' = MonthEnd(now[o])
    BY <2>1 DEF MonthEnd, MonthOf, MonthTicks
  <2> QED
    BY <1>0, <2>1, <2>4, <2>6, <1>1, <2>3, <2>5
<1>3. CASE ~QuotaExceeded(r)
  <2>1. /\ comeback' = comeback /\ pc[r] # "exceeded"
        /\ now' = now \/ now' = [now EXCEPT ![r] = time] \/ now' = [now EXCEPT ![r] = 0]
    BY <1>3 DEF Step, Arrive, LookupHit, LookupMiss, ModelAllowed, ModelRefused, ReadPolicy,
                QuotaLeft, Generate, GenerateFails, Record, RecordFails, Fill
  <2>2. pc'[r] # "exceeded" /\ \A o \in Requests \ {r} : pc'[o] = pc[o]
    BY <1>0, <1>3, NextRoute DEF FlightTypes, Step, Arrive, LookupHit, LookupMiss, ModelAllowed,
          ModelRefused, ReadPolicy, QuotaLeft, Generate, GenerateFails, Record, RecordFails, Fill,
          Pass, Ends, TryNext
  <2>3. \A o \in Requests \ {r} : now'[o] = now[o] /\ MonthEnd(now[o])' = MonthEnd(now[o])
    BY <1>0, <2>1 DEF MonthEnd, MonthOf, MonthTicks
  <2>4. now' \in [Requests -> Nat] /\ \A o \in Requests : now'[o] <= time
    BY <1>0, <2>1
  <2> QED
    BY <1>0, <2>1, <2>3, <1>1, <2>2, <2>4
<1> QED
  BY <1>2, <1>3

(* The clock and the policy's rows.                                        *)
LEMMA AroundStep ==
    ASSUME QuotaInv, Tick \/ SetLimit \/ SetEntitlements \/ UNCHANGED vars
    PROVE  QuotaInv'
<1> USE DEF QuotaInv, policy, requests, history, vars
<1>1. UNCHANGED requests
  BY DEF Tick, SetLimit, SetEntitlements
<1>2. CacheInv'
  BY <1>1 DEF CacheInv, IsHit, IsCommitted
<1>3. EntitledInv' /\ FlightTypes'
  <2>1. CASE SetEntitlements
    <3>1. everEntitled' = [r \in Requests |-> everEntitled[r] \cup
              (IF pc[r] = "arriving" THEN {} ELSE {m \in Models : IsModelAllowed(m)'})]
      BY <2>1 DEF SetEntitlements
    <3> QED
      BY <1>1, <3>1 DEF EntitledInv, FlightTypes
  <2>2. CASE UNCHANGED <<entitled, everEntitled>>
    BY <1>1, <2>2 DEF EntitledInv, FlightTypes, IsModelAllowed
  <2> QED
    BY <2>1, <2>2 DEF Tick, SetLimit
<1>4. ClockInv'
  <2>1. time' \in Nat /\ time' >= time /\ UNCHANGED <<pc, now, comeback>>
    BY <1>1 DEF ClockInv, Tick, SetLimit, SetEntitlements
  <2>2. \A o \in Requests : MonthEnd(now[o])' = MonthEnd(now[o])
    BY <2>1 DEF MonthEnd, MonthOf, MonthTicks
  <2> QED
    BY <2>1, <2>2 DEF ClockInv
<1> QED
  BY <1>2, <1>3, <1>4

(* The four parts together are preserved by every step.                    *)
THEOREM QuotaInvariance == Spec => []QuotaInv
<1>1. QuotaInv /\ [Next]_vars => QuotaInv'
  <2> SUFFICES ASSUME QuotaInv, [Next]_vars PROVE QuotaInv'
    OBVIOUS
  <2>1. ASSUME NEW r \in Requests, Step(r) PROVE QuotaInv'
    BY <2>1, FlightStep, EntitledStep, CacheStep, ClockStep DEF QuotaInv
  <2> QED
    BY <2>1, AroundStep DEF Next, Idle
<1> QED
  BY QuotaInit, <1>1, PTL DEF Spec

(* before_route of CreateResponse: the model that serves is one that was   *)
(* allowed since the request came, whatever changes its chain has seen.    *)
THEOREM OnlyEntitledModelsServe == Spec => []ServedByEntitledModel
<1>1. QuotaInv => ServedByEntitledModel
  BY DEF QuotaInv, EntitledInv, Checks, ServedByEntitledModel, Committed
<1> QED
  BY QuotaInvariance, <1>1, PTL

(* _execute_cache_hit: a hit was entitled, and what it answers with was    *)
(* billed, for the same request, to a model that was allowed.              *)
THEOREM OnlyBilledResponsesAreHits == Spec => []HitIsEntitledAndBilled
<1>1. QuotaInv => HitIsEntitledAndBilled
  BY DEF QuotaInv, EntitledInv, CacheInv, IsCommitted, Checks, HitIsEntitledAndBilled, Committed
<1> QED
  BY QuotaInvariance, <1>1, PTL

(* seconds_until_month_end: whatever the lengths of a month and a second   *)
(* and the time of the check, the client waits until less than a second    *)
(* before the next month.                                                  *)
THEOREM RetryAfterIsLongEnough == Spec => []RetryAfterReachesNextMonth
<1>1. QuotaInv => RetryAfterReachesNextMonth
  BY DEF QuotaInv, ClockInv, RetryAfterReachesNextMonth
<1> QED
  BY QuotaInvariance, <1>1, PTL

-----------------------------------------------------------------------------
(* Months follow each other.                                               *)
LEMMA MonthGrows ==
    ASSUME NEW t \in Nat, NEW u \in Nat, t <= u
    PROVE  MonthOf(t) \in Nat /\ MonthOf(u) \in Nat /\ MonthOf(t) <= MonthOf(u)
<1>1. MonthTicks \in Nat /\ MonthTicks > 0
  BY QuotaAssumption DEF MonthTicks
<1>2. PICK length \in Nat : length = MonthTicks /\ length > 0
  BY <1>1
<1>3. PICK m \in Nat, n \in Nat : m = t \div length /\ n = u \div length
  BY <1>2
<1>4. length * m <= t /\ u < length * n + length
  BY <1>2, <1>3
<1>5. ASSUME m >= n + 1 PROVE FALSE
  <2>1. length * (n + 1) <= length * m /\ length * m \in Int /\ length * (n + 1) \in Int
    BY <1>5, Scaled
  <2>2. length * (n + 1) = length * n + length
    BY <1>2
  <2> QED
    BY <1>4, <2>1, <2>2
<1> QED
  BY <1>2, <1>3, <1>5 DEF MonthOf

(* Every instant modelled is in a month modelled; a wait ends at one.       *)
LEMMA Instants ==
    ASSUME NEW t \in 0..MaxTime
    PROVE  t \in Nat /\ MonthOf(t) \in 0..MonthOf(MaxTime)
<1>1. t \in Nat /\ MaxTime \in Nat /\ t <= MaxTime
  BY QuotaAssumption
<1> QED
  BY <1>1, MonthGrows

LEMMA WaitEnds ==
    ASSUME NEW t \in Nat, NEW s \in Nat
    PROVE  t + TicksPerSecond * s \in Nat
<1>1. TicksPerSecond * s \in Nat
  BY QuotaAssumption
<1> QED
  BY <1>1

(* There are finitely many requests in flight.                             *)
LEMMA Flights ==
    ASSUME NEW s \in SUBSET Requests
    PROVE  IsFiniteSet(s) /\ Cardinality(s) \in Nat
BY QuotaAssumption, FS_Subset, FS_CardinalityType

LEMMA FewerFlights ==
    ASSUME NEW s \in SUBSET Requests, NEW t \in SUBSET s
    PROVE  /\ Cardinality(t) \in Nat /\ Cardinality(s) \in Nat
           /\ Cardinality(t) <= Cardinality(s)
BY QuotaAssumption, FS_Subset, FS_CardinalityType

(* The peak is no lower than the requests that it counts.                  *)
LEMMA PeakStep ==
    ASSUME peak \in Nat, NEW r \in Requests, EnterFlight(r)
    PROVE  /\ peak' \in Nat /\ peak' >= peak
           /\ ~IsHit(r) => Cardinality(InFlight \cup {r}) <= peak'
<1>1. PICK n \in Nat : n = Cardinality(InFlight \cup {r})
  BY Flights DEF InFlight
<1>2. PICK m \in Nat : m = Max({peak, n}) /\ m >= peak /\ m >= n
  <2>1. PICK m \in Int : m = Max({peak, n}) /\ m >= peak /\ m >= n
    BY LargerOfTwo
  <2> QED
    BY <2>1
<1> QED
  BY <1>1, <1>2 DEF EnterFlight

(* The types of all variables.                                             *)
LEMMA TypeStep ==
    ASSUME TypeOK, QuotaInv, NEW r \in Requests, Step(r)
    PROVE  TypeOK'
<1> USE DEF TypeOK, Goto, policy, history
<1>0. FlightTypes' /\ ClockInv
  BY FlightStep DEF QuotaInv
<1>1. /\ UNCHANGED <<time, policy, highest>> /\ 0 \in 0..MaxTime
  BY QuotaAssumption
     DEF Step, Arrive, LookupHit, LookupMiss, ModelAllowed, ModelRefused, ReadPolicy, QuotaLeft,
         QuotaExceeded, Generate, GenerateFails, Record, RecordFails, Fill
<1>2. ASSUME now' \in [Requests -> 0..MaxTime],
             ceiling' \in [Requests -> Limits \cup {0}],
             row' \in [Requests -> [tokens : 0..MaxTokens, month : 0..MonthOf(MaxTime)]],
             comeback' \in [Requests -> Nat], peak' \in Nat
      PROVE TypeOK'
  BY <1>0, <1>1, <1>2 DEF FlightTypes
<1>3. CASE ReadPolicy(r)
  <2>1. peak' \in Nat /\ row' = row /\ comeback' = comeback
    BY <1>3, PeakStep DEF ReadPolicy
  <2>2. now' \in [Requests -> 0..MaxTime] /\ ceiling' \in [Requests -> Limits \cup {0}]
    BY <1>3 DEF ReadPolicy
  <2> QED
    BY <1>2, <2>1, <2>2
<1>4. CASE QuotaExceeded(r)
  <2>0. now[r] \in Nat /\ time \in Nat
    BY QuotaAssumption
  <2>1. PICK s \in Nat : s = SecondsUntilMonthEnd(now[r])
    BY <2>0, RetryAfterBound
  <2>2. time + TicksPerSecond * s \in Nat
    BY <2>0, WaitEnds
  <2>3. comeback' \in [Requests -> Nat]
    BY <1>4, <2>1, <2>2 DEF QuotaExceeded
  <2> QED
    BY <1>2, <1>4, <2>3 DEF QuotaExceeded
<1>5. CASE Generate(r)
  <2>1. MonthOf(time) \in 0..MonthOf(MaxTime)
    BY Instants
  <2>2. row' \in [Requests -> [tokens : 0..MaxTokens, month : 0..MonthOf(MaxTime)]]
    BY <1>5, <2>1 DEF Generate
  <2> QED
    BY <1>2, <1>5, <2>2 DEF Generate
<1>6. CASE QuotaLeft(r)
  BY <1>1, <1>2, <1>6 DEF QuotaLeft
<1>7. CASE ~(ReadPolicy(r) \/ QuotaExceeded(r) \/ Generate(r) \/ QuotaLeft(r))
  BY <1>2, <1>7 DEF Step, Arrive, LookupHit, LookupMiss, ModelAllowed, ModelRefused,
                    GenerateFails, Record, RecordFails, Fill
<1> QED
  BY <1>3, <1>5, <1>7, <1>4, <1>6

(* The clock, the policy's rows and stuttering keep the types.             *)
LEMMA TypeAround ==
    ASSUME TypeOK, Tick \/ SetLimit \/ SetEntitlements \/ UNCHANGED vars
    PROVE  TypeOK'
<1> USE DEF TypeOK, policy, requests, history, vars
<1>1. CASE Tick
  <2>1. time' \in 0..MaxTime
    BY <1>1, QuotaAssumption DEF Tick
  <2> QED
    BY <1>1, <2>1 DEF Tick
<1>2. CASE SetLimit
  <2>1. changes' \in 0..MaxChanges
    BY <1>2, QuotaAssumption DEF SetLimit
  <2> QED
    BY <1>2, <2>1 DEF SetLimit
<1>3. CASE SetEntitlements
  <2>1. changes' \in 0..MaxChanges
    BY <1>3, QuotaAssumption DEF SetEntitlements
  <2>2. everEntitled' \in [Requests -> SUBSET Models]
    BY <1>3 DEF SetEntitlements
  <2> QED
    BY <1>3, <2>1, <2>2 DEF SetEntitlements
<1>4. CASE UNCHANGED vars
  BY <1>4
<1> QED
  BY <1>1, <1>3, <1>2, <1>4

(* Every variable has its type in every reachable state.                   *)
THEOREM QuotaTypeCorrect == Spec => []TypeOK
<1>1. Init => TypeOK
  <2>1. 0 \in 0..MonthOf(MaxTime) /\ 0 \in 0..MaxTime /\ 0 \in 0..MaxTokens /\ 0 \in 0..MaxChanges
    BY QuotaAssumption, MonthGrows
  <2>2. \A r \in Requests : 1 \in 1..Len(ChainOf[r])
    BY QuotaAssumption
  <2> QED
    BY <2>1, <2>2 DEF Init, TypeOK, NoRow
<1>2. TypeOK /\ QuotaInv /\ [Next]_vars => TypeOK'
  <2> SUFFICES ASSUME TypeOK, QuotaInv, [Next]_vars PROVE TypeOK'
    OBVIOUS
  <2>1. ASSUME NEW r \in Requests, Step(r) PROVE TypeOK'
    BY <2>1, TypeStep
  <2> QED
    BY <2>1, TypeAround DEF Next, Idle
<1> QED
  BY QuotaInvariance, <1>1, <1>2, PTL DEF Spec

-----------------------------------------------------------------------------
(* What may still be billed to a month without another look at its usage:  *)
(* rows about to be inserted and, in the current month, the requests that  *)
(* are past their check, or in one that looks at the month before.         *)
Outstanding(month) ==
    {r \in Requests : pc[r] = "record" /\ row[r].month = month} \cup
    {r \in InFlight : /\ month = MonthOf(time)
                      /\ pc[r] = "generate" \/ (pc[r] = "sum" /\ MonthOf(now[r]) # month)}

(* The month's tokens, with as many as there can be for each of those.     *)
Charged(month) ==
    TokensIn(month) \cup {token \in Requests \X (1..MaxTokens) : token[1] \in Outstanding(month)}

WithinLimit(month) == Cardinality(Charged(month)) <= highest - 1 + peak * MaxTokens

UsageInv ==
    /\ \A r \in Requests :
         /\ row[r].month <= MonthOf(time)
         /\ pc[r] = "sum" => ceiling[r] \in Limits /\ AtOrAbove(highest, ceiling[r])
    /\ AtOrAbove(highest, limit)
    /\ Cardinality(InFlight) <= peak
    /\ highest # Unlimited => \A month \in 0..MonthOf(time) : WithinLimit(month)

(* Tokens are finitely many, MaxTokens at most for each request.           *)
LEMMA TokenCount ==
    ASSUME NEW s \in SUBSET Requests, NEW t \in SUBSET (s \X (1..MaxTokens))
    PROVE  /\ IsFiniteSet(t) /\ Cardinality(t) \in Nat
           /\ Cardinality(t) <= Cardinality(s) * MaxTokens
<1>1. IsFiniteSet(1..MaxTokens) /\ Cardinality(1..MaxTokens) = MaxTokens
  BY QuotaAssumption, FS_Interval
<1>2. IsFiniteSet(s \X (1..MaxTokens)) /\ Cardinality(s \X (1..MaxTokens)) = Cardinality(s) * MaxTokens
  BY <1>1, Flights, FS_Product
<1> QED
  BY <1>2, FS_Subset, FS_CardinalityType

(* More requests, more tokens.                                             *)
LEMMA MoreTokens ==
    ASSUME NEW m \in Nat, NEW n \in Nat, m <= n
    PROVE  m * MaxTokens \in Nat /\ n * MaxTokens \in Nat /\ m * MaxTokens <= n * MaxTokens
BY QuotaAssumption

(* A month that is charged no more than before stays within its limit.     *)
LEMMA NoMoreCharged ==
    ASSUME NEW month, WithinLimit(month), Charged(month)' \subseteq Charged(month),
           highest \in Nat, highest' \in Nat, highest <= highest',
           peak \in Nat, peak' \in Nat, peak <= peak'
    PROVE  WithinLimit(month)'
<1>1. /\ Charged(month) \in SUBSET (Requests \X (1..MaxTokens))
      /\ Charged(month)' \in SUBSET (Requests \X (1..MaxTokens))
  BY DEF Charged, TokensIn
<1>2. PICK m \in Nat, n \in Nat : /\ m = Cardinality(Charged(month)') /\ n = Cardinality(Charged(month))
                                  /\ m <= n
  BY <1>1, TokenCount, FS_Subset
<1>3. PICK p \in Nat, q \in Nat : p = peak * MaxTokens /\ q = peak' * MaxTokens /\ p <= q
  BY MoreTokens
<1>4. n <= highest - 1 + p
  BY <1>2, <1>3 DEF WithinLimit
<1>5. m <= highest' - 1 + q
  BY <1>4, <1>2, <1>3
<1> QED
  BY <1>2, <1>3, <1>5 DEF WithinLimit

(* A request's step charges a month no more unless it does so for its own  *)
(* tokens.                                                                 *)
LEMMA OwnTokens ==
    ASSUME NEW r \in Requests, NEW month, time' = time,
           \A o \in Requests \ {r} : /\ pc'[o] = pc[o] /\ row'[o] = row[o]
                                     /\ now'[o] = now[o] /\ source'[o] = source[o],
           \A n \in 1..MaxTokens : <<r, n>> \in Charged(month)' => <<r, n>> \in Charged(month)
    PROVE  Charged(month)' \subseteq Charged(month)
<1> SUFFICES ASSUME NEW token \in Charged(month)', token[1] # r PROVE token \in Charged(month)
  <2>1. ASSUME NEW token \in Charged(month)', token[1] = r PROVE token \in Charged(month)
    <3>1. token \in Requests \X (1..MaxTokens)
      BY DEF Charged, TokensIn
    <3>2. token = <<r, token[2]>> /\ token[2] \in 1..MaxTokens
      BY <2>1, <3>1
    <3> QED
      BY <3>2
  <2> QED
    BY <2>1
<1>1. token \in Requests \X (1..MaxTokens) /\ token[1] \in Requests \ {r}
  BY DEF Charged, TokensIn
<1>2. CASE token \in TokensIn(month)'
  BY <1>1, <1>2 DEF Charged, TokensIn, Committed
<1>3. CASE token[1] \in Outstanding(month)'
  <2>1. token[1] \in Outstanding(month)
    BY <1>1, <1>3 DEF Outstanding, InFlight, IsHit, MonthOf, MonthTicks
  <2> QED
    BY <1>1, <2>1 DEF Charged
<1> QED
  BY <1>2, <1>3 DEF Charged

(* A month for which the usage is below the limit, whatever is in flight.  *)
LEMMA InFlightOnly ==
    ASSUME NEW charged, NEW limited \in Nat, NEW most \in Nat,
           NEW used \in SUBSET (Requests \X (1..MaxTokens)), Cardinality(used) <= limited - 1,
           NEW flights \in SUBSET Requests, Cardinality(flights) <= most,
           charged \subseteq used \cup (flights \X (1..MaxTokens))
    PROVE  Cardinality(charged) <= limited - 1 + most * MaxTokens
<1> DEFINE rest == flights \X (1..MaxTokens)
<1>1. IsFiniteSet(used) /\ Cardinality(used) \in Nat
  BY TokenCount
<1>2. IsFiniteSet(rest) /\ Cardinality(rest) \in Nat /\ Cardinality(rest) <= Cardinality(flights) * MaxTokens
  BY TokenCount
<1>3. PICK p \in Nat, q \in Nat : p = Cardinality(flights) * MaxTokens /\ q = most * MaxTokens /\ p <= q
  BY MoreTokens, Flights
<1> HIDE DEF rest
<1>4. /\ IsFiniteSet(used \cup rest) /\ Cardinality(used \cup rest) \in Nat
      /\ Cardinality(used \cup rest) <= Cardinality(used) + Cardinality(rest)
  <2>1. IsFiniteSet(used \cap rest) /\ Cardinality(used \cap rest) \in Nat
    BY <1>1, FS_Intersection, FS_CardinalityType
  <2>2. /\ IsFiniteSet(used \cup rest)
        /\ Cardinality(used \cup rest)
             = Cardinality(used) + Cardinality(rest) - Cardinality(used \cap rest)
    BY <1>1, <1>2, FS_Union
  <2>3. Cardinality(used \cup rest) \in Nat
    BY <2>2, FS_CardinalityType
  <2> QED
    BY <1>1, <1>2, <2>1, <2>2, <2>3
<1>5. IsFiniteSet(charged) /\ Cardinality(charged) \in Nat
      /\ Cardinality(charged) <= Cardinality(used \cup rest)
  BY <1>4, FS_Subset, FS_CardinalityType DEF rest
<1>6. Cardinality(charged) <= limited - 1 + q
  BY <1>1, <1>3, <1>5, <1>2, <1>4
<1> QED
  BY <1>3, <1>6

(* No step of a request but a reading of the policy adds to those in       *)
(* flight, and that one is counted by the peak.                            *)
LEMMA FlightsArePeaked ==
    ASSUME TypeOK, UsageInv, NEW r \in Requests, Step(r)
    PROVE  Cardinality(InFlight') <= peak' /\ peak' \in Nat /\ peak <= peak'
<1> USE DEF TypeOK, Goto, policy, history
<1>0. peak \in Nat /\ Cardinality(InFlight) <= peak
  BY DEF UsageInv
<1>1. ASSUME InFlight' \subseteq InFlight, peak' \in Nat, peak <= peak'
      PROVE  Cardinality(InFlight') <= peak' /\ peak' \in Nat /\ peak <= peak'
  <2>1. PICK m \in Nat, n \in Nat : m = Cardinality(InFlight') /\ n = Cardinality(InFlight) /\ m <= n
    <3>1. InFlight \in SUBSET Requests /\ InFlight' \in SUBSET InFlight
      BY <1>1 DEF InFlight
    <3> QED
      BY <3>1, FewerFlights
  <2> QED
    BY <1>0, <1>1, <2>1
<1>2. CASE ReadPolicy(r)
  <2>1. /\ peak' \in Nat /\ peak' >= peak /\ source' = source
        /\ ~IsHit(r) => Cardinality(InFlight \cup {r}) <= peak'
    BY <1>0, <1>2, PeakStep DEF ReadPolicy
  <2>2. pc' = [pc EXCEPT ![r] = "sum"] \/ pc' = [pc EXCEPT ![r] = IF IsHit(r) THEN "replayed" ELSE "generate"]
    BY <1>2 DEF ReadPolicy, Pass
  <2>3. CASE IsHit(r)
    <3>1. InFlight' \subseteq InFlight
      BY <2>1, <2>2, <2>3 DEF InFlight, IsHit
    <3> QED
      BY <1>1, <2>1, <3>1
  <2>4. CASE ~IsHit(r)
    <3>1. InFlight' \subseteq InFlight \cup {r}
      BY <2>1, <2>2 DEF InFlight, IsHit
    <3>2. InFlight \cup {r} \in SUBSET Requests
      BY DEF InFlight
    <3>3. PICK m \in Nat, n \in Nat :
             m = Cardinality(InFlight') /\ n = Cardinality(InFlight \cup {r}) /\ m <= n
      BY <3>1, <3>2, FewerFlights
    <3> QED
      BY <1>0, <2>1, <2>4, <3>3
  <2> QED
    BY <2>3, <2>4
<1>3. CASE LookupHit(r)
  <2>1. InFlight' \subseteq InFlight
    BY <1>3 DEF LookupHit, InFlight, IsHit
  <2> QED
    BY <1>0, <1>1, <1>3, <2>1 DEF LookupHit
<1>4. CASE ~(ReadPolicy(r) \/ LookupHit(r))
  <2>1. UNCHANGED <<source, peak>>
    BY <1>4 DEF Step, Arrive, LookupMiss, ModelAllowed, ModelRefused, QuotaLeft, QuotaExceeded,
                Generate, GenerateFails, Record, RecordFails, Fill
  <2>2. \/ pc'[r] \notin {"sum", "generate", "record"}
        \/ pc[r] \in {"sum", "generate", "record"}
    BY <1>4 DEF Step, Arrive, LookupMiss, ModelAllowed, ModelRefused, QuotaLeft, QuotaExceeded,
                Generate, GenerateFails, Record, RecordFails, Fill, TryNext
  <2>3. \A o \in Requests \ {r} : pc'[o] = pc[o]
    BY <1>4 DEF Step, Arrive, LookupMiss, ModelAllowed, ModelRefused, QuotaLeft, QuotaExceeded,
                Generate, GenerateFails, Record, RecordFails, Fill, TryNext, Pass
  <2>4. InFlight' \subseteq InFlight
    BY <2>1, <2>2, <2>3 DEF InFlight, IsHit
  <2> QED
    BY <1>0, <1>1, <2>1, <2>4
<1> QED
  BY <1>2, <1>3, <1>4

(* sum_tokens_for_organization_in_period saw less than a limit that has    *)
(* been in force; what it has not seen is in flight.                       *)
LEMMA CheckedMonth ==
    ASSUME TypeOK, QuotaInv, UsageInv, NEW r \in Requests, QuotaLeft(r), highest # Unlimited,
           MonthOf(now[r]) = MonthOf(time)
    PROVE  WithinLimit(MonthOf(time))'
<1> DEFINE month == MonthOf(time)
<1>1. time' = time /\ highest' = highest /\ pc[r] = "sum" /\ row' = row
  BY DEF QuotaLeft, policy, history
<1>2. /\ peak \in Nat /\ peak' = peak /\ highest \in Nat /\ ceiling[r] \in Nat /\ ceiling[r] <= highest
  BY <1>1, QuotaAssumption DEF TypeOK, UsageInv, AtOrAbove, QuotaLeft, history
<1>3. TokensIn(month) \in SUBSET (Requests \X (1..MaxTokens))
  BY DEF TokensIn
<1>4. PICK n \in Nat : n = Cardinality(TokensIn(month)) /\ n <= highest - 1
  <2>1. PICK n \in Nat : n = Used(month)
    BY <1>3, TokenCount DEF Used
  <2>2. ~WouldExceed(n, ceiling[r], EstimateOf[r]) /\ EstimateOf[r] \in Nat
    BY <2>1, QuotaAssumption DEF QuotaLeft
  <2> QED
    BY <1>2, <2>1, <2>2 DEF WouldExceed, Used
<1>5. Cardinality(InFlight') <= peak
  BY <1>2, FlightsArePeaked DEF Step
<1>6. InFlight' \in SUBSET Requests
  BY DEF InFlight
<1>7. Charged(month)' \subseteq TokensIn(month) \cup (InFlight' \X (1..MaxTokens))
  <2>1. CacheInv'
    BY CacheStep DEF Step
  <2>2. Outstanding(month)' \subseteq InFlight'
    BY <2>1 DEF Outstanding, InFlight, CacheInv
  <2>3. TokensIn(month)' \subseteq TokensIn(month)
    BY <1>1 DEF TokensIn, Committed, QuotaLeft, Pass, Goto, TypeOK, MonthOf, MonthTicks
  <2> QED
    BY <2>2, <2>3 DEF Charged
<1> HIDE DEF month
<1>8. WithinLimit(month)'
  <2>1. Cardinality(Charged(month)') <= highest - 1 + peak * MaxTokens
    BY <1>2, <1>4, <1>6, <1>3, <1>5, <1>7, InFlightOnly
  <2> QED
    BY <1>1, <1>2, <2>1 DEF WithinLimit
<1> QED
  BY <1>8 DEF month

(* No other step charges a month more than it was.                         *)
LEMMA ChargedStep ==
    ASSUME TypeOK, QuotaInv, UsageInv, NEW r \in Requests, Step(r), NEW month,
           highest # Unlimited, ~(QuotaLeft(r) /\ MonthOf(now[r]) = MonthOf(time))
    PROVE  Charged(month)' \subseteq Charged(month)
<1> USE DEF TypeOK, Goto, policy, history
<1>0. CacheInv /\ (IsHit(r) => pc[r] \notin {"generate", "record", "fill", "served"})
  BY DEF QuotaInv, CacheInv
<1>1. time' = time /\ \A o \in Requests \ {r} : /\ pc'[o] = pc[o] /\ row'[o] = row[o]
                                                 /\ now'[o] = now[o] /\ source'[o] = source[o]
  BY DEF Step, Arrive, LookupHit, LookupMiss, ModelAllowed, ModelRefused, ReadPolicy, QuotaLeft,
         QuotaExceeded, Generate, GenerateFails, Record, RecordFails, Fill, Pass, TryNext
<1>2. ASSUME \A n \in 1..MaxTokens : <<r, n>> \in Charged(month)' => <<r, n>> \in Charged(month)
      PROVE Charged(month)' \subseteq Charged(month)
  BY <1>1, <1>2, OwnTokens
<1>3. ASSUME pc'[r] \notin {"sum", "generate", "record", "fill", "served"}
      PROVE Charged(month)' \subseteq Charged(month)
  BY <1>2, <1>3 DEF Charged, TokensIn, Outstanding, Committed, InFlight
<1>4. ASSUME r \in Outstanding(month) PROVE Charged(month)' \subseteq Charged(month)
  BY <1>2, <1>4 DEF Charged
<1>5. ASSUME r \notin Outstanding(month)', pc'[r] \notin {"fill", "served"}
      PROVE Charged(month)' \subseteq Charged(month)
  BY <1>2, <1>5 DEF Charged, TokensIn, Committed
<1>6. CASE Arrive(r) \/ LookupHit(r) \/ LookupMiss(r) \/ ModelAllowed(r) \/ QuotaExceeded(r)
           \/ RecordFails(r)
  BY <1>3, <1>6 DEF Arrive, LookupHit, LookupMiss, ModelAllowed, QuotaExceeded, RecordFails
<1>7. CASE ModelRefused(r) \/ GenerateFails(r)
  BY <1>3, <1>7 DEF ModelRefused, GenerateFails, TryNext
<1>8. CASE ReadPolicy(r)
  <2>1. limit # Unlimited
    BY QuotaAssumption DEF UsageInv, AtOrAbove
  <2>2. pc'[r] = "sum" /\ now'[r] = time
    BY <1>8, <2>1 DEF ReadPolicy
  <2>3. r \notin Outstanding(month)'
    BY <1>1, <2>2 DEF Outstanding, MonthOf, MonthTicks
  <2> QED
    BY <1>5, <2>2, <2>3
<1>9. CASE QuotaLeft(r)
  <2>1. CASE IsHit(r)
    BY <1>3, <1>9, <2>1 DEF QuotaLeft, Pass
  <2>2. CASE ~IsHit(r)
    <3>1. pc[r] = "sum" /\ pc'[r] = "generate" /\ r \in InFlight
      BY <1>9, <2>2 DEF QuotaLeft, Pass, InFlight
    <3>2. CASE month = MonthOf(time)
      BY <1>4, <1>9, <3>1, <3>2 DEF Outstanding
    <3>3. CASE month # MonthOf(time)
      <4>1. r \notin Outstanding(month)'
        BY <1>1, <3>1, <3>3 DEF Outstanding, MonthOf, MonthTicks
      <4> QED
        BY <1>5, <3>1, <4>1
    <3> QED
      BY <3>2, <3>3
  <2> QED
    BY <2>1, <2>2
<1>10. CASE Generate(r)
  <2>1. /\ pc[r] = "generate" /\ pc'[r] = "record" /\ row'[r].month = MonthOf(time)
        /\ r \in InFlight
    BY <1>0, <1>10 DEF Generate, InFlight
  <2>2. CASE month = MonthOf(time)
    BY <1>4, <2>1, <2>2 DEF Outstanding
  <2>3. CASE month # MonthOf(time)
    <3>1. r \notin Outstanding(month)'
      BY <1>1, <2>1, <2>3 DEF Outstanding, MonthOf, MonthTicks
    <3> QED
      BY <1>5, <2>1, <3>1
  <2> QED
    BY <2>2, <2>3
<1>11. CASE Record(r)
  <2>1. pc[r] = "record" /\ pc'[r] \in {"fill", "served"} /\ row' = row
    BY <1>11 DEF Record
  <2>2. CASE row[r].month = month
    BY <1>4, <2>1, <2>2 DEF Outstanding
  <2>3. CASE row[r].month # month
    BY <1>2, <2>1, <2>3 DEF Charged, TokensIn, Outstanding, InFlight
  <2> QED
    BY <2>2, <2>3
<1>12. CASE Fill(r)
  BY <1>2, <1>12 DEF Fill, Charged, TokensIn, Outstanding, InFlight, Committed
<1> QED
  BY <1>6, <1>8, <1>10, <1>12, <1>7, <1>9, <1>11 DEF Step

(* Every step of a request keeps the invariant of the usage.               *)
LEMMA UsageStep ==
    ASSUME TypeOK, QuotaInv, UsageInv, NEW r \in Requests, Step(r)
    PROVE  UsageInv'
<1> USE DEF policy, history
<1>1. UNCHANGED <<time, limit, highest>>
  BY DEF Step, Arrive, LookupHit, LookupMiss, ModelAllowed, ModelRefused, ReadPolicy, QuotaLeft,
         QuotaExceeded, Generate, GenerateFails, Record, RecordFails, Fill
<1>2. MonthOf(time)' = MonthOf(time) /\ MonthOf(time) \in Nat
  BY <1>1, Instants DEF MonthOf, MonthTicks, TypeOK
<1>3. ASSUME NEW o \in Requests
      PROVE  /\ row'[o].month <= MonthOf(time)
             /\ pc'[o] = "sum" => ceiling'[o] \in Limits /\ AtOrAbove(highest, ceiling'[o])
  <2>1. CASE ReadPolicy(r)
    <3>1. /\ row' = row
          /\ \/ /\ pc' = [pc EXCEPT ![r] = "sum"] /\ limit # Unlimited
                /\ ceiling' = [ceiling EXCEPT ![r] = limit]
             \/ /\ pc' = [pc EXCEPT ![r] = IF IsHit(r) THEN "replayed" ELSE "generate"]
                /\ ceiling' = ceiling
      BY <2>1 DEF ReadPolicy, Goto, Pass
    <3> QED
      BY <3>1 DEF UsageInv, TypeOK
  <2>2. CASE Generate(r)
    BY <1>2, <2>2 DEF Generate, Goto, UsageInv, TypeOK
  <2>3. CASE QuotaLeft(r)
    BY <2>3 DEF QuotaLeft, Goto, Pass, UsageInv, TypeOK
  <2>4. CASE ~(ReadPolicy(r) \/ Generate(r) \/ QuotaLeft(r))
    <3>1. UNCHANGED <<row, ceiling>> /\ (pc'[o] = "sum" => pc[o] = "sum")
      BY <2>4 DEF Step, Arrive, LookupHit, LookupMiss, ModelAllowed, ModelRefused, QuotaExceeded,
                  GenerateFails, Record, RecordFails, Fill, TryNext, Goto, TypeOK
    <3> QED
      BY <3>1 DEF UsageInv
  <2> QED
    BY <2>1, <2>3, <2>2, <2>4
<1>4. Cardinality(InFlight') <= peak' /\ peak' \in Nat /\ peak <= peak'
  BY FlightsArePeaked
<1>5. ASSUME highest # Unlimited, NEW month \in 0..MonthOf(time)
      PROVE  WithinLimit(month)'
  <2>1. highest \in Nat /\ peak \in Nat
    BY <1>5, QuotaAssumption DEF TypeOK
  <2>2. CASE QuotaLeft(r) /\ MonthOf(now[r]) = MonthOf(time)
    <3>1. CASE month = MonthOf(time)
      <4>1. WithinLimit(MonthOf(time))'
        BY <1>5, <2>2, CheckedMonth
      <4>2. Charged(month)' = Charged(MonthOf(time))'
        BY <1>1, <3>1 DEF Charged, TokensIn, Committed, Outstanding, InFlight, IsHit, MonthOf, MonthTicks
      <4> QED
        BY <4>1, <4>2 DEF WithinLimit
    <3>2. CASE month # MonthOf(time)
      <4>1. Charged(month)' \subseteq Charged(month)
        <5>1. /\ time' = time /\ row' = row /\ source' = source
              /\ pc'[r] \notin {"record", "fill", "served"}
              /\ \A o \in Requests \ {r} : pc'[o] = pc[o] /\ now'[o] = now[o]
          BY <1>1, <2>2 DEF QuotaLeft, Pass, Goto, TypeOK
        <5>2. \A n \in 1..MaxTokens : <<r, n>> \notin Charged(month)'
          BY <1>2, <3>2, <5>1 DEF Charged, TokensIn, Committed, Outstanding
        <5> QED
          BY <5>1, <5>2, OwnTokens
      <4> QED
        BY <1>1, <1>4, <1>5, <2>1, <4>1, NoMoreCharged DEF UsageInv
    <3> QED
      BY <3>1, <3>2
  <2>3. CASE ~(QuotaLeft(r) /\ MonthOf(now[r]) = MonthOf(time))
    <3>1. Charged(month)' \subseteq Charged(month)
      BY <1>5, <2>3, ChargedStep
    <3> QED
      BY <1>1, <1>4, <1>5, <2>1, <3>1, NoMoreCharged DEF UsageInv
  <2> QED
    BY <2>2, <2>3
<1> QED
  BY <1>1, <1>3, <1>5, <1>2, <1>4 DEF UsageInv, AtOrAbove

(* A month in which nothing has been billed is charged what is in flight.  *)
LEMMA NewMonth ==
    ASSUME TypeOK, QuotaInv, UsageInv, Tick, highest # Unlimited,
           NEW month \in Nat, month > MonthOf(time)
    PROVE  WithinLimit(month)'
<1>1. UNCHANGED <<requests, highest, peak>>
  BY DEF Tick, history
<1>2. highest \in Nat \ {0} /\ peak \in Nat
  BY QuotaAssumption DEF TypeOK
<1>3. MonthOf(time) \in Nat
  BY Instants DEF TypeOK
<1>4. \A r \in Requests : row'[r].month # month
  BY <1>1, <1>3 DEF UsageInv, TypeOK, requests
<1>5. TokensIn(month)' = {}
  BY <1>4 DEF TokensIn
<1>6. Outstanding(month)' \subseteq InFlight
  BY <1>1, <1>4 DEF Outstanding, InFlight, IsHit, requests
<1>7. Charged(month)' \subseteq {} \cup (InFlight \X (1..MaxTokens))
  BY <1>5, <1>6 DEF Charged
<1>8. /\ InFlight \in SUBSET Requests /\ Cardinality(InFlight) <= peak
      /\ {} \in SUBSET (Requests \X (1..MaxTokens)) /\ Cardinality({}) <= highest - 1
  BY <1>2, FS_EmptySet DEF InFlight, UsageInv
<1>9. Cardinality(Charged(month)') <= highest - 1 + peak * MaxTokens
  BY <1>2, <1>7, <1>8, InFlightOnly
<1> QED
  BY <1>1, <1>9 DEF WithinLimit

(* The clock, over the turn of a month, and the policy's rows.             *)
LEMMA UsageAround ==
    ASSUME TypeOK, QuotaInv, UsageInv, Tick \/ SetLimit \/ SetEntitlements \/ UNCHANGED vars
    PROVE  UsageInv'
<1> USE DEF policy, requests, history, vars
<1>1. CASE Tick
  <2>1. UNCHANGED <<policy, requests, history>> /\ time' = time + 1
    BY <1>1 DEF Tick
  <2>2. time \in Nat /\ peak \in Nat
    BY Instants DEF TypeOK
  <2>3. MonthOf(time)' \in Nat /\ MonthOf(time) \in Nat /\ MonthOf(time) <= MonthOf(time)'
    <3>1. MonthOf(time)' = MonthOf(time + 1)
      BY <2>1 DEF MonthOf, MonthTicks
    <3>2. time + 1 \in Nat /\ time <= time + 1
      BY <2>2
    <3> QED
      BY <2>2, <3>1, <3>2, MonthGrows
  <2>4. InFlight' = InFlight
    BY <2>1 DEF InFlight, IsHit
  <2>5. \A r \in Requests : row[r].month \in Nat
    BY Instants, QuotaAssumption, MonthGrows DEF TypeOK
  <2>6. \A r \in Requests : row'[r].month <= MonthOf(time)'
    BY <2>1, <2>3, <2>5 DEF UsageInv
  <2>7. ASSUME highest # Unlimited, NEW month \in 0..MonthOf(time)'
        PROVE  WithinLimit(month)'
    <3>1. CASE month > MonthOf(time)
      BY <1>1, <2>7, <3>1, NewMonth
    <3>2. CASE month <= MonthOf(time)
      <4>1. Outstanding(month)' \subseteq Outstanding(month)
        <5>1. month = MonthOf(time)' => month = MonthOf(time)
          BY <2>3, <3>2
        <5>2. \A r \in Requests : MonthOf(now[r])' = MonthOf(now[r])
          BY <2>1 DEF MonthOf, MonthTicks
        <5> QED
          BY <2>1, <2>4, <5>1, <5>2 DEF Outstanding
      <4>2. Charged(month)' \subseteq Charged(month)
        BY <2>1, <4>1 DEF Charged, TokensIn, Committed
      <4>3. highest \in Nat /\ highest' = highest /\ peak' = peak /\ month \in 0..MonthOf(time)
        BY <2>1, <2>7, <2>3, <3>2, QuotaAssumption DEF TypeOK
      <4> QED
        BY <2>2, <2>7, <4>2, <4>3, NoMoreCharged DEF UsageInv
    <3> QED
      BY <2>3, <3>1, <3>2
  <2> QED
    BY <2>1, <2>4, <2>6, <2>7 DEF UsageInv, AtOrAbove
<1>2. CASE SetLimit
  <2>1. /\ UNCHANGED <<time, requests, peak>> /\ InFlight' = InFlight
        /\ limit' \in Limits \cup {Unlimited}
        /\ highest' = IF AtOrAbove(limit', highest) THEN limit' ELSE highest
    BY <1>2 DEF SetLimit, InFlight, IsHit
  <2>2. highest \in Limits \cup {Unlimited} /\ Limits \subseteq Nat /\ Unlimited \notin Limits
        /\ peak \in Nat /\ ceiling \in [Requests -> Limits \cup {0}]
    BY QuotaAssumption DEF TypeOK
  <2>3. AtOrAbove(highest', limit') /\ AtOrAbove(highest', highest)
    BY <2>1, <2>2 DEF AtOrAbove
  <2>4. \A n \in Limits : AtOrAbove(highest, n) => AtOrAbove(highest', n)
    BY <2>1, <2>2, <2>3 DEF AtOrAbove
  <2>5. MonthOf(time)' = MonthOf(time)
    BY <2>1 DEF MonthOf, MonthTicks
  <2>6. ASSUME highest' # Unlimited, NEW month \in 0..MonthOf(time)
        PROVE  WithinLimit(month)'
    <3>1. highest \in Nat /\ highest' \in Nat /\ highest <= highest' /\ highest # Unlimited
      BY <2>1, <2>3, <2>2, <2>6 DEF AtOrAbove
    <3>2. Charged(month)' = Charged(month)
      BY <2>1 DEF Charged, TokensIn, Committed, Outstanding, InFlight, IsHit, MonthOf, MonthTicks
    <3> QED
      BY <2>1, <2>2, <2>6, <3>1, <3>2, NoMoreCharged DEF UsageInv
  <2> QED
    BY <2>1, <2>4, <2>6, <2>3, <2>5 DEF UsageInv
<1>3. CASE UNCHANGED <<time, limit, requests, highest, peak>>
  <2>1. InFlight' = InFlight /\ MonthOf(time)' = MonthOf(time)
    BY <1>3 DEF InFlight, IsHit, MonthOf, MonthTicks
  <2>2. \A month : WithinLimit(month)' = WithinLimit(month)
    BY <1>3 DEF WithinLimit, Charged, TokensIn, Committed, Outstanding, InFlight, IsHit,
                MonthOf, MonthTicks
  <2> QED
    BY <1>3, <2>1, <2>2 DEF UsageInv, AtOrAbove
<1> QED
  BY <1>1, <1>2, <1>3 DEF SetEntitlements

(* What is charged to a month stays within a limit that has been in force  *)
(* and what is in flight at once.                                          *)
THEOREM UsageInvariance == Spec => []UsageInv
<1>1. Init => UsageInv
  <2> SUFFICES ASSUME Init PROVE UsageInv
    OBVIOUS
  <2>1. MonthOf(time) = 0 /\ MonthTicks \in Nat \ {0}
    <3>1. MonthTicks \in Nat /\ MonthTicks > 0
      BY QuotaAssumption DEF MonthTicks
    <3> QED
      BY <3>1 DEF Init, MonthOf
  <2>2. InFlight = {} /\ \A month : Charged(month) = {}
    BY DEF Init, InFlight, Charged, TokensIn, Committed, Outstanding
  <2>3. limit \in Limits /\ limit = highest /\ peak = 0 /\ highest \in Nat \ {0}
    BY QuotaAssumption DEF Init
  <2>4. 0 * MaxTokens = 0 /\ Cardinality({}) = 0
    BY QuotaAssumption, FS_EmptySet
  <2>5. \A r \in Requests : row[r].month = 0 /\ pc[r] = "arriving"
    BY DEF Init, NoRow
  <2>6. \A month : WithinLimit(month)
    <3>1. 0 <= highest - 1 + 0
      BY <2>3
    <3> QED
      BY <2>2, <2>3, <2>4, <3>1 DEF WithinLimit
  <2> QED
    BY <2>1, <2>3, <2>5, <2>2, <2>4, <2>6 DEF UsageInv, AtOrAbove
<1>2. UsageInv /\ TypeOK /\ QuotaInv /\ [Next]_vars => UsageInv'
  <2> SUFFICES ASSUME UsageInv, TypeOK, QuotaInv, [Next]_vars PROVE UsageInv'
    OBVIOUS
  <2>1. ASSUME NEW r \in Requests, Step(r) PROVE UsageInv'
    BY <2>1, UsageStep
  <2> QED
    BY <2>1, UsageAround DEF Next, Idle
<1> QED
  BY QuotaTypeCorrect, QuotaInvariance, <1>1, <1>2, PTL DEF Spec

(* EnforceOrganizationPolicy reads the month's usage and reserves nothing: *)
(* whatever the limits, the chains and the turn of the month in between, a *)
(* month's usage exceeds the limit by no more than the generations that    *)
(* were in flight together can use.                                        *)
THEOREM QuotaOvershootIsBounded == Spec => []OvershootIsConcurrency
<1>1. UsageInv /\ TypeOK => OvershootIsConcurrency
  <2> SUFFICES ASSUME UsageInv, TypeOK, highest # Unlimited, NEW month \in 0..MonthOf(MaxTime)
               PROVE  Used(month) <= highest - 1 + peak * MaxTokens
    BY DEF OvershootIsConcurrency
  <2>1. highest \in Nat \ {0} /\ peak \in Nat /\ peak * MaxTokens \in Nat
    BY QuotaAssumption, MoreTokens DEF TypeOK
  <2>2. MonthOf(time) \in Nat
    BY Instants DEF TypeOK
  <2>3. Charged(month) \in SUBSET (Requests \X (1..MaxTokens)) /\ TokensIn(month) \subseteq Charged(month)
    BY DEF Charged, TokensIn
  <2>4. PICK m \in Nat, n \in Nat : m = Used(month) /\ n = Cardinality(Charged(month)) /\ m <= n
    BY <2>3, TokenCount, FS_Subset DEF Used
  <2>5. CASE month <= MonthOf(time)
    BY <2>1, <2>2, <2>4, <2>5 DEF UsageInv, WithinLimit
  <2>6. CASE month > MonthOf(time)
    <3>1. TokensIn(month) = {}
      BY <2>2, <2>6 DEF TokensIn, UsageInv, TypeOK
    <3> QED
      BY <2>1, <3>1, FS_EmptySet DEF Used
  <2> QED
    BY <2>2, <2>5, <2>6
<1> QED
  BY UsageInvariance, QuotaTypeCorrect, <1>1, PTL
=============================================================================
