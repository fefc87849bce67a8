------------------------- MODULE TokenBucket_proofs -------------------------
(***************************************************************************)
(* WindowBound holds for every cost, capacity, rate, skew and number of    *)
(* script executions.  It is not inductive by itself: it speaks of the     *)
(* past only.  Reserve adds what the bucket holds now: since any admission *)
(* m, what was taken plus what is left is at most a full bucket and the    *)
(* refill of the time and credit since.                                    *)
(***************************************************************************)
EXTENDS TokenBucket, TLAPS

(* The seconds of refill that a run is charged with.                       *)
Gain(now) == now - timestamp + Unaccounted(now)

(* What is left in the bucket is covered by the same allowance.            *)
Reserve ==
    \A m \in 1..Len(grants) :
        (Len(grants) - m + 1) * Cost + tokens <= Capacity
            + Rate * (timestamp - grants[m].now + credit - grants[m].credit)

BucketInv ==
    /\ TypeOK
    /\ runs = 0 => grants = <<>>
    /\ Reserve
    /\ WindowBound

-----------------------------------------------------------------------------
(* An admission on record.                                                 *)
Grant == [now : Nat, credit : Nat]

LEMMA GrantsAreTyped ==
    ASSUME TypeOK
    PROVE  /\ grants \in Seq(Grant) /\ Len(grants) \in Nat
           /\ \A m \in 1..Len(grants) : grants[m].now \in Nat /\ grants[m].credit \in Nat
<1>1. grants \in Seq(Grant)
  BY DEF TypeOK, Grant
<1>2. \A m \in 1..Len(grants) : grants[m] \in Grant
  BY <1>1
<1> QED
  BY <1>1, <1>2 DEF Grant

LEMMA ReadingIsTyped ==
    ASSUME BucketInv, NEW c \in Calls, reading[c] # NoReading
    PROVE  reading[c].now \in Nat /\ reading[c].at \in Nat
  BY DEF BucketInv, TypeOK, Readings

-----------------------------------------------------------------------------
(* Arithmetic.                                                             *)
LEMMA CeilDivCovers ==
    ASSUME NEW a \in Nat, NEW b \in Nat \ {0}
    PROVE  CeilDiv(a, b) \in Int /\ b * CeilDiv(a, b) >= a
<1> DEFINE x == a + b - 1
           q == x \div b
<1>1. x \in Int /\ q \in Int
  BY SMT
<1>2. b * q <= x /\ x < b * q + b
  BY SMT
<1> QED
  BY <1>1, <1>2 DEF CeilDiv

LEMMA Monotone ==
    ASSUME NEW r \in Nat, NEW a \in Int, NEW b \in Int, a <= b
    PROVE  r * a <= r * b
  BY SMT

LEMMA Distributes ==
    ASSUME NEW r \in Int, NEW a \in Int, NEW b \in Int
    PROVE  r * (a + b) = r * a + r * b
  BY SMT

-----------------------------------------------------------------------------
(* A run hands out at most the refill of the time its clock reading is     *)
(* past the last one, plus the credit it is charged with.                  *)
LEMMA RefillIsCovered ==
    ASSUME BucketInv, NEW now \in Nat, runs # 0
    PROVE  Refilled(now) <= tokens + Rate * Gain(now)
<1> DEFINE gain == Gain(now)
<1>1. now \in Nat /\ timestamp \in Nat /\ tokens \in Nat /\ Rate \in Nat /\ Capacity \in Nat
  BY BucketAssumption DEF BucketInv, TypeOK
<1>2. FillTime \in Int /\ Rate * FillTime >= Capacity
  BY CeilDivCovers, BucketAssumption DEF FillTime
<1>3. Elapsed(now) \in Int /\ Unaccounted(now) \in Int /\ gain \in Int
  BY <1>1, <1>2 DEF Elapsed, Unaccounted, AtLeastZero, Gain
<1>4. CASE present
  <2>1. Elapsed(now) <= gain
    BY <1>1, <1>3, <1>4 DEF Unaccounted, AtLeastZero, Elapsed, Gain
  <2>2. Rate * Elapsed(now) <= Rate * gain
    BY <2>1, <1>1, <1>3, Monotone
  <2>3. Elapsed(now) * Rate = Rate * Elapsed(now)
    BY <1>1, <1>3
  <2>4. Elapsed(now) * Rate \in Int /\ Rate * gain \in Int
    BY <1>1, <1>3
  <2>5. Refilled(now) <= tokens + Elapsed(now) * Rate
    BY <1>1, <1>4, <2>4 DEF Refilled, AtMost
  <2>6. Refilled(now) \in Int
    BY <1>1, <1>4, <2>4 DEF Refilled, AtMost
  <2> HIDE DEF gain
  <2> QED
    BY <1>1, <2>3, <2>5, <2>2, <2>4, <2>6 DEF gain
<1>5. CASE ~present
  <2>1. FillTime <= gain
    BY <1>1, <1>2, <1>3, <1>5, runs # 0 DEF Unaccounted, AtLeastZero, Gain
  <2>2. Rate * FillTime <= Rate * gain
    BY <2>1, <1>1, <1>2, <1>3, Monotone
  <2>3. Refilled(now) = Capacity
    BY <1>5 DEF Refilled
  <2>4. Rate * gain \in Int /\ Rate * FillTime \in Int
    BY <1>1, <1>2, <1>3
  <2> HIDE DEF gain
  <2> QED
    BY <1>1, <1>2, <2>2, <2>3, <2>4 DEF gain
<1> QED
  BY <1>4, <1>5

(* What a refill returns is between an empty and a full bucket.            *)
LEMMA RefilledIsBounded ==
    ASSUME BucketInv, NEW now \in Nat
    PROVE  Refilled(now) \in 0..Capacity /\ Unaccounted(now) \in Nat
<1>1. /\ now \in Nat /\ timestamp \in Nat /\ tokens \in 0..Capacity
      /\ Rate \in Nat /\ Capacity \in Nat
  BY BucketAssumption DEF BucketInv, TypeOK
<1>2. FillTime \in Int
  BY CeilDivCovers, BucketAssumption DEF FillTime
<1>3. Elapsed(now) \in Nat
  BY <1>1 DEF Elapsed, AtLeastZero
<1>4. Unaccounted(now) \in Nat
  BY <1>1, <1>2, <1>3 DEF Unaccounted, AtLeastZero
<1>5. Elapsed(now) * Rate \in Nat
  BY <1>1, <1>3
<1>6. Refilled(now) \in 0..Capacity
  BY <1>1, <1>5 DEF Refilled, AtMost
<1> QED
  BY <1>1, <1>4, <1>6

(* The history before this run, with the bucket it leaves: whatever was    *)
(* taken since m is still covered.                                         *)
LEMMA ReserveAfterRun ==
    ASSUME BucketInv, NEW now \in Nat, NEW m \in 1..Len(grants)
    PROVE  (Len(grants) - m + 1) * Cost + Refilled(now) <= Capacity
               + Rate * (now - grants[m].now
                         + (credit + Unaccounted(now)) - grants[m].credit)
<1> DEFINE taken == (Len(grants) - m + 1) * Cost
           past == timestamp - grants[m].now + credit - grants[m].credit
           gain == Gain(now)
<1>1. runs # 0
  BY DEF BucketInv
<1>2. /\ timestamp \in Nat /\ credit \in Nat /\ tokens \in Nat
      /\ Rate \in Nat /\ Capacity \in Nat /\ Cost \in Nat
  BY BucketAssumption DEF BucketInv, TypeOK
<1>11. Len(grants) \in Nat /\ grants[m].now \in Nat /\ grants[m].credit \in Nat
  BY GrantsAreTyped DEF BucketInv
<1>3. now \in Nat /\ Unaccounted(now) \in Nat /\ Refilled(now) \in Int
  <2> HIDE DEF taken, past, gain
  <2>1. Refilled(now) \in 0..Capacity /\ Unaccounted(now) \in Nat
    BY RefilledIsBounded
  <2> QED
    BY <1>2, <2>1
<1>4. taken \in Int /\ past \in Int /\ gain \in Int
  <2>1. Len(grants) - m + 1 \in Int
    BY <1>11
  <2>2. past \in Int
    BY SMTT(30), <1>2, <1>11
  <2>3. gain \in Int
    BY <1>2, <1>3 DEF Gain
  <2> QED
    BY <1>2, <2>1, <2>2, <2>3
<1>5. taken + tokens <= Capacity + Rate * past
  BY DEF BucketInv, Reserve
<1>6. Refilled(now) <= tokens + Rate * gain
  BY <1>1, RefillIsCovered
<1>7. Rate * (past + gain) = Rate * past + Rate * gain
  BY <1>2, <1>4, Distributes
<1>8. now - grants[m].now + (credit + Unaccounted(now)) - grants[m].credit = past + gain
  <2> DEFINE given == Unaccounted(now)
             n == grants[m].now
             c == grants[m].credit
  <2>1. given \in Nat /\ n \in Nat /\ c \in Nat
    BY <1>3, <1>11
  <2> HIDE DEF given, n, c
  <2>2. now - n + (credit + given) - c = (timestamp - n + credit - c) + (now - timestamp + given)
    BY <1>2, <1>3, <2>1
  <2> QED
    BY <2>2 DEF Gain, given, n, c
<1>9. Rate * past \in Int /\ Rate * gain \in Int
  BY <1>2, <1>4
<1> HIDE DEF taken, past, gain
<1>10. taken + Refilled(now) <= Capacity + Rate * (past + gain)
  BY <1>2, <1>4, <1>6, <1>9, <1>3, <1>5, <1>7
<1> QED
  BY <1>8, <1>10 DEF taken

-----------------------------------------------------------------------------
(* One step.                                                               *)
LEMMA RunKeepsInv ==
    ASSUME BucketInv, NEW c \in Calls, reading[c] # NoReading,
           NEW left \in 0..Refilled(reading[c].now),
           Store(c, left),
           \/ left + Cost = Refilled(reading[c].now)
              /\ grants' = Append(grants, [now |-> reading[c].now, credit |-> credit'])
           \/ UNCHANGED grants,
           promise' \in Nat \cup {None}
    PROVE  BucketInv'
<1> DEFINE now == reading[c].now
<1>0. now \in Nat /\ reading[c].at \in Nat
  BY ReadingIsTyped
<1>1. now \in Nat /\ Refilled(now) \in 0..Capacity /\ Unaccounted(now) \in Nat
  BY <1>0, RefilledIsBounded
<1>2. /\ Cost \in Nat \ {0} /\ Capacity \in Nat /\ Rate \in Nat
      /\ time \in Nat /\ credit \in Nat /\ runs \in Nat
  BY BucketAssumption DEF BucketInv, TypeOK
<1>9. grants \in Seq(Grant) /\ Len(grants) \in Nat
  BY GrantsAreTyped DEF BucketInv
<1>3. /\ tokens' = left /\ timestamp' = now /\ runs' = runs + 1
      /\ credit' = credit + Unaccounted(now)
      /\ ahead' = ahead /\ time' = time /\ late' = late + (time - reading[c].at)
      /\ present' = TRUE /\ deadline' = time + Ttl
      /\ reading' = [reading EXCEPT ![c] = NoReading]
  BY DEF Store
<1>4. deadline' \in Nat
  <2>1. FillTime \in Int /\ Rate * FillTime >= Capacity /\ Rate \in Nat \ {0}
    BY CeilDivCovers, BucketAssumption DEF FillTime
  <2>2. FillTime >= 0
    BY <2>1, <1>2
  <2> QED
    BY <1>2, <1>3, <2>1, <2>2 DEF Ttl
<1>5. TypeOK'
  <2>1. left \in 0..Capacity /\ credit' \in Nat
    BY <1>1, <1>2, <1>3
  <2>2. [now |-> now, credit |-> credit'] \in Grant
    BY <1>1, <2>1 DEF Grant
  <2>3. grants' \in Seq(Grant)
    BY <1>9, <2>2
  <2>4. ahead' \in [Processes -> 0..Skew] /\ time' \in Nat /\ runs' \in Nat
    BY <1>2, <1>3 DEF BucketInv, TypeOK
  <2>5. reading' \in [Calls -> Readings \cup {NoReading}]
    BY <1>3 DEF BucketInv, TypeOK
  <2>6. late' \in Int
    BY <1>0, <1>2, <1>3 DEF BucketInv, TypeOK
  <2> QED
    BY <1>1, <1>3, <1>4, <2>1, <2>3, <2>4, <2>5, <2>6 DEF TypeOK, Grant
<1>6. ASSUME NEW m \in 1..Len(grants)
      PROVE  /\ grants[m].now \in Nat /\ grants[m].credit \in Nat
             /\ (Len(grants) - m + 1) * Cost + Refilled(now) <= Capacity
                  + Rate * (timestamp' - grants[m].now + credit' - grants[m].credit)
  <2>1. grants[m].now \in Nat /\ grants[m].credit \in Nat
    BY GrantsAreTyped DEF BucketInv
  <2> HIDE DEF now
  <2>2. (Len(grants) - m + 1) * Cost + Refilled(now) <= Capacity
           + Rate * (now - grants[m].now + (credit + Unaccounted(now)) - grants[m].credit)
    BY <1>1, ReserveAfterRun
  <2> QED
    BY <1>3, <2>1, <2>2
<1>10. timestamp' \in Nat /\ credit' \in Nat
  BY <1>1, <1>2, <1>3
<1>11. left \in 0..Refilled(now) /\ now \in Nat
  BY <1>1
<1>12. tokens' = left /\ timestamp' = now
  BY <1>3
<1> HIDE DEF now
<1>7. CASE UNCHANGED grants
  <2>1. Reserve'
    <3> SUFFICES ASSUME NEW m \in 1..Len(grants)
                 PROVE  (Len(grants) - m + 1) * Cost + left <= Capacity
                          + Rate * (timestamp' - grants[m].now + credit' - grants[m].credit)
      BY <1>3, <1>7 DEF Reserve
    <3> DEFINE taken == (Len(grants) - m + 1) * Cost
               allowed == Rate * (timestamp' - grants[m].now + credit' - grants[m].credit)
    <3>1. taken \in Int /\ allowed \in Int
      <4>1. Len(grants) - m + 1 \in Int
        BY <1>9
      <4>2. timestamp' - grants[m].now + credit' - grants[m].credit \in Int
        BY <1>6, <1>10
      <4> QED
        BY <1>2, <4>1, <4>2
    <3>2. taken + Refilled(now) <= Capacity + allowed
      BY <1>6
    <3> HIDE DEF taken, allowed
    <3>3. taken + left <= Capacity + allowed
      BY <1>1, <1>2, <1>11, <3>1, <3>2
    <3> QED
      BY <3>3 DEF taken, allowed
  <2>2. WindowBound'
    BY <1>7 DEF BucketInv, WindowBound
  <2> QED
    BY <1>2, <1>3, <1>5, <2>1, <2>2 DEF BucketInv
<1>8. CASE /\ left + Cost = Refilled(now)
           /\ grants' = Append(grants, [now |-> now, credit |-> credit'])
  <2> DEFINE L == Len(grants)
             taken(m) == (L - m + 1) * Cost
             allowed(m) == Rate * (now - grants[m].now + credit' - grants[m].credit)
  <2>1. /\ L \in Nat /\ Len(grants') = L + 1
        /\ \A m \in 1..L : grants'[m] = grants[m]
        /\ grants'[L + 1] = [now |-> now, credit |-> credit']
    BY <1>9, <1>8
  <2>2. ASSUME NEW m \in 1..L
        PROVE  /\ taken(m) \in Int /\ allowed(m) \in Int
               /\ (L + 1 - m + 1) * Cost = taken(m) + Cost
               /\ taken(m) + Cost + left <= Capacity + allowed(m)
    <3>1. taken(m) \in Int /\ allowed(m) \in Int
      <4>1. L - m + 1 \in Int
        BY <2>1
      <4>2. now - grants[m].now + credit' - grants[m].credit \in Int
        <5>1. grants[m].now \in Nat /\ grants[m].credit \in Nat
          BY <1>6
        <5>2. now - grants[m].now \in Int /\ credit' - grants[m].credit \in Int
          BY <1>10, <1>11, <5>1
        <5> QED
          BY <1>10, <5>1, <5>2
      <4> QED
        BY <1>2, <4>1, <4>2
    <3>2. (L + 1 - m + 1) * Cost = taken(m) + Cost
      BY <1>2, <2>1
    <3>3. taken(m) + Refilled(now) <= Capacity + allowed(m)
      BY <1>3, <1>6
    <3> HIDE DEF taken, allowed
    <3> QED
      BY <1>1, <1>2, <1>8, <3>1, <3>2, <3>3
  <2>3. Reserve'
    <3> SUFFICES ASSUME NEW m \in 1..(L + 1)
                 PROVE  (L + 1 - m + 1) * Cost + left <= Capacity
                          + Rate * (now - grants'[m].now + credit' - grants'[m].credit)
      BY <1>3, <2>1 DEF Reserve
    <3>1. CASE m = L + 1
      <4>0. credit' \in Nat
        BY <1>1, <1>2, <1>3
      <4>1. now - grants'[m].now + credit' - grants'[m].credit = 0
        BY <1>1, <2>1, <3>1, <4>0
      <4>2. (L + 1 - m + 1) * Cost = Cost
        BY <1>2, <2>1, <3>1
      <4>3. Rate * 0 = 0
        BY <1>2
      <4>4. Cost + left <= Capacity + 0
        BY <1>1, <1>2, <1>8
      <4> QED
        BY <4>1, <4>3, <4>2, <4>4
    <3>2. CASE m \in 1..L
      <4>1. (L + 1 - m + 1) * Cost + left <= Capacity + allowed(m)
        BY <2>2, <3>2
      <4> QED
        BY <2>1, <3>2, <4>1
    <3> QED
      BY <2>1, <3>1, <3>2
  <2>4. WindowBound'
    <3> SUFFICES ASSUME NEW m \in 1..(L + 1), NEW n \in 1..(L + 1), m <= n
                 PROVE  (n - m + 1) * Cost <= Capacity
                          + Rate * (grants'[n].now - grants'[m].now
                                    + grants'[n].credit - grants'[m].credit)
      BY <2>1 DEF WindowBound
    <3>1. CASE n \in 1..L
      <4>1. m \in 1..L
        BY <2>1, <3>1
      <4>2. grants'[n] = grants[n] /\ grants'[m] = grants[m]
        BY <2>1, <3>1, <4>1
      <4>3. WindowBound
        BY DEF BucketInv
      <4> QED
        BY <3>1, <4>1, <4>2, <4>3 DEF WindowBound
    <3>2. CASE n = L + 1
      <4> DEFINE needed == (L + 1 - m + 1) * Cost
                 granted == Rate * (now - grants'[m].now + credit' - grants'[m].credit)
      <4>1. needed + left <= Capacity + granted
        BY <1>12, <2>1, <2>3 DEF Reserve
      <4>2. needed \in Int /\ granted \in Int
        <5>1. grants'[m].now \in Nat /\ grants'[m].credit \in Nat
          <6>1. CASE m \in 1..L
            BY <1>6, <2>1, <6>1
          <6>2. CASE m = L + 1
            BY <1>10, <1>11, <2>1, <6>2
          <6> QED
            BY <2>1, <6>1, <6>2
        <5>2. L + 1 - m + 1 \in Int
          BY <2>1
        <5>3. now - grants'[m].now + credit' - grants'[m].credit \in Int
          <6>1. now - grants'[m].now \in Int
            BY <1>11, <5>1
          <6> QED
            BY SMTT(30), <1>10, <5>1, <6>1
        <5> QED
          BY <1>2, <5>2, <5>3
      <4> HIDE DEF needed, granted
      <4>3. needed <= Capacity + granted
        BY <1>1, <1>2, <4>1, <4>2
      <4> QED
        BY <2>1, <3>2, <4>3 DEF needed, granted
    <3> QED
      BY <2>1, <3>1, <3>2
  <2> QED
    BY <1>2, <1>3, <1>5, <2>3, <2>4 DEF BucketInv
<1> QED
  BY <1>7, <1>8 DEF now

LEMMA StepKeepsInv ==
    ASSUME BucketInv, [Next]_vars
    PROVE  BucketInv'
<1> USE DEF BucketInv
<1>0. ASSUME NEW c \in Calls, reading[c] # NoReading
      PROVE  Refilled(reading[c].now) \in Nat /\ Cost \in Nat
  <2>1. reading[c].now \in Nat
    BY <1>0, ReadingIsTyped
  <2>2. Refilled(reading[c].now) \in 0..Capacity
    BY <2>1, RefilledIsBounded
  <2> QED
    BY <2>2, BucketAssumption
<1>1. ASSUME NEW c \in Calls, Allow(c)
      PROVE  BucketInv'
  <2>1. Refilled(reading[c].now) \in Nat /\ Cost \in Nat
    BY <1>0, <1>1 DEF Allow
  <2> DEFINE left == Refilled(reading[c].now) - Cost
  <2>2. left \in 0..Refilled(reading[c].now) /\ left + Cost = Refilled(reading[c].now)
    BY <1>1, <2>1 DEF Allow
  <2>3. /\ reading[c] # NoReading /\ Store(c, left) /\ promise' \in Nat \cup {None}
        /\ grants' = Append(grants, [now |-> reading[c].now, credit |-> credit'])
    BY <1>1 DEF Allow
  <2> HIDE DEF left
  <2> QED
    BY <2>2, <2>3, RunKeepsInv
<1>2. ASSUME NEW c \in Calls, Deny(c)
      PROVE  BucketInv'
  <2>1. Refilled(reading[c].now) \in Nat /\ reading[c].now \in Nat
    BY <1>0, <1>2, ReadingIsTyped DEF Deny
  <2>2. promise' \in Nat \cup {None}
    <3> DEFINE short == Cost - Refilled(reading[c].now)
    <3>1. short \in Nat
      BY <1>2, <2>1, BucketAssumption DEF Deny
    <3>2. CeilDiv(short, Rate) \in Int /\ Rate * CeilDiv(short, Rate) >= short
      BY <3>1, CeilDivCovers, BucketAssumption
    <3>3. CeilDiv(short, Rate) >= 0
      BY <3>1, <3>2, BucketAssumption
    <3> QED
      BY <1>2, <2>1, <3>2, <3>3 DEF Deny, RetryAfter, TypeOK
  <2> QED
    BY <1>2, <2>1, <2>2, RunKeepsInv DEF Deny
<1>3. ASSUME NEW c \in Calls, FailOpen(c)
      PROVE  BucketInv'
  <2>1. Refilled(reading[c].now) \in Nat /\ Cost \in Nat
    BY <1>0, <1>3 DEF FailOpen
  <2> QED
    BY <1>3, <2>1, RunKeepsInv DEF FailOpen
<1>4. CASE Expire
  BY ZenonT(40), <1>4 DEF Expire, history, TypeOK, Reserve, WindowBound
<1>5. CASE Tick
  BY <1>5 DEF Tick, bucket, history, TypeOK, Reserve, WindowBound
<1>6. CASE UNCHANGED vars
  BY <1>6 DEF vars, bucket, history, TypeOK, Reserve, WindowBound
<1>7. ASSUME NEW c \in Calls, ReadClock(c) \/ NotRun(c)
      PROVE  BucketInv'
  <2>1. reading' \in [Calls -> Readings \cup {NoReading}]
    <3>1. \A p \in Processes : [now |-> Clock(p), at |-> time] \in Readings
      BY BucketAssumption DEF TypeOK, Clock, Readings
    <3> QED
      BY <1>7, <3>1 DEF ReadClock, NotRun, TypeOK
  <2> QED
    BY <1>7, <2>1 DEF ReadClock, NotRun, bucket, history, TypeOK, Reserve, WindowBound
<1> QED
  BY <1>1, <1>3, <1>5, <1>2, <1>4, <1>6, <1>7 DEF Next, Stop

(* The bucket starts full and nothing has been granted.                    *)
LEMMA InitHasInv == Init => BucketInv
<1> SUFFICES ASSUME Init PROVE BucketInv
  OBVIOUS
<1>1. grants = <<>> /\ Len(grants) = 0
  BY DEF Init
<1>2. TypeOK
  <2>1. grants \in Seq([now : Nat, credit : Nat])
    BY <1>1
  <2>2. tokens \in 0..Capacity
    BY BucketAssumption DEF Init
  <2>3. reading \in [Calls -> Readings \cup {NoReading}]
    BY DEF Init
  <2>4. /\ ahead \in [Processes -> 0..Skew]
        /\ time = 0 /\ present \in BOOLEAN /\ timestamp = 0 /\ deadline = 0
        /\ runs = 0 /\ late = 0 /\ credit = 0 /\ promise = None
    BY DEF Init
  <2> QED
    BY <2>2, <2>1, <2>4, <2>3 DEF TypeOK
<1> QED
  BY <1>1, <1>2 DEF Init, BucketInv, Reserve, WindowBound

-----------------------------------------------------------------------------
(* The invariant, and what it is for.                                      *)
THEOREM BucketInvariance == Spec => []BucketInv
<1>1. BucketInv /\ [Next]_vars => BucketInv'
  BY StepKeepsInv
<1> QED
  BY InitHasInv, <1>1, PTL DEF Spec

(* The token bucket keeps its hash within bounds: never a negative number  *)
(* of tokens, never more than the capacity.                                *)
THEOREM BucketTypeCorrect == Spec => []TypeOK
<1>1. BucketInv => TypeOK
  BY DEF BucketInv
<1> QED
  BY BucketInvariance, <1>1, PTL

(* Between any two metered admissions no more requests are admitted than   *)
(* a full bucket and the refill of the time between them allow.            *)
THEOREM WindowIsBounded == Spec => []WindowBound
<1>1. BucketInv => WindowBound
  BY DEF BucketInv
<1> QED
  BY BucketInvariance, <1>1, PTL

-----------------------------------------------------------------------------
(* Where the last run was by Redis's clock: its reading, and that of every *)
(* call in flight, was taken before by the clock of some process.          *)
LastRun == deadline - Ttl
LastInv ==
    /\ runs = 0 => ~present /\ timestamp = 0
    /\ runs # 0 => /\ LastRun <= time
                   /\ \E q \in Processes : timestamp <= LastRun + ahead[q]
                   /\ ~present => deadline <= time

ReadingInv ==
    \A c \in Calls : reading[c] # NoReading =>
        /\ reading[c].at <= time
        /\ \E p \in Processes : reading[c].now = reading[c].at + ahead[p]

(* A promised admission is covered by what is left and the refill until    *)
(* then.                                                                   *)
PromiseInv ==
    promise # None => tokens + Rate * AtLeastZero(promise - timestamp) >= Cost

CreditInv ==
    /\ BucketInv /\ LastInv /\ ReadingInv /\ CreditIsSkewAndDelay /\ PromiseInv
    /\ late \in Nat

(* A full bucket takes a while.                                            *)
LEMMA FillTimeIsNat == FillTime \in Nat
<1>1. FillTime \in Int /\ Rate * FillTime >= Capacity /\ Rate \in Nat \ {0} /\ Capacity \in Nat
  BY CeilDivCovers, BucketAssumption DEF FillTime
<1> QED
  BY <1>1

(* The types of what a run reads.                                          *)
LEMMA RunTypes ==
    ASSUME BucketInv
    PROVE  /\ time \in Nat /\ \A p \in Processes : ahead[p] \in 0..Skew /\ ahead[p] \in Nat
           /\ timestamp \in Nat /\ deadline \in Nat /\ runs \in Nat /\ credit \in Nat
           /\ tokens \in 0..Capacity /\ present \in BOOLEAN /\ promise \in Nat \cup {None}
           /\ Skew \in Nat /\ Rate \in Nat \ {0} /\ Capacity \in Nat /\ Cost \in Nat \ {0}
           /\ Capacity >= Cost /\ FillTime \in Nat /\ Ttl = FillTime + 1
<1>1. ahead \in [Processes -> 0..Skew] /\ Skew \in Nat
  BY BucketAssumption DEF BucketInv, TypeOK
<1> QED
  BY <1>1, BucketAssumption, FillTimeIsNat DEF BucketInv, TypeOK, Ttl

(* A run is charged with no more than the clocks differ and its call was   *)
(* under way.                                                              *)
LEMMA UnaccountedIsSkewAndDelay ==
    ASSUME BucketInv, LastInv, ReadingInv, NEW c \in Calls, reading[c] # NoReading,
           NEW d \in 0..Skew, ClocksWithin(d)
    PROVE  Unaccounted(reading[c].now) <= d + (time - reading[c].at)
<1> DEFINE now == reading[c].now
           at == reading[c].at
<1>1. PICK p \in Processes : now = at + ahead[p]
  BY DEF ReadingInv
<1>2. d \in Nat /\ now \in Nat /\ at \in Nat /\ at <= time /\ time \in Nat /\ ahead[p] \in Nat
  BY RunTypes, ReadingIsTyped DEF ReadingInv
<1> HIDE DEF now, at
<1>3. CASE runs = 0
  <2>1. ~present /\ timestamp = 0
    BY <1>3 DEF LastInv
  <2>2. Unaccounted(now) = 0
    BY <1>2, <1>3, <2>1 DEF Unaccounted, AtLeastZero
  <2> QED
    BY <1>2, <2>2 DEF now, at
<1>4. CASE runs # 0
  <2>1. PICK q \in Processes : timestamp <= LastRun + ahead[q]
    BY <1>4 DEF LastInv
  <2>2. ahead[q] - ahead[p] <= d
    BY DEF ClocksWithin
  <2>3. LastRun <= time /\ (~present => LastRun + FillTime + 1 <= time)
    BY <1>4, RunTypes DEF LastInv, LastRun
  <2>4. ahead[q] \in Nat /\ LastRun \in Int /\ FillTime \in Nat /\ timestamp \in Nat
    BY RunTypes DEF LastRun
  <2>5. /\ timestamp - now <= d + (time - at)
        /\ ~present => FillTime - (now - timestamp) <= d + (time - at)
        /\ 0 <= d + (time - at)
    BY <1>1, <1>2, <2>2, <2>1, <2>4, <2>3
  <2>6. Unaccounted(now) <= d + (time - at)
    <3>1. CASE present
      BY <1>2, <2>4, <2>5, <3>1 DEF Unaccounted, AtLeastZero, Elapsed
    <3>2. CASE ~present
      BY <1>2, <1>4, <2>4, <2>5, <3>2 DEF Unaccounted, AtLeastZero
    <3> QED
      BY <3>1, <3>2
  <2> QED
    BY <2>6 DEF now, at
<1> QED
  BY <1>3, <1>4

(* What is common to the three ways in which a run can end.                *)
LEMMA RunKeepsCredit ==
    ASSUME CreditInv, NEW c \in Calls, reading[c] # NoReading, NEW left, Store(c, left)
    PROVE  LastInv' /\ ReadingInv' /\ CreditIsSkewAndDelay' /\ late' \in Nat
<1> USE DEF CreditInv
<1> DEFINE now == reading[c].now
           delay == time - reading[c].at
<1>1. /\ timestamp' = now /\ deadline' = time + Ttl /\ runs' = runs + 1 /\ present' = TRUE
      /\ credit' = credit + Unaccounted(now) /\ ahead' = ahead /\ time' = time
      /\ late' = late + delay /\ reading' = [reading EXCEPT ![c] = NoReading]
  BY DEF Store
<1>2. PICK p \in Processes : now = reading[c].at + ahead[p]
  BY DEF ReadingInv
<1>3. now \in Nat /\ reading[c].at \in Nat /\ reading[c].at <= time /\ delay \in Nat
  BY ReadingIsTyped, RunTypes DEF ReadingInv
<1>4. LastInv'
  <2>1. LastRun' = time
    BY <1>1, RunTypes DEF LastRun, Ttl
  <2>2. timestamp' <= LastRun' + ahead'[p] /\ LastRun' <= time'
    BY <1>1, <1>2, <1>3, <2>1, RunTypes
  <2>3. runs' # 0
    BY <1>1, RunTypes
  <2> QED
    BY <1>1, <2>2, <2>3 DEF LastInv
<1>5. ReadingInv'
  <2>1. \A e \in Calls : reading'[e] # NoReading => reading'[e] = reading[e]
    BY <1>1 DEF BucketInv, TypeOK
  <2> QED
    BY <1>1, <2>1 DEF ReadingInv
<1>6. CreditIsSkewAndDelay'
  <2> SUFFICES ASSUME NEW d \in 0..Skew, ClocksWithin(d) PROVE credit' <= d * runs' + late'
    BY <1>1 DEF CreditIsSkewAndDelay, ClocksWithin
  <2>1. /\ credit <= d * runs + late /\ Unaccounted(now) <= d + delay
        /\ Unaccounted(now) \in Nat
    BY <1>3, UnaccountedIsSkewAndDelay, RefilledIsBounded DEF CreditIsSkewAndDelay
  <2>2. d \in Nat /\ runs \in Nat /\ credit \in Nat
    BY RunTypes
  <2>3. d * (runs + 1) = d * runs + d /\ d * runs \in Nat
    BY <2>2, Distributes
  <2> HIDE DEF now, delay
  <2> QED
    BY <1>1, <1>3, <2>1, <2>2, <2>3
<1> QED
  BY <1>1, <1>3, <1>4, <1>5, <1>6

(* Refill is monotone in the time it is for.                               *)
LEMMA RefillGrows ==
    ASSUME NEW t \in Int, NEW a \in Int, NEW b \in Int, a <= b
    PROVE  /\ AtLeastZero(a) \in Nat /\ AtLeastZero(b) \in Nat
           /\ t + Rate * AtLeastZero(a) <= t + Rate * AtLeastZero(b)
<1>1. AtLeastZero(a) \in Nat /\ AtLeastZero(b) \in Nat /\ AtLeastZero(a) <= AtLeastZero(b)
  BY DEF AtLeastZero
<1>2. Rate \in Nat
  BY BucketAssumption
<1>3. Rate * AtLeastZero(a) <= Rate * AtLeastZero(b)
  BY <1>1, <1>2, Monotone
<1>4. Rate * AtLeastZero(a) \in Int /\ Rate * AtLeastZero(b) \in Int
  BY <1>1, <1>2
<1> QED
  BY <1>1, <1>3, <1>4

(* A refusal does not break the promise of an earlier one, and its clock   *)
(* has not reached it.                                                     *)
LEMMA DenyKeepsPromise ==
    ASSUME BucketInv, PromiseInv, NEW c \in Calls, Deny(c)
    PROVE  /\ PromiseInv'
           /\ promise # None => reading[c].now < promise
<1> DEFINE now == reading[c].now
<1>1. /\ tokens' = Refilled(now) /\ timestamp' = now /\ Refilled(now) < Cost
      /\ promise' = IF promise = None THEN now + RetryAfter(now) ELSE promise
  BY DEF Deny, Store
<1>2. now \in Nat /\ Refilled(now) \in 0..Capacity
  BY ReadingIsTyped, RefilledIsBounded DEF Deny
<1> HIDE DEF now
<1>3. CASE promise = None
  <2> DEFINE wait == RetryAfter(now)
  <2>1. Cost - Refilled(now) \in Nat
    BY <1>1, <1>2, RunTypes
  <2>2. wait \in Int /\ Rate * wait >= Cost - Refilled(now)
    BY <2>1, CeilDivCovers, RunTypes DEF RetryAfter
  <2>3. promise' - timestamp' = wait
    BY <1>1, <1>2, <1>3, <2>2
  <2>4. wait <= AtLeastZero(wait) /\ AtLeastZero(wait) \in Nat
    BY <2>2 DEF AtLeastZero
  <2>5. Rate * wait <= Rate * AtLeastZero(wait) /\ Rate * wait \in Int
        /\ Rate * AtLeastZero(wait) \in Int
    BY <2>2, <2>4, Monotone, RunTypes
  <2> HIDE DEF wait
  <2>6. tokens' + Rate * AtLeastZero(wait) >= Cost
    BY <1>1, <1>2, <2>2, <2>5, RunTypes
  <2> QED
    BY <1>3, <2>3, <2>6 DEF PromiseInv
<1>4. CASE promise # None
  <2>1. /\ promise \in Nat /\ timestamp \in Nat /\ tokens \in Nat /\ Rate \in Nat
        /\ Cost \in Nat
    BY <1>4, RunTypes
  <2>2. tokens + Rate * AtLeastZero(promise - timestamp) >= Cost
    BY <1>4 DEF PromiseInv
  <2>3. present /\ Refilled(now) = tokens + Rate * AtLeastZero(now - timestamp)
    <3>1. Elapsed(now) * Rate \in Int /\ Capacity \in Nat /\ Capacity >= Cost
          /\ Elapsed(now) * Rate = Rate * Elapsed(now)
      BY <1>2, <2>1, RunTypes DEF Elapsed, AtLeastZero
    <3>2. present /\ Refilled(now) = tokens + Elapsed(now) * Rate
      BY <1>1, <2>1, <3>1 DEF Refilled, AtMost
    <3> QED
      BY <3>1, <3>2 DEF Elapsed
  <2>4. now < promise
    <3>1. SUFFICES ASSUME promise <= now PROVE FALSE
      BY <1>2, <2>1
    <3>2. promise - timestamp <= now - timestamp /\ promise - timestamp \in Int
          /\ now - timestamp \in Int
      BY <1>2, <2>1, <3>1
    <3>3. tokens + Rate * AtLeastZero(promise - timestamp)
            <= tokens + Rate * AtLeastZero(now - timestamp)
      BY <2>1, <3>2, RefillGrows
    <3>4. tokens + Rate * AtLeastZero(promise - timestamp) \in Int
      <4>1. AtLeastZero(promise - timestamp) \in Nat
        BY <3>2 DEF AtLeastZero
      <4> QED
        BY <2>1, <4>1
    <3> QED
      BY <1>1, <1>2, <2>1, <2>2, <2>3, <3>3, <3>4
  <2>5. tokens' + Rate * AtLeastZero(promise - now) >= Cost
    <3> DEFINE a == AtLeastZero(now - timestamp)
               b == AtLeastZero(promise - now)
               e == AtLeastZero(promise - timestamp)
    <3>1. a \in Nat /\ b \in Nat /\ e \in Nat /\ e <= a + b
      BY <1>2, <2>1 DEF AtLeastZero
    <3>2. tokens' = tokens + Rate * a /\ tokens + Rate * e >= Cost
      BY <1>1, <2>2, <2>3
    <3> HIDE DEF a, b, e
    <3>3. Rate * e <= Rate * (a + b)
      BY <2>1, <3>1, Monotone
    <3>4. Rate * (a + b) = Rate * a + Rate * b
      BY <2>1, <3>1, Distributes
    <3>5. Rate * a \in Int /\ Rate * b \in Int /\ Rate * e \in Int
      BY <2>1, <3>1
    <3>6. tokens' + Rate * b >= Cost
      BY <2>1, <3>2, <3>3, <3>4, <3>5
    <3> QED
      BY <3>6 DEF b
  <2>6. PromiseInv'
    BY <1>1, <1>4, <2>5 DEF PromiseInv
  <2> QED
    BY <2>4, <2>6 DEF now
<1> QED
  BY <1>3, <1>4

(* Every step keeps the credit within its bound, and the promise.          *)
LEMMA StepKeepsCredit ==
    ASSUME CreditInv, [Next]_vars
    PROVE  CreditInv'
<1> USE DEF CreditInv
<1>1. BucketInv'
  BY StepKeepsInv
<1>2. ASSUME NEW c \in Calls, Allow(c) \/ FailOpen(c)
      PROVE  CreditInv'
  <2>1. promise' = None /\ reading[c] # NoReading
    BY <1>2 DEF Allow, FailOpen
  <2>2. PICK left : Store(c, left)
    BY <1>2 DEF Allow, FailOpen
  <2>3. PromiseInv'
    BY <2>1 DEF PromiseInv
  <2> QED
    BY <1>1, <2>1, <2>2, <2>3, RunKeepsCredit
<1>3. ASSUME NEW c \in Calls, Deny(c)
      PROVE  CreditInv'
  <2>1. Store(c, Refilled(reading[c].now)) /\ reading[c] # NoReading
    BY <1>3 DEF Deny
  <2> QED
    BY <1>1, <1>3, <2>1, RunKeepsCredit, DenyKeepsPromise
<1>4. ASSUME UNCHANGED <<ahead, timestamp, deadline, tokens, runs, late, credit, promise>>,
             time' \in Nat /\ time' >= time,
             present' = present \/ (present' = FALSE /\ present /\ time' >= deadline)
      PROVE  LastInv' /\ CreditIsSkewAndDelay' /\ PromiseInv' /\ late' \in Nat
  <2>1. LastInv'
    <3>1. LastRun' = LastRun /\ LastRun \in Int /\ time \in Nat /\ deadline \in Nat
      BY <1>4, FillTimeIsNat DEF LastRun, Ttl, TypeOK, BucketInv
    <3> QED
      BY <1>4, <3>1 DEF LastInv
  <2>2. CreditIsSkewAndDelay' /\ PromiseInv'
    BY <1>4 DEF CreditIsSkewAndDelay, PromiseInv, ClocksWithin
  <2> QED
    BY <1>4, <2>1, <2>2
<1>5. time \in Nat
  BY DEF BucketInv, TypeOK
<1>9. ASSUME UNCHANGED <<ahead, reading>>, time' \in Nat, time' >= time
      PROVE  ReadingInv'
  <2> SUFFICES ASSUME NEW c \in Calls, reading[c] # NoReading
               PROVE  /\ reading[c].at <= time'
                      /\ \E p \in Processes : reading[c].now = reading[c].at + ahead[p]
    BY <1>9 DEF ReadingInv
  <2>1. reading[c].at \in Nat /\ reading[c].at <= time
    BY ReadingIsTyped DEF ReadingInv
  <2> QED
    BY <1>5, <1>9, <2>1 DEF ReadingInv
<1>6. CASE Expire
  <2>1. /\ UNCHANGED <<ahead, timestamp, deadline, tokens, runs, late, credit, promise>>
        /\ UNCHANGED reading /\ time' \in Nat /\ time' >= time
    BY <1>5, <1>6 DEF Expire, history
  <2>2. present' = FALSE /\ present /\ time' >= deadline
    BY <1>6, <2>1 DEF Expire
  <2> QED
    BY <1>1, <1>4, <1>9, <2>1, <2>2
<1>7. CASE Tick
  BY <1>1, <1>4, <1>5, <1>7, <1>9 DEF Tick, bucket, history
<1>8. CASE UNCHANGED vars
  BY <1>1, <1>4, <1>5, <1>8, <1>9 DEF vars, bucket, history
<1>10. ASSUME NEW c \in Calls, ReadClock(c) \/ NotRun(c)
       PROVE  CreditInv'
  <2>1. /\ UNCHANGED <<ahead, timestamp, deadline, tokens, runs, late, credit, promise>>
        /\ UNCHANGED <<present, time>>
    BY <1>10 DEF ReadClock, NotRun, bucket, history
  <2>2. ReadingInv'
    <3> SUFFICES ASSUME NEW e \in Calls, reading'[e] # NoReading
                 PROVE  /\ reading'[e].at <= time
                        /\ \E p \in Processes : reading'[e].now = reading'[e].at + ahead[p]
      BY <2>1 DEF ReadingInv
    <3>1. CASE reading'[e] = reading[e]
      BY <3>1 DEF ReadingInv
    <3>2. CASE reading'[e] # reading[e]
      <4>1. PICK p \in Processes : reading'[e] = [now |-> Clock(p), at |-> time]
        BY <1>10, <3>2 DEF ReadClock, NotRun, BucketInv, TypeOK
      <4> QED
        BY <1>5, <4>1 DEF Clock
    <3> QED
      BY <3>1, <3>2
  <2> QED
    BY <1>1, <1>4, <1>5, <2>1, <2>2
<1> QED
  BY <1>1, <1>7, <1>2, <1>8, <1>3, <1>6, <1>10 DEF Next, Stop

(* Nothing has been charged or promised at the start.                      *)
LEMMA InitHasCredit == Init => CreditInv
<1> SUFFICES ASSUME Init PROVE CreditInv
  OBVIOUS
<1>1. BucketInv
  BY InitHasInv
<1>2. LastInv /\ ReadingInv /\ PromiseInv /\ late \in Nat
  BY DEF Init, LastInv, ReadingInv, PromiseInv
<1>3. CreditIsSkewAndDelay
  <2> SUFFICES ASSUME NEW d \in 0..Skew PROVE 0 <= d * 0 + 0
    BY DEF Init, CreditIsSkewAndDelay
  <2> QED
    BY BucketAssumption
<1> QED
  BY <1>1, <1>2, <1>3 DEF CreditInv

(* What a run hands out beyond the clock readings is bounded by the skew   *)
(* of the clocks and the time its reading was under way, in whatever order *)
(* calls arrive; an early EXPIRE adds nothing to it.                       *)
THEOREM CreditIsAlwaysSkewAndDelay == Spec => []CreditIsSkewAndDelay
<1>1. CreditInv /\ [Next]_vars => CreditInv'
  BY StepKeepsCredit
<1>2. CreditInv => CreditIsSkewAndDelay
  BY DEF CreditInv
<1> QED
  BY InitHasCredit, <1>1, <1>2, PTL DEF Spec

(* A call that comes when Retry-After is over is not refused, unless a     *)
(* token was taken since.                                                  *)
THEOREM RetryAfterAlwaysSuffices == Spec => RetryAfterSuffices
<1>1. CreditInv /\ [Next]_vars => CreditInv'
  BY StepKeepsCredit
<1>2. CreditInv => \A c \in Calls : Deny(c) /\ promise # None => reading[c].now < promise
  BY DenyKeepsPromise DEF CreditInv
<1> QED
  BY InitHasCredit, <1>1, <1>2, PTL DEF Spec, RetryAfterSuffices
=============================================================================
