----------------------- MODULE CreateResponse_proofs ------------------------
(* Machine-checked proofs about CreateResponse, for any set of requests,   *)
(* any assignment of keys, fingerprints and correlation ids to them, and   *)
(* any number of faults, expiries and stops.                               *)
EXTENDS CreateResponse, TLAPS

-----------------------------------------------------------------------------
(* The inductive invariant, in named parts.                                *)

(* What the place of a request in the handler says of its locals.          *)
PathInv ==
    \A r \in Requests :
        /\ claimed[r] => Keyed(r)
        /\ Keyed(r) /\ pc[r] \in Working \cup Releasing => claimed[r]
        /\ pc[r] \in {"claim", "inspect", "complete"} \cup Releasing => Keyed(r)
        /\ pc[r] \in {"lookup", "hitPolicy", "fill"} => Cacheable(r)
        /\ answer[r] = "none" <=> pc[r] # "answered"
        /\ pc[r] = "hitPolicy" => via[r] = "cache"
        /\ pc[r] \in {"usage", "fill"} \/ r \in usage => resp[r] = r
        /\ r \in usage => pc[r] \in {"fill", "complete", "audit", "answered"} \cup Releasing

(* The record of a coordinated key belongs to the request that holds it,   *)
(* or carries the response of whoever was served.                          *)
Owns(r) == record[KeyOf[r]] = Lease(r)
OwnsOrServed(r) == Owns(r) \/ record[KeyOf[r]] = Completed(resp[r])

KeyInv ==
    \A r \in Requests : Keyed(r) /\ Coordinated(KeyOf[r]) =>
        /\ pc[r] \in Working => Owns(r)
        /\ pc[r] = "releaseDelete" /\ r \notin stopped => Owns(r)
        /\ pc[r] \in {"releaseRead", "audit"} => OwnsOrServed(r)
        /\ answer[r] = "ok" => OwnsOrServed(r)
        /\ r \in usage /\ Standing(r) => OwnsOrServed(r)

(* Only responses with a usage row are stored, or are on their way out.    *)
BillInv ==
    /\ \A k \in Keys : IsCompleted(k) => record[k].of \in usage
    /\ \A f \in Prints : cache[f] # NoResponse => cache[f] \in usage
    /\ \A r \in Requests :
         /\ pc[r] \in {"hitPolicy", "fill", "complete", "audit"} => resp[r] \in usage
         /\ pc[r] \notin Releasing \cup {"answered"} => counted[r] = {}
         /\ answer[r] = "ok" => /\ resp[r] \in usage
                                /\ r \in audited
                                /\ counted[r] = {"success"}

(* Who wrote a lease, and where that request is now.                       *)
LeaseInv ==
    \A k \in Keys : IsLease(k) =>
        /\ record[k].of \in Requests
        /\ KeyOf[record[k].of] = k
        /\ \/ pc[record[k].of] \in Working \cup Releasing
           \/ record[k].of \in unsettled
           \/ answer[record[k].of] = "error" /\ via[record[k].of] = "cache"

-----------------------------------------------------------------------------
(* Types.                                                                  *)

(* A command or a commit adds at most one fault, within its bound.         *)
LEMMA CommandBounds ==
    ASSUME TypeOK, NEW fate
    PROVE  /\ RedisCommand(fate) => /\ redisFaults' \in 0..MaxRedisFaults
                                    /\ UNCHANGED <<stopped, dbFaults, expiries>>
           /\ Commit(fate) => /\ dbFaults' \in 0..MaxDbFaults
                              /\ UNCHANGED <<stopped, redisFaults, expiries>>
  BY BoundAssumption DEF TypeOK, RedisCommand, Commit, Faulty

(* Every step keeps the types.                                             *)
LEMMA TypeStep ==
    ASSUME TypeOK, PathInv, [Next]_vars
    PROVE  TypeOK'
<1> USE RequestAssumption, BoundAssumption
<1> USE DEF TypeOK, PathInv, Cacheable, Keyed, Goto, locals, stores, history,
            environment, Steps, InFlight, Working, Releasing, Answers,
            Outcomes, Records
<1>1. ASSUME NEW r \in Requests, Admit(r) PROVE TypeOK'
  BY <1>1 DEF Admit, AfterClaim
<1>2. ASSUME NEW r \in Requests, Throttle(r) PROVE TypeOK'
  BY <1>2 DEF Throttle, Answer, Count
<1>3. ASSUME NEW r \in Requests, ClaimWon(r) PROVE TypeOK'
  BY <1>3 DEF ClaimWon, ProceedAsMiss, AfterClaim, Lease
<1>4. ASSUME NEW r \in Requests, ClaimLost(r) PROVE TypeOK'
  BY <1>4 DEF ClaimLost
<1>5. ASSUME NEW r \in Requests, ClaimFailsOpen(r) PROVE TypeOK'
  BY <1>5, CommandBounds DEF ClaimFailsOpen, ProceedAsMiss, AfterClaim, Lease
<1>6. ASSUME NEW r \in Requests, InspectVanished(r) PROVE TypeOK'
  BY <1>6 DEF InspectVanished, ProceedAsMiss, AfterClaim
<1>7. ASSUME NEW r \in Requests, InspectFailsOpen(r) PROVE TypeOK'
  BY <1>7, CommandBounds DEF InspectFailsOpen, ProceedAsMiss, AfterClaim
<1>8. ASSUME NEW r \in Requests, InspectBusy(r) PROVE TypeOK'
  BY <1>8 DEF InspectBusy, Answer, Count
<1>9. ASSUME NEW r \in Requests, InspectReplay(r) PROVE TypeOK'
  BY <1>9 DEF InspectReplay
<1>10. ASSUME NEW r \in Requests, LookupHit(r) PROVE TypeOK'
  BY <1>10 DEF LookupHit
<1>11. ASSUME NEW r \in Requests, LookupMiss(r) PROVE TypeOK'
  BY <1>11, CommandBounds DEF LookupMiss
<1>12. ASSUME NEW r \in Requests, HitAllowed(r) PROVE TypeOK'
  BY <1>12 DEF HitAllowed, AfterFill
<1>13. ASSUME NEW r \in Requests, HitDenied(r) PROVE TypeOK'
  BY <1>13 DEF HitDenied, Answer
<1>14. ASSUME NEW r \in Requests, GenerateSucceeds(r) PROVE TypeOK'
  BY <1>14 DEF GenerateSucceeds
<1>15. ASSUME NEW r \in Requests, GenerateFails(r) PROVE TypeOK'
  BY SMTT(30), <1>15 DEF GenerateFails, Fail, FinishError, Answer, Count
<1>16. ASSUME NEW r \in Requests, UsageRecorded(r) PROVE TypeOK'
  BY <1>16 DEF UsageRecorded, AfterUsage, AfterFill
<1>17. ASSUME NEW r \in Requests, UsageRefused(r) PROVE TypeOK'
  BY <1>17, CommandBounds DEF UsageRefused, Fail, FinishError, Answer, Count
<1>18. ASSUME NEW r \in Requests, UsageCommitLost(r) PROVE TypeOK'
  BY <1>18, CommandBounds DEF UsageCommitLost, Fail, FinishError, Answer,
                              Count
<1>19. ASSUME NEW r \in Requests, FillCache(r) PROVE TypeOK'
  BY <1>19, CommandBounds DEF FillCache, Fates, AfterFill
<1>20. ASSUME NEW r \in Requests, Complete(r) PROVE TypeOK'
  BY <1>20, CommandBounds DEF Complete, Settle, Fates, Completed
<1>21. ASSUME NEW r \in Requests, Audit(r) PROVE TypeOK'
  BY <1>21 DEF Audit, Answer, Count
<1>22. ASSUME NEW r \in Requests, AuditFails(r) PROVE TypeOK'
  BY <1>22, CommandBounds DEF AuditFails, AuditInsertFails, Answer, Count
<1>23. ASSUME NEW r \in Requests, AuditFailsInTry(r) PROVE TypeOK'
  BY <1>23, CommandBounds DEF AuditFailsInTry, AuditInsertFails, Answer, Count
<1>24. ASSUME NEW r \in Requests, ReleaseRead(r) PROVE TypeOK'
  BY <1>24 DEF ReleaseRead
<1>25. ASSUME NEW r \in Requests, ReleaseSkipped(r) PROVE TypeOK'
  BY <1>25, CommandBounds DEF ReleaseSkipped, Settle, FinishError, Answer, Count
<1>26. ASSUME NEW r \in Requests, ReleaseDelete(r) PROVE TypeOK'
  BY <1>26, CommandBounds
         DEF ReleaseDelete, Settle, FinishError, Answer, Count,
                              Fates, Absent
<1>27. ASSUME NEW r \in Requests, Stop(r) PROVE TypeOK'
  BY <1>27 DEF Stop, Absent
<1>28. ASSUME NEW k \in Keys, ExpireRecord(k) PROVE TypeOK'
  BY <1>28 DEF ExpireRecord, Absent
<1>29. ASSUME NEW f \in Prints, ExpireCache(f) PROVE TypeOK'
  BY <1>29 DEF ExpireCache
<1>30. CASE UNCHANGED vars
  BY <1>30 DEF vars
<1> HIDE DEF TypeOK, PathInv, Cacheable, Keyed, Goto, locals, stores, history,
             environment, Steps, InFlight, Working, Releasing, Answers,
             Outcomes, Records
<1> QED
  BY <1>1, <1>2, <1>3, <1>4, <1>5, <1>6, <1>7, <1>8, <1>9, <1>10, <1>11,
     <1>12, <1>13, <1>14, <1>15, <1>16, <1>17, <1>18, <1>19, <1>20, <1>21,
     <1>22, <1>23, <1>24, <1>25, <1>26, <1>27, <1>28, <1>29, <1>30
  DEF Next, Step, Begin, CacheHit, Attempt, Release, Idle

(* Every step keeps the relation between the place of a request and its
   locals.                                                                 *)
LEMMA PathStep ==
    ASSUME TypeOK, PathInv, [Next]_vars
    PROVE  PathInv'
<1> USE RequestAssumption, BoundAssumption
<1> USE DEF TypeOK, PathInv, Cacheable, Keyed, Goto, locals, stores, history,
            environment, Steps, InFlight, Working, Releasing
<1>1. ASSUME NEW r \in Requests, Admit(r) PROVE PathInv'
  BY <1>1 DEF Admit, AfterClaim
<1>2. ASSUME NEW r \in Requests, Throttle(r) PROVE PathInv'
  BY <1>2 DEF Throttle, Answer, Count
<1>3. ASSUME NEW r \in Requests, ClaimWon(r) PROVE PathInv'
  BY <1>3 DEF ClaimWon, ProceedAsMiss, AfterClaim, Lease
<1>4. ASSUME NEW r \in Requests, ClaimLost(r) PROVE PathInv'
  BY <1>4 DEF ClaimLost
<1>5. ASSUME NEW r \in Requests, ClaimFailsOpen(r) PROVE PathInv'
  BY <1>5, CommandBounds DEF ClaimFailsOpen, ProceedAsMiss, AfterClaim, Lease
<1>6. ASSUME NEW r \in Requests, InspectVanished(r) PROVE PathInv'
  BY <1>6 DEF InspectVanished, ProceedAsMiss, AfterClaim
<1>7. ASSUME NEW r \in Requests, InspectFailsOpen(r) PROVE PathInv'
  BY <1>7, CommandBounds DEF InspectFailsOpen, ProceedAsMiss, AfterClaim
<1>8. ASSUME NEW r \in Requests, InspectBusy(r) PROVE PathInv'
  BY <1>8 DEF InspectBusy, Answer, Count
<1>9. ASSUME NEW r \in Requests, InspectReplay(r) PROVE PathInv'
  BY <1>9 DEF InspectReplay
<1>10. ASSUME NEW r \in Requests, LookupHit(r) PROVE PathInv'
  BY <1>10 DEF LookupHit
<1>11. ASSUME NEW r \in Requests, LookupMiss(r) PROVE PathInv'
  BY <1>11, CommandBounds DEF LookupMiss
<1>12. ASSUME NEW r \in Requests, HitAllowed(r) PROVE PathInv'
  BY <1>12 DEF HitAllowed, AfterFill
<1>13. ASSUME NEW r \in Requests, HitDenied(r) PROVE PathInv'
  BY <1>13 DEF HitDenied, Answer
<1>14. ASSUME NEW r \in Requests, GenerateSucceeds(r) PROVE PathInv'
  BY <1>14 DEF GenerateSucceeds
<1>15. ASSUME NEW r \in Requests, GenerateFails(r) PROVE PathInv'
  BY <1>15 DEF GenerateFails, Fail, FinishError, Answer, Count
<1>16. ASSUME NEW r \in Requests, UsageRecorded(r) PROVE PathInv'
  BY <1>16 DEF UsageRecorded, AfterUsage, AfterFill
<1>17. ASSUME NEW r \in Requests, UsageRefused(r) PROVE PathInv'
  BY <1>17, CommandBounds DEF UsageRefused, Fail, FinishError, Answer, Count
<1>18. ASSUME NEW r \in Requests, UsageCommitLost(r) PROVE PathInv'
  BY <1>18, CommandBounds DEF UsageCommitLost, Fail, FinishError, Answer,
                              Count
<1>19. ASSUME NEW r \in Requests, FillCache(r) PROVE PathInv'
  BY <1>19, CommandBounds DEF FillCache, Fates, AfterFill
<1>20. ASSUME NEW r \in Requests, Complete(r) PROVE PathInv'
  BY <1>20, CommandBounds DEF Complete, Settle, Fates, Completed
<1>21. ASSUME NEW r \in Requests, Audit(r) PROVE PathInv'
  BY <1>21 DEF Audit, Answer, Count
<1>22. ASSUME NEW r \in Requests, AuditFails(r) PROVE PathInv'
  BY <1>22, CommandBounds DEF AuditFails, AuditInsertFails, Answer, Count
<1>23. ASSUME NEW r \in Requests, AuditFailsInTry(r) PROVE PathInv'
  BY <1>23, CommandBounds DEF AuditFailsInTry, AuditInsertFails, Answer, Count
<1>24. ASSUME NEW r \in Requests, ReleaseRead(r) PROVE PathInv'
  BY <1>24 DEF ReleaseRead
<1>25. ASSUME NEW r \in Requests, ReleaseSkipped(r) PROVE PathInv'
  BY <1>25, CommandBounds DEF ReleaseSkipped, Settle, FinishError, Answer, Count
<1>26. ASSUME NEW r \in Requests, ReleaseDelete(r) PROVE PathInv'
  BY <1>26, CommandBounds
         DEF ReleaseDelete, Settle, FinishError, Answer, Count,
                              Fates, Absent
<1>27. ASSUME NEW r \in Requests, Stop(r) PROVE PathInv'
  BY <1>27 DEF Stop, Absent
<1>28. ASSUME NEW k \in Keys, ExpireRecord(k) PROVE PathInv'
  BY <1>28 DEF ExpireRecord, Absent
<1>29. ASSUME NEW f \in Prints, ExpireCache(f) PROVE PathInv'
  BY <1>29 DEF ExpireCache
<1>30. CASE UNCHANGED vars
  BY <1>30 DEF vars
<1> HIDE DEF TypeOK, PathInv, Cacheable, Keyed, Goto, locals, stores, history,
             environment, Steps, InFlight, Working, Releasing
<1> QED
  BY <1>1, <1>2, <1>3, <1>4, <1>5, <1>6, <1>7, <1>8, <1>9, <1>10, <1>11,
     <1>12, <1>13, <1>14, <1>15, <1>16, <1>17, <1>18, <1>19, <1>20, <1>21,
     <1>22, <1>23, <1>24, <1>25, <1>26, <1>27, <1>28, <1>29, <1>30
  DEF Next, Step, Begin, CacheHit, Attempt, Release, Idle

(* A lease excludes every other request that has the same key.             *)
LEMMA LeaseIsExclusive ==
    ASSUME NEW r, NEW q, q # r, KeyOf[q] = KeyOf[r], Owns(r)
    PROVE  ~OwnsOrServed(q)
<1>1. Lease(r).of = r /\ Lease(q).of = q /\ Lease(r).status = "in_progress"
  BY DEF Lease
<1>2. Completed(resp[q]).status = "completed"
  BY DEF Completed
<1> QED
  BY <1>1, <1>2 DEF Owns, OwnsOrServed

(* Every step keeps the record of a coordinated key with its holder.        *)
LEMMA KeyStep ==
    ASSUME TypeOK, PathInv, KeyInv, [Next]_vars
    PROVE  KeyInv'
<1> USE RequestAssumption, BoundAssumption
<1> USE DEF KeyInv, Coordinated, Owns, OwnsOrServed, Standing, Outcomes,
            TypeOK, PathInv, Keyed, Cacheable, Goto, locals, stores, history,
            environment, Steps, InFlight, Working, Releasing, Records,
            IsAbsent, IsLease, IsCompleted, Absent, Lease, Completed
<1>1. ASSUME NEW r \in Requests, Admit(r) PROVE KeyInv'
  BY <1>1 DEF Admit, AfterClaim
<1>2. ASSUME NEW r \in Requests, Throttle(r) PROVE KeyInv'
  BY <1>2 DEF Throttle, Answer, Count
<1>3. ASSUME NEW r \in Requests, ClaimWon(r) PROVE KeyInv'
  BY <1>3 DEF ClaimWon, ProceedAsMiss, AfterClaim
<1>4. ASSUME NEW r \in Requests, ClaimLost(r) PROVE KeyInv'
  BY <1>4 DEF ClaimLost
<1>5. ASSUME NEW r \in Requests, ClaimFailsOpen(r) PROVE KeyInv'
  BY <1>5, CommandBounds DEF ClaimFailsOpen, ProceedAsMiss, AfterClaim
<1>6. ASSUME NEW r \in Requests, InspectVanished(r) PROVE KeyInv'
  BY <1>6 DEF InspectVanished, ProceedAsMiss, AfterClaim
<1>7. ASSUME NEW r \in Requests, InspectFailsOpen(r) PROVE KeyInv'
  BY <1>7, CommandBounds DEF InspectFailsOpen, ProceedAsMiss, AfterClaim
<1>8. ASSUME NEW r \in Requests, InspectBusy(r) PROVE KeyInv'
  BY <1>8 DEF InspectBusy, Answer, Count
<1>9. ASSUME NEW r \in Requests, InspectReplay(r) PROVE KeyInv'
  BY <1>9 DEF InspectReplay
<1>10. ASSUME NEW r \in Requests, LookupHit(r) PROVE KeyInv'
  BY <1>10 DEF LookupHit
<1>11. ASSUME NEW r \in Requests, LookupMiss(r) PROVE KeyInv'
  BY <1>11, CommandBounds DEF LookupMiss
<1>12. ASSUME NEW r \in Requests, HitAllowed(r) PROVE KeyInv'
  BY <1>12 DEF HitAllowed, AfterFill
<1>13. ASSUME NEW r \in Requests, HitDenied(r) PROVE KeyInv'
  BY <1>13 DEF HitDenied, Answer
<1>14. ASSUME NEW r \in Requests, GenerateSucceeds(r) PROVE KeyInv'
  BY <1>14 DEF GenerateSucceeds
<1>15. ASSUME NEW r \in Requests, GenerateFails(r) PROVE KeyInv'
  BY <1>15 DEF GenerateFails, Fail, FinishError, Answer, Count
<1>16. ASSUME NEW r \in Requests, UsageRecorded(r) PROVE KeyInv'
  BY <1>16 DEF UsageRecorded, AfterUsage, AfterFill
<1>17. ASSUME NEW r \in Requests, UsageRefused(r) PROVE KeyInv'
  BY <1>17, CommandBounds DEF UsageRefused, Fail, FinishError, Answer, Count
<1>18. ASSUME NEW r \in Requests, UsageCommitLost(r) PROVE KeyInv'
  BY <1>18, CommandBounds DEF UsageCommitLost, Fail, FinishError, Answer,
                              Count
<1>19. ASSUME NEW r \in Requests, FillCache(r) PROVE KeyInv'
  BY <1>19, CommandBounds DEF FillCache, Fates, AfterFill
<1>20. ASSUME NEW r \in Requests, Complete(r) PROVE KeyInv'
  <2>1. PICK fate \in Fates : record' = IF fate = "refused" THEN record
                ELSE [record EXCEPT ![KeyOf[r]] = Completed(resp[r])]
    BY <1>20 DEF Complete
  <2>2. CASE fate = "refused"
    BY <1>20, <2>1, <2>2, CommandBounds DEF Complete, Settle
  <2>3. CASE fate # "refused"
    <3>1. KeyOf[r] \in Keys /\ record'[KeyOf[r]] = Completed(resp[r])
      BY <1>20, <2>1, <2>3 DEF Complete
    <3>2. \A q \in Requests :
            KeyOf[q] # KeyOf[r] /\ Keyed(q) => record'[KeyOf[q]] = record[KeyOf[q]]
      BY <2>1, <2>3
    <3>3. \A q \in Requests : /\ q # r
                             /\ KeyOf[q] = KeyOf[r]
                             /\ Coordinated(KeyOf[r])
                             => ~(Owns(q) \/ OwnsOrServed(q))
      <4>1. Coordinated(KeyOf[r]) => Owns(r)
        BY <1>20 DEF Complete
      <4> QED
        BY <4>1, LeaseIsExclusive
    <3> QED
      BY <1>20, <3>1, <3>2, <3>3, CommandBounds DEF Complete, Settle
  <2> QED
    BY <2>2, <2>3
<1>21. ASSUME NEW r \in Requests, Audit(r) PROVE KeyInv'
  BY <1>21 DEF Audit, Answer, Count
<1>22. ASSUME NEW r \in Requests, AuditFails(r) PROVE KeyInv'
  BY <1>22, CommandBounds DEF AuditFails, AuditInsertFails, Answer, Count
<1>23. ASSUME NEW r \in Requests, AuditFailsInTry(r) PROVE KeyInv'
  BY <1>23, CommandBounds DEF AuditFailsInTry, AuditInsertFails, Answer, Count
<1>24. ASSUME NEW r \in Requests, ReleaseRead(r) PROVE KeyInv'
  BY <1>24 DEF ReleaseRead
<1>25. ASSUME NEW r \in Requests, ReleaseSkipped(r) PROVE KeyInv'
  BY <1>25, CommandBounds DEF ReleaseSkipped, Settle, FinishError, Answer, Count
<1>26. ASSUME NEW r \in Requests \ stopped, ReleaseDelete(r) PROVE KeyInv'
  <2>1. PICK fate \in Fates : record' = IF fate = "refused" THEN record
                ELSE [record EXCEPT ![KeyOf[r]] = Absent]
    BY <1>26 DEF ReleaseDelete
  <2>2. CASE fate = "refused"
    BY <1>26, <2>1, <2>2, CommandBounds
         DEF ReleaseDelete, Settle, FinishError, Answer, Count
  <2>3. CASE fate # "refused"
    <3>1. \A q \in Requests :
            KeyOf[q] # KeyOf[r] /\ Keyed(q) => record'[KeyOf[q]] = record[KeyOf[q]]
      BY <2>1, <2>3
    <3>2. \A q \in Requests : /\ q # r
                             /\ KeyOf[q] = KeyOf[r]
                             /\ Coordinated(KeyOf[r])
                             => ~(Owns(q) \/ OwnsOrServed(q))
      <4>1. Coordinated(KeyOf[r]) => Owns(r)
        BY <1>26 DEF ReleaseDelete
      <4> QED
        BY <4>1, LeaseIsExclusive
    <3> QED
      BY <1>26, <2>1, <2>3, <3>1, <3>2, CommandBounds
         DEF ReleaseDelete, Settle, FinishError, Answer, Count
  <2> QED
    BY <2>2, <2>3
<1>27. ASSUME NEW r \in Requests \ stopped, Stop(r) PROVE KeyInv'
  <2>1. CASE UNCHANGED record
    BY <1>27, <2>1 DEF Stop
  <2>2. CASE /\ pc[r] = "releaseDelete"
             /\ record' = [record EXCEPT ![KeyOf[r]] = Absent]
    <3>1. \A q \in Requests :
            KeyOf[q] # KeyOf[r] /\ Keyed(q) => record'[KeyOf[q]] = record[KeyOf[q]]
      BY <2>2
    <3>2. \A q \in Requests : /\ q # r
                             /\ KeyOf[q] = KeyOf[r]
                             /\ Coordinated(KeyOf[r])
                             => ~(Owns(q) \/ OwnsOrServed(q))
      <4>1. Coordinated(KeyOf[r]) => Owns(r)
        BY <2>2
      <4> QED
        BY <4>1, LeaseIsExclusive
    <3>3. /\ UNCHANGED <<pc, answer, resp, usage, expired, unleased>>
          /\ stopped' = stopped \cup {r}
      BY <1>27 DEF Stop
    <3>4. \A q \in Requests : Coordinated(KeyOf[q])' = Coordinated(KeyOf[q])
      BY <3>3
    <3>5. ASSUME NEW q \in Requests, q # r, KeyOf[q] # KeyOf[r] \/ ~Coordinated(KeyOf[r]),
                 Keyed(q), Coordinated(KeyOf[q])
          PROVE  record'[KeyOf[q]] = record[KeyOf[q]]
      BY <3>1, <3>5
    <3> QED
      BY <2>2, <3>2, <3>3, <3>4, <3>5
  <2> QED
    BY <1>27, <2>1, <2>2 DEF Stop
<1>28. ASSUME NEW k \in Keys, ExpireRecord(k) PROVE KeyInv'
  BY <1>28 DEF ExpireRecord
<1>29. ASSUME NEW f \in Prints, ExpireCache(f) PROVE KeyInv'
  BY <1>29 DEF ExpireCache
<1>30. CASE UNCHANGED vars
  BY <1>30 DEF vars
<1> HIDE DEF KeyInv, Coordinated, Owns, OwnsOrServed, Standing, Outcomes,
             TypeOK, PathInv, Keyed, Cacheable, Goto, locals, stores, history,
             environment, Steps, InFlight, Working, Releasing, Records,
             IsAbsent, IsLease, IsCompleted, Absent, Lease, Completed
<1> QED
  BY <1>1, <1>2, <1>3, <1>4, <1>5, <1>6, <1>7, <1>8, <1>9, <1>10, <1>11,
     <1>12, <1>13, <1>14, <1>15, <1>16, <1>17, <1>18, <1>19, <1>20, <1>21,
     <1>22, <1>23, <1>24, <1>25, <1>26, <1>27, <1>28, <1>29, <1>30
  DEF Next, Step, Begin, CacheHit, Attempt, Release, Idle

(* Every step stores and serves only billed responses.                      *)
LEMMA BillStep ==
    ASSUME TypeOK, PathInv, BillInv, [Next]_vars
    PROVE  BillInv'
<1> USE RequestAssumption, BoundAssumption
<1> USE DEF BillInv, Outcomes, TypeOK, PathInv, Keyed, Cacheable, Goto,
            locals, stores, history, environment, Steps, InFlight, Working,
            Releasing, Records, IsAbsent, IsLease, IsCompleted, Absent, Lease,
            Completed
<1>1. ASSUME NEW r \in Requests, Admit(r) PROVE BillInv'
  BY <1>1 DEF Admit, AfterClaim
<1>2. ASSUME NEW r \in Requests, Throttle(r) PROVE BillInv'
  BY <1>2 DEF Throttle, Answer, Count
<1>3. ASSUME NEW r \in Requests, ClaimWon(r) PROVE BillInv'
  BY <1>3 DEF ClaimWon, ProceedAsMiss, AfterClaim
<1>4. ASSUME NEW r \in Requests, ClaimLost(r) PROVE BillInv'
  BY <1>4 DEF ClaimLost
<1>5. ASSUME NEW r \in Requests, ClaimFailsOpen(r) PROVE BillInv'
  BY <1>5, CommandBounds DEF ClaimFailsOpen, ProceedAsMiss, AfterClaim
<1>6. ASSUME NEW r \in Requests, InspectVanished(r) PROVE BillInv'
  BY <1>6 DEF InspectVanished, ProceedAsMiss, AfterClaim
<1>7. ASSUME NEW r \in Requests, InspectFailsOpen(r) PROVE BillInv'
  BY <1>7, CommandBounds DEF InspectFailsOpen, ProceedAsMiss, AfterClaim
<1>8. ASSUME NEW r \in Requests, InspectBusy(r) PROVE BillInv'
  BY <1>8 DEF InspectBusy, Answer, Count
<1>9. ASSUME NEW r \in Requests, InspectReplay(r) PROVE BillInv'
  BY <1>9 DEF InspectReplay
<1>10. ASSUME NEW r \in Requests, LookupHit(r) PROVE BillInv'
  BY <1>10 DEF LookupHit
<1>11. ASSUME NEW r \in Requests, LookupMiss(r) PROVE BillInv'
  BY <1>11, CommandBounds DEF LookupMiss
<1>12. ASSUME NEW r \in Requests, HitAllowed(r) PROVE BillInv'
  BY <1>12 DEF HitAllowed, AfterFill
<1>13. ASSUME NEW r \in Requests, HitDenied(r) PROVE BillInv'
  BY <1>13 DEF HitDenied, Answer
<1>14. ASSUME NEW r \in Requests, GenerateSucceeds(r) PROVE BillInv'
  BY <1>14 DEF GenerateSucceeds
<1>15. ASSUME NEW r \in Requests, GenerateFails(r) PROVE BillInv'
  BY <1>15 DEF GenerateFails, Fail, FinishError, Answer, Count
<1>16. ASSUME NEW r \in Requests, UsageRecorded(r) PROVE BillInv'
  BY <1>16 DEF UsageRecorded, AfterUsage, AfterFill
<1>17. ASSUME NEW r \in Requests, UsageRefused(r) PROVE BillInv'
  BY <1>17, CommandBounds DEF UsageRefused, Fail, FinishError, Answer, Count
<1>18. ASSUME NEW r \in Requests, UsageCommitLost(r) PROVE BillInv'
  BY <1>18, CommandBounds DEF UsageCommitLost, Fail, FinishError, Answer,
                              Count
<1>19. ASSUME NEW r \in Requests, FillCache(r) PROVE BillInv'
  BY <1>19, CommandBounds DEF FillCache, Fates, AfterFill
<1>20. ASSUME NEW r \in Requests, Complete(r) PROVE BillInv'
  BY <1>20, CommandBounds DEF Complete, Settle, Fates
<1>21. ASSUME NEW r \in Requests, Audit(r) PROVE BillInv'
  BY <1>21 DEF Audit, Answer, Count
<1>22. ASSUME NEW r \in Requests, AuditFails(r) PROVE BillInv'
  BY <1>22, CommandBounds DEF AuditFails, AuditInsertFails, Answer, Count
<1>23. ASSUME NEW r \in Requests, AuditFailsInTry(r) PROVE BillInv'
  BY <1>23, CommandBounds DEF AuditFailsInTry, AuditInsertFails, Answer, Count
<1>24. ASSUME NEW r \in Requests, ReleaseRead(r) PROVE BillInv'
  BY <1>24 DEF ReleaseRead
<1>25. ASSUME NEW r \in Requests, ReleaseSkipped(r) PROVE BillInv'
  BY <1>25, CommandBounds DEF ReleaseSkipped, Settle, FinishError, Answer, Count
<1>26. ASSUME NEW r \in Requests, ReleaseDelete(r) PROVE BillInv'
  BY <1>26, CommandBounds
         DEF ReleaseDelete, Settle, FinishError, Answer, Count, Fates
<1>27. ASSUME NEW r \in Requests, Stop(r) PROVE BillInv'
  BY <1>27 DEF Stop
<1>28. ASSUME NEW k \in Keys, ExpireRecord(k) PROVE BillInv'
  BY <1>28 DEF ExpireRecord
<1>29. ASSUME NEW f \in Prints, ExpireCache(f) PROVE BillInv'
  BY <1>29 DEF ExpireCache
<1>30. CASE UNCHANGED vars
  BY <1>30 DEF vars
<1> HIDE DEF BillInv, Outcomes, TypeOK, PathInv, Keyed, Cacheable, Goto,
             locals, stores, history, environment, Steps, InFlight, Working,
             Releasing, Records, IsAbsent, IsLease, IsCompleted, Absent,
             Lease, Completed
<1> QED
  BY <1>1, <1>2, <1>3, <1>4, <1>5, <1>6, <1>7, <1>8, <1>9, <1>10, <1>11,
     <1>12, <1>13, <1>14, <1>15, <1>16, <1>17, <1>18, <1>19, <1>20, <1>21,
     <1>22, <1>23, <1>24, <1>25, <1>26, <1>27, <1>28, <1>29, <1>30
  DEF Next, Step, Begin, CacheHit, Attempt, Release, Idle

(* Every step keeps the explanation of every lease.                         *)
LEMMA LeaseStep ==
    ASSUME TypeOK, PathInv, LeaseInv, [Next]_vars
    PROVE  LeaseInv'
<1> USE RequestAssumption, BoundAssumption
<1> USE DEF LeaseInv, Outcomes, TypeOK, PathInv, Keyed, Cacheable, Goto,
            locals, stores, history, environment, Steps, InFlight, Working,
            Releasing, Records, IsAbsent, IsLease, IsCompleted, Absent, Lease,
            Completed
<1>1. ASSUME NEW r \in Requests, Admit(r) PROVE LeaseInv'
  BY <1>1 DEF Admit, AfterClaim
<1>2. ASSUME NEW r \in Requests, Throttle(r) PROVE LeaseInv'
  BY <1>2 DEF Throttle, Answer, Count
<1>3. ASSUME NEW r \in Requests, ClaimWon(r) PROVE LeaseInv'
  BY <1>3 DEF ClaimWon, ProceedAsMiss, AfterClaim
<1>4. ASSUME NEW r \in Requests, ClaimLost(r) PROVE LeaseInv'
  BY <1>4 DEF ClaimLost
<1>5. ASSUME NEW r \in Requests, ClaimFailsOpen(r) PROVE LeaseInv'
  BY <1>5, CommandBounds DEF ClaimFailsOpen, ProceedAsMiss, AfterClaim
<1>6. ASSUME NEW r \in Requests, InspectVanished(r) PROVE LeaseInv'
  BY <1>6 DEF InspectVanished, ProceedAsMiss, AfterClaim
<1>7. ASSUME NEW r \in Requests, InspectFailsOpen(r) PROVE LeaseInv'
  BY <1>7, CommandBounds DEF InspectFailsOpen, ProceedAsMiss, AfterClaim
<1>8. ASSUME NEW r \in Requests, InspectBusy(r) PROVE LeaseInv'
  BY <1>8 DEF InspectBusy, Answer, Count
<1>9. ASSUME NEW r \in Requests, InspectReplay(r) PROVE LeaseInv'
  BY <1>9 DEF InspectReplay
<1>10. ASSUME NEW r \in Requests, LookupHit(r) PROVE LeaseInv'
  BY <1>10 DEF LookupHit
<1>11. ASSUME NEW r \in Requests, LookupMiss(r) PROVE LeaseInv'
  BY <1>11, CommandBounds DEF LookupMiss
<1>12. ASSUME NEW r \in Requests, HitAllowed(r) PROVE LeaseInv'
  BY <1>12 DEF HitAllowed, AfterFill
<1>13. ASSUME NEW r \in Requests, HitDenied(r) PROVE LeaseInv'
  BY <1>13 DEF HitDenied, Answer
<1>14. ASSUME NEW r \in Requests, GenerateSucceeds(r) PROVE LeaseInv'
  BY <1>14 DEF GenerateSucceeds
<1>15. ASSUME NEW r \in Requests, GenerateFails(r) PROVE LeaseInv'
  BY <1>15 DEF GenerateFails, Fail, FinishError, Answer, Count
<1>16. ASSUME NEW r \in Requests, UsageRecorded(r) PROVE LeaseInv'
  BY <1>16 DEF UsageRecorded, AfterUsage, AfterFill
<1>17. ASSUME NEW r \in Requests, UsageRefused(r) PROVE LeaseInv'
  BY <1>17, CommandBounds DEF UsageRefused, Fail, FinishError, Answer, Count
<1>18. ASSUME NEW r \in Requests, UsageCommitLost(r) PROVE LeaseInv'
  BY <1>18, CommandBounds DEF UsageCommitLost, Fail, FinishError, Answer,
                              Count
<1>19. ASSUME NEW r \in Requests, FillCache(r) PROVE LeaseInv'
  BY <1>19, CommandBounds DEF FillCache, Fates, AfterFill
<1>20. ASSUME NEW r \in Requests, Complete(r) PROVE LeaseInv'
  BY <1>20, CommandBounds DEF Complete, Settle, Fates
<1>21. ASSUME NEW r \in Requests, Audit(r) PROVE LeaseInv'
  BY <1>21 DEF Audit, Answer, Count
<1>22. ASSUME NEW r \in Requests, AuditFails(r) PROVE LeaseInv'
  BY <1>22, CommandBounds DEF AuditFails, AuditInsertFails, Answer, Count
<1>23. ASSUME NEW r \in Requests, AuditFailsInTry(r) PROVE LeaseInv'
  BY <1>23, CommandBounds DEF AuditFailsInTry, AuditInsertFails, Answer, Count
<1>24. ASSUME NEW r \in Requests, ReleaseRead(r) PROVE LeaseInv'
  BY <1>24 DEF ReleaseRead
<1>25. ASSUME NEW r \in Requests, ReleaseSkipped(r) PROVE LeaseInv'
  BY <1>25, CommandBounds DEF ReleaseSkipped, Settle, FinishError, Answer, Count
<1>26. ASSUME NEW r \in Requests, ReleaseDelete(r) PROVE LeaseInv'
  BY <1>26, CommandBounds
         DEF ReleaseDelete, Settle, FinishError, Answer, Count, Fates
<1>27. ASSUME NEW r \in Requests, Stop(r) PROVE LeaseInv'
  BY <1>27 DEF Stop
<1>28. ASSUME NEW k \in Keys, ExpireRecord(k) PROVE LeaseInv'
  BY <1>28 DEF ExpireRecord
<1>29. ASSUME NEW f \in Prints, ExpireCache(f) PROVE LeaseInv'
  BY <1>29 DEF ExpireCache
<1>30. CASE UNCHANGED vars
  BY <1>30 DEF vars
<1> HIDE DEF LeaseInv, Outcomes, TypeOK, PathInv, Keyed, Cacheable, Goto,
             locals, stores, history, environment, Steps, InFlight, Working,
             Releasing, Records, IsAbsent, IsLease, IsCompleted, Absent,
             Lease, Completed
<1> QED
  BY <1>1, <1>2, <1>3, <1>4, <1>5, <1>6, <1>7, <1>8, <1>9, <1>10, <1>11,
     <1>12, <1>13, <1>14, <1>15, <1>16, <1>17, <1>18, <1>19, <1>20, <1>21,
     <1>22, <1>23, <1>24, <1>25, <1>26, <1>27, <1>28, <1>29, <1>30
  DEF Next, Step, Begin, CacheHit, Attempt, Release, Idle

-----------------------------------------------------------------------------
(* The theorems of the specification.                                      *)

IInv == TypeOK /\ PathInv /\ KeyInv /\ BillInv /\ LeaseInv

(* The conjunction of the parts is inductive.                              *)
THEOREM Invariance == Spec => []IInv
<1>1. Init => IInv
  BY RequestAssumption, BoundAssumption
  DEF Init, IInv, TypeOK, PathInv, KeyInv, BillInv, LeaseInv, IsLease, IsCompleted,
      Steps, InFlight, Working, Releasing, Answers, Outcomes, Records, Absent
<1>2. IInv /\ [Next]_vars => IInv'
  BY TypeStep, PathStep, KeyStep, BillStep, LeaseStep DEF IInv
<1> QED
  BY <1>1, <1>2, PTL DEF Spec

(* Every variable of every reachable state has its type.                   *)
THEOREM TypeCorrect == Spec => []TypeOK
<1>1. IInv => TypeOK
  BY DEF IInv
<1> QED
  BY <1>1, Invariance, PTL

(* All 200 answers of a coordinated key carry one response, however many   *)
(* requests share it and however they interleave, fail or crash.           *)
THEOREM OneResponse == Spec => []OneResponsePerKey
<1>1. IInv => OneResponsePerKey
  <2> SUFFICES ASSUME IInv, NEW k \in Keys, Coordinated(k),
                      NEW r \in Replies(k), NEW q \in Replies(k)
               PROVE  resp[r] = resp[q]
    BY DEF OneResponsePerKey
  <2>1. r \in Requests /\ q \in Requests /\ KeyOf[r] = k /\ KeyOf[q] = k
    BY DEF Replies
  <2>2. OwnsOrServed(r) /\ OwnsOrServed(q)
    BY <2>1, RequestAssumption DEF IInv, KeyInv, Replies, Keyed
  <2>3. CASE Owns(r) \/ Owns(q)
    BY <2>1, <2>2, <2>3, LeaseIsExclusive
  <2>4. CASE ~Owns(r) /\ ~Owns(q)
    <3>1. Completed(resp[r]) = Completed(resp[q])
      BY <2>1, <2>2, <2>4 DEF OwnsOrServed
    <3> QED
      BY <3>1 DEF Completed
  <2> QED
    BY <2>3, <2>4
<1> QED
  BY <1>1, Invariance, PTL

(* At most one usage row of a coordinated key belongs to a request that is *)
(* not answered with an error.                                             *)
THEOREM BilledOnce == Spec => []BilledOncePerKey
<1>1. IInv => BilledOncePerKey
  <2> SUFFICES ASSUME IInv, NEW k \in Keys, Coordinated(k),
                      NEW r \in usage, NEW q \in usage,
                      KeyOf[r] = k, KeyOf[q] = k, Standing(r), Standing(q)
               PROVE  r = q
    BY DEF BilledOncePerKey
  <2>1. r \in Requests /\ q \in Requests /\ resp[r] = r /\ resp[q] = q
    BY DEF IInv, TypeOK, PathInv
  <2>2. OwnsOrServed(r) /\ OwnsOrServed(q)
    BY <2>1, RequestAssumption DEF IInv, KeyInv, Keyed
  <2>3. CASE Owns(r) \/ Owns(q)
    BY <2>1, <2>2, <2>3, LeaseIsExclusive
  <2>4. CASE ~Owns(r) /\ ~Owns(q)
    <3>1. Completed(r) = Completed(q)
      BY <2>1, <2>2, <2>4 DEF OwnsOrServed
    <3> QED
      BY <3>1 DEF Completed
  <2> QED
    BY <2>3, <2>4
<1> QED
  BY <1>1, Invariance, PTL

(* Every 200, fresh, cached or replayed, carries a billed response and has *)
(* its audit event, whatever faults occurred.                              *)
THEOREM ServedBilledAudited == Spec => []ServedIsBilledAndAudited
<1>1. IInv => ServedIsBilledAndAudited
  BY DEF IInv, BillInv, ServedIsBilledAndAudited
<1> QED
  BY <1>1, Invariance, PTL

(* A lease without a running holder has one of the three causes named.     *)
THEOREM LeaseExplained == Spec => []LeaseIsExplained
<1>1. IInv => LeaseIsExplained
  BY DEF IInv, LeaseInv, LeaseIsExplained, InFlight
<1> QED
  BY <1>1, Invariance, PTL

(* No step replaces or deletes the completed record of a coordinated key.  *)
THEOREM CompletedIsStable == Spec => CompletedStays
<1> DEFINE Stays == \A k \in Keys :
        IsCompleted(k) /\ Coordinated(k)' => record'[k] = record[k]
<1>1. IInv /\ [Next]_vars => Stays
  <2> SUFFICES ASSUME IInv, [Next]_vars, NEW k \in Keys, IsCompleted(k), Coordinated(k)',
                      record'[k] # record[k]
               PROVE  FALSE
    OBVIOUS
  <2> USE RequestAssumption DEF IInv, TypeOK, IsCompleted, stores
  <2>1. \A r \in Requests \ stopped : KeyOf[r] = k /\ Coordinated(k) =>
            pc[r] \notin {"complete", "releaseDelete"}
    <3> SUFFICES ASSUME NEW r \in Requests \ stopped, KeyOf[r] = k, Coordinated(k),
                        pc[r] \in {"complete", "releaseDelete"}
                 PROVE  FALSE
      OBVIOUS
    <3>1. record[k] = Lease(r)
      BY DEF KeyInv, Owns, Keyed, Working
    <3> QED
      BY <3>1 DEF Lease
  <2>2. ASSUME NEW r \in Requests, ClaimWon(r) \/ ClaimFailsOpen(r) PROVE FALSE
    BY <2>2 DEF ClaimWon, ClaimFailsOpen, IsAbsent
  <2>3. ASSUME NEW r \in Requests \ stopped, Complete(r) \/ ReleaseDelete(r) \/ Stop(r) PROVE FALSE
    BY <2>1, <2>3 DEF Complete, ReleaseDelete, Stop, Settle, Coordinated, history
  <2>4. ASSUME NEW e \in Keys, ExpireRecord(e) PROVE FALSE
    BY <2>4 DEF ExpireRecord, Coordinated
  <2>5. record' # record
    OBVIOUS
  <2> HIDE DEF IInv, TypeOK, IsCompleted
  <2> QED
    BY <2>5, <2>4, <2>3, <2>2
    DEF Step, Begin, CacheHit, Attempt, Release, Idle, Next, vars, Admit, Throttle,
        ClaimLost, InspectVanished, InspectFailsOpen, InspectBusy, InspectReplay,
        LookupHit, LookupMiss, HitAllowed, HitDenied, GenerateSucceeds, GenerateFails,
        UsageRecorded, UsageRefused, UsageCommitLost, FillCache, Audit, AuditFails,
        AuditFailsInTry, AuditInsertFails, ReleaseRead, ReleaseSkipped, ExpireCache
<1> QED
  BY <1>1, Invariance, PTL DEF Spec, CompletedStays

=============================================================================
