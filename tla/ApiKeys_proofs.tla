--------------------------- MODULE ApiKeys_proofs ---------------------------
(***************************************************************************)
(* The safety properties of ApiKeys, for any number of calls, logins, keys *)
(* and faults.  The argument is that the rows only ever move forward:      *)
(* absent, active, revoked (Forward).  Whatever a call or a login has once *)
(* read or committed therefore stays true while others run, although       *)
(* nothing is locked.                                                      *)
(***************************************************************************)
EXTENDS ApiKeys, TLAPS

(* A call that revokes or rotates names a key.                             *)
TargetInv == \A c \in Calls : kind[c] # "create" => target[c] \in KeyIds

(* What a call that has reached its audit insert has committed before.     *)
Changed(c) ==
    /\ kind[c] # "create" => status[target[c]] = "revoked"
    /\ kind[c] # "revoke" => made[c] \in KeyIds /\ Known(made[c])
AuditInv ==
    /\ \A c \in Calls : at[c] = "write" => kind[c] # "create" /\ Known(target[c])
    /\ \A c \in Calls : at[c] = "audit" => Changed(c)
    /\ \A c \in Calls : answer[c] # "none" => at[c] = "done"
    /\ AuditIsComplete
    /\ \A e \in audit : e.action = "api_key.rotated" => kind[e.call] = "rotate"

(* Whoever was found active was not revoked on arrival, and an             *)
(* organization that is open now was open at some time.                    *)
DoorInv ==
    \A l \in Logins :
        /\ door[l] = "find" =>
             \A k \in revokedAtStart[l] : status[k] = "revoked"
        /\ door[l] \in {"organization", "accepted"} =>
             presented[l] \notin revokedAtStart[l]
        /\ door[l] \in {"find", "organization"} /\ ~suspended => openedSince[l]
        /\ door[l] = "accepted" => openedSince[l]

KeyInv == TypeOK /\ TargetInv /\ RotationReplaces /\ AuditInv /\ DoorInv

(* Rows only move forward.                                                 *)
Forward ==
    \A k \in KeyIds :
        /\ Known(k) => Known(k)'
        /\ status[k] = "revoked" => status'[k] = "revoked"

-----------------------------------------------------------------------------
(* A commit counts its fault within the bound.                             *)
LEMMA CommitBounds ==
    ASSUME TypeOK, NEW fate \in Fates, Commit(fate)
    PROVE  dbFaults' \in 0..MaxDbFaults
  BY KeyAssumption DEF TypeOK, Commit, Fates

LEMMA TypeStep ==
    ASSUME TypeOK, TargetInv, AuditInv, [Next]_vars
    PROVE  TypeOK' /\ TargetInv'
<1> USE DEF TypeOK, TargetInv, Kinds, logins, environment, store
<1>1. ASSUME NEW c \in Calls, Create(c)
      PROVE  TypeOK' /\ TargetInv'
  BY <1>1, CommitBounds DEF Create, Proceed, Goto, Answer, Commit
<1>2. ASSUME NEW c \in Calls, Get(c)
      PROVE  TypeOK' /\ TargetInv'
  BY <1>2 DEF Get, Goto, Answer
<1>3. ASSUME NEW c \in Calls, Save(c)
      PROVE  TypeOK' /\ TargetInv'
  BY <1>3, CommitBounds DEF Save, MarkRevoked, Proceed, Goto, Answer, Commit
<1>4. ASSUME NEW c \in Calls, RevokeAndAdd(c)
      PROVE  TypeOK' /\ TargetInv'
  BY <1>4, CommitBounds DEF RevokeAndAdd, Proceed, Goto, Answer, Commit
<1>5. ASSUME NEW c \in Calls, Audit(c)
      PROVE  TypeOK' /\ TargetInv'
  <2>1. Subject(c) \in KeyIds
    BY <1>5 DEF Audit, AuditInv, Changed, Subject
  <2>2. Event(c) \in [action : {ActionOf[d] : d \in Kinds}, key : KeyIds, call : Calls]
    BY <2>1 DEF Event
  <2>3. audit' \in SUBSET [action : {ActionOf[d] : d \in Kinds}, key : KeyIds, call : Calls]
    BY <1>5, <2>2 DEF Audit
  <2> QED
    BY <1>5, <2>3, CommitBounds DEF Audit, Goto, Answer, Commit
<1>6. ASSUME NEW l \in Logins, Arrive(l) \/ Find(l) \/ LoadOrganization(l)
      PROVE  TypeOK' /\ TargetInv'
  <2>1. CASE Arrive(l)
    BY <2>1 DEF Arrive, Enter, calls
  <2>2. CASE Find(l)
    BY <2>2 DEF Find, Enter, calls
  <2>3. CASE LoadOrganization(l)
    BY <2>3 DEF LoadOrganization, Enter, calls
  <2> QED
    BY <1>6, <2>1, <2>2, <2>3
<1>7. ASSUME NEW s \in BOOLEAN, SetSuspended(s)
      PROVE  TypeOK' /\ TargetInv'
  BY <1>7, KeyAssumption DEF SetSuspended, calls
<1>8. ASSUME NEW c \in Calls, Crash(c)
      PROVE  TypeOK' /\ TargetInv'
  BY <1>8, KeyAssumption DEF Crash, Goto
<1>9. CASE UNCHANGED vars
  BY <1>9 DEF vars, calls
<1> QED
  BY <1>1, <1>3, <1>5, <1>7, <1>9, <1>2, <1>4, <1>6, <1>8
     DEF Next, Operate, Authenticate, Idle

(* No write moves a row back, although none looks at the row it writes.    *)
LEMMA StepsMoveForward ==
    ASSUME TypeOK, TargetInv, [Next]_vars
    PROVE  Forward
<1> USE DEF TypeOK, TargetInv, Forward, Known, store
<1>1. ASSUME NEW c \in Calls, Create(c)
      PROVE  Forward
  BY <1>1 DEF Create
<1>2. ASSUME NEW c \in Calls, Save(c)
      PROVE  Forward
  BY <1>2 DEF Save, MarkRevoked
<1>3. ASSUME NEW c \in Calls, RevokeAndAdd(c)
      PROVE  Forward
  BY <1>3 DEF RevokeAndAdd
<1>4. CASE UNCHANGED status
  BY <1>4
<1> QED
  BY <1>1, <1>3, <1>2, <1>4
     DEF Next, Operate, Authenticate, Idle, vars, Get, Audit, Arrive, Find,
         LoadOrganization, SetSuspended, Crash

(* The replacement is committed with the revocation, and does not go away. *)
LEMMA RotationStep ==
    ASSUME TypeOK, TargetInv, RotationReplaces, [Next]_vars
    PROVE  RotationReplaces'
<1> USE DEF RotationReplaces, store
<1>1. Forward
  BY StepsMoveForward
<1>2. ASSUME NEW c \in Calls, Create(c)
      PROVE  RotationReplaces'
  BY <1>1, <1>2 DEF Create, Forward, TypeOK
<1>3. ASSUME NEW c \in Calls, Save(c)
      PROVE  RotationReplaces'
  BY <1>1, <1>3 DEF Save, MarkRevoked, Forward, TypeOK
<1>4. ASSUME NEW c \in Calls, RevokeAndAdd(c)
      PROVE  RotationReplaces'
  <2>1. PICK k \in KeyIds, fate \in Fates :
          IF fate = "refused" THEN UNCHANGED <<status, revokedBy, made>>
          ELSE /\ status' = [j \in KeyIds |-> IF j = k THEN "active"
                                    ELSE IF j = target[c] THEN "revoked" ELSE status[j]]
               /\ revokedBy' = [revokedBy EXCEPT ![target[c]] = c]
               /\ made' = [made EXCEPT ![c] = k]
    BY <1>4 DEF RevokeAndAdd
  <2>2. UNCHANGED kind
    BY <1>4 DEF RevokeAndAdd
  <2>3. CASE fate = "refused"
    BY <2>1, <2>2, <2>3 DEF Known
  <2>4. CASE fate # "refused"
    <3>1. made'[c] = k /\ k # NoKey /\ Known(k)'
      BY <2>1, <2>4, KeyAssumption DEF TypeOK, Known
    <3>2. \A d \in Calls : d # c => made'[d] = made[d]
      BY <2>1, <2>4 DEF TypeOK
    <3>3. \A j \in KeyIds : revokedBy'[j] = revokedBy[j] \/ revokedBy'[j] = c
      BY <2>1, <2>4 DEF TypeOK
    <3> QED
      BY <1>1, <2>2, <3>1, <3>2, <3>3 DEF Forward, TypeOK
  <2> QED
    BY <2>3, <2>4
<1>5. CASE UNCHANGED <<status, revokedBy, kind, made>>
  BY <1>5 DEF Known
<1> QED
  BY <1>2, <1>4, <1>3, <1>5
     DEF Next, Operate, Authenticate, Idle, vars, calls, Get, Audit, Arrive, Find,
         LoadOrganization, SetSuspended, Crash

-----------------------------------------------------------------------------
(* What a call has committed stays: rows move forward, and nobody else     *)
(* assigns its kind, target or made.                                       *)
LEMMA ChangedStays ==
    ASSUME TypeOK, TargetInv, Forward, NEW c \in Calls, Changed(c),
           UNCHANGED <<kind, target>>, made'[c] = made[c]
    PROVE  Changed(c)'
  BY DEF TypeOK, TargetInv, Forward, Changed, Known

(* The log is about the rows, which move forward.                          *)
LEMMA LogStays ==
    ASSUME TypeOK, TargetInv, AuditInv, Forward, UNCHANGED <<kind, target, audit>>
    PROVE  \A e \in audit' :
             /\ Known(e.key)'
             /\ e.action = "api_key.revoked" => status'[e.key] = "revoked"
             /\ e.action = "api_key.rotated" => /\ status'[target'[e.call]] = "revoked"
                                               /\ kind'[e.call] = "rotate"
<1> SUFFICES ASSUME NEW e \in audit
             PROVE  /\ Known(e.key)'
                    /\ e.action = "api_key.revoked" => status'[e.key] = "revoked"
                    /\ e.action = "api_key.rotated" => /\ status'[target[e.call]] = "revoked"
                                                      /\ kind[e.call] = "rotate"
  OBVIOUS
<1>1. e.key \in KeyIds /\ e.call \in Calls
  BY DEF TypeOK
<1>2. /\ Known(e.key)
      /\ e.action = "api_key.revoked" => status[e.key] = "revoked"
      /\ e.action = "api_key.rotated" => /\ status[target[e.call]] = "revoked"
                                        /\ kind[e.call] = "rotate"
  BY DEF AuditInv, AuditIsComplete
<1>3. e.action = "api_key.rotated" => target[e.call] \in KeyIds
  BY <1>1, <1>2 DEF TargetInv
<1> QED
  BY <1>1, <1>2, <1>3 DEF Forward

(* A call that commits a change, or answers without one, before its audit. *)
LEMMA AuditKeeps ==
    ASSUME TypeOK, TargetInv, AuditInv, Forward, NEW c \in Calls,
           UNCHANGED <<audit, kind, target>>, at[c] # "done",
           \A d \in Calls \ {c} : /\ at'[d] = at[d] /\ answer'[d] = answer[d]
                                  /\ made'[d] = made[d],
           at'[c] = "write" => kind[c] # "create" /\ Known(target[c])',
           at'[c] = "audit" => Changed(c)',
           answer'[c] # "none" => at'[c] = "done",
           answer'[c] # "ok"
    PROVE  AuditInv'
<1>1. \A d \in Calls : at'[d] = "audit" => Changed(d)'
  BY ChangedStays DEF AuditInv
<1>2. \A d \in Calls : answer'[d] # "none" => at'[d] = "done"
  BY DEF AuditInv
<1>3. ASSUME NEW d \in Calls, answer'[d] = "ok"
      PROVE  Event(d)' \in audit'
  <2>1. d # c /\ answer[d] = "ok"
    BY <1>3
  <2>2. Event(d) \in audit
    BY <2>1 DEF AuditInv, AuditIsComplete
  <2>3. Event(d)' = Event(d)
    BY <2>1 DEF Event, Subject
  <2> QED
    BY <2>2, <2>3
<1>4. ASSUME NEW d \in Calls, at'[d] = "write"
      PROVE  kind[d] # "create" /\ Known(target[d])'
  <2>1. CASE d = c
    BY <1>4, <2>1
  <2>2. CASE d # c
    <3>1. kind[d] # "create" /\ Known(target[d]) /\ target[d] \in KeyIds
      BY <1>4, <2>2 DEF AuditInv, TargetInv
    <3> QED
      BY <3>1 DEF Forward, Known
  <2> QED
    BY <2>1, <2>2
<1> QED
  BY <1>1, <1>3, <1>2, <1>4, LogStays DEF AuditInv, AuditIsComplete, Known

LEMMA AuditStep ==
    ASSUME TypeOK, TargetInv, AuditInv, [Next]_vars
    PROVE  AuditInv'
<1>1. Forward
  BY StepsMoveForward
<1>2. ASSUME NEW c \in Calls, Create(c) \/ Get(c) \/ Save(c) \/ RevokeAndAdd(c) \/ Crash(c)
      PROVE  AuditInv'
  <2>1. /\ at[c] # "done" /\ answer[c] = "none"
        /\ UNCHANGED <<audit, kind, target>>
    BY <1>2 DEF Create, Get, Save, RevokeAndAdd, Crash, AuditInv, store, TypeOK
  <2>2. \A d \in Calls \ {c} : /\ at'[d] = at[d] /\ answer'[d] = answer[d]
                               /\ made'[d] = made[d]
    BY <1>2 DEF Create, Get, Save, RevokeAndAdd, Crash, Proceed, Answer, Goto, TypeOK
  <2>3. /\ answer'[c] # "none" => at'[c] = "done"
        /\ answer'[c] # "ok"
    BY <1>2, <2>1 DEF Create, Get, Save, RevokeAndAdd, Crash, Proceed, Answer, Goto, TypeOK
  <2>4. at'[c] = "write" => kind[c] # "create" /\ Known(target[c])'
    BY <1>2, <1>1, <2>1
       DEF Create, Get, Save, RevokeAndAdd, Crash, Proceed, Answer, Goto, TypeOK,
           Known, store, environment
  <2>5. at'[c] = "audit" => Changed(c)'
    <3>1. CASE Create(c)
      BY <3>1, <2>1 DEF Create, Proceed, Answer, Goto, TypeOK, Changed, Known
    <3>2. CASE Get(c) \/ Crash(c)
      BY <3>2 DEF Get, Crash, Answer, Goto, TypeOK
    <3>3. CASE Save(c)
      BY <3>3, <2>1 DEF Save, MarkRevoked, Proceed, Answer, Goto, TypeOK, TargetInv, Changed
    <3>4. CASE RevokeAndAdd(c)
      <4>1. kind[c] = "rotate" /\ Known(target[c]) /\ target[c] \in KeyIds
        BY <3>4 DEF RevokeAndAdd, AuditInv, TargetInv
      <4>2. PICK k \in KeyIds, fate \in Fates :
              /\ ~Known(k)
              /\ IF fate = "refused" THEN UNCHANGED <<status, revokedBy, made>>
                 ELSE /\ status' = [j \in KeyIds |-> IF j = k THEN "active"
                                           ELSE IF j = target[c] THEN "revoked" ELSE status[j]]
                      /\ revokedBy' = [revokedBy EXCEPT ![target[c]] = c]
                      /\ made' = [made EXCEPT ![c] = k]
              /\ Proceed(c, fate)
        BY <3>4 DEF RevokeAndAdd
      <4>3. CASE fate = "answered"
        <5>1. made'[c] = k /\ Known(k)' /\ status'[target[c]] = "revoked"
          BY <4>1, <4>2, <4>3 DEF TypeOK, Known
        <5> QED
          BY <5>1, <4>2, <2>1 DEF Changed, Known
      <4>4. CASE fate # "answered"
        BY <4>2, <4>4 DEF Proceed, Answer, Goto, TypeOK
      <4> QED
        BY <4>3, <4>4
    <3> QED
      BY <1>2, <3>2, <3>4, <3>1, <3>3
  <2> QED
    BY <1>1, <2>1, <2>3, <2>4, <2>5, <2>2, AuditKeeps
<1>3. ASSUME NEW c \in Calls, Audit(c)
      PROVE  AuditInv'
  <2>1. Changed(c) /\ UNCHANGED <<status, kind, target, made>>
    BY <1>3 DEF Audit, AuditInv
  <2>2. \A d \in Calls : Event(d)' = Event(d) /\ Changed(d)' = Changed(d)
    BY <2>1 DEF Event, Subject, Changed, Known
  <2>3. audit \subseteq audit' /\ audit' \subseteq audit \cup {Event(c)}
    BY <1>3 DEF Audit
  <2>4. \A d \in Calls : /\ at'[d] = "audit" => at[d] = "audit"
                         /\ answer'[d] # "none" => at'[d] = "done"
                         /\ answer'[d] = "ok" => answer[d] = "ok" \/ Event(d) \in audit'
    BY <1>3 DEF Audit, Answer, Goto, TypeOK, AuditInv
  <2>5. /\ Known(Event(c).key)
        /\ Event(c).action = "api_key.revoked" => status[Event(c).key] = "revoked"
        /\ Event(c).action = "api_key.rotated" => /\ status[target[c]] = "revoked"
                                                 /\ kind[c] = "rotate"
        /\ Event(c).call = c
    BY <2>1 DEF Event, Subject, ActionOf, Changed, Known, TypeOK, Kinds
  <2>6. AuditIsComplete'
    BY <2>1, <2>3, <2>2, <2>5, <2>4 DEF AuditInv, AuditIsComplete, Known
  <2>7. \A d \in Calls : at'[d] = "write" => kind'[d] # "create" /\ Known(target[d])'
    BY <1>3, <2>1 DEF Audit, Answer, Goto, TypeOK, AuditInv, Known
  <2> QED
    BY <2>1, <2>4, <2>6, <2>2, <2>3, <2>5, <2>7 DEF AuditInv, Known
<1>4. CASE UNCHANGED <<store, calls>>
  BY <1>4 DEF store, calls, AuditInv, AuditIsComplete, Changed, Known, Event, Subject
<1> QED
  BY <1>2, <1>3, <1>4
     DEF Next, Operate, Authenticate, Idle, vars, Arrive, Find,
         LoadOrganization, SetSuspended

-----------------------------------------------------------------------------
(* What a login has seen of the key and the organization stays true enough *)
(* for the verdict, although neither is read again.                        *)
LEMMA DoorStep ==
    ASSUME TypeOK, TargetInv, DoorInv, [Next]_vars
    PROVE  DoorInv'
<1>1. Forward
  BY StepsMoveForward
<1>2. ASSUME NEW l \in Logins, Arrive(l)
      PROVE  DoorInv'
  BY <1>2 DEF Arrive, Enter, DoorInv, TypeOK, store, environment
<1>3. ASSUME NEW l \in Logins, Find(l)
      PROVE  DoorInv'
  BY <1>3 DEF Find, Enter, DoorInv, TypeOK, store, environment
<1>4. ASSUME NEW l \in Logins, LoadOrganization(l)
      PROVE  DoorInv'
  BY <1>4 DEF LoadOrganization, Enter, DoorInv, TypeOK, store, environment
<1>5. ASSUME NEW s \in BOOLEAN, SetSuspended(s)
      PROVE  DoorInv'
  BY <1>5 DEF SetSuspended, DoorInv, TypeOK, store
<1>6. CASE UNCHANGED <<logins, suspended>>
  BY <1>1, <1>6 DEF logins, DoorInv, Forward, TypeOK
<1> QED
  BY <1>2, <1>4, <1>6, <1>3, <1>5
     DEF Next, Operate, Authenticate, Idle, vars, environment, Create, Get, Save,
         RevokeAndAdd, Audit, Crash, Commit

LEMMA InitHasInv ==
    ASSUME Init
    PROVE  KeyInv
<1>1. TypeOK
  <2>1. status \in [KeyIds -> {"absent", "active", "revoked"}]
    BY DEF Init
  <2>2. /\ revokedBy \in [KeyIds -> Calls \cup {NoCall}]
        /\ made \in [Calls -> KeyIds \cup {NoKey}]
        /\ audit = {}
    BY DEF Init
  <2>3. /\ at \in [Calls -> {"start", "write", "audit", "done", "crashed"}]
        /\ answer \in [Calls -> {"none", "ok", "not_found", "already_revoked", "error"}]
        /\ door \in [Logins -> {"outside", "find", "organization",
                                "accepted", "unauthorized", "forbidden"}]
    BY DEF Init
  <2>4. revokedAtStart \in [Logins -> SUBSET KeyIds] /\ openedSince \in [Logins -> BOOLEAN]
    BY Zenon DEF Init
  <2>5. /\ kind \in [Calls -> Kinds] /\ target \in [Calls -> KeyIds \cup {NoKey}]
        /\ presented \in [Logins -> KeyIds] /\ suspended \in BOOLEAN
    BY DEF Init
  <2>6. dbFaults \in 0..MaxDbFaults /\ crashes \in 0..MaxCrashes /\ suspensions \in 0..MaxSuspensions
    BY KeyAssumption DEF Init
  <2> QED
    BY <2>1, <2>4, <2>6, <2>3, <2>5, <2>2 DEF TypeOK
<1>2. TargetInv
  BY DEF Init, TargetInv
<1>3. RotationReplaces
  BY KeyAssumption DEF Init, RotationReplaces
<1>4. AuditInv
  BY DEF Init, AuditInv, AuditIsComplete
<1>5. DoorInv
  BY DEF Init, DoorInv
<1> QED
  BY <1>1, <1>3, <1>5, <1>2, <1>4 DEF KeyInv

(* The inductive invariant, from which the properties follow.              *)
THEOREM KeyInvariance == Spec => []KeyInv
<1>1. Init => KeyInv
  BY InitHasInv
<1>2. KeyInv /\ [Next]_vars => KeyInv'
  BY TypeStep, RotationStep, AuditStep, DoorStep DEF KeyInv
<1> QED
  BY <1>1, <1>2, PTL DEF Spec

(* Every reachable state of the rows, calls and logins is well typed.      *)
THEOREM KeyTypeCorrect == Spec => []TypeOK
<1>1. KeyInv => TypeOK
  BY DEF KeyInv
<1> QED
  BY <1>1, KeyInvariance, PTL

(* revoke_and_add: no rotation leaves the tenant without the replacement.  *)
THEOREM RotationAlwaysReplaces == Spec => []RotationReplaces
<1>1. KeyInv => RotationReplaces
  BY DEF KeyInv
<1> QED
  BY <1>1, KeyInvariance, PTL

(* The audit log has every success the operator was told of, and nothing   *)
(* that did not happen.                                                    *)
THEOREM AuditAlwaysComplete == Spec => []AuditIsComplete
<1>1. KeyInv => AuditIsComplete
  BY DEF KeyInv, AuditInv
<1> QED
  BY <1>1, KeyInvariance, PTL

(* No login that arrives after a revocation, or during a suspension that   *)
(* lasts, is let in.                                                       *)
THEOREM RevocationAlwaysImmediate == Spec => []RevocationIsImmediate
<1>1. KeyInv => RevocationIsImmediate
  BY DEF KeyInv, DoorInv, RevocationIsImmediate
<1> QED
  BY <1>1, KeyInvariance, PTL

(* No step makes a revoked key work again, whatever stale copy it saves.   *)
THEOREM RevokedIsFinal == Spec => RevokedStays
<1>1. KeyInv /\ [Next]_vars => [\A k \in KeyIds : status[k] = "revoked" => status'[k] = "revoked"]_vars
  BY StepsMoveForward DEF KeyInv, Forward
<1> QED
  BY <1>1, KeyInvariance, PTL DEF Spec, RevokedStays
=============================================================================
