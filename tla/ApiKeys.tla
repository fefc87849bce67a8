------------------------------ MODULE ApiKeys ------------------------------
(***************************************************************************)
(* API keys of one organization: the operator's create, revoke and rotate  *)
(* (application/api_keys) and the tenants' authentication                  *)
(* (application/auth), over SqlAlchemyApiKeyRepository.                    *)
(*                                                                         *)
(* Every call has a database session of its own.  No row is locked and no  *)
(* write is conditional, so another call can come between any two awaits.  *)
(* A secret is drawn at random and verified against one hash, so a call    *)
(* that presents a secret presents the key it belongs to.  A key's secret  *)
(* is known only to the client of the call that created it.                *)
(***************************************************************************)
EXTENDS Naturals

CONSTANTS
    Calls,      \* operator calls
    Logins,     \* tenant requests, each authenticated once
    KeyIds,     \* ids of API keys
    Existing,   \* the keys that are there, and active, to begin with
    NoKey, NoCall,
    MaxDbFaults, MaxCrashes, MaxSuspensions   \* bounds on the environment

ASSUME KeyAssumption ==
    /\ Existing \subseteq KeyIds
    /\ NoKey \notin KeyIds
    /\ NoCall \notin Calls
    /\ MaxDbFaults \in Nat /\ MaxCrashes \in Nat /\ MaxSuspensions \in Nat

VARIABLES
    status,     \* status[k]: absent, active or revoked
    revokedBy,  \* revokedBy[k]: the call whose time is in revoked_at
    audit,      \* committed audit events: action, key and call
    suspended,  \* the organization is suspended
    kind,       \* kind[c]: create, revoke or rotate
    target,     \* target[c]: the key to revoke or rotate, or NoKey
    made,       \* made[c]: the key it has created
    at,         \* at[c]: the await it stands at
    answer,     \* answer[c]: what the operator has been told
    presented,  \* presented[l]: the key whose secret the request carries
    door,       \* door[l]: the await authentication stands at, or its verdict
    revokedAtStart,   \* history: keys revoked when l arrived
    openedSince,      \* history: the organization was not suspended at some time since
    dbFaults, crashes, suspensions   \* environment events so far

store == <<status, revokedBy, audit>>
calls == <<kind, target, made, at, answer>>
logins == <<presented, door, revokedAtStart, openedSince>>
environment == <<suspended, dbFaults, crashes, suspensions>>
vars == <<store, calls, logins, environment>>

Kinds == {"create", "revoke", "rotate"}
ActionOf == [create |-> "api_key.created", revoke |-> "api_key.revoked",
             rotate |-> "api_key.rotated"]

(* The key an audit event is about: the created one, or the revoked one.   *)
Subject(c) == IF kind[c] = "revoke" THEN target[c] ELSE made[c]
Event(c) == [action |-> ActionOf[kind[c]], key |-> Subject(c), call |-> c]

Known(k) == status[k] # "absent"
Goto(c, await) == at' = [at EXCEPT ![c] = await]
Answer(c, code) == Goto(c, "done") /\ answer' = [answer EXCEPT ![c] = code]
Enter(l, stage) == door' = [door EXCEPT ![l] = stage]

Init ==
    /\ status = [k \in KeyIds |-> IF k \in Existing THEN "active" ELSE "absent"]
    /\ revokedBy = [k \in KeyIds |-> NoCall]
    /\ audit = {}
    /\ suspended = FALSE
    /\ kind \in [Calls -> Kinds]
    /\ target \in [Calls -> KeyIds \cup {NoKey}]
    /\ \A c \in Calls : kind[c] = "create" <=> target[c] = NoKey
    /\ made = [c \in Calls |-> NoKey]
    /\ at = [c \in Calls |-> "start"]
    /\ answer = [c \in Calls |-> "none"]
    /\ presented \in [Logins -> KeyIds]
    /\ door = [l \in Logins |-> "outside"]
    /\ revokedAtStart = [l \in Logins |-> {}]
    /\ openedSince = [l \in Logins |-> FALSE]
    /\ dbFaults = 0 /\ crashes = 0 /\ suspensions = 0

(* A commit succeeds; or it takes effect and its reply, or the refresh     *)
(* after it, fails; or it does not take effect.                            *)
Fates == {"answered", "lost", "refused"}
Commit(fate) ==
    /\ dbFaults' = dbFaults + (IF fate = "answered" THEN 0 ELSE 1)
    /\ dbFaults' <= MaxDbFaults
    /\ UNCHANGED <<suspended, crashes, suspensions>>

(* After the commit: go on to the audit insert, or answer 500.             *)
Proceed(c, fate) ==
    IF fate = "answered" THEN Goto(c, "audit") /\ UNCHANGED answer ELSE Answer(c, "error")

-----------------------------------------------------------------------------
(* CreateApiKey: a suspended organization may be given keys, too.          *)
Create(c) ==
    /\ at[c] = "start" /\ kind[c] = "create"
    /\ \E k \in KeyIds, fate \in Fates :
         /\ ~Known(k)
         /\ Commit(fate)
         /\ status' = IF fate = "refused" THEN status ELSE [status EXCEPT ![k] = "active"]
         /\ made' = IF fate = "refused" THEN made ELSE [made EXCEPT ![c] = k]
         /\ Proceed(c, fate)
    /\ UNCHANGED <<revokedBy, audit, kind, target, logins>>

(* get_by_id and, in the same step, ApiKey.revoke on the copy it returned. *)
Get(c) ==
    /\ at[c] = "start" /\ kind[c] # "create"
    /\ \/ status[target[c]] = "active" /\ Goto(c, "write") /\ UNCHANGED answer
       \/ status[target[c]] = "revoked" /\ Answer(c, "already_revoked")
       \/ ~Known(target[c]) /\ Answer(c, "not_found")
    /\ UNCHANGED <<store, kind, target, made, logins, environment>>

MarkRevoked(c) ==
    /\ status' = [status EXCEPT ![target[c]] = "revoked"]
    /\ revokedBy' = [revokedBy EXCEPT ![target[c]] = c]

\* Variant: the copy that was read is saved, not the revoked one.
SaveStaleCopy(c) ==
    /\ at[c] = "write" /\ kind[c] = "revoke"
    /\ status' = [status EXCEPT ![target[c]] = "active"]
    /\ Goto(c, "audit")
    /\ UNCHANGED <<revokedBy, audit, answer, kind, target, made, logins, environment>>

(* save: every column is assigned, whatever the row holds by now.          *)
Save(c) ==
    /\ at[c] = "write" /\ kind[c] = "revoke"
    /\ \E fate \in Fates :
         /\ Commit(fate)
         /\ IF fate = "refused" THEN UNCHANGED <<status, revokedBy>> ELSE MarkRevoked(c)
         /\ Proceed(c, fate)
    /\ UNCHANGED <<audit, kind, target, made, logins>>

\* Variant: two commits, and a failure of the second one is swallowed.
RevokeThenAdd(c) ==
    /\ at[c] = "write" /\ kind[c] = "rotate"
    /\ MarkRevoked(c)
    /\ Commit("refused")
    /\ Proceed(c, "answered")
    /\ UNCHANGED <<audit, kind, target, made, logins>>

(* revoke_and_add: one commit for both rows.                               *)
RevokeAndAdd(c) ==
    /\ at[c] = "write" /\ kind[c] = "rotate"
    /\ \E k \in KeyIds, fate \in Fates :
         /\ ~Known(k)
         /\ Commit(fate)
         /\ IF fate = "refused" THEN UNCHANGED <<status, revokedBy, made>>
            ELSE /\ status' = [j \in KeyIds |-> IF j = k THEN "active"
                                      ELSE IF j = target[c] THEN "revoked" ELSE status[j]]
                 /\ revokedBy' = [revokedBy EXCEPT ![target[c]] = c]
                 /\ made' = [made EXCEPT ![c] = k]
         /\ Proceed(c, fate)
    /\ UNCHANGED <<audit, kind, target, logins>>

\* Variant: a failed audit insert is swallowed.
AuditSwallowed(c) ==
    /\ at[c] = "audit"
    /\ \E fate \in Fates :
         /\ Commit(fate)
         /\ audit' = IF fate = "refused" THEN audit ELSE audit \cup {Event(c)}
         /\ Answer(c, "ok")
    /\ UNCHANGED <<status, revokedBy, kind, target, made, logins>>

(* The audit event is a commit of its own, after that of the key.          *)
Audit(c) ==
    /\ at[c] = "audit"
    /\ \E fate \in Fates :
         /\ Commit(fate)
         /\ audit' = IF fate = "refused" THEN audit ELSE audit \cup {Event(c)}
         /\ Answer(c, IF fate = "answered" THEN "ok" ELSE "error")
    /\ UNCHANGED <<status, revokedBy, kind, target, made, logins>>

-----------------------------------------------------------------------------
(* AuthenticateApiKey: find_by_prefix and verification, then the           *)
(* organization.  What was read of the key is not read again.              *)
Arrive(l) ==
    /\ door[l] = "outside"
    /\ Enter(l, "find")
    /\ revokedAtStart' = [revokedAtStart EXCEPT ![l] = {k \in KeyIds : status[k] = "revoked"}]
    /\ openedSince' = [openedSince EXCEPT ![l] = ~suspended]
    /\ UNCHANGED <<store, calls, presented, environment>>

\* Variant: the status of the matched key is not looked at.
FindAny(l) ==
    /\ door[l] = "find"
    /\ Enter(l, IF Known(presented[l]) THEN "organization" ELSE "unauthorized")
    /\ UNCHANGED <<store, calls, presented, revokedAtStart, openedSince, environment>>

Find(l) ==
    /\ door[l] = "find"
    /\ Enter(l, IF status[presented[l]] = "active" THEN "organization" ELSE "unauthorized")
    /\ UNCHANGED <<store, calls, presented, revokedAtStart, openedSince, environment>>

LoadOrganization(l) ==
    /\ door[l] = "organization"
    /\ Enter(l, IF suspended THEN "forbidden" ELSE "accepted")
    /\ UNCHANGED <<store, calls, presented, revokedAtStart, openedSince, environment>>

-----------------------------------------------------------------------------
(* No use case changes an organization's status: it is changed in the      *)
(* database.                                                               *)
SetSuspended(s) ==
    /\ suspended # s
    /\ suspensions < MaxSuspensions
    /\ suspensions' = suspensions + 1
    /\ suspended' = s
    /\ openedSince' = [l \in Logins |-> openedSince[l] \/ (door[l] # "outside" /\ ~s)]
    /\ UNCHANGED <<store, calls, presented, door, revokedAtStart, dbFaults, crashes>>

Crash(c) ==
    /\ at[c] \in {"start", "write", "audit"}
    /\ crashes < MaxCrashes
    /\ crashes' = crashes + 1
    /\ Goto(c, "crashed")
    /\ UNCHANGED <<store, kind, target, made, answer, logins,
                   suspended, dbFaults, suspensions>>

Operate(c) ==
    Create(c) \/ Get(c) \/ Save(c) \/ RevokeAndAdd(c) \/ Audit(c)
Authenticate(l) == Arrive(l) \/ Find(l) \/ LoadOrganization(l)

Finished ==
    /\ \A c \in Calls : at[c] \in {"done", "crashed"}
    /\ \A l \in Logins : door[l] \in {"accepted", "unauthorized", "forbidden"}
Idle == Finished /\ UNCHANGED vars

Next ==
    \/ \E c \in Calls : Operate(c) \/ Crash(c)
    \/ \E l \in Logins : Authenticate(l)
    \/ \E s \in BOOLEAN : SetSuspended(s)
    \/ Idle

Spec == Init /\ [][Next]_vars

-----------------------------------------------------------------------------
(* Properties.                                                             *)
TypeOK ==
    /\ status \in [KeyIds -> {"absent", "active", "revoked"}]
    /\ revokedBy \in [KeyIds -> Calls \cup {NoCall}]
    /\ audit \in SUBSET [action : {ActionOf[d] : d \in Kinds}, key : KeyIds, call : Calls]
    /\ suspended \in BOOLEAN
    /\ kind \in [Calls -> Kinds]
    /\ target \in [Calls -> KeyIds \cup {NoKey}]
    /\ made \in [Calls -> KeyIds \cup {NoKey}]
    /\ at \in [Calls -> {"start", "write", "audit", "done", "crashed"}]
    /\ answer \in [Calls -> {"none", "ok", "not_found", "already_revoked", "error"}]
    /\ presented \in [Logins -> KeyIds]
    /\ door \in [Logins -> {"outside", "find", "organization",
                            "accepted", "unauthorized", "forbidden"}]
    /\ revokedAtStart \in [Logins -> SUBSET KeyIds]
    /\ openedSince \in [Logins -> BOOLEAN]
    /\ dbFaults \in 0..MaxDbFaults
    /\ crashes \in 0..MaxCrashes
    /\ suspensions \in 0..MaxSuspensions

(* Whatever calls race on it, a revoked key never works again, although    *)
(* save writes back a copy that may be older than the row.                 *)
RevokedStays ==
    [][\A k \in KeyIds : status[k] = "revoked" => status'[k] = "revoked"]_vars

(* Rotation never leaves a tenant without a key: whenever the row says a   *)
(* rotation revoked it, the replacement is there, through faults, crashes  *)
(* and concurrent calls.                                                   *)
RotationReplaces ==
    \A k \in KeyIds, c \in Calls :
        revokedBy[k] = c /\ kind[c] = "rotate" => made[c] # NoKey /\ Known(made[c])

(* A success the operator was told of is in the audit log and in the keys; *)
(* the log holds nothing that did not happen.                              *)
AuditIsComplete ==
    /\ \A c \in Calls : answer[c] = "ok" => Event(c) \in audit
    /\ \A e \in audit :
         /\ Known(e.key)
         /\ e.action = "api_key.revoked" => status[e.key] = "revoked"
         /\ e.action = "api_key.rotated" => status[target[e.call]] = "revoked"

(* A request that arrives after a key was revoked, by either operation, is *)
(* not let in with it; one that arrives while the organization is          *)
(* suspended is let in only if the suspension was lifted meanwhile.        *)
RevocationIsImmediate ==
    \A l \in Logins : door[l] = "accepted" =>
        /\ presented[l] \notin revokedAtStart[l]
        /\ openedSince[l]

=============================================================================
