------------------------------ MODULE ApiKeys -------------------------------
(* The developer API: apps/web/api/api-key-store.js, api-key-auth.js,       *)
(* developer-routes.js and the audit log of usage-store.js, with the        *)
(* sessions of packages/providers/src/auth/index.ts.                        *)
(*                                                                          *)
(* Keys are created, listed and revoked by the owner's session and used by  *)
(* whoever presents their secret.  The routes are single steps: nothing     *)
(* they read before an await is used after it.                              *)
EXTENDS Integers, Sequences, SequencesExt, FiniteSetsExt

CONSTANTS
    KeyIds,         \* identities of API keys; a key's secret stands for it
    SignedIn,       \* the account of a session token ("Bearer ey...")
    Visitors,       \* sessions known by their X-Session-Id only
    Nobody,         \* a request without credentials; an entry without actor
    NoKey,          \* an entry about no key
    MaxAudit,       \* MAX_AUDIT_ENTRIES
    MaxLife         \* bound on the ticks a key lives

ASSUME AuditAssumption == MaxAudit \in Nat \ {0} /\ MaxLife \in Nat

ASSUME CredentialAssumption == KeyIds \cap ({SignedIn, Nobody, NoKey} \cup Visitors) = {}

VARIABLES
    keyStore,       \* the records of the keys created so far
    auditLog,       \* the retained entries, oldest first
    answer          \* what GET /developer/me answered, if that came last

keyVars == <<keyStore, auditLog, answer>>

(* What an Authorization or X-Session-Id header may carry.                  *)
Bearers == KeyIds \cup {SignedIn}
Credentials == Bearers \cup Visitors \cup {Nobody}

(* resolveSession: a session token is the paying account, all else is a     *)
(* visitor, without an account and of the anonymous tier.                   *)
OwnerOf(credential) == IF credential \in {SignedIn} \cup Visitors THEN credential ELSE Nobody
MayCreate(credential) == credential = SignedIn

Created == DOMAIN keyStore

Silent == [credential |-> Nobody, status |-> 0]

KeysInit ==
    /\ keyStore = [k \in {} |-> Nobody]
    /\ auditLog = <<>>
    /\ answer = Silent

(* Only the answers of GET /developer/me are kept.                          *)
Answered(credential, status) == answer' = [credential |-> credential, status |-> status]

\* Defect: the buffer is one entry too long.
LoggedLate(entry) ==
    LET log == Append(auditLog, entry)
    IN  auditLog' = IF Len(auditLog) > MaxAudit THEN Tail(log) ELSE log

(* appendAuditEntry: the oldest entry makes room for the new one.           *)
Logged(entry) ==
    LET log == Append(auditLog, entry)
    IN  auditLog' = IF Len(log) > MaxAudit THEN Tail(log) ELSE log

Entry4(actor, key, event, outcome) == [actor |-> actor, key |-> key, event |-> event, outcome |-> outcome]

-----------------------------------------------------------------------------
\* Defect: a revoked key is passed over only when it has an expiry.
AuthenticUntilExpiry(k, time) == k \in Created /\ ~(keyStore[k].expiresAt < time)

\* Defect: a key whose time is over is still let in.
AuthenticUntilRevoked(k, time) == k \in Created /\ keyStore[k].status = "active"

(* authenticateApiKey: revoked and expired keys are passed over.            *)
Authentic(k, time) ==
    /\ k \in Created
    /\ keyStore[k].status = "active"
    /\ ~(keyStore[k].expiresAt < time)

\* Defect: the use is counted on a fresh record.
CountUseAnew(k) == keyStore' = [keyStore EXCEPT ![k].requestCount = 1]

CountUse(k) == keyStore' = [keyStore EXCEPT ![k].requestCount = @ + 1]

(* requireApiKeyAuth("jobs:read") in GET /developer/me: whatever bearer     *)
(* comes is taken for a key.                                                *)
MeWithBearer(bearer, time) ==
    \/ /\ ~Authentic(bearer, time)
       /\ Logged(Entry4(Nobody, NoKey, "auth.invalid_key", "failure"))
       /\ Answered(bearer, 401)
       /\ UNCHANGED keyStore
    \/ /\ Authentic(bearer, time)
       /\ ~keyStore[bearer].reads
       /\ CountUse(bearer)
       /\ Logged(Entry4(keyStore[bearer].ownerId, bearer, "auth.invalid_key", "blocked"))
       /\ Answered(bearer, 403)
    \/ /\ Authentic(bearer, time)
       /\ keyStore[bearer].reads
       /\ CountUse(bearer)
       /\ Logged(Entry4(keyStore[bearer].ownerId, bearer, "auth.api_key_used", "success"))
       /\ Answered(bearer, 200)

(* GET /developer/me without a bearer: the visitor's session.               *)
MeWithSession(credential) ==
    /\ Answered(credential, 200)
    /\ UNCHANGED <<keyStore, auditLog>>

(* POST /developer/keys.  valid says whether validateCreateKeyBody found    *)
(* nothing; a key without expiry lives longer than the clock runs.          *)
CreateKey(credential, valid, k, reads, expiresAt) ==
    \/ /\ ~MayCreate(credential)
       /\ Logged(Entry4(OwnerOf(credential), NoKey, "api_key.created", "failure"))
       /\ answer' = Silent
       /\ UNCHANGED keyStore
    \/ /\ MayCreate(credential) /\ ~valid
       /\ answer' = Silent
       /\ UNCHANGED <<keyStore, auditLog>>
    \/ /\ MayCreate(credential) /\ valid
       /\ k \in KeyIds \ Created
       /\ keyStore' = [i \in Created \cup {k} |->
            IF i # k THEN keyStore[i]
            ELSE [ownerId |-> OwnerOf(credential), status |-> "active", reads |-> reads,
                  requestCount |-> 0, expiresAt |-> expiresAt]]
       /\ Logged(Entry4(OwnerOf(credential), k, "api_key.created", "success"))
       /\ answer' = Silent

(* GET /developer/keys                                                      *)
ListKeys(credential) ==
    /\ Logged(Entry4(OwnerOf(credential), NoKey, "api_key.listed", "success"))
    /\ answer' = Silent
    /\ UNCHANGED keyStore

(* DELETE /developer/keys/:id                                               *)
Revocable(credential, k) ==
    k \in Created /\ keyStore[k].ownerId = OwnerOf(credential) /\ keyStore[k].status = "active"

RevokeKey(credential, k) ==
    \/ /\ ~Revocable(credential, k)
       /\ answer' = Silent
       /\ UNCHANGED <<keyStore, auditLog>>
    \/ /\ Revocable(credential, k)
       /\ keyStore' = [keyStore EXCEPT ![k].status = "revoked"]
       /\ Logged(Entry4(OwnerOf(credential), k, "api_key.revoked", "success"))
       /\ answer' = Silent

DeveloperRequest(credential, time) ==
    \/ credential \in Bearers /\ MeWithBearer(credential, time)
    \/ credential \notin Bearers /\ MeWithSession(credential)
    \/ \E valid, reads \in BOOLEAN, k \in KeyIds, life \in 0..MaxLife :
            CreateKey(credential, valid, k, reads, time + life)
    \/ ListKeys(credential)
    \/ \E k \in KeyIds : RevokeKey(credential, k)

-----------------------------------------------------------------------------
KeysTypeOK ==
    /\ Created \subseteq KeyIds
    /\ \A k \in Created :
        /\ keyStore[k].ownerId = SignedIn
        /\ keyStore[k].status \in {"active", "revoked"}
        /\ keyStore[k].requestCount \in Nat
    /\ Len(auditLog) <= MaxAudit
    /\ answer.status \in {0, 200, 401, 403}

Entries(k, events) == Cardinality({i \in DOMAIN auditLog : auditLog[i].key = k /\ auditLog[i].event \in events})

(* The log and the store tell the same story of each key, as far back as    *)
(* the log reaches: a count of uses never falls behind the entries about    *)
(* them and equals them while the key's creation is in the log, a creation  *)
(* comes before all else about its key, and then a key is revoked when and  *)
(* only when its entry of the revocation is there.                          *)
AuditTellsTheKeys ==
    \A k \in Created :
        LET uses == Entries(k, {"auth.api_key_used", "auth.invalid_key"})
            creation == {i \in DOMAIN auditLog : auditLog[i].key = k /\ auditLog[i].event = "api_key.created"}
            revocation == {i \in DOMAIN auditLog : auditLog[i].key = k /\ auditLog[i].event = "api_key.revoked"}
        IN  /\ uses <= keyStore[k].requestCount
            /\ creation # {} =>
                /\ uses = keyStore[k].requestCount
                /\ (keyStore[k].status = "revoked") = (revocation # {})
            /\ \A c \in creation, i \in DOMAIN auditLog : auditLog[i].key = k => c <= i

(* A key that is revoked or whose time is over.                             *)
Dead(k, time) == keyStore[k].status = "revoked" \/ keyStore[k].expiresAt < time

(* "This endpoint works with either session auth OR API key auth"           *)
(* (developer-routes.js:99): a signed-in session is told who it is.         *)
SessionsAreWelcome ==
    answer.credential = SignedIn => answer.status = 200
=============================================================================
