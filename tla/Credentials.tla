---------------------------- MODULE Credentials -----------------------------
(***************************************************************************)
(* API keys (auth/api-keys.ts), provider credentials                       *)
(* (auth/provider-credentials.ts) and the routes that create, use and end  *)
(* them (api/app.ts, api/routes/providers.ts).                             *)
(*                                                                         *)
(* A request carries the tenant and the scopes its bearer had when it came *)
(* in.  It awaits each store call and each append to the trail, so other   *)
(* requests run between its actions.  A key is named by its id, a sealed   *)
(* secret by the tenant and the id it is bound to.                         *)
(***************************************************************************)
EXTENDS Tenancy, Naturals, FiniteSets

CONSTANTS KeyIds,              \* ids newId hands out to API keys
          CredentialIds,       \* and to provider credentials
          Requests,
          Scopes,              \* ALL_SCOPES
          EncryptionAvailable, \* whether a master key is configured
          MaxTime              \* bound on the clock, in days

ASSUME CredentialsAssumption ==
  /\ {"runs:read", "runs:write"} \subseteq Scopes
  /\ EncryptionAvailable \in BOOLEAN
  /\ MaxTime \in Nat
  /\ None \notin KeyIds \union CredentialIds \union Tenants
  /\ KeyIds \intersect Tenants = {}

VARIABLES
  keys,         \* the API keys, NoKey before creation
  credentials,  \* the provider credentials, NoCredential before creation
  requests,     \* where each request is, and its locals
  credTrail,    \* what the audit log says of keys and credentials
  handedOut,    \* keys whose secret a response carried
  now           \* Date.now()

credentialVars == <<keys, credentials, requests, credTrail, handedOut, now>>

NoKey == [tenant |-> None]
NoCredential == [tenant |-> None]

CredentialsInit ==
  /\ keys = [k \in KeyIds |-> NoKey]
  /\ credentials = [c \in CredentialIds |-> NoCredential]
  /\ requests = [q \in Requests |-> [at |-> "idle"]]
  /\ credTrail = {}
  /\ handedOut = {}
  /\ now = 0

-----------------------------------------------------------------------------
(* Who is calling *)

Answer(q) == requests' = [requests EXCEPT ![q] = [at |-> "answered"]]

Expired(k) == keys[k].expiresAt # None /\ keys[k].expiresAt <= now

\* Why a presented key is refused, or "ok".
AuthenticateKey(k) ==
  CASE keys[k] = NoKey           -> "unknown"
    [] keys[k].revokedBy # None  -> "revoked"
    [] Expired(k)                -> "expired"
    [] OTHER                     -> "ok"

\* A bearer token of the deployment's own: a tenant, and the scopes it states.
AuthenticateToken(q, tenant, scopes) ==
  /\ requests[q].at = "idle"
  /\ requests' = [requests EXCEPT ![q] =
       [at |-> "in", tenant |-> tenant, actor |-> tenant, scopes |-> scopes]]
  /\ UNCHANGED <<keys, credentials, credTrail, handedOut, now>>

\* A key of the product; only a key that is accepted is marked used.
Authenticate(q, k) ==
  /\ requests[q].at = "idle"
  /\ IF AuthenticateKey(k) = "ok"
     THEN /\ requests' = [requests EXCEPT ![q] =
               [at |-> "in", tenant |-> keys[k].tenant, actor |-> k,
                scopes |-> keys[k].scopes]]
          /\ keys' = [keys EXCEPT ![k].lastUsedAt = now]
     ELSE /\ Answer(q)
          /\ UNCHANGED keys
  /\ UNCHANGED <<credentials, credTrail, handedOut, now>>

\* requireScope: 403 unless the caller holds it.
Holds(q, scope) == requests[q].at = "in" /\ scope \in requests[q].scopes

Forbidden(q) ==
  /\ requests[q].at = "in"
  /\ \E scope \in {"runs:read", "runs:write"} : scope \notin requests[q].scopes
  /\ Answer(q)
  /\ UNCHANGED <<keys, credentials, credTrail, handedOut, now>>

\* The request goes on at a step, with what it keeps.
GoOn(q, step, subject, kept) ==
  requests' = [requests EXCEPT ![q] =
    [at |-> step, tenant |-> @.tenant, actor |-> @.actor, scopes |-> @.scopes,
     subject |-> subject, kept |-> kept]]

Entry(q, action) ==
  [action |-> action, subject |-> requests[q].subject, actor |-> requests[q].actor,
   tenant |-> requests[q].tenant]

RecordAndAnswer(q, action) ==
  /\ credTrail' = credTrail \union {Entry(q, action)}
  /\ Answer(q)

-----------------------------------------------------------------------------
(* API keys *)

\* Seeded fault: the scopes asked for only have to exist.
GrantableAll(q, scopes) == scopes # {} /\ scopes \subseteq Scopes

\* "A caller cannot mint a key more capable than the token they are holding."
Grantable(q, scopes) ==
  /\ scopes # {}
  /\ scopes \subseteq Scopes
  /\ scopes \subseteq requests[q].scopes

CreateKey(q, k, scopes, days) ==
  /\ Holds(q, "runs:write")
  /\ keys[k] = NoKey
  /\ IF Grantable(q, scopes)
     THEN /\ keys' = [keys EXCEPT ![k] =
               [tenant |-> requests[q].tenant, createdBy |-> requests[q].actor,
                scopes |-> scopes, expiresAt |-> IF days = None THEN None ELSE now + days,
                revokedBy |-> None, lastUsedAt |-> None]]
          /\ GoOn(q, "keyCreated", k, scopes)
     ELSE Answer(q) /\ UNCHANGED keys
  /\ UNCHANGED <<credentials, credTrail, handedOut, now>>

\* Seeded fault: the secret is sent while the entry is still to be written.
RecordKeyAfterAnswer(q) ==
  /\ requests[q].at = "keyCreated"
  /\ handedOut' = handedOut \union {requests[q].subject}
  /\ Answer(q)
  /\ UNCHANGED <<keys, credentials, credTrail, now>>

\* The entry, and then "the one and only response that carries the plaintext".
RecordKey(q) ==
  /\ requests[q].at = "keyCreated"
  /\ RecordAndAnswer(q, "api-key.created")
  /\ handedOut' = handedOut \union {requests[q].subject}
  /\ UNCHANGED <<keys, credentials, now>>

\* 404 for another tenant's key, 409 for one that is revoked already.
RevokeKeyRead(q, k) ==
  /\ Holds(q, "runs:write")
  /\ IF Seen(keys[k], requests[q].tenant, NoKey) # NoKey /\ keys[k].revokedBy = None
     THEN GoOn(q, "keyRead", k, keys[k])
     ELSE Answer(q)
  /\ UNCHANGED <<keys, credentials, credTrail, handedOut, now>>

\* "Revocation is a state change, not a delete."  What was read is not used again.
RevokeKeyWrite(q) ==
  /\ requests[q].at = "keyRead"
  /\ keys' = [keys EXCEPT ![requests[q].subject].revokedBy = requests[q].actor]
  /\ GoOn(q, "keyRevoked", requests[q].subject, None)
  /\ UNCHANGED <<credentials, credTrail, handedOut, now>>

RevokeKeyRecord(q) ==
  /\ requests[q].at = "keyRevoked"
  /\ RecordAndAnswer(q, "api-key.revoked")
  /\ UNCHANGED <<keys, credentials, handedOut, now>>

-----------------------------------------------------------------------------
(* Provider credentials *)

\* The additional data a secret is sealed under.
Aad(tenant, c) == <<tenant, c>>

CreateCredential(q, c, withSecret) ==
  /\ Holds(q, "runs:write")
  /\ credentials[c] = NoCredential
  /\ IF withSecret => EncryptionAvailable
     THEN /\ credentials' = [credentials EXCEPT ![c] =
               [tenant |-> requests[q].tenant, revoked |-> FALSE, lastUsedAt |-> None,
                sealed |-> IF withSecret THEN Aad(requests[q].tenant, c) ELSE None]]
          /\ GoOn(q, "credentialCreated", c, None)
     ELSE Answer(q) /\ UNCHANGED credentials
  /\ UNCHANGED <<keys, credTrail, handedOut, now>>

CredentialRecord(q) ==
  /\ requests[q].at = "credentialCreated"
  /\ RecordAndAnswer(q, "provider-credential.created")
  /\ UNCHANGED <<keys, credentials, handedOut, now>>

\* Seeded fault: the record keeps its ciphertext.
RevokedKeeping(record) == [record EXCEPT !.revoked = TRUE]

\* "A revoked credential should not remain decryptable."
Revoked(record) == [record EXCEPT !.revoked = TRUE, !.sealed = None]

RevokeCredential(q, c) ==
  /\ Holds(q, "runs:write")
  /\ IF Seen(credentials[c], requests[q].tenant, NoCredential) = NoCredential
     THEN Answer(q) /\ UNCHANGED credentials
     ELSE /\ credentials' = [credentials EXCEPT ![c] = Revoked(@)]
          /\ GoOn(q, "credentialRevoked", c, None)
  /\ UNCHANGED <<keys, credTrail, handedOut, now>>

RevokeCredentialRecord(q) ==
  /\ requests[q].at = "credentialRevoked"
  /\ RecordAndAnswer(q, "provider-credential.revoked")
  /\ UNCHANGED <<keys, credentials, handedOut, now>>

\* What opens under the data given, which is the record's own.
Opened(c, tenant) ==
  IF credentials[c].sealed = Aad(tenant, c) THEN c ELSE None

\* revealForProviderCall, of a connection test: null for another tenant, 409 once
\* revoked, and the plaintext goes to the adapter.
Reveal(q, c) ==
  /\ Holds(q, "runs:read")
  /\ IF \/ Seen(credentials[c], requests[q].tenant, NoCredential) = NoCredential
        \/ credentials[c].revoked
     THEN Answer(q) /\ UNCHANGED credentials
     ELSE /\ credentials' = [credentials EXCEPT ![c].lastUsedAt = now]
          /\ GoOn(q, "calling", c, Opened(c, requests[q].tenant))
  /\ UNCHANGED <<keys, credTrail, handedOut, now>>

\* The provider answered, whatever became of the credential in the meantime.
TestRecord(q) ==
  /\ requests[q].at = "calling"
  /\ RecordAndAnswer(q, "provider.tested")
  /\ UNCHANGED <<keys, credentials, handedOut, now>>

DayPasses ==
  /\ now < MaxTime
  /\ now' = now + 1
  /\ UNCHANGED <<keys, credentials, requests, credTrail, handedOut>>

RequestStep(q) ==
  \/ \E tenant \in Tenants, scopes \in SUBSET Scopes : AuthenticateToken(q, tenant, scopes)
  \/ \E k \in KeyIds :
       \/ Authenticate(q, k)
       \/ RevokeKeyRead(q, k)
       \/ \E scopes \in SUBSET Scopes, days \in {None, 1} : CreateKey(q, k, scopes, days)
  \/ \E c \in CredentialIds :
       \/ \E withSecret \in BOOLEAN : CreateCredential(q, c, withSecret)
       \/ RevokeCredential(q, c)
       \/ Reveal(q, c)
  \/ Forbidden(q) \/ RecordKey(q) \/ RevokeKeyWrite(q) \/ RevokeKeyRecord(q)
  \/ CredentialRecord(q) \/ RevokeCredentialRecord(q) \/ TestRecord(q)

CredentialsNext == DayPasses \/ \E q \in Requests : RequestStep(q)

CredentialsSpec == CredentialsInit /\ [][CredentialsNext]_credentialVars

-----------------------------------------------------------------------------
(* What the stores promise *)

Key ==
  [tenant: Tenants, createdBy: KeyIds \union Tenants, scopes: (SUBSET Scopes) \ {{}},
   expiresAt: Nat \union {None}, revokedBy: KeyIds \union Tenants \union {None},
   lastUsedAt: Nat \union {None}]

Credential ==
  [tenant: Tenants, revoked: BOOLEAN, lastUsedAt: Nat \union {None},
   sealed: (Tenants \X CredentialIds) \union {None}]

Underway(q) == requests[q].at \notin {"idle", "answered"}

\* Along any chain of keys made with keys, and however requests overlap: a key
\* never holds a scope its maker does not, never crosses a tenant, and what a
\* request may still do was its bearer's.  A secret is stored only sealed to its
\* own record, never without a master key, and is gone once revoked.  "The record is
\* evidence that the credential existed and who ended it": nobody holds a key's secret
\* before the trail names who made it, and whoever revoked it is in the trail too, or
\* the request that revoked it is still recording it.
CredentialsInv ==
  /\ keys \in [KeyIds -> Key \union {NoKey}]
  /\ credentials \in [CredentialIds -> Credential \union {NoCredential}]
  /\ handedOut \subseteq KeyIds
  /\ \A k \in KeyIds : keys[k] # NoKey /\ keys[k].createdBy \in KeyIds =>
       LET maker == keys[keys[k].createdBy]
       IN  maker # NoKey /\ keys[k].scopes \subseteq maker.scopes /\ keys[k].tenant = maker.tenant
  /\ \A q \in Requests : Underway(q) /\ requests[q].actor \in KeyIds =>
       /\ requests[q].scopes = keys[requests[q].actor].scopes
       /\ requests[q].tenant = keys[requests[q].actor].tenant
  /\ \A c \in CredentialIds : credentials[c] # NoCredential =>
       /\ credentials[c].sealed \in {None, Aad(credentials[c].tenant, c)}
       /\ credentials[c].sealed # None => EncryptionAvailable /\ ~credentials[c].revoked
  /\ \A k \in KeyIds : keys[k] # NoKey =>
       /\ k \in handedOut =>
            [action |-> "api-key.created", subject |-> k, actor |-> keys[k].createdBy,
             tenant |-> keys[k].tenant] \in credTrail
       /\ keys[k].revokedBy # None =>
            \/ [action |-> "api-key.revoked", subject |-> k, actor |-> keys[k].revokedBy,
                tenant |-> keys[k].tenant] \in credTrail
            \/ \E q \in Requests : /\ requests[q].at = "keyRevoked"
                                   /\ requests[q].subject = k
                                   /\ requests[q].actor = keys[k].revokedBy

=============================================================================
