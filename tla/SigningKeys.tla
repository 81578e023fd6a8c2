----------------------------- MODULE SigningKeys -----------------------------
(***************************************************************************)
(* The signing key over the life of the server: main.ts makes a key pair   *)
(* and empty stores at every start, under an id it reads from its          *)
(* environment; /v1/evidence/keys publishes that pair alone.  Clients keep *)
(* what they downloaded and what they read of the keys across restarts.    *)
(*                                                                         *)
(* What is signed and how it is verified is module Canonical's; here a     *)
(* signature is the pair that made it, and it holds under that pair only.  *)
(***************************************************************************)
EXTENDS Tenancy, Naturals

CONSTANTS
  KeyNames,    \* what SIGNING_KEY_ID may be
  Downloads,   \* requests of clients, each its number
  MaxStarts,   \* bound: how often the server is started
  MaxSigned    \* bound: how many bundles are signed

VARIABLES
  serving,     \* "down", "up", or "closing" after a signal
  pair,        \* the key pair in memory, by the start that made it
  keyName,     \* its id
  shelf,       \* the bundle store: the envelope of each id
  signing,     \* bundles signed that are not stored yet
  signed,      \* how many were signed, their ids being as many
  published,   \* what clients read at /v1/evidence/keys
  download     \* each request: what it asks for, and its answer

keyVars == <<serving, pair, keyName, shelf, signing, signed, published, download>>

NotAsked == [at |-> "idle"]

SigningKeysInit ==
  /\ serving = "down" /\ pair = 0 /\ keyName = None
  /\ shelf = <<>> /\ signing = {} /\ signed = 0
  /\ published = {}
  /\ download = [d \in Downloads |-> NotAsked]

-----------------------------------------------------------------------------
(* The process *)

\* Seeded fault: the bundles are kept over a restart, the key is not.
StartOnDisk(name) ==
  /\ serving = "down" /\ pair < MaxStarts
  /\ serving' = "up"
  /\ pair' = pair + 1 /\ keyName' = name
  /\ UNCHANGED <<shelf, signing, signed, published, download>>

\* createInMemoryStores and InMemoryKeySource.generate.
Start(name) ==
  /\ serving = "down" /\ pair < MaxStarts
  /\ serving' = "up"
  /\ pair' = pair + 1 /\ keyName' = name
  /\ shelf' = <<>>
  /\ UNCHANGED <<signing, signed, published, download>>

\* SIGINT or SIGTERM: requests under way are answered, no new one is.
ShutdownSignalled ==
  /\ serving = "up"
  /\ serving' = "closing"
  /\ UNCHANGED <<pair, keyName, shelf, signing, signed, published, download>>

Asking == {d \in Downloads : download[d].at = "asked"}

\* What the process was doing ends with it.
Dies ==
  /\ serving' = "down"
  /\ signing' = {}
  /\ download' = [d \in Downloads |->
                   IF d \in Asking THEN [at |-> "failed"] ELSE download[d]]
  /\ UNCHANGED <<pair, keyName, shelf, signed, published>>

Exits == serving = "closing" /\ signing = {} /\ Asking = {} /\ Dies

Crashes == serving # "down" /\ Dies

-----------------------------------------------------------------------------
(* The routes *)

\* POST /v1/evidence/bundles, up to the signature and from there.
SignBundle ==
  /\ serving = "up" /\ signed < MaxSigned
  /\ signed' = signed + 1
  /\ signing' = signing \union {[id |-> signed + 1, keyId |-> keyName, by |-> pair]}
  /\ UNCHANGED <<serving, pair, keyName, shelf, published, download>>

StoreBundle(b) ==
  /\ serving # "down" /\ b \in signing
  /\ signing' = signing \ {b}
  /\ shelf' = [id \in DOMAIN shelf \union {b.id} |-> IF id = b.id THEN b ELSE shelf[id]]
  /\ UNCHANGED <<serving, pair, keyName, signed, published, download>>

\* GET /v1/evidence/keys.
PublishKeys ==
  /\ serving = "up"
  /\ published' = published \union {[keyId |-> keyName, of |-> pair]}
  /\ UNCHANGED <<serving, pair, keyName, shelf, signing, signed, download>>

\* GET /:id/offline and POST /:id/verify, of an id some client was told or kept.
RequestBundle(d, kind, id) ==
  /\ serving = "up" /\ download[d] = NotAsked
  /\ id <= signed
  /\ download' = [download EXCEPT ![d] = [at |-> "asked", kind |-> kind, id |-> id]]
  /\ UNCHANGED <<serving, pair, keyName, shelf, signing, signed, published>>

VerifiesUnder(envelope, publicKey) == envelope.by = publicKey

\* The key the server answers with, or by, is the one it has now; 404 for an id it has not.
Offline(envelope) == [envelope |-> envelope, keyId |-> keyName, publicKey |-> pair]

Respond(d) ==
  /\ serving # "down" /\ d \in Asking
  /\ LET q == download[d]
     IN  download' = [download EXCEPT ![d] =
           IF q.id \notin DOMAIN shelf THEN [at |-> "not found"]
           ELSE IF q.kind = "offline"
           THEN [at |-> "saved", file |-> Offline(shelf[q.id])]
           ELSE [at |-> "judged", valid |-> VerifiesUnder(shelf[q.id], pair)]]
  /\ UNCHANGED <<serving, pair, keyName, shelf, signing, signed, published>>

SigningKeysNext ==
  \/ \E name \in KeyNames : Start(name)
  \/ ShutdownSignalled \/ Exits \/ Crashes
  \/ SignBundle \/ PublishKeys
  \/ \E b \in signing : StoreBundle(b)
  \/ \E d \in Downloads :
       \/ \E kind \in {"offline", "verify"}, id \in 1..MaxSigned : RequestBundle(d, kind, id)
       \/ Respond(d)

SigningKeysSpec == SigningKeysInit /\ [][SigningKeysNext]_keyVars

-----------------------------------------------------------------------------
(* What a bundle is worth after the server has gone *)

\* Through any stops and starts, and whatever a client does between them: the server
\* finds every bundle it still has valid; a saved file holds under the key it carries
\* and names that key's id, and so does every key read at /v1/evidence/keys under which
\* it holds; an id is never answered with another bundle.
KeysInv ==
  \A d \in Downloads :
    LET q == download[d]
    IN  /\ q.at = "judged" => q.valid
        /\ q.at = "saved" =>
             /\ VerifiesUnder(q.file.envelope, q.file.publicKey)
             /\ q.file.envelope.keyId = q.file.keyId
             /\ \A k \in published :
                  VerifiesUnder(q.file.envelope, k.of) => k.keyId = q.file.envelope.keyId
             /\ \A e \in Downloads :
                  /\ download[e].at = "saved"
                  /\ download[e].file.envelope.id = q.file.envelope.id
                  => download[e].file = q.file
=============================================================================
