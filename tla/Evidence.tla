------------------------------ MODULE Evidence ------------------------------
(***************************************************************************)
(* The handlers of api/app.ts that turn the audit log into evidence:       *)
(* POST /v1/evidence/bundles with createBundle of evidence-bundle.ts, the  *)
(* bundle store, and the root, inclusion and consistency routes; beside    *)
(* them, everybody else who appends; and the offline verifier of the CLI.  *)
(*                                                                         *)
(* Each await ends an action.  A handler reads the log several times and   *)
(* another one may append in between: two requests that arrive together    *)
(* interleave this way even over the in-memory store.                      *)
(***************************************************************************)
EXTENDS AuditLog, FiniteSets

CONSTANTS Bundlings,   \* POST /v1/evidence/bundles requests, each its bundleId
          Auditors,    \* clients that keep a root and later ask for a proof
          Readers,     \* GET /v1/audit/:seq/inclusion-proof requests
          Probed,      \* runs whose record carries an executionEnvironment
          None,        \* an absent run, tenant or root
          Server       \* actor of every append of this module

ASSUME PayloadAssumption == Bundlings \subseteq Payloads \ Formless
ASSUME ProbedAssumption == Probed \subseteq Subjects
ASSUME ServerAssumption ==
  /\ Server \in Actors /\ {"event", "evidence.bundled"} \subseteq Actions
  /\ Absent \notin {Server, "event", "evidence.bundled"} \union Tenants

VARIABLES
  owner,      \* the tenant of each run
  bundling,   \* the locals of each bundle request
  bundles,    \* the bundle store, a map from bundleId
  audit,      \* what each auditor keeps and was answered
  reading     \* the locals and the answer of each reader

evidenceVars == <<logVars, owner, bundling, bundles, audit, reading>>

Runs == Subjects

Idle == [at |-> "idle", run |-> None, tenant |-> None, machine |-> FALSE,
         entries |-> <<>>, root |-> None, proofs |-> <<>>, size |-> 0]

EvidenceInit ==
  /\ LogInit
  /\ owner \in [Runs -> Tenants]
  /\ bundling = [b \in Bundlings |-> Idle]
  /\ bundles = <<>>
  /\ audit = [a \in Auditors |-> [at |-> "idle"]]
  /\ reading = [q \in Readers |-> [at |-> "idle"]]

Event(action, r, payload) ==
  [action |-> action, actor |-> Server, tenantId |-> owner[r], subject |-> r,
   payload |-> payload]

\* Any other handler or worker appending about a run.  Room is left below
\* MaxEntries for the bundle requests' own entries.
OtherEvent(r) ==
  /\ Len(entries) < MaxEntries - Cardinality(Bundlings)
  /\ \E p \in Payloads \ (Formless \union Bundlings) : AppendEntry(Event("event", r, p))
  /\ UNCHANGED <<owner, bundling, bundles, audit, reading>>

-----------------------------------------------------------------------------
(* POST /v1/evidence/bundles *)

Put(b, locals) == bundling' = [bundling EXCEPT ![b] = locals]

\* 404: no such run in the caller's tenant.
BundleUnknown(b, r, t) ==
  /\ bundling[b].at = "idle"
  /\ owner[r] # t
  /\ Put(b, [Idle EXCEPT !.at = "done"])
  /\ UNCHANGED <<logVars, owner, bundles, audit, reading>>

\* Seeded fault: the run that was looked up is not kept.
BundleFindForgotten(b, r, t) ==
  /\ bundling[b].at = "idle"
  /\ owner[r] = t
  /\ Put(b, [Idle EXCEPT !.at = "found", !.tenant = t])
  /\ UNCHANGED <<logVars, owner, bundles, audit, reading>>

BundleFind(b, r, t) ==
  /\ bundling[b].at = "idle"
  /\ owner[r] = t
  /\ Put(b, [Idle EXCEPT !.at = "found", !.run = r, !.tenant = t,
                         !.machine = r \in Probed])
  /\ UNCHANGED <<logVars, owner, bundles, audit, reading>>

\* 422 if the run has no entries.
BundleRead(b) ==
  /\ bundling[b].at = "found"
  /\ LET slice == EntriesForSubject(bundling[b].tenant, bundling[b].run)
     IN  IF slice = <<>> THEN Put(b, [Idle EXCEPT !.at = "done"])
         ELSE Put(b, [bundling[b] EXCEPT !.at = "read", !.entries = slice])
  /\ UNCHANGED <<logVars, owner, bundles, audit, reading>>

\* resolveRetention throws on rules that conflict; otherwise the root is read.
BundleRoot(b) ==
  /\ bundling[b].at = "read"
  /\ \/ Put(b, [Idle EXCEPT !.at = "done"])
     \/ Put(b, [bundling[b] EXCEPT !.at = "rooted", !.root = Root(leaves)])
  /\ UNCHANGED <<logVars, owner, bundles, audit, reading>>

Seqs(es) == {es[i].seq : i \in DOMAIN es}

BundleProve(b) ==
  /\ bundling[b].at = "rooted"
  /\ Put(b, [bundling[b] EXCEPT !.at = "proved", !.proofs =
       [s \in Seqs(bundling[b].entries) |-> InclusionProof(leaves, s)]])
  /\ UNCHANGED <<logVars, owner, bundles, audit, reading>>

BundleSize(b) ==
  /\ bundling[b].at = "proved"
  /\ Put(b, [bundling[b] EXCEPT !.at = "sized", !.size = Len(leaves)])
  /\ UNCHANGED <<logVars, owner, bundles, audit, reading>>

\* createBundle refuses to misstate its own coverage.
Signable(l) ==
  /\ l.entries # <<>>
  /\ VerifyEntrySlice(l.entries).valid
  /\ Seqs(l.entries) \subseteq DOMAIN l.proofs

\* The contents it assembles.  The executionEnvironment it is handed is not
\* among them.
Contents(l) ==
  [run |-> l.run, tenant |-> l.tenant, entries |-> l.entries, logRoot |-> l.root,
   logSize |-> l.size, inclusionProofs |-> l.proofs, executionEnvironment |-> FALSE]

\* Seeded fault: the record is written before the bundle is stored.
BundleSignRecordedFirst(b) ==
  /\ bundling[b].at = "sized"
  /\ Put(b, [bundling[b] EXCEPT !.at = "stored"])
  /\ UNCHANGED <<logVars, owner, bundles, audit, reading>>

\* 409 if it refuses, or if the manifest has no canonical form to sign.
BundleSign(b) ==
  /\ bundling[b].at = "sized"
  /\ \/ Put(b, [Idle EXCEPT !.at = "done"])
     \/ Signable(bundling[b]) /\ Put(b, [bundling[b] EXCEPT !.at = "signed"])
  /\ UNCHANGED <<logVars, owner, bundles, audit, reading>>

BundleStore(b) ==
  /\ bundling[b].at = "signed"
  /\ bundles' = [x \in DOMAIN bundles \union {b} |->
                  IF x = b THEN Contents(bundling[b]) ELSE bundles[x]]
  /\ Put(b, [bundling[b] EXCEPT !.at = "stored"])
  /\ UNCHANGED <<logVars, owner, audit, reading>>

BundleRecord(b) ==
  /\ bundling[b].at = "stored"
  /\ AppendEntry(Event("evidence.bundled", bundling[b].run, b))
  /\ Put(b, [bundling[b] EXCEPT !.at = "done"])
  /\ UNCHANGED <<owner, bundles, audit, reading>>

-----------------------------------------------------------------------------
(* GET /v1/audit/root, /consistency-proof and /:seq/inclusion-proof *)

KeepRoot(a) ==
  /\ audit[a].at = "idle"
  /\ audit' = [audit EXCEPT ![a] =
       [at |-> "anchored", size |-> Len(leaves), root |-> Root(leaves)]]
  /\ UNCHANGED <<logVars, owner, bundling, bundles, reading>>

ConsistencyRoot(a) ==
  /\ audit[a].at = "anchored"
  /\ audit' = [audit EXCEPT ![a] =
       IF audit[a].size > Len(leaves) THEN [at |-> "refused"]
       ELSE [at |-> "asked", size |-> audit[a].size, root |-> audit[a].root,
             currentRoot |-> Root(leaves), currentSize |-> Len(leaves)]]
  /\ UNCHANGED <<logVars, owner, bundling, bundles, reading>>

ConsistencyProve(a) ==
  /\ audit[a].at = "asked"
  /\ audit' = [audit EXCEPT ![a] =
       [at |-> "answered", root |-> audit[a].root,
        currentRoot |-> audit[a].currentRoot, currentSize |-> audit[a].currentSize,
        proof |-> ConsistencyProof(leaves, audit[a].size)]]
  /\ UNCHANGED <<logVars, owner, bundling, bundles, reading>>

\* Seeded fault: the lookup is not scoped to the tenant.
ReadEntryUnscoped(q, t, seq) ==
  /\ reading[q].at = "idle"
  /\ seq < Len(entries)
  /\ reading' = [reading EXCEPT ![q] =
       [at |-> "found", tenant |-> t, seq |-> seq, leaf |-> LeafFor(entries[seq + 1])]]
  /\ UNCHANGED <<logVars, owner, bundling, bundles, audit>>

\* 404 beyond the log and for another tenant's entry alike.
ReadEntry(q, t, seq) ==
  /\ reading[q].at = "idle"
  /\ reading' = [reading EXCEPT ![q] =
       IF seq < Len(entries) /\ entries[seq + 1].tenantId = t
       THEN [at |-> "found", tenant |-> t, seq |-> seq, leaf |-> LeafFor(entries[seq + 1])]
       ELSE [at |-> "refused"]]
  /\ UNCHANGED <<logVars, owner, bundling, bundles, audit>>

\* Promise.all reads proof and root in one turn.
ProveEntry(q) ==
  /\ reading[q].at = "found"
  /\ reading' = [reading EXCEPT ![q] =
       [at |-> "answered", tenant |-> reading[q].tenant, leaf |-> reading[q].leaf,
        proof |-> InclusionProof(leaves, reading[q].seq), root |-> Root(leaves)]]
  /\ UNCHANGED <<logVars, owner, bundling, bundles, audit>>

-----------------------------------------------------------------------------

BundleStep(b) ==
  \/ \E r \in Runs, t \in Tenants : BundleUnknown(b, r, t) \/ BundleFind(b, r, t)
  \/ BundleRead(b)
  \/ BundleRoot(b)
  \/ BundleProve(b)
  \/ BundleSize(b)
  \/ BundleSign(b)
  \/ BundleStore(b)
  \/ BundleRecord(b)

AuditStep(a) == KeepRoot(a) \/ ConsistencyRoot(a) \/ ConsistencyProve(a)

ReadStep(q) ==
  \/ \E t \in Tenants, seq \in 0..MaxEntries : ReadEntry(q, t, seq)
  \/ ProveEntry(q)

EvidenceNext ==
  \/ \E r \in Runs : OtherEvent(r)
  \/ \E b \in Bundlings : BundleStep(b)
  \/ \E a \in Auditors : AuditStep(a)
  \/ \E q \in Readers : ReadStep(q)

EvidenceSpec == EvidenceInit /\ [][EvidenceNext]_evidenceVars

-----------------------------------------------------------------------------
(* POST /v1/evidence/bundles/:id/verify, and what a reviewer runs offline.   *)
(* The signature is taken to be genuine, and the manifest and retention      *)
(* checks repeat what createBundle computed or refused.                      *)

\* Seeded fault: the proofs are not checked against the root cited.
VerifyBundleSlice(bundle) == VerifyEntrySlice(bundle.entries).valid

VerifyBundle(bundle) ==
  /\ VerifyEntrySlice(bundle.entries).valid
  /\ \A i \in DOMAIN bundle.entries :
       LET e == bundle.entries[i]
       IN  /\ e.seq \in DOMAIN bundle.inclusionProofs
           /\ VerifyInclusion(bundle.inclusionProofs[e.seq], LeafFor(e), bundle.logRoot)
                = "valid"

-----------------------------------------------------------------------------
(* What the evidence is worth *)

Stored == DOMAIN bundles

\* The shape of what handlers and clients hold.
EvidenceTypeOK ==
  /\ LogTypeOK
  /\ owner \in [Runs -> Tenants]
  /\ \A b \in Bundlings :
       /\ bundling[b].at \in {"idle", "found", "read", "rooted", "proved", "sized",
                              "signed", "stored", "done"}
       /\ bundling[b].at \notin {"idle", "done"} => bundling[b].run \in Runs
       /\ bundling[b].size \in 0..MaxEntries
  /\ \A a \in Auditors : audit[a].at \in {"idle", "anchored", "asked", "answered"}
  /\ \A q \in Readers : reading[q].at \in {"idle", "found", "answered", "refused"}

\* "A bundle that quietly omits a proof still looks complete": what a bundle
\* holds is everything its tenant recorded about the run up to some moment,
\* unchanged since, and nothing of any other tenant.  Its root, its proofs and its
\* size are read at three moments: verifyBundle accepts it exactly when the root is
\* that of the tree the proofs were taken from, so a torn bundle never passes.
BundleGenuine ==
  \A b \in Stored :
    LET bundle == bundles[b]
        now    == Chosen(entries, {i \in DOMAIN entries :
                    entries[i].tenantId = owner[bundle.run] /\ entries[i].subject = bundle.run})
    IN  /\ bundle.tenant = owner[bundle.run]
        /\ bundle.entries # <<>> /\ IsPrefix(bundle.entries, now)
        /\ DOMAIN bundle.inclusionProofs = Seqs(bundle.entries)
        /\ \E n \in 1..Len(entries) :
             /\ bundle.logRoot = Root(Before(n))
             /\ bundle.entries = Chosen(now, {i \in DOMAIN now :
                                   now[i].seq <= Last(bundle.entries).seq})
             /\ Last(bundle.entries).seq < n
        /\ VerifyBundle(bundle) <=>
             \A s \in DOMAIN bundle.inclusionProofs :
               bundle.logRoot = Root(Before(bundle.inclusionProofs[s].treeSize))

\* The consistency route reads the root before it computes the proof: the auditor
\* accepts its answer exactly when the proof leads to the size it names.  (From the
\* empty log there is nothing to prove.)  The inclusion route reads proof and root in
\* one turn, after the entry: its answer is good whatever was appended in between,
\* and about an entry of the caller's tenant.
AnswerJudged ==
  /\ \A a \in Auditors : audit[a].at = "answered" =>
       LET answer == audit[a]
       IN  VerifyConsistency(answer.proof, answer.root, answer.currentRoot) = "valid" <=>
             answer.proof.firstSize = 0 \/ answer.proof.secondSize = answer.currentSize
  /\ \A q \in Readers : reading[q].at = "answered" =>
       LET answer == reading[q]
       IN  /\ VerifyInclusion(answer.proof, answer.leaf, answer.root) = "valid"
           /\ entries[answer.proof.leafIndex + 1].tenantId = answer.tenant

\* The log never mentions a bundle the store does not have, and mentions none
\* twice: the record is written after the store, by the request that minted it.
BundledRecorded ==
  \A i \in DOMAIN entries : entries[i].action = "evidence.bundled" =>
    /\ entries[i].payload \in Stored
    /\ \A j \in DOMAIN entries :
         entries[j].action = "evidence.bundled" /\ entries[j].payload = entries[i].payload
           => i = j

\* Why BundledRecorded holds: a request that has stored its bundle and not
\* recorded it is nowhere in the log, one that is recorded is done, and a request
\* under way has a run of the store's.
BundlingInv ==
  /\ owner \in [Runs -> Tenants]
  /\ DOMAIN bundling = Bundlings
  /\ \A b \in Bundlings :
       /\ {"at", "run"} \subseteq DOMAIN bundling[b]
       /\ bundling[b].at \notin {"idle", "done"} => bundling[b].run \in Runs
       /\ bundling[b].at = "stored" => b \in Stored
  /\ \A i \in DOMAIN entries : entries[i].action = "evidence.bundled" =>
       /\ entries[i].payload \in Bundlings
       /\ bundling[entries[i].payload].at = "done"
  /\ BundledRecorded

-----------------------------------------------------------------------------
(* The offline verifier of the CLI (cli/src/verify-local.ts): what `evidence verify`  *)
(* says of a downloaded file.  The signature and the manifest are left out here too.  *)

EntryDigestsHold(es) ==
  \A i \in DOMAIN es : EntryDigest(Unsealed(es[i])) = es[i].entryHash

\* Each entry after the one before it, in the order they are listed.
Ordered(es) == \A i \in DOMAIN es : i > 1 => es[i].seq > es[i - 1].seq

\* Seeded fault: an entry without a proof is skipped.
ProvablyInOrSkipped(entry, proofs, root) ==
  entry.seq \in DOMAIN proofs =>
    VerifyInclusion(proofs[entry.seq], LeafFor(entry), root) = "valid"

ProvablyIn(entry, proofs, root) ==
  /\ entry.seq \in DOMAIN proofs
  /\ VerifyInclusion(proofs[entry.seq], LeafFor(entry), root) = "valid"

\* Every check is made, whatever the others found.
VerifyLocalBundle(bundle) ==
  LET checks == [entryDigests |-> EntryDigestsHold(bundle.entries),
                 ordering |-> Ordered(bundle.entries),
                 inclusion |-> \A i \in DOMAIN bundle.entries :
                   ProvablyIn(bundle.entries[i], bundle.inclusionProofs, bundle.logRoot)]
  IN  \A check \in DOMAIN checks : checks[check]

\* The entries tampered with in one place: one edited, with its hash redone or not, dropped,
\* repeated or swapped with the next.
OtherEntries(es) ==
  (UNION {UNION {{[es EXCEPT ![i].payload = p], [es EXCEPT ![i] = Resealed(@, p)]} :
                   p \in Otherwise(es[i].payload)} : i \in DOMAIN es})
    \union {RemoveAt(es, i) : i \in DOMAIN es}
    \union {InsertAt(es, i, es[i]) : i \in DOMAIN es}
    \union {[es EXCEPT ![i] = es[i + 1], ![i + 1] = es[i]] : i \in 1..(Len(es) - 1)}

\* The proofs: one dropped, cut short or exchanged for another entry's.
OtherProofs(proofs) ==
  {[t \in DOMAIN proofs \ {s} |-> proofs[t]] : s \in DOMAIN proofs}
    \union {[proofs EXCEPT ![s].path = Front(@)] :
              s \in {u \in DOMAIN proofs : proofs[u].path # <<>>}}
    \union (UNION {{[proofs EXCEPT ![s] = proofs[t]] : t \in DOMAIN proofs} : s \in DOMAIN proofs})

\* A bundle with the one or the other, or with another root.
DoctoredBundles(bundle) ==
  {[bundle EXCEPT !.entries = es] : es \in OtherEntries(bundle.entries)}
    \union {[bundle EXCEPT !.inclusionProofs = proofs] : proofs \in OtherProofs(bundle.inclusionProofs)}
    \union {[bundle EXCEPT !.logRoot = Root(Before(n))] : n \in 0..Len(entries)}

\* The offline verifier of the CLI, which shares no code with the server's, gives the same
\* verdict on every bundle and on every tampered copy of one, and neither accepts an entry
\* that the log does not hold.  A stored bundle never changes, so it is looked at once, on
\* the way to being recorded.
LocalVerdictAgrees ==
  \A b \in {c \in Stored : bundling[c].at = "stored"} :
    \A bundle \in {bundles[b]} \union DoctoredBundles(bundles[b]) :
      /\ VerifyLocalBundle(bundle) <=> VerifyBundle(bundle)
      /\ VerifyLocalBundle(bundle) =>
           \A i \in DOMAIN bundle.entries : \E j \in DOMAIN entries :
             entries[j] = bundle.entries[i]

-----------------------------------------------------------------------------
(* What the documentation says and the code does not do *)

\* evidence-bundle.ts: logRoot is the "Merkle root of the whole log at the time
\* the bundle was cut"; "given only the bundle and a public key, a reviewer can
\* confirm" that the entries belong to it.
BundleStandsAlone ==
  \A b \in Stored :
    /\ VerifyBundle(bundles[b])
    /\ bundles[b].logRoot = Root(Before(bundles[b].logSize))

=============================================================================
