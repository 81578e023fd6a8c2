----------------------------- MODULE Provenance -----------------------------
(***************************************************************************)
(* What was evaluated and where (provenance/identity.ts), and the signed   *)
(* passport of a result (provenance/passport.ts).                          *)
(*                                                                         *)
(* A digest is a record of what was hashed.  An absent field is "", as it  *)
(* is when hashed.  Toolkit versions are pairs in the order they were      *)
(* inserted.  Rates are fractions <<n, d>>, interval ends hundredths.      *)
(***************************************************************************)
EXTENDS Integers, Sequences, SequencesExt, FiniteSets

-----------------------------------------------------------------------------
(* Identities *)

\* Seeded fault: a repository is taken for the weights in it.
ModelDigestByName(m) ==
  [address |-> "model-identity:v1", origin |-> m.origin, repository |-> m.repository]

ModelDigest(m) ==
  [address |-> "model-identity:v1", origin |-> m.origin, repository |-> m.repository,
   revision |-> m.revision, commitSha |-> m.commitSha, weights |-> m.weightsDigest,
   tokenizer |-> <<m.tokenizerRepository, m.tokenizerRevision>>]

\* How firmly a model is pinned; the reason says the same in words.
PinningStrength(m) ==
  CASE m.weightsDigest # "" -> "exact"
    [] m.weightsDigest = "" /\ m.commitSha # "" -> "revision"
    [] m.weightsDigest = "" /\ m.commitSha = "" /\ m.revision # "" -> "alias"
    [] OTHER -> "unpinned"

CanonicalKeyValues(pairs) == SortSeq(pairs, LAMBDA p, q : p[1] < q[1])

NoAccelerator == [vendor |-> "", model |-> "", count |-> 0, toolkits |-> <<>>]

DeploymentDigest(d) ==
  [address |-> "deployment-identity:v1", provider |-> d.provider, served |-> d.servedModelId,
   runtime |-> d.runtime, vendor |-> d.accelerator.vendor, model |-> d.accelerator.model,
   count |-> d.accelerator.count, toolkits |-> CanonicalKeyValues(d.accelerator.toolkits),
   endpoint |-> d.endpoint]

ExecutionDigest(e) ==
  [address |-> "execution:v1", model |-> ModelDigest(e.model),
   deployment |-> DeploymentDigest(e.deployment)]

IsSameModel(a, b) == ModelDigest(a.model) = ModelDigest(b.model)
IsSameExecution(a, b) == ExecutionDigest(a) = ExecutionDigest(b)

\* The dimensions a reader is told about.  The provider, the served name, the engine's
\* version, the container, the parallelism, the count and the toolkits are not among them.
DiffExecutions(a, b) ==
  LET x == a.deployment
      y == b.deployment
  IN  {dimension \in {"model", "runtime", "precision", "quantization", "hardware", "endpoint"} :
         \/ dimension = "model" /\ ~IsSameModel(a, b)
         \/ dimension = "runtime" /\ x.runtime.engine # y.runtime.engine
         \/ dimension = "precision" /\ x.runtime.precision # y.runtime.precision
         \/ dimension = "quantization" /\ x.runtime.quantization # y.runtime.quantization
         \/ /\ dimension = "hardware"
            /\ <<x.accelerator.vendor, x.accelerator.model>> #
               <<y.accelerator.vendor, y.accelerator.model>>
         \/ dimension = "endpoint" /\ x.endpoint # y.endpoint}

-----------------------------------------------------------------------------
(* Issuing *)

\* A Merkle root that is not empty, of a tree that is not.
HasEvidence(evidence) == evidence.merkleRoot # "" /\ evidence.treeSize > 0

DeriveProvenanceClass(input) ==
  CASE input.selfReported -> "SELF_REPORTED"
    [] ~input.selfReported /\ ~HasEvidence(input.evidence) -> "COMMUNITY_REPORTED"
    [] OTHER -> "AGENT_EVAL_VERIFIED"

MeasurementCaveats(input) ==
  {caveat \in {"one trial", "few tasks", "wide interval", "moving model", "unknown cost"} :
     \/ caveat = "one trial" /\ input.metrics.trials = 1
     \/ caveat = "few tasks" /\ input.metrics.tasksAttempted < 30
     \/ caveat = "wide interval" /\ input.statistics.high - input.statistics.low > 20
     \/ caveat = "moving model" /\ PinningStrength(input.model) \in {"alias", "unpinned"}
     \/ caveat = "unknown cost" /\ ~input.costKnown}

\* A signature stands for the payload and the key it was made with.
Signed(payload, keyId) ==
  [payload |-> payload, signature |-> [keyId |-> keyId, over |-> payload]]

IssuePassport(input, keyId) ==
  LET class == DeriveProvenanceClass(input)
  IN  Signed([passportVersion |-> "1.0", model |-> input.model,
              deployment |-> input.deployment,
              digests |-> [model |-> ModelDigest(input.model),
                           deployment |-> DeploymentDigest(input.deployment)],
              metrics |-> input.metrics, statistics |-> input.statistics,
              evidence |-> input.evidence, provenanceClass |-> class,
              pinning |-> PinningStrength(input.model),
              caveats |-> MeasurementCaveats(input) \union
                {caveat \in {"self-reported", "no evidence"} :
                   \/ caveat = "self-reported" /\ class = "SELF_REPORTED"
                   \/ caveat = "no evidence" /\ class = "COMMUNITY_REPORTED"}],
             keyId)

-----------------------------------------------------------------------------
(* Verifying *)

SupportedClass(payload) ==
  IF HasEvidence(payload.evidence) THEN "AGENT_EVAL_VERIFIED" ELSE "COMMUNITY_REPORTED"

RateConsistent(m) ==
  m.tasksAttempted = 0 \/ m.successRate[1] * m.tasksAttempted = m.tasksSucceeded * m.successRate[2]

IntervalSane(s) == s.low <= s.high /\ s.low >= 0 /\ s.high <= 100

\* The checks that fail.  An unsupported version ends them early.
FailedChecks(passport, publicKey) ==
  LET payload == passport.payload
      unsigned == passport.signature # [keyId |-> publicKey, over |-> payload]
  IN  IF payload.passportVersion # "1.0"
      THEN {"version"} \union (IF unsigned THEN {"signature"} ELSE {})
      ELSE {check \in {"signature", "model_digest", "deployment_digest", "provenance_class",
                       "metrics_consistency", "interval_sanity"} :
              \/ check = "signature" /\ unsigned
              \/ check = "model_digest" /\ ModelDigest(payload.model) # payload.digests.model
              \/ /\ check = "deployment_digest"
                 /\ DeploymentDigest(payload.deployment) # payload.digests.deployment
              \/ /\ check = "provenance_class"
                 /\ payload.provenanceClass = "AGENT_EVAL_VERIFIED"
                 /\ ~HasEvidence(payload.evidence)
              \/ check = "metrics_consistency" /\ ~RateConsistent(payload.metrics)
              \/ check = "interval_sanity" /\ ~IntervalSane(payload.statistics)}

VerifyPassport(passport, publicKey) ==
  [valid |-> FailedChecks(passport, publicKey) = {},
   supportedClass |-> IF passport.payload.passportVersion # "1.0" THEN "COMMUNITY_REPORTED"
                      ELSE SupportedClass(passport.payload)]

\* Made of the execution, the benchmark and the moment.
PassportId(execution, benchmarkDigest, issuedAt) ==
  [address |-> "passport-id:v1", execution |-> execution, benchmark |-> benchmarkDigest,
   at |-> issuedAt]

-----------------------------------------------------------------------------
(* What a passport promises *)

Strength == [SELF_REPORTED |-> 1, COMMUNITY_REPORTED |-> 2, AGENT_EVAL_VERIFIED |-> 3]

\* The weights two identities name are the same.
SameWeights(m, n) ==
  \A field \in {"origin", "repository", "revision", "commitSha", "weightsDigest",
                "tokenizerRepository", "tokenizerRevision"} : m[field] = n[field]

\* Reordering the toolkits of a host does not make it another.
SameHost(d, e) ==
  /\ \A field \in {"provider", "servedModelId", "runtime", "endpoint"} : d[field] = e[field]
  /\ \A field \in {"vendor", "model", "count"} : d.accelerator[field] = e.accelerator[field]
  /\ ToSet(d.accelerator.toolkits) = ToSet(e.accelerator.toolkits)

\* A passport verifies under its key exactly when its numbers hold together, and never
\* claims more than its evidence supports.  Nobody without the key can change a word of it,
\* and not even the holder of the key ("a correctly signed false claim") can move the
\* result to other weights, to another host, to a better class or to another success rate.
PassportHonest(input, other, keyId, otherKey) ==
  LET passport == IssuePassport(input, keyId)
      payload == passport.payload
      claims == {[payload EXCEPT !.model = other.model],
                 [payload EXCEPT !.deployment = other.deployment],
                 [payload EXCEPT !.provenanceClass = "AGENT_EVAL_VERIFIED"],
                 [payload EXCEPT !.metrics.tasksSucceeded = @ + 1],
                 [payload EXCEPT !.passportVersion = "1.1"]}
      Holds(claim) ==
        /\ SameWeights(claim.model, payload.model)
        /\ SameHost(claim.deployment, payload.deployment)
        /\ Strength[claim.provenanceClass] <= Strength[SupportedClass(payload)]
        /\ \/ claim.metrics.tasksSucceeded = payload.metrics.tasksSucceeded
           \/ payload.metrics.tasksAttempted = 0
        /\ claim.passportVersion = "1.0"
  IN  /\ VerifyPassport(passport, keyId).valid <=>
           RateConsistent(input.metrics) /\ IntervalSane(input.statistics)
      /\ Strength[payload.provenanceClass] <=
           Strength[VerifyPassport(passport, keyId).supportedClass]
      /\ VerifyPassport(passport, otherKey).valid => otherKey = keyId
      /\ \A claim \in claims :
           /\ VerifyPassport([passport EXCEPT !.payload = claim], keyId).valid =>
                claim = payload
           /\ /\ VerifyPassport(passport, keyId).valid
              /\ VerifyPassport(Signed(claim, keyId), keyId).valid
              => Holds(claim)

\* Two executions are the same exactly when nothing that identifies them differs, and what
\* a reader is told apart is never one execution.
ExecutionsToldApart(a, b) ==
  /\ IsSameModel(a, b) <=> SameWeights(a.model, b.model)
  /\ IsSameExecution(a, b) <=>
       SameWeights(a.model, b.model) /\ SameHost(a.deployment, b.deployment)
  /\ DiffExecutions(a, b) # {} => ~IsSameExecution(a, b)
  /\ DiffExecutions(a, b) = DiffExecutions(b, a)
  /\ IsSameModel(a, b) => PinningStrength(a.model) = PinningStrength(b.model)

=============================================================================
