----------------------------- MODULE Manifests ------------------------------
(***************************************************************************)
(* The reproducibility manifests of evidence/reproducibility.ts, as POST   *)
(* /v1/runs builds them and POST /v1/runs/compare compares them.           *)
(*                                                                         *)
(* A hash is a record of what was hashed.  An image digest is a pin or a   *)
(* tag; the id and version of a verifier are sequences of characters.      *)
(***************************************************************************)
EXTENDS Naturals, Sequences

-----------------------------------------------------------------------------
(* Building a manifest *)

\* SHA-256 over the canonical JSON of a list: equal exactly for equal lists.
HashSplit(taskIds) == [sha256 |-> taskIds]

ManifestProblem(input) ==
  CASE ~input.environment.digest.pinned -> "environment.digest"
    [] \E field \in {input.model.identifier, input.taskSet.id, input.taskSet.version,
                     input.taskSet.split, input.isolationBackend} : field \in {"", " "} ->
         "required"
    [] input.verifier.id = <<>> \/ input.verifier.version = <<>> -> "required"
    [] input.taskSet.taskCount <= 0 -> "taskCount"
    [] input.toolchain = {} -> "toolchain"
    [] OTHER -> "none"

CreateManifest(input) ==
  IF ManifestProblem(input) # "none" THEN [error |-> ManifestProblem(input)]
  ELSE [error |-> "none", environment |-> input.environment, model |-> input.model,
        taskSet |-> input.taskSet, verifier |-> input.verifier, seed |-> input.seed,
        toolchain |-> input.toolchain, isolationBackend |-> input.isolationBackend]

\* Seeded fault: two versions of one task set hash alike.
ManifestInputVersionless(request) ==
  [environment |-> [reference |-> request.environmentId,
                    digest |-> request.environmentDigest],
   model |-> request.model,
   taskSet |-> [id |-> request.taskSetId, version |-> request.taskSetVersion,
                split |-> request.split, taskCount |-> 1,
                splitHash |-> HashSplit(<<request.taskSetId, request.split>>)],
   verifier |-> [id |-> request.verifierId, version |-> request.verifierVersion],
   seed |-> request.seed, toolchain |-> request.toolchain,
   isolationBackend |-> request.isolationBackend]

\* What POST /v1/runs makes of a request: one task, and the split named by its hash.
ManifestInput(request) ==
  [environment |-> [reference |-> request.environmentId,
                    digest |-> request.environmentDigest],
   model |-> request.model,
   taskSet |-> [id |-> request.taskSetId, version |-> request.taskSetVersion,
                split |-> request.split, taskCount |-> 1,
                splitHash |-> HashSplit(<<request.taskSetId, request.taskSetVersion,
                                          request.split>>)],
   verifier |-> [id |-> request.verifierId, version |-> request.verifierVersion],
   seed |-> request.seed, toolchain |-> request.toolchain,
   isolationBackend |-> request.isolationBackend]

-----------------------------------------------------------------------------
(* Comparing two *)

\* `${id}@${version}`: one text, which does not say where the id ends.
VerifierName(verifier) == verifier.id \o <<"@">> \o verifier.version

\* The fields that make two runs incomparable.
Differences(a, b) ==
  {field \in {"environment.digest", "taskSet.splitHash", "verifier.version",
              "model.sampling", "isolationBackend", "seed"} :
     \/ field = "environment.digest" /\ a.environment.digest # b.environment.digest
     \/ field = "taskSet.splitHash" /\ a.taskSet.splitHash # b.taskSet.splitHash
     \/ field = "verifier.version" /\ VerifierName(a.verifier) # VerifierName(b.verifier)
     \/ field = "model.sampling" /\ a.model.sampling # b.model.sampling
     \/ field = "isolationBackend" /\ a.isolationBackend # b.isolationBackend
     \/ field = "seed" /\ a.seed # b.seed}

Comparable(a, b) == [comparable |-> Differences(a, b) = {}, differences |-> Differences(a, b)]

-----------------------------------------------------------------------------

\* An accepted manifest names a pinned image and everything a reader would ask for, and
\* two submissions are comparable, whichever is named first, exactly when they agree on
\* the image, the task set with its version and split, the verifier, the sampling, the
\* backend and the seed: a verifier id or version that holds an "@" aside.
ManifestsSound(one, other) ==
  LET a == CreateManifest(ManifestInput(one))
      b == CreateManifest(ManifestInput(other))
      Unambiguous(request) ==
        "@" \notin {request.verifierId[i] : i \in DOMAIN request.verifierId}
      same == /\ one.environmentDigest = other.environmentDigest
              /\ one.taskSetId = other.taskSetId /\ one.taskSetVersion = other.taskSetVersion
              /\ one.split = other.split /\ one.model.sampling = other.model.sampling
              /\ one.verifierId = other.verifierId
              /\ one.verifierVersion = other.verifierVersion
              /\ one.isolationBackend = other.isolationBackend /\ one.seed = other.seed
  IN  /\ a.error = "none" => one.environmentDigest.pinned /\ one.toolchain # {}
      /\ a.error = "none" /\ b.error = "none" =>
           /\ Comparable(a, b) = Comparable(b, a)
           /\ same => Comparable(a, b).comparable
           /\ Comparable(a, b).comparable /\ Unambiguous(one) /\ Unambiguous(other) => same

=============================================================================
