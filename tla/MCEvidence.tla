----------------------------- MODULE MCEvidence -----------------------------
(***************************************************************************)
(* The evidence handlers for TLC.  Bundle requests are interchangeable,    *)
(* and so are tenants.  The three kinds of request never read each other's *)
(* state, and what a bundle request appends OtherEvent appends as well, so *)
(* OneKind lets TLC explore one kind at a time.                            *)
(***************************************************************************)
EXTENDS Evidence, TLC

EvidenceSymmetry == Permutations(Bundlings) \union Permutations(Tenants)

Asking == {f \in {"bundling", "audit", "reading"} :
  CASE f = "bundling" -> \E b \in Bundlings : bundling[b].at # "idle"
    [] f = "audit"    -> \E a \in Auditors : audit[a].at # "idle"
    [] OTHER          -> \E q \in Readers : reading[q].at # "idle"}

OneKind == Cardinality(Asking) <= 1
=============================================================================
