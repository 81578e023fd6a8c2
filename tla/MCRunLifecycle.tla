--------------------------- MODULE MCRunLifecycle ---------------------------
(***************************************************************************)
(* Small instances of RunLifecycle, and of its refinement, for TLC.        *)
(***************************************************************************)
EXTENDS RunLifecycle

\* Workers, tenants and cancel requests are interchangeable: no definition
\* tells two of them apart.  Used only where no liveness is checked.
Symmetry == Permutations(Workers) \union Permutations(Tenants)
              \union Permutations(CancelCalls) \union Permutations(Runs)

=============================================================================
