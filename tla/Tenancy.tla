------------------------------ MODULE Tenancy ------------------------------
(***************************************************************************)
(* What the stores of trials and approvals share: every method takes a     *)
(* tenant, and a record of another tenant reads as null.                   *)
(***************************************************************************)
CONSTANTS Tenants,
          ApprovalIds,
          None          \* an absent tenant, approval or reviewer

ASSUME TenancyAssumption == None \notin Tenants \union ApprovalIds

\* The record a tenant gets for an id, or the null it gets in its place.
Seen(record, tenant, null) == IF record.tenant = tenant THEN record ELSE null

=============================================================================
