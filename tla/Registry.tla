------------------------------ MODULE Registry ------------------------------
(***************************************************************************)
(* The model registry of models/registry.ts: per tenant and model id, a    *)
(* list of revisions, oldest first.                                        *)
(*                                                                         *)
(* register and update run to their end; recordProbe awaits the read and   *)
(* then its own update before it sets the resolved id, so it is three      *)
(* actions.  A configuration is what the fingerprint covers; the id a      *)
(* provider reported is the alias it was asked for and the version that    *)
(* answered.                                                               *)
(***************************************************************************)
EXTENDS Tenancy, Naturals, Sequences

CONSTANTS ModelIds,
          DeploymentTypes, \* those registered
          Endpoints,       \* the kinds of baseUrl given
          Aliases,         \* modelIdentifier: what a provider is asked for
          Versions,        \* what an alias may point at
          Probes,          \* calls of recordProbe, each made once
          MaxRevisions     \* bound on the revisions of one model

ASSUME RegistryAssumption ==
  /\ DeploymentTypes \subseteq
       {"CLOUD_API", "SELF_HOSTED", "LOCAL", "OPENAI_COMPATIBLE", "REMOTE_ENDPOINT"}
  /\ Endpoints \subseteq {"public", "loopback", "metadata", "other scheme", "not a URL"}
  /\ "" \notin Aliases
  /\ None \notin DeploymentTypes \union Endpoints \union Aliases \union {""}
  /\ None \notin [alias: Aliases, version: Versions]
  /\ MaxRevisions \in Nat \ {0}

VARIABLES
  revisions,   \* the store: per tenant and model, its revisions
  probes,      \* where each recordProbe is, and its locals
  overwritten  \* history: models on which one probe replaced another's revision

registryVars == <<revisions, probes, overwritten>>

-----------------------------------------------------------------------------
(* What is registered *)

\* "For a managed API the vendor owns the deployment, so the URL adds nothing."
EndpointIsIdentity(deployment) == deployment # "CLOUD_API"

\* Metadata services and schemes other than http are refused, loopback unless
\* the deployment allows it.
AssertSafeEndpoint(url, allowLoopback) ==
  url = "public" \/ (url = "loopback" /\ allowLoopback)

Configurations ==
  [deploymentType: DeploymentTypes, modelIdentifier: Aliases \union {""},
   baseUrl: Endpoints \union {None}]

Validate(config) ==
  /\ config.modelIdentifier # ""
  /\ EndpointIsIdentity(config.deploymentType) => config.baseUrl # None
  /\ config.baseUrl # None => AssertSafeEndpoint(config.baseUrl, TRUE)

Reports == [alias: Aliases, version: Versions]

Revision ==
  [config: {c \in Configurations : Validate(c)}, revision: 1..MaxRevisions,
   resolvedModelId: Reports \union {None}, source: {"unknown", "operator", "probed"},
   supersededAt: {"undefined", "date"}]

ASSUME NoneIsNoRevision == None \notin Revision

\* The fields that change what is measured: the endpoint only where it does.
ModelFingerprint(r) ==
  <<r.config.deploymentType, r.config.modelIdentifier, r.resolvedModelId,
    IF EndpointIsIdentity(r.config.deploymentType) THEN r.config.baseUrl ELSE None>>

-----------------------------------------------------------------------------
(* Reading *)

Newest(list) == list[Len(list)]

\* The first revision of that number.
GetRevision(list, n) ==
  LET numbered == {i \in DOMAIN list : list[i].revision = n}
  IN  IF numbered = {} THEN None
      ELSE list[CHOOSE i \in numbered : \A j \in numbered : i <= j]

-----------------------------------------------------------------------------
(* Writing *)

RegistryInit ==
  /\ revisions = [t \in Tenants |-> [m \in ModelIds |-> <<>>]]
  /\ probes = [p \in Probes |-> [at |-> "idle"]]
  /\ overwritten = {}

\* An input that is not valid, or an id that is taken, is refused.
Register(t, m, config, source) ==
  /\ Validate(config)
  /\ revisions[t][m] = <<>>
  /\ revisions' = [revisions EXCEPT ![t][m] =
       <<[config |-> config, revision |-> 1, resolvedModelId |-> None,
          source |-> source, supersededAt |-> "undefined"]>>]
  /\ UNCHANGED <<probes, overwritten>>

Or(given, kept) == IF given = None THEN kept ELSE given

\* The configuration a patch asks for: what it leaves out is kept.
Merged(current, patch) ==
  [deploymentType  |-> Or(patch.deploymentType, current.deploymentType),
   modelIdentifier |-> Or(patch.modelIdentifier, current.modelIdentifier),
   baseUrl         |-> Or(patch.baseUrl, current.baseUrl)]

NoPatch == [deploymentType |-> None, modelIdentifier |-> None, baseUrl |-> None]

Patches ==
  [deploymentType: DeploymentTypes \union {None}, modelIdentifier: Aliases \union {"", None},
   baseUrl: Endpoints \union {None}]

\* The revision an update creates: everything the patch does not name is copied.
NextRevision(current, patch, source) ==
  [current EXCEPT !.config = Merged(current.config, patch),
                  !.revision = current.revision + 1,
                  !.source = Or(source, current.source),
                  !.supersededAt = "undefined"]

\* Seeded fault: the list is edited in place.
SupersedeInPlace(list, next) == [list EXCEPT ![Len(list)] = next]

\* "The superseded revision is kept, not overwritten."
Supersede(list, next) ==
  Append([list EXCEPT ![Len(list)].supersededAt = "date"], next)

Update(t, m, patch, source) ==
  /\ revisions[t][m] # <<>>
  /\ Len(revisions[t][m]) < MaxRevisions
  /\ LET current == Newest(revisions[t][m])
     IN  /\ Validate(Merged(current.config, patch))
         /\ revisions' = [revisions EXCEPT ![t][m] =
              Supersede(@, NextRevision(current, patch, source))]
  /\ UNCHANGED <<probes, overwritten>>

\* recordProbe: a model that is not registered is refused.
ProbeRead(p, t, m) ==
  /\ probes[p].at = "idle"
  /\ probes' = [probes EXCEPT ![p] =
       IF revisions[t][m] = <<>> THEN [at |-> "done"]
       ELSE [at |-> "read", tenant |-> t, model |-> m,
             alias |-> Newest(revisions[t][m]).config.modelIdentifier]]
  /\ UNCHANGED <<revisions, overwritten>>

\* Its update, on whatever revision is current by now.
ProbeUpdate(p) ==
  /\ probes[p].at = "read"
  /\ LET t == probes[p].tenant
         m == probes[p].model
         updated == NextRevision(Newest(revisions[t][m]), NoPatch, "probed")
     IN  /\ Len(revisions[t][m]) < MaxRevisions
         /\ revisions' = [revisions EXCEPT ![t][m] = Supersede(@, updated)]
         /\ probes' = [probes EXCEPT ![p] =
              [at |-> "updated", tenant |-> t, model |-> m,
               alias |-> probes[p].alias, updated |-> updated]]
  /\ UNCHANGED overwritten

\* Seeded fault: the revision its update superseded gets the resolved id.
SlotBefore(list) == Len(list) - 1

\* revisions.length - 1
Slot(list) == Len(list)

\* The revision it created, with the resolved id, goes over the last one.
ProbeResolve(p, version) ==
  /\ probes[p].at = "updated"
  /\ LET t == probes[p].tenant
         m == probes[p].model
         withResolved == [probes[p].updated EXCEPT !.resolvedModelId =
                            [alias |-> probes[p].alias, version |-> version]]
         slot == Slot(revisions[t][m])
     IN  /\ revisions' = [revisions EXCEPT ![t][m][slot] = withResolved]
         /\ overwritten' =
              IF revisions[t][m][slot] = probes[p].updated THEN overwritten
              ELSE overwritten \union {<<t, m>>}
  /\ probes' = [probes EXCEPT ![p] = [at |-> "done"]]

\* A provider that reported no id leaves the revision as the update made it.
ProbeUnresolved(p) ==
  /\ probes[p].at = "updated"
  /\ probes' = [probes EXCEPT ![p] = [at |-> "done"]]
  /\ UNCHANGED <<revisions, overwritten>>

RegistryNext ==
  \/ \E t \in Tenants, m \in ModelIds :
       \/ \E config \in Configurations, source \in {"unknown", "operator"} :
            Register(t, m, config, source)
       \/ \E patch \in Patches, source \in {"operator", None} :
            Update(t, m, patch, source)
       \/ \E p \in Probes : ProbeRead(p, t, m)
  \/ \E p \in Probes :
       \/ ProbeUpdate(p)
       \/ \E version \in Versions : ProbeResolve(p, version)
       \/ ProbeUnresolved(p)

RegistrySpec == RegistryInit /\ [][RegistryNext]_registryVars

-----------------------------------------------------------------------------
(* What the registry promises *)

\* However updates and probes interleave: every revision is of a valid
\* configuration, exactly the last of a model is current, and unless one probe
\* replaced another's revision they are numbered without a gap, which is what a
\* stored result relies on to find the one that produced it.
RegistryInv ==
  /\ \A t \in Tenants, m \in ModelIds :
       LET list == revisions[t][m]
       IN  /\ list \in Seq(Revision)
           /\ \A i \in 1..Len(list) :
                /\ list[i].supersededAt = "date" <=> i # Len(list)
                /\ list[i].revision <= i
                /\ <<t, m>> \notin overwritten => list[i].revision = i
  /\ \A p \in Probes : probes[p].at \in {"read", "updated"} =>
       /\ probes[p].tenant \in Tenants /\ probes[p].model \in ModelIds
       /\ probes[p].alias \in Aliases
       /\ revisions[probes[p].tenant][probes[p].model] # <<>>
  /\ \A p \in Probes : probes[p].at = "updated" =>
       /\ probes[p].updated \in Revision
       /\ probes[p].updated.supersededAt = "undefined"
       /\ probes[p].updated.revision <= Len(revisions[probes[p].tenant][probes[p].model])

Resolving(t, m, n) ==
  \E p \in Probes : /\ probes[p].at = "updated"
                    /\ probes[p].tenant = t /\ probes[p].model = m
                    /\ probes[p].updated.revision = n

\* "An old benchmark result points at the revision that produced it": a revision
\* that was superseded never changes, and the fingerprint a result was pinned to
\* is still that of the revision it names, unless the probe that made the revision
\* has not returned or another probe replaced it.
RevisionsPinned ==
  [][\A t \in Tenants, m \in ModelIds :
       LET list == revisions[t][m]
       IN  /\ Len(revisions'[t][m]) >= Len(list)
           /\ \A i \in 1..Len(list) : list[i].supersededAt = "date" => revisions'[t][m][i] = list[i]
           /\ <<t, m>> \notin overwritten' =>
                \A n \in 1..Len(list) : ~Resolving(t, m, n) =>
                  /\ GetRevision(revisions'[t][m], n) # None
                  /\ ModelFingerprint(GetRevision(revisions'[t][m], n))
                       = ModelFingerprint(GetRevision(list, n))]_registryVars

=============================================================================
