# A TLA+ model of agent-eval

agent-eval runs evaluations of AI agents and turns each run into evidence: a
worker executes a submitted run, everything that happens is appended to one
hash-chained, Merkle-committed audit log, and bundles of entries with proofs are
signed for a reviewer who trusts nobody. This directory models the control plane
(`packages/server`) in TLA+, checks small instances with TLC and proves what
matters most with TLAPS.

Paths below are relative to `packages/server/src/` unless they start elsewhere.

## 1. Inventory

| Component | State | Operations | Correct means |
|---|---|---|---|
| run worker, `worker/worker.ts` | `stopped`, `timer`, `stats`, the locals of each tick | `start`, `stop`, `loop`, `tick` | a run is executed once; its trail is one story in order; a verdict is sealed before it is shown; a claimed run ends |
| executors, `worker/executor.ts` | none | `executorFor`, `execute` | a backend nobody built is refused, not replaced; every outcome comes with the events that lead to it |
| run store, `store/index.ts` 208-316 | `runs` map | `create`, `get`, `list`, `setStatus`, `setEnvironment`, `claimNext`, `finish` | statuses never go back; nothing is lost by a write of a whole record |
| run routes, `api/app.ts` | locals of each handler | submit, cancel, get, list, events, compare | refused submissions are never scheduled; a tenant touches its own runs |
| audit log, `evidence/audit-log.ts` | `entries`, `tree`, `lastHash` | `append`, `verifyChain`, `verifyEntrySlice`, filters | the three records agree; edits are found where they are |
| Merkle tree and verifier, `evidence/merkle-tree.ts`, `proof-verifier.ts` | leaf hashes | root, inclusion and consistency proofs, their verification | a proof is accepted for exactly what it was made for |
| evidence bundles, `evidence/evidence-bundle.ts`, `api/app.ts` 636-760 | bundle store, locals | cut, fetch, verify | a bundle is genuine, complete and recognised when torn |
| audit routes, `api/app.ts` 760-1040 | none | root, inclusion and consistency proof | answers verify, or fail to in a way the client can see |
| approvals, `store/index.ts` 324-362, `api/app.ts` 558-620 | `approvals` map | create, get, list, decide | one attributable decision |
| trajectory store, `trajectories/store.ts`, `atif.ts` | `trials` map; documents | create, append a step, finish, set status; parse, total | no gap, nothing after the conclusion, no accepted step lost; totals are what was observed |
| blob store, `trajectories/blob-store.ts` | files | put, get, has | an address that exists is whole |
| task registry, `tasks/registry.ts` | tasks, sets | create a set, create a task, split access | a pin describes its contents; held-out splits need their scope |
| API keys, `auth/api-keys.ts` | keys | create, authenticate, revoke | no key outgrows its maker; no secret before its record |
| provider credentials, `auth/provider-credentials.ts` | sealed secrets | create, reveal, test, revoke | revealed to its tenant while active, never stored in clear |
| model registry, `models/registry.ts`, `capabilities.ts`, `cost.ts` | revisions | register, update, record a probe; admit; bill | revisions gapless and never rewritten; a token billed once |
| policy gate, `policy/gate.ts`, `engine.ts` | the loaded bundle | evaluate a tool call | fails closed, whichever part fails |
| providers, `providers/*.ts` | the locals of one call | request, retry, abort; adapt; test a connection | ends, and reports the last answer |
| retention, `evidence/retention.ts` | none | resolve, assess an anchor, plan expiry | never deletes what a rule protects |
| signer, canonical JSON, manifests, `evidence/*.ts` | one key pair | sign, verify, compare | a signature stands for a meaning, not for a text |
| provenance, `provenance/*.ts` | none | digests, diffs, passports | tells apart what differs and nothing else |
| scoring, `scoring/*.ts` | none | estimators, intervals, comparison, tiers | a verdict only where the data carry it |
| robustness, `robustness/*.ts` | the locals of one assessment | probe a grader, fuzz it, report | nothing untested is called closed |
| finance, `finance/*.ts` | none | read a number, compare answers | judged by what it says, whatever its notation |
| system probes, `system/*.ts` | none | read the host, fit a model | an absent reading is not a zero |
| start-up, `main.ts` | the process | start, stop | keys and bundles live and die together |
| web application, `apps/web/src` | what each page shows | navigate, generate, verify, create, revoke | a page shows what its address names |
| CLI, conformance suite, SDK | none | verify a file; verify vectors; one request each | accept and refuse what the server does |

How they interact. The API process builds one set of in-memory stores
(`createInMemoryStores`), one `AuditLog` shared by all tenants and one
`RunWorker`, which may also run elsewhere over the same stores. Handlers and
the worker never call each other: they meet in the run store (the handler
creates and cancels, the worker claims and finishes) and in the audit log (both
append, the evidence routes read). Every store method is `async` and every
handler awaits several of them, so between any two awaits of one handler another
handler or the worker's loop may run. That is the concurrency of this system: no
threads, no locks, but many check-then-act sequences and whole-record writes.

What is hard:

* **stale whole-record writes.** `setStatus`, `decide`, `appendStep` and others
  read a record, await, and write `{...record, field}` back;
* **several reads of a growing log.** a bundle takes entries, root, proofs and
  size in four steps, the consistency route root and proof in two;
* **the loop's lifetime.** `stop()` cancels a sleep but not a tick; `start()`
  after it adds a second activation beside one still in its tick;
* **failure in the middle of a tick.** any append may throw (a payload without
  canonical form), and nothing in `tick()` catches it;
* **order of records.** the verdict is appended before the status is written, a
  bundle is stored before it is recorded;
* **boundaries of the Merkle algorithms.** sizes 0, 1, powers of two, odd tails;
* **answers that arrive late.** a page of the dashboard may have moved on, a
  dialog may be closed, a provider call may have been aborted or repeated;
* **boundaries of pure rules.** days of retention, thresholds of significance,
  separators of numbers, order of tool failures.

Nothing but blobs reaches a disk: a restart of the server begins with empty
stores and a new signing key (`SigningKeys`), and only clients remember anything. `PROJECT.json` lists every
hazard at its line.

## 2. Modules

```
Executors      what an executor may report
  RunLifecycle   submit and cancel handlers, run store, worker loop, trail,
                 and how they implement RunPromise
    MCRunLifecycle
    RunLifecycleProofs   the invariant, and one story for each run
      RunRefinementProofs  the promise, and the counters
RunPromise     the abstract promise about a run
Selection      a sequence filtered by position, with its lemmas
MerkleTree     RFC 6962 prover and the independent verifier
  MerkleProofs   what its proofs show, for trees of every size
  AuditLog       (with Selection) the hash-chained log over the tree
    MCAuditLog
    Evidence       the handlers that turn the log into evidence, and the
                   CLI's offline verifier of a bundle
      MCEvidence
      EvidenceProofs   (with MerkleProofs) the log, the handlers, both verifiers
Tenancy        what the stores below share
  Trials         the trial store and the step sequence
  Approvals      the approval store, the decide handler
  TaskSets       task sets, their tasks and their pins
  Registry       models and their revisions
  Credentials    API keys, provider credentials, their routes
  Console        the dashboard: runs, a run, a bundle, the identity
  Settings       the dashboard's API keys page
  SigningKeys    the signing key over the life of the server
    Pages          lists read by cursor while they grow
Blobs          the file-backed blob store
Gate           the tool-call gate and its engine
Robustness     the assessment of a grader
Providers      one call of a provider
  StoresProofs     Trials, Approvals, TaskSets, Registry and Blobs
  ServicesProofs   Credentials, SigningKeys, Pages, Gate, Providers and Robustness
  DashboardProofs  Console and Settings
  MCStores       all of these for TLC, one part at a time
Retention, Manifests, Canonical, Atif, Finance, Adapters, Provenance,
Accounting, Hosts, Scoring, Comparisons (over Scoring)   pure rules
Conformance    verify.py and the CLI's verifier, over MerkleTree and Canonical
  MCDecisions    these for TLC, one question each
```

**The unit of interleaving.** An action is the code between two awaits of one
handler, tick or call. Calls whose body has no await of its own are part of
their caller's action; `setStatus`, which awaits `get` and then writes, is two.

### RunLifecycle

| Variable | In the code |
|---|---|
| `runs` | `InMemoryRunStore.runs`; `status`, tenant, backend, `claimedBy`, whether an environment and a failure reason are there |
| `arrived` | the `createdAt` order that `claimNext` sorts by |
| `trail` | `entriesForSubject` of every run, and of the task set named by a refused held-out submission |
| `submit`, `cancel`, `caller`, `target`, `copy` | progress and locals of the two handlers |
| `stopped`, `timer`, `stats` | the fields of `RunWorker` |
| `pc`, `held`, `todo`, `outcome` | one `loop()` activation and the locals of its tick |

`Refuse`, `DenySplit`, `Create`, `Accept` are POST /v1/runs; `CancelUnknown`,
`CancelRead`, `CancelWrite`, `CancelRecord` the cancel route. `Start`, `Stop`,
`Exit`, `Sleep`, `Wake` are the loop. A tick is `PollEmpty` or `Claim`,
`RecordClaim`, `Capture`, `RecordNode`, `SelectBlocked` or `Select`, `Execute`
or `ExecutorThrew`, `Report` for each event, `ReportThrew`, `RecordVerdict`,
`Finish`, `EndTick`. A worker has several `Slots` because `start()` after
`stop()` begins a new activation while an old one may still be in its tick.
`Executors` gives, for each backend, every sequence of audit actions
`executor.ts` can report; what a child process or a provider does in between is
external and appears as that choice.

`RunPromise` knows four things about a run: its status, whether execution began,
its verdict and whether that was published. The end of `RunLifecycle` reads all
four off the detailed state, and `KeepsPromise` is the refinement.

### MerkleTree and AuditLog

Hashing is injective: a hash is a record of what was hashed, prefix bytes
included, so domain separation is modelled rather than assumed. Roots and proofs
are recursive functions, `LowestBit` stands for the loops over trailing zeros, the verifier follows `proof-verifier.ts` branch by
branch. `AuditLog` has `entries`, `leaves` and `lastHash`, `AppendEntry` and
`RefuseEntry`; the timestamps of entries are left out.

### Evidence

Beside the log: `owner` (the tenant of each run), `bundling` (the locals of each
bundle request), `bundles` (the store), `audit` and `reading` (what auditors and
readers were answered). The bundle route is `BundleFind`, `BundleRead`,
`BundleRoot`, `BundleProve`, `BundleSize`, `BundleSign`, `BundleStore`,
`BundleRecord`, with each early reply as a disjunct or an action of its own;
`OtherEvent` is everybody else's append. The signature is taken to be genuine.
`VerifyLocalBundle` is the CLI's verifier, and `DoctoredBundles` what it may be given.

### Trials and Approvals

`Trials` has the store (`trials`), the calls on it (`calls`) and two histories:
`accepted`, the steps whose append returned, and `overtaken`, the trials written
from a record that had been replaced since it was read. `CreateTrial` is one
action because `createTrial` awaits nothing; `appendStep`, `finishTrial` and
`setTrialStatus` are a read (`AppendRead`, `FinishRead`, `StatusRead`) and a
write (`AppendWrite`, `FinishWrite`, `StatusWrite`). No handler of this
commit calls the store yet (`app.ts` only names it in `AppOptions`), so the
model makes the calls its interface allows, in any order. `Approvals` has the
store, the locals of each decide request and the `approval.*` entries of the log.
`Look` is the handler's lookup, `Judge` its 404 and 409 and the second read
inside `decide()`, `DecideWrite` the write, `DecideRecord` the audit entry.
Approvals are created by code outside this commit; `CreateApproval` gives each a
new id, as a caller of the store does.

### The other stores and services

| Module | Variables | Actions | Histories |
|---|---|---|---|
| `TaskSets` | `tasks`, `taskSets`, `creates` | `CreateTaskSet`; `createTask` as `CreateTaskCheck` and `CreateTaskWrite` | `startedWith`: the ids each set was created with; `outdated`: sets written from a record replaced since |
| `Registry` | `revisions`, `probes` | `Register`, `Update`; `recordProbe` as `ProbeRead`, `ProbeUpdate`, `ProbeResolve` or `ProbeUnresolved` | `overwritten`: models on which one probe replaced another's revision |
| `Credentials` | `keys`, `credentials`, `requests`, `credTrail`, `now` | authentication, then each await of the create, revoke, reveal and test routes | `handedOut`: keys whose secret an answer carried |
| `Blobs` | `stored`, `temporary`, `written`, `puts`, `instant` | look, name, open, write, rename, unlink, look again; `Crash` | `collided`: two puts used one temporary name |
| `Gate` | `bundle`, `digest`, `gates` | the load and its end; budget, egress and approval of each call | none |
| `Robustness` | `options`, `step`, `graderCalls`, `perTask`, `climb` | each probe of a task, the fuzzer's seeds and climbs, the next task | `seen`: every gap the fuzzer measured |
| `Providers` | `phase`, `attempt`, `signalled`, `listening` | start, execute, each kind of answer, time-out, abort, end of a back-off | `executed`, `answers` |
| `SigningKeys` | `serving`, `pair`, `shelf`, `signing` | `Start`, `ShutdownSignalled`, `Exits`, `Crashes`; sign, store, publish, download, verify | `published` and `download`, which clients keep |
| `Pages` | `listing`, `rows`, `clock`, `reader` | `AddRow`, `ReadFirst`, `ReadNext`, `ReadElsewhere` (a cursor nobody gave) | in `reader`: the rows at the first page |
| `Console` | `place`, `mount`, `effect`, the state of three pages, `scopes`, `awaited`, `made` | every click that asks or navigates, every answer or failure, in any order | `visited`; `raced`: mounts that asked for two runs |
| `Settings` | `issued`, `table`, `dialog`, `underway` | open, submit, cancel, done; each request is sent, served and answered | `latest`, `outrun`, `lost`; `untold`: what the page asked for no list after |

A history never guards an action. It says when a weaker guarantee applies: a
lost update of the code makes a stronger one false, and the property then claims
what is left and no more.

In `Console` a page whose address changes within one route stays mounted and
keeps its state, as React Router keeps it; `mount` numbers the mounted page and
`effect` its last effect, so that a closure's `live` flag is `Live` and a
`setState` after unmounting is not `Mounted`.

A request of `Settings` fails with its effect or without: the key is created or
revoked before the audit entry is appended (`app.ts` 846-867, 911-916), an append may
throw, and an answer or a request may be lost. A lost answer counts as an error from
the moment the server is done with the request. `Providers` names a status by the case
of `categorize` it falls in; the two it has no case for are `other_client_error` (402,
405, 409, 413, 422, ...) and `redirection`. `TaskSets` lets a set begin with any ids,
also of no task or twice the same, as `createTaskSet` does.

### Pure rules

Each is a set of operators named as in the source, and beside it a property that
states its meaning another way: `RetentionSound` quantifies over days instead of
taking maxima, `SignatureStands` compares meanings instead of texts,
`RecordGapless` and `TotalsObserved` look at a trajectory step by step,
`AnswersJudged` compares values written in other notations, `BillsOnce` counts
each token once, `AdmissionSound` asks what every possible value of an unknown
would allow, `VerdictSupported` and `RankingSupported` look for the evidence
behind a verdict, `ExactIntervalCovers` and `IntervalsHonest` for the values an
interval may not leave out, `FitIsSafe` for the memory, `VerifiersAgree` for the
second implementation. Floating point appears as exact fractions, a pseudo-random
generator as any choice of resamples, text as the tokens its parser finds.

## 3. Runs

| Run | Question | Instance |
|---|---|---|
| RunRace | do two workers and a cancel request leave one execution, one story, kept forward and within the promise? | 1 run, 2 workers, 1 cancel, a built and an unbuilt backend |
| RunRestart | does the inductive invariant survive stop and start during a tick whose events may not seal? | 1 worker with 2 activations, 2 tenants, model backend |
| RunProgress | do claimed runs end, does the queue drain, do the counters agree with the trail? | 2 runs, 1 worker, 1 cancel, fair |
| AuditLog | do chain, tree and proofs agree, is every edit exposed? | 3 free entries, trees of 1 to 7 leaves |
| Evidence | are bundles and answers genuine, and torn ones recognised? | 2 bundle requests, 1 auditor, 1 reader, 5 entries |
| Stores | is each store and service sound under every order of a few calls, answers, failures and restarts? | below |
| Decisions | does each pure rule mean what it says? | 124,000 questions |
| RunStuck | a run whose event cannot be sealed stays running | violation |
| BundleTorn | a bundle may cite a root and proofs of two logs | violation |
| TrialStepLost | two appends of one step id both succeed, one step is lost | violation |
| ApprovalTwice | two reviewers decide one approval | violation |
| SealMisplaced | the verdict on one bundle is shown beside another | violation |

Bounds and why they are enough. Races need two of a kind at one record, so two
workers or two activations, one cancel request beside them, and at most two
runs. `MaxToolCalls` is 1: a response with no tool call and one with a call
that fails to seal both occur. Seven leaves give every shape of the Merkle
recursion: a full tree, an odd tail at each level, powers of two on both sides;
three freely chosen entries are enough for every edit of a chain, which looks at
neighbours only, and later ones repeat the first. In `Evidence` room is kept
below `MaxEntries` for the bundle requests' own entries, so `BundleRecord` is
never blocked. `OneKind` explores one kind of request at a time: the three
kinds never read each other's state, and what a bundle request appends
`OtherEvent` appends as well. `AuditLog` also holds every log and slice against every single edit.

`Stores` runs one part in each behaviour (`part`), because the parts share no
state; so its 1.2 million states are a sum and not a product. A lost update
needs a creation, two calls that overlap and a third beside them: four calls on
one trial, three creations of tasks in two sets, one of which begins with up to two ids
of tasks that exist or not (`MaxGiven`, `TasksInOrder`), three puts of one blob over two
instants and crashes, two probes of one model over three revisions. A chain of
keys needs a key that makes a key: two keys and three requests in two tenants, the
first request always of the same one (`InOrder`), and one day on which a key expires. A gate call sees every context of two tools,
three actions and present, absent and exceeded budgets. A provider call is
retried twice. An assessment has at most two tasks, three probes and a budget
that ends within a task, between tasks or not at all. The server starts twice and
signs two bundles, which two clients fetch. A list has up to four rows in two
tenants, read in pages of one or two; a skipped row would need three. The
dashboard shows two runs and makes two bundles over four pages opened, which
is enough to leave a bundle before it arrives; `SealMisplaced` needs seven to
come back to the first. Settings asks for four lists, opens three dialogs and issues
three keys (`MaxKeys`): one to revoke, and two that may be made by one dialog, when the
first attempt takes effect and fails.

`Decisions` has depth one: an initial state and one successor for each question.
Its inputs put every threshold on both sides: ages around each day bound, noise
around the resolvable difference, samples below and above "large", code points
around the surrogates, exponents around the switch to exponential notation, numbers
in exponent notation with either separator before the exponent.
`CHECK_DEADLOCK FALSE` is said where every client
may have been answered (and the bounded log be full). Symmetry is used only in
runs without liveness, and no definition tells two workers, tenants or requests
apart.

Fairness (`FairSpec`): each loop activation, the second half of a submit
handler and of a cancel request. A settled promise is continued by the event
loop, a timer fires, and an executor answers because the child is killed and the
provider call aborted on a timeout. Nobody must submit, cancel, start or stop;
`QueueDrains` is stated under a worker that stays started. `ProvidersFairness`
asks that an answer, a failure or the time-out of a request comes, and that a
back-off's timer fires: both are timers of the same process.

## 4. Proofs

| Theorems | Properties |
|---|---|
| **RunLifecycleProofs** `RunInvariant`, `TypeCorrect` | the inductive invariant `RunInv` and the types |
| `RunsExecutedOnce`, `VerdictsSealed`, `TenantsIsolated` | its three safety conjuncts |
| `StatusesForward` | no step takes a run back |
| `StoryAlwaysOne` | `OneStory`: what is recorded of a run is a beginning of one whole story by one worker |
| **RunRefinementProofs** `PromiseKept` | `KeepsPromise`: `RunLifecycle` implements `RunPromise` |
| `VerdictsOnce`, `StatsAlwaysAgree` | one verdict, the last entry, by the tick that claimed; the counters agree with the trail |
| **EvidenceProofs** `LogInvariant`, `ChainAlwaysIntact`, `LogTypeCorrect`, `LogAppendOnly` | the log's invariant, chain, types, and that nothing recorded changes |
| `DamageFound`, `SlicesAlwaysJudged`, `DamageEvident` | `TamperEvident`: every single edit of a log or of a tenant's slice is refused, where it is |
| `InclusionAlwaysExact` | what the inclusion proofs of logs of every length are accepted for |
| `ConsistencyAlwaysExact` | what consistency proofs are accepted for, and that no rewritten log extends an anchored root |
| `EvidenceInvariant`, `EvidenceKeepsLog`, `EvidenceChainIntact`, `BundlesRecorded` | the bundle requests implement the log and record only what they stored |
| `AnswersOfTheLog`, `AnswersAlwaysJudged` | what auditors and readers are told is of one growing log, and when they accept it |
| `BundlesAlwaysGenuine`, `LocalVerdictAlwaysAgrees` | what a stored bundle holds and when it verifies; both verifiers agree on it and on tampered copies |
| **StoresProofs** `TrialsInvariant`, `TrajectoriesComplete`, `RecordsClosed` | gapless trajectories, no accepted step lost but to an overtaking write, concluded trials closed |
| `DecisionInvariant`, `DecisionsAttributed`, `DecisionsSettle` | each decision is attributable and settles |
| `BlobsWhole` | no address holds part of a blob, crashes included |
| `PinsDescribe` | the pin of a task set is of what the set lists: the ids it began with and each of its tasks once |
| `RegistryHolds`, `ResultsPinned` | revisions in order, the last alone current; a superseded one never changes |
| **ServicesProofs** `GateInvariant`, `GateAlwaysFailsClosed` | a strict gate allows nothing that a rule did not clear |
| `CredentialsInvariant` | keys and provider credentials stay of their tenant and no stronger than their maker |
| `CallAlwaysSound` | after which answers a provider call is sent again, and what it returns |
| `KeysHold` | a bundle holds under the key it carries and under no other published one |
| `AssessmentAlwaysHonest` | the grader's assessment keeps to its budget, reports on every probe and owns up to what it did not grade |
| `PagesAlwaysComplete`, `ReadersAlwaysTold` | whoever follows the cursors of a growing list passes over no row and sees none of another tenant; with `KeysHold`, `ReadersTold` |
| **DashboardProofs** `KeysPageHonest`, `PagesHonest`, `DashboardAlwaysHonest` | a page that waits for nothing shows what is there, the keys page but for what it asked for no list after |

They hold for every number of runs, tenants, workers, activations, requests,
entries, payloads, trials, calls, approvals, reviewers, keys, models, blobs, dialogs,
probes, tasks, rows of a list and pages opened, from the assumptions named in the modules: names are
distinct, the enabled executors and unsealable events are among those that
exist, and the mark for something absent is not one of the things that may be there
(`BlobsAssumption`, `TaskSetsAssumption`, `NoneIsNoRevision`, `TableAssumption`,
`PagesAssumption`);
an assessment's budgets are whole numbers and its probes lists, none of which has the
channel of the fuzzer's finding (`OptionsAssumption`).

**Runs.** `ExecutedOnce` is not inductive: that a run held by a tick is not
claimed again follows because its status is past `queued` and no writer takes it
back. A cancel request writes a whole record it read earlier, so its tenant and
existence must be carried along (`CancelAgrees`), and a wake-up must belong to
the worker that sleeps (`TimerAsleep`). `VerdictSealed` needs that the verdict is
in the trail when `finish` is called (`VerdictReady`); `TenantIsolation` needs
that a record's tenant never changes once created (`SubmitAgrees`). `RunInv` is
the conjunction; `RunRestart` checks it first. `StoreStep` and `TrailStep` say
once what any step may do to the store and to the trail, and each conjunct has a
lemma over them.

*One story.* `StoryInv` says what a tick has recorded and what it still has to record
make a whole story of its backend (`StoryTold`), beside what the tick carries to
know it: the backend and target as claimed, the captured node, one teller for each
run, and silence where no tick is.

*The promise.* A step of the detailed model is one of a few kinds for each run; under
`RunInv` and `VerdictOnce` (the verdict is the last execution entry, recorded once)
each kind maps to a step of `RunPromise` or to a stutter.

*Counters.* `StatsInv` adds to `StatsAgree` that the sets it counts are finite; a claim,
a verdict and a return are the only steps that move either side, each by one run
(`CountsQuiet` for the rest).

**Log.** `ChainIntact` speaks of a whole verification; `LogInv` says the same
position by position, which an append preserves: the new entry is linked to the
head, and the head is the last entry's hash. `DamageEvident` finds, for each kind of
edit, the first position that no longer fits. A slice is a filtered log, and
`Selection` proves what filtering does to sequences of every length; it is strictly
ordered because positions are.

*Induction.* The theorems of `WellFoundedInduction` and `NaturalsInduction` that take
a predicate cannot be instantiated here, so each induction goes through a set:
`EveryNumber` and `EveryNumberFromBelow` (from `WFMin`, a set of numbers has a least
element) say that a set closed under "all smaller ones, so this one" holds every
number. Recursive functions are shown to exist by the same means.

*Inclusion proofs.* `HonestWalk`: along its path a leaf climbs to the root. A range
of leaves is full (a power of two, all siblings there) or ragged (at the right edge,
where levels are skipped), and both kinds of walk are composed of two shorter ones
(`FullRangeWalk`, `RaggedRangeWalk`). That the proof serves nothing else is
binding: a node tells its two children (`NodeInjective`), so two accepted walks from
one place along paths of one length began with the same hash (`StepsBind`), and a
root tells its leaves (`RootsTell`), because a leaf is no node.

*Consistency proofs.* Let `c` be the lowest bit of the earlier size `m`. The last `c` of
the first `m` leaves are a full range, whose root is what the verifier starts from: it
holds it (`m` a power of two) or the proof begins with it. What is left of the subproof
is the inclusion path of leaf `m - 1` after that range (`SubWalks`, by the cases of
`subproof`), so the later root is reached as it was for inclusion. Siblings on the left
enter both hashes and those on the right one of them, which is what `Stands` says of a
place: the hash is of the range climbed so far in the later tree and `old` of as much
of it as the earlier tree had. Two walks from one place to one root began with one hash,
so nothing else is accepted (`ConsistencyJudged`), and equal roots have equal leaves. A
rewritten log passes `verifyChain` (`RewrittenPasses`, by induction over what is redone),
but its leaf at the entry rewritten is another one, so a proof of either log to its root
would make two different logs of one length share a root.

**Evidence.** Every step of the handlers is an append or leaves the log alone
(`LogStep`), so `LogSpec` is implemented and its theorems carry over.
`BundledRecorded` needs that a request between store and record is nowhere in
the log. A handler reads the log several times while it grows, so each thing it holds is
witnessed by a length the log had: `AnswersInv` says so of auditors and readers,
`GenuineInv` of what a bundle request has gathered and of what is stored. The entries a
tenant has about a run are a choice from the log (`Chosen`) that an append can only
extend, so those gathered earlier stay a beginning of it (`AboutGrows`), and cutting
today's choice at their last number gives them back (`UpToLast`, by `ChosenTwice`).

*The offline verifier.* Both verifiers check the same things, one more lazily
(`VerdictsAgree`), as long as the bundle is well made, which tampering leaves it
(`DoctoredWellMade`). That nothing but entries of the log is accepted is binding again:
a walk that ends at a root of some range came through such roots (`WalkFromWithin`), and
a leaf that is one is in the tree (`LeafOfRange`), whatever siblings were supplied.

**Stores.** *Trials*: what a call is about to write back is old, so `TrialsInv` says
of that copy what it says of the store, and that both are of the caller's tenant;
`StepShapes` reduces every step to a read, a creation, a refusal or one write of
a sound record. *Approvals*: `DecisionAttributed` needs that the record written back
is still one of the request's tenant, and that only a request that found the approval
pending gets that far. *Blobs*: `BlobsInv` ties each put to its own temporary file
until two share a name. *Task sets*, *registry*: what a call has read is what is stored
unless the history says that it was replaced (`TaskSetsInv`, `RegistryIInv`).

**Services.** `GateInv`: a call is at a rule only if every rule before it was asked and
cleared it, under the bundle that is loaded. `CredentialsIInv` follows each request
through its awaits, and a key handed out exists. `ProvidersInv` relates the answers so
far to the phase and to the attempt. `SigningKeysInv`: what is being signed and what is
on the shelf are by the pair in use, a saved file by that one or an earlier one, and a
published key by no later one.

*Robustness.* `AssessmentInv` says how far the assessment has come (`Reached`: every task
before has its findings, the one at hand those on the probes before the next), that each
finding is on its own channel and owns up to what it was not graded for (`Kept`), and
that the fuzzer's calls, which the assessment's budget does not see, stay within what was
left of it when the fuzzer began (`Climbs`). The leader of a climb is the widest gap
measured (`WiderLeads`). The report's part follows from it: fractions compare
transitively (`NoneExceeds`), so a list of them has a largest (`LargestIs`) and the gap
reported is no narrower than a task's, which is none narrower than a canary's.

*Pages.* The place of a row is the number of rows that precede it; as the order is strict
and total, places differ (`PlacesApart`) and, the list being finite, all are taken
(`PlacesTaken`), so the sort has a result and `ListHas` says what stands where. A row that
is added leaves every other row where it was or pushes it back (`RowAdded`). So what a
reader has not yet seen of the first page's list stays at or behind the cursor
(`Follows`), which is what `ListsInv` carries from page to page; a cursor that no answer
gave leaves only that what is shown is in the list.

**Dashboard.** `KeysPageInv`: only the list asked for last counts, and whatever it
lacks is witnessed by an answer on its way, by the screen or by `untold` (`GoneSince`,
`MadeSince`). `PagesInv`:
each request names the mount or the effect that waits for it, so that the answers of
an earlier place find their page gone or its `live` flag down.

Model-checked only. *Liveness* (`ClaimedRunsEnd`, `QueueDrains`, `CallEnds`) is out of
the prover's reach. The rules that `Decisions` checks
rest on folds or on RECURSIVE definitions over data (`Canonical`, `Conformance`),
which the prover cannot unfold.

## 5. Findings

* **RunStuck** a payload without canonical form makes `append` throw inside
  `tick()`; the run stays `running` for ever without a verdict.
* **BundleTorn** root, proofs and size are read at three moments; an append in
  between leaves a signed bundle that does not verify.
* **TrialStepLost** `appendStep` checks the sequence against a record read before
  its await and writes that record back: of two concurrent appends of one step id
  both are accepted and the first is gone.
* **ApprovalTwice** the 409 of the decide route is checked on a record read
  earlier, and `decide()` does not check again: two reviewers both decide.
* **SealMisplaced** `EvidenceBundleView` keeps its verification when the bundle
  in its address changes: one bundle's verdict beside another's root and key.

Seen while modelling, without a run of their own. The model does what the code
does, and the properties claim what is left.

Stores and routes:
* `store/index.ts` 71 says `claimedBy` is "cleared on terminal status"; nothing
  clears it. `finish` (line 121) and `setStatus` replace terminal statuses.
* `api/app.ts` 694-696: the execution environment is handed to `createBundle`,
  whose contents leave it out.
* `recordProbe` overwrites a revision appended while it waited; of two concurrent
  `createTask` on one set, one task is missing from the set; two blob writers
  within one millisecond share a temporary name.
* `createTaskSet` (`tasks/registry.ts` 218) takes the ids it is given: they may name no
  task, or one twice, and the pin covers them. A task created later with such an id is
  listed a second time.
* `docs/api.md` 52-54 says pagination is by cursor because offsets skip rows as a
  log grows; a cursor is an offset, so over runs (newest first) a row may be seen
  twice. `docs/api.md` 288 and the comment at
  `app.ts` 624-627 say rotated keys stay published; only the current key is, and
  every start makes another one under the same id.
* The SDK (`client.ts` 268) and `audit consistency` of the CLI send `first` and
  `second`; the route requires `from`.

Providers and hosts:
* `providers/http.ts` 5-9: "Only 429 and 5xx are retried ... nothing else is retried".
  Line 44 makes every status it has no case for (402, 405, 409, 413, 422, a
  redirection) a PROVIDER_ERROR, and line 111 retries that; 151-159 retry every network
  error, after which the request may have been executed; and 504 is not retried.
  `CallSound` claims what the code does (`MaySendAgain`). An abort during a back-off is
  not heard.
* Anthropic and Google adapters drop a system message given in parts; Ollama's
  drops tool calls and their ids. `local-runtimes.ts` 102-105 allow no key,
  `openai-compatible.ts` 172-184 asks for one.
* `system/capabilities.ts` 124-147: an empty metric becomes `Number('')`, zero.
  `probe.ts` 83 tests a code that `execFile` does not set. `checkModelFits` is
  called by no route, and `api/routes/system.ts` 178 does not check a precision.

Rules:
* `finance/numeric.ts` 185 expands exponent notation with a "." before it looks at the
  locale: under `eu`, "1,25e1" becomes "1,250" and reads as 1.25, "1.25e1" becomes "12.5"
  and is refused; under `en`, "1,25e1" reads as 1250. So the symmetry of the locales
  that `AnswersJudged` states leaves exponent notation out.
* `robustness/types.ts` 190 says the worst gap is of confirmed channels;
  `assess.ts` 469-479 count suspected ones.
* Manifests: `comparable()` looks at neither toolchain nor provider version, and
  joins verifier names with `@`, which names may contain.
* `passport.ts` 410 grants AGENT_EVAL_VERIFIED to self-reported results that come
  with evidence; `identity.ts` 335 leaves fields out of a diff that its digests
  cover, and joins toolkit versions ambiguously.
* `trajectories/atif.ts`: token parts are held against their total only if both
  parts are given, and a document may end before it starts.
* `generate-conformance-vectors.ts` 359-362 hash canonical entries as leaves,
  where the log hashes an entry's `entryHash`. `verify-local.ts` looks at neither
  retention nor the signature's algorithm.

Web application:
* `design-system.md` 154 says verification is client-side; the seal asks the
  server. A run's page sees only the first page of the log (`RunDetail.tsx` 87).
* A key dialog closed while its request runs loses the secret, and the list is not
  loaded again. Nor is it after an error (`ApiKeys.tsx` 256-257, 489-491), though the
  key may have been made or revoked: a revoked key goes on being shown as active, and a
  new one is not shown and nobody has its secret, until the next list. On the runs list only the run clicked last is shown as busy.

## 6. Plan

Done: the run lifecycle with its promise; the audit log, its tree and both second
verifiers; the evidence handlers and the signing key; every store; the gate,
providers and the grader's assessment; the pure rules; the pages of the dashboard
that hold state across answers. Next:

1. **Deployments**: stores on a database, as `store/index.ts` anticipates, would
   make each method a transaction of its own and a restart a recovery.
2. **Compositions**: the executor calling `Providers` through `Credentials`, and
   the gate between a tool call and its `Report`, once the code wires them.

## 7. Not modelled

* **Text**: escapes of strings, wording of warnings, canaries and perturbations
  of a prompt, HTML and tables. Where text decides something it is modelled by its
  tokens (numbers in `Finance`, keys and numbers in `Conformance`).
* **Cryptography**: Ed25519, SHA-256 and AES-GCM are taken to be what they
  promise; a hash is what was hashed, a signature names its key.
* **Input validation** by zod, apart from cursors, manifests and trajectories; the
  documentation routes; static content of the web application.
* **Child processes and HTTP**: an executor's process and a provider's server are
  external, and appear as every sequence of events or answers they can give.
* **Floating point**: rounding is left out; a probability is a fraction.
* **SDK and most commands of the CLI**: one request each, no state. The pages for
  the profile, providers, starting a run and the documentation are forms over one
  request.
* **Rego**: the compiled bundle appears as the answers its rules give.
