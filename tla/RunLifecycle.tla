---------------------------- MODULE RunLifecycle ----------------------------
(***************************************************************************)
(* A run from submission to verdict: the POST /v1/runs and cancel handlers *)
(* of api/app.ts, the run store of store/index.ts, and the claim loop of   *)
(* worker/worker.ts, all appending to the tenant's audit trail.            *)
(*                                                                         *)
(* An action is the code between two awaits, so every await is a place     *)
(* where another handler or loop may step in: that is what the             *)
(* asynchronous store interface allows, and what a store behind a          *)
(* connection does.  The audit log is seen through entriesForSubject: one  *)
(* sequence of entries per subject.  AuditLog models the chain itself.     *)
(***************************************************************************)
EXTENDS Executors, FiniteSets, SequencesExt, Selection

CONSTANTS Runs,         \* run ids that newId("run") may hand out
          Tenants,
          Backends,     \* isolationBackend of the submitted manifests
          Workers,      \* workerId of each RunWorker
          Slots,        \* loop() activations one worker may have alive
          CancelCalls,  \* POST /v1/runs/:id/cancel requests
          TaskSet,      \* subject of a refused held-out submission
          Client,       \* actor of every API request
          Nobody,       \* an absent claimedBy, tenant or loop
          Unsealable    \* event actions whose payload AuditLog.append may refuse

Loops    == Workers \X Slots
Subjects == Runs \union {TaskSet}
NoLoop   == <<Nobody, Nobody>>

ASSUME NamesAssumption ==
  /\ TaskSet \notin Runs \union {Nobody}
  /\ Client \notin Workers
  /\ Nobody \notin Workers \union Tenants \union Runs \union Loops \union {Client}
ASSUME UnsealableAssumption == Unsealable \subseteq ExecutionEvents

VARIABLES
  runs,      \* the run store: the record of each id, NoRun before create
  arrived,   \* ids in createdAt order, the order claimNext serves
  trail,     \* per subject, its audit entries in chain order
  submit,    \* where the POST handler that mints each id is
  cancel,    \* where each cancel request is
  caller,    \* the tenant each cancel request was authenticated for
  target,    \* the id it names
  copy,      \* the record a cancel request has read and will write back
  stopped,   \* RunWorker.stopped
  timer,     \* RunWorker.timer: the loop whose sleep stop() cuts short
  stats,     \* RunWorker.stats
  pc,        \* where each loop activation is
  held,      \* the run its tick holds
  todo,      \* the executor's events the tick has still to append
  outcome    \* result.outcome of the tick

submitVars == <<submit, arrived>>
cancelVars == <<cancel, caller, target, copy>>
workerVars == <<stopped, timer, stats>>
loopVars   == <<pc, held, todo, outcome>>
vars == <<runs, trail, submitVars, cancelVars, workerVars, loopVars>>

Status   == {"queued", "running", "completed", "failed", "cancelled"}
Terminal == {"completed", "failed", "cancelled"}

NoRun == [status |-> "absent", tenant |-> Nobody, backend |-> "none",
          claimedBy |-> Nobody, env |-> FALSE, reason |-> FALSE]

Worker(l) == l[1]

Entry(action, actor, tenant) ==
  [action |-> action, actor |-> actor, tenant |-> tenant]

Record(subject, action, actor, tenant) ==
  trail' = [trail EXCEPT ![subject] = Append(@, Entry(action, actor, tenant))]

\* The worker acts in the run's tenant under its own name.
RecordAs(l, action) ==
  Record(held[l], action, Worker(l), runs[held[l]].tenant)

Init ==
  /\ runs    = [r \in Runs |-> NoRun]
  /\ arrived = <<>>
  /\ trail   = [s \in Subjects |-> <<>>]
  /\ submit  = [r \in Runs |-> "idle"]
  /\ cancel  = [c \in CancelCalls |-> "idle"]
  /\ caller  = [c \in CancelCalls |-> Nobody]
  /\ target  = [c \in CancelCalls |-> Nobody]
  /\ copy    = [c \in CancelCalls |-> NoRun]
  /\ stopped = [w \in Workers |-> TRUE]
  /\ timer   = [w \in Workers |-> Nobody]
  /\ stats   = [w \in Workers |-> [claimed |-> 0, completed |-> 0, failed |-> 0]]
  /\ pc      = [l \in Loops |-> "idle"]
  /\ held    = [l \in Loops |-> Nobody]
  /\ todo    = [l \in Loops |-> <<>>]
  /\ outcome = [l \in Loops |-> "none"]

-----------------------------------------------------------------------------
(* POST /v1/runs *)

\* 422: the manifest is not reproducible or its retention has no resolution.
Refuse(r) ==
  /\ submit[r] = "idle"
  /\ submit' = [submit EXCEPT ![r] = "refused"]
  /\ UNCHANGED <<runs, arrived, trail, cancelVars, workerVars, loopVars>>

\* 403: a held-out split without the scope.  Audited, but never scheduled.
DenySplit(r, t) ==
  /\ submit[r] = "idle"
  /\ Record(TaskSet, "run.split_access_denied", Client, t)
  /\ submit' = [submit EXCEPT ![r] = "refused"]
  /\ UNCHANGED <<runs, arrived, cancelVars, workerVars, loopVars>>

Create(r, t, b) ==
  /\ submit[r] = "idle"
  /\ runs' = [runs EXCEPT ![r] =
       [NoRun EXCEPT !.status = "queued", !.tenant = t, !.backend = b]]
  /\ arrived' = Append(arrived, r)
  /\ submit' = [submit EXCEPT ![r] = "created"]
  /\ UNCHANGED <<trail, cancelVars, workerVars, loopVars>>

\* Sealed before the 202 goes out.
Accept(r) ==
  /\ submit[r] = "created"
  /\ Record(r, "run.started", Client, runs[r].tenant)
  /\ submit' = [submit EXCEPT ![r] = "accepted"]
  /\ UNCHANGED <<runs, arrived, cancelVars, workerVars, loopVars>>

-----------------------------------------------------------------------------
(* POST /v1/runs/:id/cancel.  setStatus reads the record, waits, and writes  *)
(* back the record it read with the new status.                              *)

CancelUnknown(c, r, t) ==
  /\ cancel[c] = "idle"
  /\ runs[r].tenant # t
  /\ cancel' = [cancel EXCEPT ![c] = "done"]
  /\ UNCHANGED <<runs, trail, submitVars, caller, target, copy, workerVars, loopVars>>

\* Seeded fault: the lookup is not scoped to the tenant.
CancelReadUnscoped(c, r, t) ==
  /\ cancel[c] = "idle"
  /\ runs[r] # NoRun
  /\ cancel' = [cancel EXCEPT ![c] = "read"]
  /\ caller' = [caller EXCEPT ![c] = t]
  /\ target' = [target EXCEPT ![c] = r]
  /\ copy' = [copy EXCEPT ![c] = runs[r]]
  /\ UNCHANGED <<runs, trail, submitVars, workerVars, loopVars>>

CancelRead(c, r, t) ==
  /\ cancel[c] = "idle"
  /\ runs[r].tenant = t
  /\ cancel' = [cancel EXCEPT ![c] = "read"]
  /\ caller' = [caller EXCEPT ![c] = t]
  /\ target' = [target EXCEPT ![c] = r]
  /\ copy' = [copy EXCEPT ![c] = runs[r]]
  /\ UNCHANGED <<runs, trail, submitVars, workerVars, loopVars>>

\* Seeded fault: the other spelling of the status.
CancelWriteMisspelt(c) ==
  /\ cancel[c] = "read"
  /\ runs' = [runs EXCEPT ![target[c]] = [copy[c] EXCEPT !.status = "canceled"]]
  /\ cancel' = [cancel EXCEPT ![c] = "written"]
  /\ UNCHANGED <<trail, submitVars, caller, target, copy, workerVars, loopVars>>

CancelWrite(c) ==
  /\ cancel[c] = "read"
  /\ runs' = [runs EXCEPT ![target[c]] = [copy[c] EXCEPT !.status = "cancelled"]]
  /\ cancel' = [cancel EXCEPT ![c] = "written"]
  /\ UNCHANGED <<trail, submitVars, caller, target, copy, workerVars, loopVars>>

CancelRecord(c) ==
  /\ cancel[c] = "written"
  /\ Record(target[c], "run.cancelled", Client, caller[c])
  /\ cancel' = [cancel EXCEPT ![c] = "done"]
  /\ UNCHANGED <<runs, submitVars, caller, target, copy, workerVars, loopVars>>

-----------------------------------------------------------------------------
(* RunWorker *)

Go(l, at) == pc' = [pc EXCEPT ![l] = at]

Count(l, counter) ==
  LET old == stats[Worker(l)]
  IN  stats' = [stats EXCEPT ![Worker(l)] = [old EXCEPT ![counter] = old[counter] + 1]]

\* start() enters loop() in a new activation.
Start(l) ==
  /\ stopped[Worker(l)]
  /\ pc[l] = "idle"
  /\ stopped' = [stopped EXCEPT ![Worker(l)] = FALSE]
  /\ Go(l, "loop")
  /\ UNCHANGED <<runs, trail, submitVars, cancelVars, timer, stats,
                 held, todo, outcome>>

\* stop() clears the timer: the activation asleep on it never resumes.  One
\* whose timer a later sleep overwrote does, and so does a tick in progress.
Stop(w) ==
  /\ ~stopped[w]
  /\ stopped' = [stopped EXCEPT ![w] = TRUE]
  /\ pc' = [l \in Loops |->
       IF timer[w] = l THEN "idle" ELSE pc[l]]
  /\ timer' = [timer EXCEPT ![w] = Nobody]
  /\ UNCHANGED <<runs, trail, submitVars, cancelVars, stats, held, todo, outcome>>

Exit(l) ==
  /\ stopped[Worker(l)]
  /\ pc[l] \in {"loop", "rest"}
  /\ Go(l, "idle")
  /\ UNCHANGED <<runs, trail, submitVars, cancelVars, workerVars,
                 held, todo, outcome>>

\* No work, or the tick threw: sleep pollIntervalMs.
Sleep(l) ==
  /\ ~stopped[Worker(l)]
  /\ pc[l] = "rest"
  /\ timer' = [timer EXCEPT ![Worker(l)] = l]
  /\ Go(l, "asleep")
  /\ UNCHANGED <<runs, trail, submitVars, cancelVars, stopped, stats,
                 held, todo, outcome>>

\* Seeded fault: the worker keeps the handle of a timer that fired.
WakeKeepingTimer(l) ==
  /\ pc[l] = "asleep"
  /\ Go(l, "loop")
  /\ UNCHANGED <<runs, trail, submitVars, cancelVars, workerVars,
                 held, todo, outcome>>

\* A timer that fired is as good as none: clearing it does nothing.
Wake(l) ==
  /\ pc[l] = "asleep"
  /\ timer' = [timer EXCEPT ![Worker(l)] = IF @ = l THEN Nobody ELSE @]
  /\ Go(l, "loop")
  /\ UNCHANGED <<runs, trail, submitVars, cancelVars, stopped, stats,
                 held, todo, outcome>>

\* Seeded fault: a run whose worker looks dead is offered again.
QueuedOrRunning == {r \in Runs : runs[r].status \in {"queued", "running"}}

\* claimNext serves queued runs in createdAt order.
Queued == {r \in Runs : runs[r].status = "queued"}

FirstQueued(r) ==
  \E i \in DOMAIN arrived :
    /\ arrived[i] = r
    /\ r \in Queued
    /\ \A j \in 1..(i - 1) : arrived[j] \notin Queued

\* Seeded fault: loop() returns when there is no work.
PollEmptyReturns(l) ==
  /\ pc[l] = "loop"
  /\ ~stopped[Worker(l)]
  /\ Queued = {}
  /\ Go(l, "idle")
  /\ UNCHANGED <<runs, trail, submitVars, cancelVars, workerVars,
                 held, todo, outcome>>

PollEmpty(l) ==
  /\ pc[l] = "loop"
  /\ ~stopped[Worker(l)]
  /\ Queued = {}
  /\ Go(l, "rest")
  /\ UNCHANGED <<runs, trail, submitVars, cancelVars, workerVars,
                 held, todo, outcome>>

Claim(l, r) ==
  /\ pc[l] = "loop"
  /\ ~stopped[Worker(l)]
  /\ FirstQueued(r)
  /\ runs' = [runs EXCEPT ![r] =
       [@ EXCEPT !.status = "running", !.claimedBy = Worker(l)]]
  /\ held' = [held EXCEPT ![l] = r]
  /\ Go(l, "claimed")
  /\ UNCHANGED <<trail, submitVars, cancelVars, workerVars, todo, outcome>>

RecordClaim(l) ==
  /\ pc[l] = "claimed"
  /\ Count(l, "claimed")
  /\ RecordAs(l, "run.claimed")
  /\ Go(l, "capture")
  /\ UNCHANGED <<runs, submitVars, cancelVars, stopped, timer,
                 held, todo, outcome>>

\* Seeded fault: setEnvironment writes back the record as it was claimed.
CaptureOnClaimedRecord(l) ==
  /\ pc[l] = "capture"
  /\ runs' = [runs EXCEPT ![held[l]] = [@ EXCEPT !.env = TRUE, !.status = "running"]]
  /\ Go(l, "captured")
  /\ UNCHANGED <<trail, submitVars, cancelVars, workerVars, held, todo, outcome>>

\* captureEnvironment answers, or the host could not describe itself.
Capture(l) ==
  /\ pc[l] = "capture"
  /\ \/ /\ runs' = [runs EXCEPT ![held[l]] = [@ EXCEPT !.env = TRUE]]
        /\ Go(l, "captured")
     \/ /\ Go(l, "select")
        /\ UNCHANGED runs
  /\ UNCHANGED <<trail, submitVars, cancelVars, workerVars, held, todo, outcome>>

RecordNode(l) ==
  /\ pc[l] = "captured"
  /\ RecordAs(l, "compute.node.selected")
  /\ Go(l, "select")
  /\ UNCHANGED <<runs, submitVars, cancelVars, workerVars, held, todo, outcome>>

\* What the tick has to report once its executor is done.
Conclude(l, o, events) ==
  /\ outcome' = [outcome EXCEPT ![l] = o]
  /\ todo' = [todo EXCEPT ![l] = events]
  /\ Go(l, "report")

\* Seeded fault: a refused run returns early and is never finished.
SelectBlockedReturns(l) ==
  /\ pc[l] = "select"
  /\ Blocked(runs[held[l]].backend)
  /\ RecordAs(l, "execution.unavailable")
  /\ held' = [held EXCEPT ![l] = Nobody]
  /\ Go(l, "loop")
  /\ UNCHANGED <<runs, submitVars, cancelVars, workerVars, todo, outcome>>

SelectBlocked(l) ==
  /\ pc[l] = "select"
  /\ Blocked(runs[held[l]].backend)
  /\ RecordAs(l, "execution.unavailable")
  /\ Conclude(l, "failed", <<>>)
  /\ UNCHANGED <<runs, submitVars, cancelVars, workerVars, held>>

Select(l) ==
  /\ pc[l] = "select"
  /\ ~Blocked(runs[held[l]].backend)
  /\ Go(l, "executing")
  /\ UNCHANGED <<runs, trail, submitVars, cancelVars, workerVars,
                 held, todo, outcome>>

Execute(l) ==
  /\ pc[l] = "executing"
  /\ \E result \in Results(runs[held[l]].backend) :
       Conclude(l, result.outcome, result.events)
  /\ UNCHANGED <<runs, trail, submitVars, cancelVars, workerVars, held>>

\* execute() rejected: a failure with nothing to report.
ExecutorThrew(l) ==
  /\ pc[l] = "executing"
  /\ Conclude(l, "failed", <<>>)
  /\ UNCHANGED <<runs, trail, submitVars, cancelVars, workerVars, held>>

\* tick() returns or rejects, and its locals go with it.
Forget(l) ==
  /\ held' = [held EXCEPT ![l] = Nobody]
  /\ todo' = [todo EXCEPT ![l] = <<>>]
  /\ outcome' = [outcome EXCEPT ![l] = "none"]

\* Seeded fault: the events are appended together, in any order.
ReportTogether(l) ==
  /\ pc[l] = "report"
  /\ \E i \in DOMAIN todo[l] :
       /\ RecordAs(l, todo[l][i])
       /\ todo' = [todo EXCEPT ![l] = RemoveAt(@, i)]
  /\ UNCHANGED <<runs, submitVars, cancelVars, workerVars, pc, held, outcome>>

Report(l) ==
  /\ pc[l] = "report"
  /\ todo[l] # <<>>
  /\ RecordAs(l, Head(todo[l]))
  /\ todo' = [todo EXCEPT ![l] = Tail(@)]
  /\ UNCHANGED <<runs, submitVars, cancelVars, workerVars, pc, held, outcome>>

\* append() throws on a payload with no canonical form.  Nothing in tick()
\* catches it; loop() logs the error and goes to sleep.
ReportThrew(l) ==
  /\ pc[l] = "report"
  /\ todo[l] # <<>>
  /\ Head(todo[l]) \in Unsealable
  /\ Forget(l)
  /\ Go(l, "rest")
  /\ UNCHANGED <<runs, trail, submitVars, cancelVars, workerVars>>

RecordVerdict(l) ==
  /\ pc[l] = "report"
  /\ todo[l] = <<>>
  /\ RecordAs(l, IF outcome[l] = "completed" THEN "run.completed" ELSE "run.failed")
  /\ Go(l, "finish")
  /\ UNCHANGED <<runs, submitVars, cancelVars, workerVars, held, todo, outcome>>

\* Seeded fault: the record is rebuilt from the claim and loses the environment.
FinishRebuilt(l) ==
  /\ pc[l] = "finish"
  /\ runs' = [runs EXCEPT ![held[l]] =
       [@ EXCEPT !.status = outcome[l], !.env = FALSE, !.reason = TRUE]]
  /\ Go(l, "count")
  /\ UNCHANGED <<trail, submitVars, cancelVars, workerVars, held, todo, outcome>>

\* Seeded fault: the status is recorded before the verdict is sealed.
FinishFirst(l) ==
  /\ pc[l] = "report" /\ todo[l] = <<>>
  /\ runs' = [runs EXCEPT ![held[l]] = [@ EXCEPT !.status = outcome[l], !.reason = TRUE]]
  /\ Go(l, "count")
  /\ UNCHANGED <<trail, submitVars, cancelVars, workerVars, held, todo, outcome>>

\* finish() reads and writes in one turn, whatever the status has become.
Finish(l) ==
  /\ pc[l] = "finish"
  /\ LET run == runs[held[l]]
     IN  runs' = [runs EXCEPT ![held[l]] =
           [run EXCEPT !.status = outcome[l],
                       !.reason = run.reason \/ outcome[l] = "failed"]]
  /\ Go(l, "count")
  /\ UNCHANGED <<trail, submitVars, cancelVars, workerVars, held, todo, outcome>>

\* Seeded fault: every tick that returns counts as completed.
EndTickCompleted(l) ==
  /\ pc[l] = "count"
  /\ Count(l, "completed")
  /\ Forget(l)
  /\ Go(l, "loop")
  /\ UNCHANGED <<runs, trail, submitVars, cancelVars, stopped, timer>>

EndTick(l) ==
  /\ pc[l] = "count"
  /\ Count(l, outcome[l])
  /\ Forget(l)
  /\ Go(l, "loop")
  /\ UNCHANGED <<runs, trail, submitVars, cancelVars, stopped, timer>>

-----------------------------------------------------------------------------

SubmitStep(r) ==
  \/ Refuse(r)
  \/ \E t \in Tenants : DenySplit(r, t)
  \/ \E t \in Tenants, b \in Backends : Create(r, t, b)
  \/ Accept(r)

CancelStep(c) ==
  \/ \E r \in Runs, t \in Tenants : CancelUnknown(c, r, t) \/ CancelRead(c, r, t)
  \/ CancelWrite(c)
  \/ CancelRecord(c)

TickStep(l) ==
  \/ \E r \in Runs : Claim(l, r)
  \/ RecordClaim(l)
  \/ Capture(l)
  \/ RecordNode(l)
  \/ SelectBlocked(l)
  \/ Select(l)
  \/ Execute(l)
  \/ ExecutorThrew(l)
  \/ Report(l)
  \/ ReportThrew(l)
  \/ RecordVerdict(l)
  \/ Finish(l)
  \/ EndTick(l)

LoopStep(l) ==
  \/ TickStep(l)
  \/ PollEmpty(l)
  \/ Sleep(l)
  \/ Wake(l)
  \/ Exit(l)

Next ==
  \/ \E r \in Runs : SubmitStep(r)
  \/ \E c \in CancelCalls : CancelStep(c)
  \/ \E l \in Loops : Start(l) \/ LoopStep(l)
  \/ \E w \in Workers : Stop(w)

Spec == Init /\ [][Next]_vars

\* A promise that settled is continued, a timer fires, an executor answers (the
\* child is killed on its timeout and a provider call is aborted on its own).
\* Nobody is obliged to submit, cancel, start or stop.
Fairness ==
  /\ \A l \in Loops : WF_vars(LoopStep(l))
  /\ \A r \in Runs : WF_vars(Accept(r))
  /\ \A c \in CancelCalls : WF_vars(CancelWrite(c) \/ CancelRecord(c))

FairSpec == Spec /\ Fairness

-----------------------------------------------------------------------------
(* What the system promises *)

Busy == {"claimed", "capture", "captured", "select", "executing", "report",
         "finish", "count"}

Actions == ExecutionEvents \union
  {"run.started", "run.cancelled", "run.split_access_denied", "run.claimed",
   "compute.node.selected", "execution.unavailable", "run.completed", "run.failed"}

RunRecord ==
  [status: Status \union {"absent"}, tenant: Tenants \union {Nobody},
   backend: Backends \union {"none"}, claimedBy: Workers \union {Nobody},
   env: BOOLEAN, reason: BOOLEAN]

EntryRecord ==
  [action: Actions, actor: Workers \union {Client}, tenant: Tenants \union {Nobody}]

\* The shape of every variable of the store, the handlers and the workers.
TypeOK ==
  /\ runs \in [Runs -> RunRecord]
  /\ arrived \in Seq(Runs)
  /\ trail \in [Subjects -> Seq(EntryRecord)]
  /\ submit \in [Runs -> {"idle", "created", "accepted", "refused"}]
  /\ cancel \in [CancelCalls -> {"idle", "read", "written", "done"}]
  /\ caller \in [CancelCalls -> Tenants \union {Nobody}]
  /\ target \in [CancelCalls -> Runs \union {Nobody}]
  /\ copy \in [CancelCalls -> RunRecord]
  /\ stopped \in [Workers -> BOOLEAN]
  /\ timer \in [Workers -> Loops \union {Nobody}]
  /\ stats \in [Workers -> [claimed: Nat, completed: Nat, failed: Nat]]
  /\ pc \in [Loops -> Busy \union {"idle", "loop", "rest", "asleep"}]
  /\ held \in [Loops -> Runs \union {Nobody}]
  /\ todo \in [Loops -> Seq(ExecutionEvents)]
  /\ outcome \in [Loops -> {"none", "completed", "failed"}]

Has(s, action) == \E i \in DOMAIN trail[s] : trail[s][i].action = action

Verdict(o) == IF o = "completed" THEN "run.completed" ELSE "run.failed"

\* claimNext is atomic "so two workers never execute the same run": no two
\* ticks hold one run, and its trail has at most one run.claimed, whatever
\* cancellations and restarts of the loop come between.
ExecutedOnce ==
  /\ \A l, m \in Loops : held[l] = held[m] /\ held[l] # Nobody => l = m
  /\ \A r \in Runs : \A i, j \in DOMAIN trail[r] :
       trail[r][i].action = "run.claimed" /\ trail[r][j].action = "run.claimed"
         => i = j

\* The worker appends the verdict before finish() records it: a reader who
\* sees a run completed or failed finds the verdict in the trail, and a failed
\* run can say why.
VerdictSealed ==
  \A r \in Runs : runs[r].status \in {"completed", "failed"} =>
    /\ Has(r, Verdict(runs[r].status))
    /\ runs[r].status = "failed" => runs[r].reason

\* The entries of the whole of one tick, in order: the claim, the node if the
\* host could describe itself, and either the refusal, the executor's events
\* and the matching verdict, or the bare failure of an executor that threw.
Stories(b) ==
  LET opening == {<<"run.claimed">>, <<"run.claimed", "compute.node.selected">>}
      bodies == IF Blocked(b) THEN {<<"execution.unavailable", "run.failed">>}
                ELSE {<<"run.failed">>}
                       \union {res.events \o <<Verdict(res.outcome)>> : res \in Results(b)}
  IN  {o \o body : o \in opening, body \in bodies}

\* What others than the clients recorded against a run, and what they did.
WorkerEntries(r) ==
  Chosen(trail[r], {i \in DOMAIN trail[r] : trail[r][i].actor # Client})

Said(r) == [i \in DOMAIN WorkerEntries(r) |-> WorkerEntries(r)[i].action]

\* Once the trail names the node, the record keeps the environment ("It must be
\* recorded even when the run subsequently fails"), but for a cancel request that
\* writes back a record it read before the capture.
NodeKept ==
  \A r \in Runs :
    Has(r, "compute.node.selected") /\ (\A c \in CancelCalls : target[c] # r) => runs[r].env

OneTeller ==
  \A r \in Runs :
    LET told == WorkerEntries(r) IN \A i \in DOMAIN told : told[i].actor = told[1].actor

StoryTold ==
  \A r \in Runs :
    LET said == Said(r)
    IN  IF runs[r].status \in {"completed", "failed"}
        THEN said \in Stories(runs[r].backend)
        ELSE \E story \in Stories(runs[r].backend) : IsPrefix(said, story)

\* What workers wrote about a run is one execution told in order by one actor:
\* never two executions interleaved, nothing after the verdict, nothing
\* executed on a backend this deployment lacks; and once the status is
\* completed or failed the story is whole.
OneStory == NodeKept /\ OneTeller /\ StoryTold

\* Everything recorded against a run is in the tenant that submitted it, so
\* entriesForSubject, which filters by tenant, hides nothing from its owner.
TenantIsolation ==
  \A r \in Runs : \A i \in DOMAIN trail[r] : trail[r][i].tenant = runs[r].tenant

RecordedBy(w, action) ==
  {r \in Runs : \E i \in DOMAIN trail[r] :
     trail[r][i].action = action /\ trail[r][i].actor = w}

Finishing(w, o) ==
  {l \in Loops : Worker(l) = w /\ pc[l] \in {"finish", "count"} /\ outcome[l] = o}

\* The counters on the status page agree with the trail: every claim this
\* worker recorded, and every verdict but those of ticks about to return.
StatsAgree ==
  \A w \in Workers :
    /\ stats[w].claimed = Cardinality(RecordedBy(w, "run.claimed"))
    /\ \A o \in {"completed", "failed"} :
         stats[w][o] + Cardinality(Finishing(w, o))
           = Cardinality(RecordedBy(w, Verdict(o)))

Stage(status) ==
  CASE status = "absent"  -> 0
    [] status = "queued"  -> 1
    [] status = "running" -> 2
    [] OTHER              -> 3

\* A run never goes back: once claimed or cancelled it is not queued again, and
\* a concluded run is not running again.  Every writer writes back a whole
\* record, some of them one read earlier.
StatusForward ==
  [][\A r \in Runs : Stage(runs[r].status) <= Stage(runs'[r].status)]_vars

\* "Append every event the executor reported, then record a terminal status":
\* a run whose claim is in the trail gets its verdict and a terminal status.
ClaimedRunsEnd ==
  \A r \in Runs :
    Has(r, "run.claimed") ~>
      /\ Has(r, "run.completed") \/ Has(r, "run.failed")
      /\ runs[r].status \in Terminal

\* A queued run does not wait for ever while some worker stays started: it is
\* claimed, or cancelled.
QueueDrains ==
  (\E w \in Workers : <>[]~stopped[w]) =>
    \A r \in Runs : (runs[r].status = "queued") ~> (runs[r].status # "queued")

-----------------------------------------------------------------------------
(* Why it holds: the inductive invariant behind ExecutedOnce, VerdictSealed, *)
(* TenantIsolation and StatusForward.                                        *)

\* A tick holds a run from the claim until it returns.
HoldsRun == \A l \in Loops : pc[l] \in Busy <=> held[l] \in Runs

\* The timer a worker can clear is one a loop of its own is asleep on.
TimerAsleep ==
  \A w \in Workers : timer[w] \in Loops => pc[timer[w]] = "asleep" /\ Worker(timer[w]) = w

\* A record exists from the moment its handler created it, and nothing is
\* recorded against an id before.
SubmitAgrees ==
  \A r \in Runs :
    /\ submit[r] \in {"idle", "refused"} <=> runs[r].status = "absent"
    /\ runs[r].status = "absent" => trail[r] = <<>> /\ runs[r].tenant = Nobody

\* What a cancel request read is still the same tenant's run.
CancelAgrees ==
  \A c \in CancelCalls : cancel[c] \in {"read", "written"} =>
    /\ target[c] \in Runs
    /\ runs[target[c]].status # "absent"
    /\ copy[c].tenant = runs[target[c]].tenant
    /\ caller[c] = runs[target[c]].tenant

\* A run that was granted to a tick is past the queue and never returns to it.
Granted ==
  /\ \A l \in Loops : held[l] \in Runs =>
       runs[held[l]].status \notin {"absent", "queued"}
  /\ \A r \in Runs : Has(r, "run.claimed") =>
       runs[r].status \notin {"absent", "queued"}
  /\ \A l \in Loops : pc[l] = "claimed" => ~Has(held[l], "run.claimed")

\* The verdict is in the trail when finish() is called with it.
VerdictReady ==
  \A l \in Loops :
    /\ pc[l] \in {"report", "finish", "count"} => outcome[l] \in {"completed", "failed"}
    /\ pc[l] = "finish" => Has(held[l], Verdict(outcome[l]))

\* The inductive invariant.
RunInv ==
  /\ TypeOK
  /\ HoldsRun
  /\ TimerAsleep
  /\ SubmitAgrees
  /\ CancelAgrees
  /\ Granted
  /\ VerdictReady
  /\ ExecutedOnce
  /\ VerdictSealed
  /\ TenantIsolation

-----------------------------------------------------------------------------
(* What it implements: RunPromise.  Whether an execution began and what it   *)
(* concluded are read off the trail and the ticks in progress; the verdict   *)
(* counts as published once no tick still has to record it.                  *)

StatusOf == [r \in Runs |-> runs[r].status]

Begun == [r \in Runs |->
  Has(r, "run.claimed") \/ \E l \in Loops : held[l] = r]

VerdictOf == [r \in Runs |->
  IF Has(r, "run.completed") THEN "completed"
  ELSE IF Has(r, "run.failed") THEN "failed"
  ELSE "none"]

Published == [r \in Runs |->
  /\ Has(r, "run.completed") \/ Has(r, "run.failed")
  /\ ~ \E l \in Loops : held[l] = r /\ pc[l] = "finish"]

Promise == INSTANCE RunPromise
  WITH status <- StatusOf, begun <- Begun, verdict <- VerdictOf, published <- Published

\* Every step of the handlers and the workers is a step the promise allows, or
\* one it does not see.
KeepsPromise == Promise!Spec

=============================================================================
