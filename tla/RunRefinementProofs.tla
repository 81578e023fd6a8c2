------------------------ MODULE RunRefinementProofs -------------------------
(***************************************************************************)
(* RunLifecycle implements RunPromise, for every set of runs, tenants,     *)
(* workers, loop activations and cancel requests.                          *)
(*                                                                         *)
(* The promise looks at a run through three marks of its trail, its status *)
(* and the tick that holds it.  StepKinds says once what a step may do to  *)
(* these; the invariant and the refinement follow from the kinds.  The     *)
(* counters of the workers are followed in the same way, further down.     *)
(***************************************************************************)
EXTENDS RunLifecycleProofs, FiniteSetTheorems

Concluded(r) == Has(r, "run.completed") \/ Has(r, "run.failed")

\* A tick records its claim before anything else and its verdict last, so a run
\* has one verdict, whatever is recorded beside it.
VerdictOnce ==
  /\ \A l \in Loops : pc[l] \in Busy \ {"claimed"} => Has(held[l], "run.claimed")
  /\ \A l \in Loops : pc[l] \in Busy \ {"finish", "count"} => ~Concluded(held[l])
  /\ \A r \in Runs : Concluded(r) => Has(r, "run.claimed")
  /\ \A r \in Runs : ~(Has(r, "run.completed") /\ Has(r, "run.failed"))

-----------------------------------------------------------------------------
(* What a step may do to what the promise sees *)

Marks == {"run.claimed", "run.completed", "run.failed"}

\* At most the mark a of run r is new.
MarksBut(r, a) ==
  \A q \in Runs : \A b \in Marks : Has(q, b)' <=> Has(q, b) \/ (q = r /\ b = a)
SameMarks == \A q \in Runs : \A b \in Marks : Has(q, b)' <=> Has(q, b)
StatusesBut(r, status) ==
  \A q \in Runs : runs'[q].status = IF q = r THEN status ELSE runs[q].status
SameStatuses == \A q \in Runs : runs'[q].status = runs[q].status

\* Before, within and after the part of a tick that a step may move in unnoticed.
Unnoticed ==
  {{"idle", "loop", "rest", "asleep"}, {"capture", "captured", "select", "executing", "report"}}

KindQuiet ==
  /\ SameMarks /\ SameStatuses /\ held' = held
  /\ \A l \in Loops : pc'[l] = pc[l] \/ \E S \in Unnoticed : pc[l] \in S /\ pc'[l] \in S
KindCreate(r) ==
  /\ runs[r].status = "absent" /\ StatusesBut(r, "queued")
  /\ SameMarks /\ UNCHANGED <<held, pc>>
KindCancel(r) ==
  /\ runs[r].status # "absent" /\ StatusesBut(r, "cancelled")
  /\ SameMarks /\ UNCHANGED <<held, pc>>
KindClaim(l, r) ==
  /\ pc[l] = "loop" /\ runs[r].status = "queued" /\ StatusesBut(r, "running")
  /\ SameMarks
  /\ held' = [held EXCEPT ![l] = r] /\ pc' = [pc EXCEPT ![l] = "claimed"]
KindClaimed(l) ==
  /\ pc[l] = "claimed" /\ MarksBut(held[l], "run.claimed") /\ SameStatuses
  /\ held' = held /\ pc' = [pc EXCEPT ![l] = "capture"]
KindVerdict(l) ==
  /\ pc[l] = "report" /\ MarksBut(held[l], Verdict(outcome[l])) /\ SameStatuses
  /\ held' = held /\ pc' = [pc EXCEPT ![l] = "finish"]
KindFinish(l) ==
  /\ pc[l] = "finish" /\ SameMarks /\ StatusesBut(held[l], outcome[l])
  /\ held' = held /\ pc' = [pc EXCEPT ![l] = "count"]
KindReturn(l) ==
  /\ pc[l] \in {"report", "count"} /\ SameMarks /\ SameStatuses
  /\ held' = [held EXCEPT ![l] = Nobody]
  /\ \E at \in {"loop", "rest"} : pc' = [pc EXCEPT ![l] = at]

StepKind ==
  \/ KindQuiet
  \/ \E r \in Runs : KindCreate(r) \/ KindCancel(r)
  \/ \E l \in Loops :
       \/ \E r \in Runs : KindClaim(l, r)
       \/ KindClaimed(l) \/ KindVerdict(l) \/ KindFinish(l) \/ KindReturn(l)

\* An entry that is none of the marks leaves all marks as they were.
LEMMA OtherEntry ==
  ASSUME TypeOK, NEW s \in Subjects, NEW a \in Actions \ Marks,
         NEW x \in Workers \union {Client}, NEW t \in Tenants \union {Nobody},
         Record(s, a, x, t)
  PROVE  SameMarks
<1>1. \A q \in Subjects : \A b : Has(q, b)' <=> Has(q, b) \/ (q = s /\ b = a)
  BY RecordHas
<1> QED
  BY <1>1 DEF SameMarks, Subjects

\* A trail that is not written to keeps its marks.
LEMMA NoEntry == ASSUME UNCHANGED trail PROVE SameMarks
BY DEF SameMarks, Has

\* What the executor reports is never a mark: only the worker writes those.
LEMMA EventsUnmarked == ExecutionEvents \subseteq Actions \ Marks
BY DEF ExecutionEvents, Actions, Marks

\* The handlers of a submission and of a cancel request.
LEMMA HandlerKinds ==
  ASSUME RunInv,
         \/ \E r \in Runs : SubmitStep(r)
         \/ \E c \in CancelCalls : CancelStep(c)
  PROVE  StepKind
<1> USE DEF submitVars, cancelVars, workerVars, loopVars
<1>1. /\ TypeOK /\ SubmitAgrees /\ CancelAgrees
      /\ runs \in [Runs -> RunRecord]
      /\ copy \in [CancelCalls -> RunRecord]
      /\ caller \in [CancelCalls -> Tenants \union {Nobody}]
      /\ Runs \subseteq Subjects /\ TaskSet \in Subjects
  BY DEF RunInv, TypeOK, Subjects
<1>2. ASSUME NEW r \in Runs, Refuse(r) PROVE StepKind
  BY <1>2, NoEntry DEF Refuse, StepKind, KindQuiet, SameStatuses
<1>3. ASSUME NEW r \in Runs, NEW t \in Tenants, DenySplit(r, t) PROVE StepKind
  <2>1. SameMarks
    BY <1>1, <1>3, OtherEntry DEF DenySplit, Actions, Marks
  <2> QED
    BY <1>3, <2>1 DEF DenySplit, StepKind, KindQuiet, SameStatuses
<1>4. ASSUME NEW r \in Runs, NEW t \in Tenants, NEW b \in Backends, Create(r, t, b)
      PROVE  StepKind
  <2>1. runs[r].status = "absent"
    BY <1>1, <1>4 DEF Create, SubmitAgrees
  <2>2. StatusesBut(r, "queued")
    BY <1>1, <1>4 DEF Create, StatusesBut, NoRun
  <2> QED
    BY <1>4, <2>1, <2>2, NoEntry DEF Create, StepKind, KindCreate
<1>5. ASSUME NEW r \in Runs, Accept(r) PROVE StepKind
  <2>1. runs[r].tenant \in Tenants \union {Nobody}
    BY <1>1 DEF RunRecord
  <2>2. SameMarks
    BY <1>1, <1>5, <2>1, OtherEntry DEF Accept, Actions, Marks
  <2> QED
    BY <1>5, <2>2 DEF Accept, StepKind, KindQuiet, SameStatuses
<1>6. ASSUME NEW c \in CancelCalls, NEW r \in Runs, NEW t \in Tenants,
             CancelUnknown(c, r, t) \/ CancelRead(c, r, t)
      PROVE  StepKind
  BY <1>6, NoEntry DEF CancelUnknown, CancelRead, StepKind, KindQuiet, SameStatuses
<1>7. ASSUME NEW c \in CancelCalls, CancelWrite(c) PROVE StepKind
  <2>1. target[c] \in Runs /\ runs[target[c]].status # "absent"
    BY <1>1, <1>7 DEF CancelWrite, CancelAgrees
  <2>2. StatusesBut(target[c], "cancelled")
    BY <1>1, <1>7 DEF CancelWrite, StatusesBut, RunRecord
  <2> QED
    BY <1>7, <2>1, <2>2, NoEntry DEF CancelWrite, StepKind, KindCancel
<1>8. ASSUME NEW c \in CancelCalls, CancelRecord(c) PROVE StepKind
  <2>1. target[c] \in Runs
    BY <1>1, <1>8 DEF CancelRecord, CancelAgrees
  <2>2. SameMarks
    BY <1>1, <1>8, <2>1, OtherEntry DEF CancelRecord, Actions, Marks
  <2> QED
    BY <1>8, <2>2 DEF CancelRecord, StepKind, KindQuiet, SameStatuses
<1> QED
  BY <1>2, <1>3, <1>4, <1>5, <1>6, <1>7, <1>8 DEF SubmitStep, CancelStep

\* The loop of a worker and the ticks it makes.
LEMMA WorkerKinds ==
  ASSUME RunInv,
         \/ \E l \in Loops : Start(l) \/ LoopStep(l)
         \/ \E w \in Workers : Stop(w)
  PROVE  StepKind
<1> USE DEF submitVars, cancelVars, workerVars, loopVars
<1>1. /\ TypeOK /\ HoldsRun /\ TimerAsleep /\ VerdictReady
      /\ runs \in [Runs -> RunRecord]
      /\ pc \in [Loops -> Busy \union {"idle", "loop", "rest", "asleep"}]
      /\ Runs \subseteq Subjects
  BY DEF RunInv, TypeOK, Subjects
<1>2. ASSUME NEW l \in Loops, Start(l) \/ Exit(l) \/ Sleep(l) \/ Wake(l) \/ PollEmpty(l)
      PROVE  StepKind
  BY <1>1, <1>2, NoEntry
  DEF Start, Exit, Sleep, Wake, PollEmpty, Go, StepKind, KindQuiet, SameStatuses, Unnoticed
<1>3. ASSUME NEW w \in Workers, Stop(w) PROVE StepKind
  <2>1. \A l \in Loops : pc'[l] = pc[l] \/ (pc[l] = "asleep" /\ pc'[l] = "idle")
    BY <1>1, <1>3 DEF Stop, TimerAsleep
  <2> QED
    BY <1>3, <2>1, NoEntry DEF Stop, StepKind, KindQuiet, SameStatuses, Unnoticed
<1>4. ASSUME NEW l \in Loops, NEW r \in Runs, Claim(l, r) PROVE StepKind
  <2>1. runs[r].status = "queued" /\ StatusesBut(r, "running")
    BY <1>1, <1>4 DEF Claim, FirstQueued, Queued, StatusesBut, RunRecord
  <2> QED
    BY <1>4, <2>1, NoEntry DEF Claim, Go, StepKind, KindClaim
<1>5. ASSUME NEW l \in Loops, RecordClaim(l) PROVE StepKind
  <2>1. MarksBut(held[l], "run.claimed")
    BY <1>1, <1>5, HeldRun, RecordHas
    DEF RecordClaim, RecordAs, Busy, Actions, MarksBut
  <2> QED
    BY <1>5, <2>1 DEF RecordClaim, Go, StepKind, KindClaimed, SameStatuses
<1>6. ASSUME NEW l \in Loops, Capture(l) PROVE StepKind
  <2>1. SameStatuses
    BY <1>1, <1>6 DEF Capture, SameStatuses, RunRecord
  <2> QED
    BY <1>1, <1>6, <2>1, NoEntry DEF Capture, Go, StepKind, KindQuiet, Unnoticed
<1>7. ASSUME NEW l \in Loops, Select(l) \/ Execute(l) \/ ExecutorThrew(l) PROVE StepKind
  BY <1>1, <1>7, NoEntry
  DEF Select, Execute, ExecutorThrew, Conclude, Go, StepKind, KindQuiet, SameStatuses,
      Unnoticed
<1>8. ASSUME NEW l \in Loops, RecordNode(l) \/ SelectBlocked(l) PROVE StepKind
  <2>1. SameMarks
    BY <1>1, <1>8, HeldRun, OtherEntry
    DEF RecordNode, SelectBlocked, RecordAs, Busy, Actions, Marks
  <2> QED
    BY <1>1, <1>8, <2>1
    DEF RecordNode, SelectBlocked, Conclude, Go, StepKind, KindQuiet, SameStatuses, Unnoticed
<1>9. ASSUME NEW l \in Loops, Report(l) PROVE StepKind
  <2>1. Head(todo[l]) \in ExecutionEvents
    BY <1>1, <1>9, HeadTailProperties DEF TypeOK, Report
  <2>2. SameMarks
    BY <1>1, <1>9, <2>1, HeldRun, EventsUnmarked, OtherEntry DEF Report, RecordAs, Busy
  <2> QED
    BY <1>9, <2>2 DEF Report, StepKind, KindQuiet, SameStatuses
<1>10. ASSUME NEW l \in Loops, ReportThrew(l) \/ EndTick(l) PROVE StepKind
  BY <1>10, NoEntry DEF ReportThrew, EndTick, Forget, Go, StepKind, KindReturn, SameStatuses
<1>11. ASSUME NEW l \in Loops, RecordVerdict(l) PROVE StepKind
  <2>1. RecordAs(l, Verdict(outcome[l])) /\ Verdict(outcome[l]) \in Actions
    BY <1>11 DEF RecordVerdict, Verdict, Actions
  <2>2. MarksBut(held[l], Verdict(outcome[l]))
    BY <1>1, <1>11, <2>1, HeldRun, RecordHas DEF RecordVerdict, RecordAs, Busy, MarksBut
  <2> QED
    BY <1>11, <2>2 DEF RecordVerdict, Go, StepKind, KindVerdict, SameStatuses
<1>12. ASSUME NEW l \in Loops, Finish(l) PROVE StepKind
  <2>1. held[l] \in Runs
    BY <1>1, <1>12, HeldRun DEF Finish, Busy
  <2>2. StatusesBut(held[l], outcome[l])
    BY <1>1, <1>12, <2>1 DEF Finish, StatusesBut, RunRecord
  <2> QED
    BY <1>12, <2>2, NoEntry DEF Finish, Go, StepKind, KindFinish
<1> QED
  BY <1>2, <1>3, <1>4, <1>5, <1>6, <1>7, <1>8, <1>9, <1>10, <1>11, <1>12
  DEF LoopStep, TickStep

\* Every step is of one of the kinds.
LEMMA StepKinds == ASSUME RunInv, [Next]_vars PROVE StepKind
<1>1. CASE UNCHANGED vars
  <2>1. UNCHANGED <<runs, trail, held, pc>>
    BY <1>1 DEF vars, loopVars
  <2> QED
    BY <2>1, NoEntry DEF StepKind, KindQuiet, SameStatuses
<1> QED
  BY <1>1, HandlerKinds, WorkerKinds DEF Next

-----------------------------------------------------------------------------
(* The invariant *)

LEMMA VerdictOnceInit == ASSUME Init PROVE VerdictOnce
BY DEF Init, VerdictOnce, Concluded, Has, Busy, Subjects

LEMMA VerdictOnceStep == ASSUME RunInv, VerdictOnce, [Next]_vars PROVE VerdictOnce'
<1>1. /\ HoldsRun /\ Granted /\ ExecutedOnce /\ VerdictReady
      /\ pc \in [Loops -> Busy \union {"idle", "loop", "rest", "asleep"}]
      /\ held \in [Loops -> Runs \union {Nobody}]
      /\ Nobody \notin Runs
  BY NamesAssumption DEF RunInv, TypeOK
<1>2. \A l \in Loops : pc[l] \in Busy => held[l] \in Runs
  BY <1>1 DEF HoldsRun
<1>3. ASSUME SameMarks
      PROVE  \A r \in Runs : /\ Concluded(r)' <=> Concluded(r)
                             /\ \A a \in Marks : Has(r, a)' <=> Has(r, a)
  BY <1>3 DEF SameMarks, Concluded, Marks
<1>4. ASSUME KindQuiet PROVE VerdictOnce'
  <2>1. \A l \in Loops :
          /\ pc'[l] \in Busy \ {"claimed"} => pc[l] \in Busy \ {"claimed"}
          /\ pc'[l] \in Busy \ {"finish", "count"} => pc[l] \in Busy \ {"finish", "count"}
    BY <1>4 DEF KindQuiet, Unnoticed, Busy
  <2> QED
    BY <1>2, <1>3, <1>4, <2>1 DEF KindQuiet, VerdictOnce, Marks
<1>5. ASSUME NEW r \in Runs, KindCreate(r) \/ KindCancel(r) PROVE VerdictOnce'
  BY <1>2, <1>3, <1>5 DEF KindCreate, KindCancel, VerdictOnce, Marks
<1>6. ASSUME NEW l \in Loops, NEW r \in Runs, KindClaim(l, r) PROVE VerdictOnce'
  <2>1. ~Has(r, "run.claimed") /\ ~Concluded(r)
    BY <1>1, <1>6 DEF KindClaim, Granted, VerdictOnce
  <2> QED
    BY <1>1, <1>2, <1>3, <1>6, <2>1 DEF KindClaim, VerdictOnce, Marks, Busy
<1>7. ASSUME NEW l \in Loops, KindClaimed(l) PROVE VerdictOnce'
  <2>1. \A q \in Runs : /\ Concluded(q)' <=> Concluded(q)
                        /\ Has(q, "run.claimed")' <=> Has(q, "run.claimed") \/ q = held[l]
                        /\ Has(q, "run.completed")' <=> Has(q, "run.completed")
                        /\ Has(q, "run.failed")' <=> Has(q, "run.failed")
    BY <1>7 DEF KindClaimed, MarksBut, Concluded, Marks
  <2> QED
    BY <1>1, <1>2, <1>7, <2>1 DEF KindClaimed, VerdictOnce, Busy
<1>8. ASSUME NEW l \in Loops, KindVerdict(l) PROVE VerdictOnce'
  <2>1. held[l] \in Runs /\ ~Concluded(held[l]) /\ Has(held[l], "run.claimed")
    BY <1>2, <1>8 DEF KindVerdict, VerdictOnce, Busy
  <2>2. Verdict(outcome[l]) \in {"run.completed", "run.failed"}
    BY DEF Verdict
  <2>3. \A q \in Runs : /\ Has(q, "run.claimed")' <=> Has(q, "run.claimed")
                        /\ q # held[l] => (\A a \in Marks : Has(q, a)' <=> Has(q, a))
                        /\ ~(Has(q, "run.completed")' /\ Has(q, "run.failed")')
    BY <1>8, <2>1, <2>2 DEF KindVerdict, MarksBut, Concluded, Marks, VerdictOnce
  <2>4. \A q \in Runs : q # held[l] => (Concluded(q)' <=> Concluded(q))
    BY <2>3 DEF Concluded, Marks
  <2>5. \A m \in Loops : m # l /\ pc[m] \in Busy => held[m] # held[l]
    BY <1>1, <1>2, <2>1 DEF ExecutedOnce
  <2> QED
    BY <1>1, <1>2, <1>8, <2>1, <2>3, <2>4, <2>5 DEF KindVerdict, VerdictOnce, Busy
<1>9. ASSUME NEW l \in Loops, KindFinish(l) PROVE VerdictOnce'
  BY <1>1, <1>2, <1>3, <1>9 DEF KindFinish, VerdictOnce, Marks, Busy
<1>10. ASSUME NEW l \in Loops, KindReturn(l) PROVE VerdictOnce'
  <2>1. PICK at \in {"loop", "rest"} : pc' = [pc EXCEPT ![l] = at]
    BY <1>10 DEF KindReturn
  <2> QED
    BY <1>1, <1>2, <1>3, <1>10, <2>1 DEF KindReturn, VerdictOnce, Marks, Busy
<1> QED
  BY <1>4, <1>5, <1>6, <1>7, <1>8, <1>9, <1>10, StepKinds DEF StepKind

\* A run has one verdict, recorded last, by the tick that claimed it.
THEOREM VerdictsOnce == Spec => []VerdictOnce
<1>1. RunInv /\ VerdictOnce /\ [Next]_vars => VerdictOnce'
  BY VerdictOnceStep
<1> QED
  BY <1>1, VerdictOnceInit, RunInvariant, PTL DEF Spec

-----------------------------------------------------------------------------
(* The refinement *)

LEMMA PromiseInit == ASSUME Init PROVE Promise!Init
<1>1. \A r \in Runs, a \in Marks : ~Has(r, a)
  BY DEF Init, Has, Subjects
<1>2. \A r \in Runs : runs[r].status = "absent"
  BY DEF Init, NoRun
<1>3. StatusOf = [r \in Runs |-> "absent"]
  BY <1>2 DEF StatusOf
<1>4. Begun = [r \in Runs |-> FALSE]
  <2>1. \A r \in Runs : ~(Has(r, "run.claimed") \/ \E l \in Loops : held[l] = r)
    BY <1>1, NamesAssumption DEF Init, Marks
  <2> QED
    BY <2>1 DEF Begun
<1>5. VerdictOf = [r \in Runs |-> "none"]
  BY <1>1 DEF VerdictOf, Marks
<1>6. Published = [r \in Runs |-> FALSE]
  <2>1. \A r \in Runs : ~(Has(r, "run.completed") \/ Has(r, "run.failed"))
    BY <1>1 DEF Marks
  <2> QED
    BY <2>1 DEF Published
<1> QED
  BY <1>3, <1>4, <1>5, <1>6 DEF Promise!Init

LEMMA PromiseStep ==
  ASSUME RunInv, VerdictOnce, [Next]_vars
  PROVE  [Promise!Next]_(Promise!vars)
<1>1. /\ HoldsRun /\ Granted /\ ExecutedOnce /\ VerdictReady
      /\ pc \in [Loops -> Busy \union {"idle", "loop", "rest", "asleep"}]
      /\ held \in [Loops -> Runs \union {Nobody}]
      /\ Nobody \notin Runs
  BY NamesAssumption DEF RunInv, TypeOK
<1>2. \A l \in Loops : pc[l] \in Busy => held[l] \in Runs
  BY <1>1 DEF HoldsRun
<1>3. ASSUME SameMarks PROVE VerdictOf' = VerdictOf
  BY <1>3 DEF SameMarks, VerdictOf, Marks
<1>4. ASSUME KindQuiet PROVE UNCHANGED Promise!vars
  <2>1. \A l \in Loops : pc'[l] = "finish" <=> pc[l] = "finish"
    BY <1>4 DEF KindQuiet, Unnoticed
  <2>2. StatusOf' = StatusOf /\ Begun' = Begun /\ Published' = Published
    BY <1>4, <2>1 DEF KindQuiet, SameMarks, SameStatuses, StatusOf, Begun, Published, Marks
  <2> QED
    BY <1>3, <1>4, <2>2 DEF KindQuiet, Promise!vars
<1>5. ASSUME NEW r \in Runs, KindCreate(r) PROVE Promise!Accept(r)
  <2>1. Begun' = Begun /\ Published' = Published
    BY <1>5 DEF KindCreate, SameMarks, Begun, Published, Marks
  <2>2. StatusOf' = [StatusOf EXCEPT ![r] = "queued"] /\ StatusOf[r] = "absent"
    BY <1>5 DEF KindCreate, StatusesBut, StatusOf
  <2> QED
    BY <1>3, <1>5, <2>1, <2>2 DEF KindCreate, Promise!Accept
<1>6. ASSUME NEW r \in Runs, KindCancel(r) PROVE Promise!Cancel(r)
  <2>1. Begun' = Begun /\ Published' = Published
    BY <1>6 DEF KindCancel, SameMarks, Begun, Published, Marks
  <2>2. StatusOf' = [StatusOf EXCEPT ![r] = "cancelled"] /\ StatusOf[r] # "absent"
    BY <1>6 DEF KindCancel, StatusesBut, StatusOf
  <2> QED
    BY <1>3, <1>6, <2>1, <2>2 DEF KindCancel, Promise!Cancel
<1>7. ASSUME NEW l \in Loops, NEW r \in Runs, KindClaim(l, r) PROVE Promise!Begin(r)
  <2>1. ~Begun[r]
    BY <1>1, <1>7 DEF KindClaim, Granted, Begun
  <2>2. Begun' = [Begun EXCEPT ![r] = TRUE]
    <3>1. \A q \in Runs : (\E m \in Loops : held'[m] = q) <=> q = r \/ \E m \in Loops : held[m] = q
      BY <1>1, <1>7 DEF KindClaim, HoldsRun, Busy
    <3> QED
      BY <1>7, <3>1 DEF KindClaim, SameMarks, Begun, Marks
  <2>3. Published' = Published
    <3>1. \A q \in Runs : (\E m \in Loops : held'[m] = q /\ pc'[m] = "finish")
                           <=> \E m \in Loops : held[m] = q /\ pc[m] = "finish"
      BY <1>1, <1>7 DEF KindClaim
    <3> QED
      BY <1>7, <3>1 DEF KindClaim, SameMarks, Published, Marks
  <2>4. StatusOf' = [StatusOf EXCEPT ![r] = "running"] /\ StatusOf[r] = "queued"
    BY <1>7 DEF KindClaim, StatusesBut, StatusOf
  <2> QED
    BY <1>3, <1>7, <2>1, <2>2, <2>3, <2>4 DEF KindClaim, Promise!Begin
<1>8. ASSUME NEW l \in Loops, KindClaimed(l) PROVE UNCHANGED Promise!vars
  <2>1. \A m \in Loops : pc'[m] = "finish" <=> pc[m] = "finish"
    BY <1>1, <1>8 DEF KindClaimed
  <2>2. \A q \in Runs : /\ Has(q, "run.claimed")' <=> Has(q, "run.claimed") \/ q = held[l]
                        /\ Has(q, "run.completed")' <=> Has(q, "run.completed")
                        /\ Has(q, "run.failed")' <=> Has(q, "run.failed")
    BY <1>8 DEF KindClaimed, MarksBut, Marks
  <2>3. Begun' = Begun
    BY <1>8, <2>2 DEF KindClaimed, Begun
  <2> QED
    BY <1>8, <2>1, <2>2, <2>3
    DEF KindClaimed, SameStatuses, StatusOf, VerdictOf, Published, Promise!vars
<1>9. ASSUME NEW l \in Loops, KindVerdict(l)
      PROVE  \E r \in Runs : \E v \in Promise!Verdicts : Promise!Seal(r, v)
  <2>1. PICK r \in Runs : /\ r = held[l] /\ ~Concluded(r) /\ Has(r, "run.claimed")
                          /\ outcome[l] \in {"completed", "failed"}
    BY <1>1, <1>2, <1>9 DEF KindVerdict, VerdictOnce, Busy, VerdictReady
  <2>2. \A q \in Runs :
          /\ Has(q, "run.claimed")' <=> Has(q, "run.claimed")
          /\ Has(q, "run.completed")'
               <=> Has(q, "run.completed") \/ (q = r /\ outcome[l] = "completed")
          /\ Has(q, "run.failed")'
               <=> Has(q, "run.failed") \/ (q = r /\ outcome[l] = "failed")
    BY <1>9, <2>1 DEF KindVerdict, MarksBut, Marks, Verdict
  <2>3. VerdictOf' = [VerdictOf EXCEPT ![r] = outcome[l]] /\ VerdictOf[r] = "none"
    BY <2>1, <2>2 DEF VerdictOf, Concluded
  <2>4. Begun' = Begun /\ Begun[r]
    BY <1>9, <2>1, <2>2 DEF KindVerdict, Begun
  <2>5. \A m \in Loops : m # l => held[m] # r
    BY <1>1, <2>1 DEF ExecutedOnce
  <2>6. Published' = Published
    <3>1. ~Published[r] /\ ~Published'[r]
      BY <1>1, <1>9, <2>1 DEF KindVerdict, Published, Concluded
    <3>2. ASSUME NEW q \in Runs, q # r PROVE Published'[q] <=> Published[q]
      <4>1. (\E m \in Loops : held'[m] = q /\ pc'[m] = "finish")
              <=> \E m \in Loops : held[m] = q /\ pc[m] = "finish"
        BY <1>1, <1>9, <2>1, <3>2 DEF KindVerdict
      <4> QED
        BY <2>2, <3>2, <4>1 DEF Published
    <3>3. \A q \in Runs : Published'[q] <=> Published[q]
      BY <3>1, <3>2
    <3> QED
      BY <3>3 DEF Published
  <2>7. StatusOf' = StatusOf
    BY <1>9 DEF KindVerdict, SameStatuses, StatusOf
  <2> QED
    BY <2>1, <2>3, <2>4, <2>6, <2>7 DEF Promise!Verdicts, Promise!Seal
<1>10. ASSUME NEW l \in Loops, KindFinish(l) PROVE \E r \in Runs : Promise!Publish(r)
  <2>1. PICK r \in Runs : /\ r = held[l] /\ Has(r, Verdict(outcome[l]))
                          /\ outcome[l] \in {"completed", "failed"}
    BY <1>1, <1>2, <1>10 DEF KindFinish, Busy, VerdictReady
  <2>2. VerdictOf[r] = outcome[l]
    BY <2>1 DEF VerdictOf, VerdictOnce, Verdict
  <2>3. \A m \in Loops : m # l => held[m] # r
    BY <1>1, <2>1 DEF ExecutedOnce
  <2>4. ~Published[r] /\ Published'[r]
    <3>1. Has(r, "run.completed") \/ Has(r, "run.failed")
      BY <2>1 DEF Verdict
    <3>2. Has(r, "run.completed")' \/ Has(r, "run.failed")'
      BY <1>10, <3>1 DEF KindFinish, SameMarks, Marks
    <3>3. ~ \E m \in Loops : held'[m] = r /\ pc'[m] = "finish"
      BY <1>1, <1>10, <2>3 DEF KindFinish
    <3> QED
      BY <1>10, <2>1, <3>2, <3>3 DEF KindFinish, Published
  <2>5. \A q \in Runs : q # r => (Published'[q] <=> Published[q])
    <3>1. ASSUME NEW q \in Runs, q # r
          PROVE  (\E m \in Loops : held'[m] = q /\ pc'[m] = "finish")
                   <=> \E m \in Loops : held[m] = q /\ pc[m] = "finish"
      BY <1>1, <1>10, <2>1, <3>1 DEF KindFinish
    <3> QED
      BY <1>10, <3>1 DEF KindFinish, SameMarks, Marks, Published
  <2>6. Published' = [Published EXCEPT ![r] = TRUE]
    BY <2>4, <2>5 DEF Published
  <2>7. StatusOf' = [StatusOf EXCEPT ![r] = VerdictOf[r]]
    BY <1>10, <2>1, <2>2 DEF KindFinish, StatusesBut, StatusOf
  <2>8. Begun' = Begun
    BY <1>10 DEF KindFinish, SameMarks, Marks, Begun
  <2>9. VerdictOf' = VerdictOf
    BY <1>3, <1>10 DEF KindFinish
  <2> QED
    BY <2>1, <2>2, <2>4, <2>6, <2>7, <2>8, <2>9 DEF Promise!Publish
<1>11. ASSUME NEW l \in Loops, KindReturn(l) PROVE UNCHANGED Promise!vars
  <2>1. PICK at \in {"loop", "rest"} : pc' = [pc EXCEPT ![l] = at]
    BY <1>11 DEF KindReturn
  <2>2. held[l] \in Runs /\ Has(held[l], "run.claimed")
    BY <1>2, <1>11 DEF KindReturn, VerdictOnce, Busy
  <2>3. Begun' = Begun
    BY <1>1, <1>11, <2>2 DEF KindReturn, SameMarks, Marks, Begun
  <2>4. \A q \in Runs : (\E m \in Loops : held'[m] = q /\ pc'[m] = "finish")
                         <=> \E m \in Loops : held[m] = q /\ pc[m] = "finish"
    BY <1>1, <1>11, <2>1 DEF KindReturn
  <2>5. Published' = Published
    BY <1>11, <2>4 DEF KindReturn, SameMarks, Marks, Published
  <2> QED
    BY <1>3, <1>11, <2>3, <2>5 DEF KindReturn, SameStatuses, StatusOf, Promise!vars
<1> QED
  BY <1>2, <1>4, <1>5, <1>6, <1>7, <1>8, <1>9, <1>10, <1>11, StepKinds
  DEF StepKind, Promise!Next, KindVerdict, Busy

\* Workers, handlers, restarts and cancellations together do nothing to a run
\* that the promise does not allow.
THEOREM PromiseKept == Spec => KeepsPromise
<1>1. RunInv /\ VerdictOnce /\ [Next]_vars => [Promise!Next]_(Promise!vars)
  BY PromiseStep
<1> QED
  BY <1>1, PromiseInit, RunInvariant, VerdictsOnce, PTL DEF Spec, KeepsPromise, Promise!Spec

-----------------------------------------------------------------------------
(* The counters *)

Outcomes == {"completed", "failed"}

Wrote(r, action, w) ==
  \E i \in DOMAIN trail[r] : trail[r][i].action = action /\ trail[r][i].actor = w

\* StatsAgree counts sets that are finite, whatever the constants are.
Counted ==
  /\ \A w \in Workers, a \in Marks : IsFiniteSet(RecordedBy(w, a))
  /\ \A w \in Workers, o \in Outcomes : IsFiniteSet(Finishing(w, o))

SameRecorded == \A w \in Workers, a \in Marks : RecordedBy(w, a)' = RecordedBy(w, a)
SameFinishing == \A w \in Workers, o \in Outcomes : Finishing(w, o)' = Finishing(w, o)

\* Run r is recorded with the mark a by the worker x, and nothing else is.
RecordedBut(r, a, x) ==
  \A w \in Workers, b \in Marks :
    RecordedBy(w, b)' = RecordedBy(w, b) \union (IF w = x /\ b = a THEN {r} ELSE {})

\* What a step may do to what the counters count.
CountsQuiet == SameRecorded /\ SameFinishing /\ stats' = stats
CountsClaim(l) ==
  /\ pc[l] = "claimed" /\ Count(l, "claimed") /\ SameFinishing
  /\ RecordedBut(held[l], "run.claimed", Worker(l))
CountsVerdict(l) ==
  /\ pc[l] = "report" /\ stats' = stats
  /\ RecordedBut(held[l], Verdict(outcome[l]), Worker(l))
  /\ \A w \in Workers, o \in Outcomes :
       Finishing(w, o)' =
         Finishing(w, o) \union (IF w = Worker(l) /\ o = outcome[l] THEN {l} ELSE {})
CountsReturn(l) ==
  /\ pc[l] = "count" /\ Count(l, outcome[l]) /\ SameRecorded
  /\ \A w \in Workers, o \in Outcomes :
       Finishing(w, o)' =
         Finishing(w, o) \ (IF w = Worker(l) /\ o = outcome[l] THEN {l} ELSE {})

CountsStep ==
  CountsQuiet \/ \E l \in Loops : CountsClaim(l) \/ CountsVerdict(l) \/ CountsReturn(l)

\* Who wrote what, after one entry.
LEMMA RecordWrote ==
  ASSUME TypeOK, NEW s \in Subjects, NEW a \in Actions,
         NEW x \in Workers \union {Client}, NEW t \in Tenants \union {Nobody},
         Record(s, a, x, t)
  PROVE  \A q \in Subjects : \A b, y :
           Wrote(q, b, y)' <=> Wrote(q, b, y) \/ (q = s /\ b = a /\ y = x)
<1>1. SUFFICES ASSUME NEW q \in Subjects, NEW b, NEW y
               PROVE  Wrote(q, b, y)' <=> Wrote(q, b, y) \/ (q = s /\ b = a /\ y = x)
  OBVIOUS
<1>2. CASE q # s
  BY <1>2, RecordEffect DEF Wrote
<1>3. CASE q = s
  <2>1. PICK n : n = Len(trail[s]) + 1
    OBVIOUS
  <2>2. /\ DOMAIN trail'[s] = DOMAIN trail[s] \union {n}
        /\ \A i \in DOMAIN trail[s] : trail'[s][i] = trail[s][i]
        /\ trail'[s][n].action = a /\ trail'[s][n].actor = x
    <3>1. /\ Len(trail[s]) \in Nat
          /\ DOMAIN trail[s] = 1..Len(trail[s])
          /\ DOMAIN trail'[s] = 1..(Len(trail[s]) + 1)
          /\ \A i \in DOMAIN trail[s] : trail'[s][i] = trail[s][i]
          /\ trail'[s][Len(trail[s]) + 1] = Entry(a, x, t)
      BY RecordEffect
    <3>2. \A m \in Nat : 1..(m + 1) = (1..m) \union {m + 1}
      OBVIOUS
    <3>3. Entry(a, x, t).action = a /\ Entry(a, x, t).actor = x
      BY DEF Entry
    <3> QED
      BY <2>1, <3>1, <3>2, <3>3
  <2>3. Wrote(s, b, y)' <=> \E i \in DOMAIN trail[s] \union {n} :
                              trail'[s][i].action = b /\ trail'[s][i].actor = y
    BY <2>2 DEF Wrote
  <2> QED
    BY <1>3, <2>2, <2>3 DEF Wrote
<1> QED
  BY <1>2, <1>3

\* A mark recorded by x, or no mark.
LEMMA MarkRecorded ==
  ASSUME TypeOK, NEW r \in Runs, NEW a \in Actions,
         NEW x \in Workers, NEW t \in Tenants \union {Nobody}, Record(r, a, x, t)
  PROVE  RecordedBut(r, a, x)
<1>1. \A q \in Runs : \A b, y :
        Wrote(q, b, y)' <=> Wrote(q, b, y) \/ (q = r /\ b = a /\ y = x)
  BY RecordWrote DEF Subjects
<1>2. ASSUME NEW w, NEW b \in Marks
      PROVE  RecordedBy(w, b)' = RecordedBy(w, b) \union (IF w = x /\ b = a THEN {r} ELSE {})
  <2>1. /\ RecordedBy(w, b) = {q \in Runs : Wrote(q, b, w)}
        /\ RecordedBy(w, b)' = {q \in Runs : Wrote(q, b, w)'}
    BY DEF RecordedBy, Wrote
  <2>2. \A q \in Runs : Wrote(q, b, w)' <=> Wrote(q, b, w) \/ (q = r /\ b = a /\ w = x)
    BY <1>1
  <2> QED
    BY <2>1, <2>2
<1> QED
  BY <1>2 DEF RecordedBut

\* An entry that is no mark leaves what every worker recorded of them.
LEMMA OtherRecorded ==
  ASSUME TypeOK, NEW s \in Subjects, NEW a \in Actions \ Marks,
         NEW x \in Workers \union {Client}, NEW t \in Tenants \union {Nobody},
         Record(s, a, x, t)
  PROVE  SameRecorded
<1>0. a \in Actions /\ a \notin Marks
  OBVIOUS
<1>1. \A q \in Runs : \A b, y :
        Wrote(q, b, y)' <=> Wrote(q, b, y) \/ (q = s /\ b = a /\ y = x)
  BY <1>0, RecordWrote DEF Subjects
<1>2. ASSUME NEW w, NEW b \in Marks PROVE RecordedBy(w, b)' = RecordedBy(w, b)
  <2>1. /\ RecordedBy(w, b) = {q \in Runs : Wrote(q, b, w)}
        /\ RecordedBy(w, b)' = {q \in Runs : Wrote(q, b, w)'}
    BY DEF RecordedBy, Wrote
  <2>2. \A q \in Runs : Wrote(q, b, w)' <=> Wrote(q, b, w)
    BY <1>0, <1>1
  <2> QED
    BY <2>1, <2>2
<1> QED
  BY <1>2 DEF SameRecorded

\* So does a step that records nothing.
LEMMA NothingRecorded == ASSUME UNCHANGED trail PROVE SameRecorded
BY DEF SameRecorded, RecordedBy

\* The ticks about to return are the same if none begins or ends to be one.
LEMMA FinishingStays ==
  ASSUME \A l \in Loops :
           /\ pc'[l] \in {"finish", "count"} <=> pc[l] \in {"finish", "count"}
           /\ pc[l] \in {"finish", "count"} => outcome'[l] = outcome[l]
  PROVE  SameFinishing
BY DEF SameFinishing, Finishing

\* The handlers of a submission and of a cancel request count nothing.
LEMMA HandlerCounts ==
  ASSUME RunInv,
         \/ \E r \in Runs : SubmitStep(r)
         \/ \E c \in CancelCalls : CancelStep(c)
  PROVE  CountsQuiet
<1>1. /\ TypeOK /\ CancelAgrees
      /\ runs \in [Runs -> RunRecord]
      /\ caller \in [CancelCalls -> Tenants \union {Nobody}]
      /\ Runs \subseteq Subjects /\ TaskSet \in Subjects
  BY DEF RunInv, TypeOK, Subjects
<1>2. SameFinishing /\ stats' = stats
  <2>1. UNCHANGED <<pc, outcome, stats>>
    BY DEF SubmitStep, CancelStep, Refuse, DenySplit, Create, Accept, CancelUnknown,
           CancelRead, CancelWrite, CancelRecord, workerVars, loopVars
  <2> QED
    BY <2>1, FinishingStays
<1>3. ASSUME NEW r \in Runs, NEW t \in Tenants, DenySplit(r, t) PROVE SameRecorded
  BY <1>1, <1>3, OtherRecorded DEF DenySplit, Actions, Marks
<1>4. ASSUME NEW r \in Runs, Accept(r) PROVE SameRecorded
  <2>1. runs[r].tenant \in Tenants \union {Nobody}
    BY <1>1 DEF RunRecord
  <2> QED
    BY <1>1, <1>4, <2>1, OtherRecorded DEF Accept, Actions, Marks
<1>5. ASSUME NEW c \in CancelCalls, CancelRecord(c) PROVE SameRecorded
  <2>1. target[c] \in Runs
    BY <1>1, <1>5 DEF CancelRecord, CancelAgrees
  <2> QED
    BY <1>1, <1>5, <2>1, OtherRecorded DEF CancelRecord, Actions, Marks
<1>6. ASSUME UNCHANGED trail PROVE SameRecorded
  BY <1>6, NothingRecorded
<1>7. SameRecorded
  BY <1>3, <1>4, <1>5, <1>6
  DEF SubmitStep, CancelStep, Refuse, Create, CancelUnknown, CancelRead, CancelWrite
<1> QED
  BY <1>2, <1>7 DEF CountsQuiet

\* A worker counts its claims and the verdicts of the ticks that return.
LEMMA WorkerCounts ==
  ASSUME RunInv,
         \/ \E l \in Loops : Start(l) \/ LoopStep(l)
         \/ \E w \in Workers : Stop(w)
  PROVE  CountsStep
<1> USE DEF workerVars, loopVars
<1>1. /\ TypeOK /\ HoldsRun /\ TimerAsleep /\ VerdictReady
      /\ pc \in [Loops -> Busy \union {"idle", "loop", "rest", "asleep"}]
      /\ outcome \in [Loops -> {"none", "completed", "failed"}]
      /\ Runs \subseteq Subjects
  BY DEF RunInv, TypeOK, Subjects
<1>2. ASSUME NEW l \in Loops, pc[l] \notin {"finish", "count"}, UNCHANGED stats, SameRecorded,
             \E at \in {"idle", "loop", "rest", "asleep"} \union (Busy \ {"finish", "count"}) :
               pc' = [pc EXCEPT ![l] = at],
             \A m \in Loops : m # l => outcome'[m] = outcome[m]
      PROVE  CountsStep
  <2>1. SameFinishing
    BY <1>1, <1>2, FinishingStays
  <2> QED
    BY <1>2, <2>1 DEF CountsStep, CountsQuiet
<1>3. ASSUME NEW l \in Loops,
             \/ Start(l) \/ Exit(l) \/ Sleep(l) \/ Wake(l) \/ PollEmpty(l)
             \/ (\E r \in Runs : Claim(l, r)) \/ Capture(l) \/ Select(l)
      PROVE  CountsStep
  BY <1>1, <1>2, <1>3, NothingRecorded
  DEF Start, Exit, Sleep, Wake, PollEmpty, Claim, Capture, Select, Go, Busy
<1>4. ASSUME NEW l \in Loops, Execute(l) \/ ExecutorThrew(l) \/ ReportThrew(l)
      PROVE  CountsStep
  BY <1>1, <1>2, <1>4, NothingRecorded
  DEF Execute, ExecutorThrew, ReportThrew, Conclude, Forget, Go, Busy
<1>5. ASSUME NEW w \in Workers, Stop(w) PROVE CountsStep
  <2>1. \A l \in Loops : pc'[l] = pc[l] \/ (pc[l] = "asleep" /\ pc'[l] = "idle")
    BY <1>1, <1>5 DEF Stop, TimerAsleep
  <2>2. UNCHANGED <<stats, trail, outcome>>
    BY <1>5 DEF Stop
  <2>3. SameFinishing /\ SameRecorded
    BY <2>1, <2>2, FinishingStays, NothingRecorded
  <2> QED
    BY <2>2, <2>3 DEF CountsStep, CountsQuiet
<1>6. ASSUME NEW l \in Loops, RecordClaim(l) PROVE CountsStep
  <2>1. RecordedBut(held[l], "run.claimed", Worker(l))
    BY <1>1, <1>6, HeldRun, MarkRecorded DEF RecordClaim, RecordAs, Busy, Actions
  <2>2. SameFinishing
    BY <1>1, <1>6, FinishingStays DEF RecordClaim, Go
  <2> QED
    BY <1>6, <2>1, <2>2 DEF RecordClaim, CountsStep, CountsClaim
<1>7. ASSUME NEW l \in Loops, RecordNode(l) \/ SelectBlocked(l) PROVE CountsStep
  <2>1. SameRecorded
    BY <1>1, <1>7, HeldRun, OtherRecorded
    DEF RecordNode, SelectBlocked, RecordAs, Busy, Actions, Marks
  <2> QED
    BY <1>1, <1>2, <1>7, <2>1 DEF RecordNode, SelectBlocked, Conclude, Go, Busy
<1>8. ASSUME NEW l \in Loops, Report(l) PROVE CountsStep
  <2>1. Head(todo[l]) \in Actions \ Marks
    BY <1>1, <1>8, HeadTailProperties, EventsUnmarked DEF TypeOK, Report
  <2>2. SameRecorded
    BY <1>1, <1>8, <2>1, HeldRun, OtherRecorded DEF Report, RecordAs, Busy
  <2>3. SameFinishing
    BY <1>8, FinishingStays DEF Report
  <2> QED
    BY <1>8, <2>2, <2>3 DEF Report, CountsStep, CountsQuiet
<1>9. ASSUME NEW l \in Loops, RecordVerdict(l) PROVE CountsStep
  <2>1. RecordAs(l, Verdict(outcome[l])) /\ Verdict(outcome[l]) \in Actions
    BY <1>9 DEF RecordVerdict, Verdict, Actions
  <2>2. RecordedBut(held[l], Verdict(outcome[l]), Worker(l))
    BY <1>1, <1>9, <2>1, HeldRun, MarkRecorded DEF RecordVerdict, RecordAs, Busy
  <2>3. ASSUME NEW w \in Workers, NEW o \in Outcomes
        PROVE  Finishing(w, o)' =
                 Finishing(w, o) \union (IF w = Worker(l) /\ o = outcome[l] THEN {l} ELSE {})
    BY <1>1, <1>9 DEF RecordVerdict, Go, Finishing
  <2> QED
    BY <1>9, <2>2, <2>3 DEF RecordVerdict, CountsStep, CountsVerdict
<1>10. ASSUME NEW l \in Loops, Finish(l) PROVE CountsStep
  <2>1. SameFinishing /\ SameRecorded
    BY <1>1, <1>10, FinishingStays, NothingRecorded DEF Finish, Go
  <2> QED
    BY <1>10, <2>1 DEF Finish, CountsStep, CountsQuiet
<1>11. ASSUME NEW l \in Loops, EndTick(l) PROVE CountsStep
  <2>1. ASSUME NEW w \in Workers, NEW o \in Outcomes
        PROVE  Finishing(w, o)' =
                 Finishing(w, o) \ (IF w = Worker(l) /\ o = outcome[l] THEN {l} ELSE {})
    BY <1>1, <1>11 DEF EndTick, Forget, Go, Finishing
  <2> QED
    BY <1>11, <2>1, NothingRecorded DEF EndTick, CountsStep, CountsReturn
<1> QED
  BY <1>3, <1>4, <1>5, <1>6, <1>7, <1>8, <1>9, <1>10, <1>11 DEF LoopStep, TickStep

\* Every step is one the counters can follow.
LEMMA CountsSteps == ASSUME RunInv, [Next]_vars PROVE CountsStep
<1>1. CASE UNCHANGED vars
  <2>1. UNCHANGED <<trail, pc, outcome, stats>>
    BY <1>1 DEF vars, workerVars, loopVars
  <2> QED
    BY <2>1, NothingRecorded, FinishingStays DEF CountsStep, CountsQuiet
<1> QED
  BY <1>1, HandlerCounts, WorkerCounts DEF Next, CountsStep

-----------------------------------------------------------------------------

\* One more of a counter, and the others as they were.
LEMMA CountOne ==
  ASSUME TypeOK, NEW l \in Loops, NEW k \in {"claimed", "completed", "failed"}, Count(l, k)
  PROVE  \A w \in Workers : \A c \in {"claimed", "completed", "failed"} :
           stats'[w][c] = stats[w][c] + (IF w = Worker(l) /\ c = k THEN 1 ELSE 0)
<1> DEFINE S == [claimed: Nat, completed: Nat, failed: Nat]
<1>1. stats \in [Workers -> S] /\ Worker(l) \in Workers
  BY DEF TypeOK, Loops, Worker
<1>2. stats' = [stats EXCEPT ![Worker(l)] =
                  [stats[Worker(l)] EXCEPT ![k] = stats[Worker(l)][k] + 1]]
  BY DEF Count
<1>3. ASSUME NEW q \in S, NEW c \in {"claimed", "completed", "failed"}
      PROVE  /\ q[c] \in Nat
             /\ [q EXCEPT ![k] = q[k] + 1][c] = q[c] + (IF c = k THEN 1 ELSE 0)
  <2>1. DOMAIN q = {"claimed", "completed", "failed"} /\ q[c] \in Nat
    OBVIOUS
  <2> QED
    BY <2>1
<1> HIDE DEF S
<1> SUFFICES ASSUME NEW w \in Workers, NEW c \in {"claimed", "completed", "failed"}
             PROVE  stats'[w][c] = stats[w][c] + (IF w = Worker(l) /\ c = k THEN 1 ELSE 0)
  OBVIOUS
<1>4. CASE w = Worker(l)
  <2>1. stats'[w] = [stats[w] EXCEPT ![k] = stats[w][k] + 1]
    BY <1>1, <1>2, <1>4
  <2> QED
    BY <1>1, <1>3, <1>4, <2>1
<1>5. CASE w # Worker(l)
  <2>1. stats'[w] = stats[w] /\ stats[w] \in S
    BY <1>1, <1>2, <1>5
  <2> QED
    BY <1>3, <1>5, <2>1
<1> QED
  BY <1>4, <1>5

\* A set that may gain an element.
LEMMA GainsOne ==
  ASSUME NEW S, IsFiniteSet(S), NEW x, NEW now \in BOOLEAN, now => x \notin S,
         NEW T, T = S \union (IF now THEN {x} ELSE {})
  PROVE  IsFiniteSet(T) /\ Cardinality(T) = Cardinality(S) + (IF now THEN 1 ELSE 0)
<1>1. Cardinality(S) \in Nat
  BY FS_CardinalityType
<1>2. CASE now
  BY <1>1, <1>2, FS_AddElement
<1>3. CASE ~now
  BY <1>1, <1>3
<1> QED
  BY <1>2, <1>3

\* And one that may lose an element.
LEMMA LosesOne ==
  ASSUME NEW S, IsFiniteSet(S), NEW x, NEW now \in BOOLEAN, now => x \in S,
         NEW T, T = S \ (IF now THEN {x} ELSE {})
  PROVE  IsFiniteSet(T) /\ Cardinality(T) + (IF now THEN 1 ELSE 0) = Cardinality(S)
<1>1. Cardinality(S) \in Nat
  BY FS_CardinalityType
<1>2. CASE now
  BY <1>1, <1>2, FS_RemoveElement
<1>3. CASE ~now
  BY <1>1, <1>3
<1> QED
  BY <1>2, <1>3

\* The inductive invariant of the counters.
StatsInv == Counted /\ StatsAgree

\* Nothing is counted and there is nothing to count.
LEMMA StatsInit == ASSUME Init PROVE StatsInv
<1>1. \A w, a : RecordedBy(w, a) = {}
  BY DEF Init, RecordedBy, Subjects
<1>2. \A w, o : Finishing(w, o) = {}
  BY DEF Init, Finishing
<1>3. IsFiniteSet({}) /\ Cardinality({}) = 0
  BY FS_EmptySet
<1>4. \A w \in Workers : \A c \in {"claimed", "completed", "failed"} : stats[w][c] = 0
  BY DEF Init
<1>5. Counted
  BY <1>1, <1>2, <1>3, Zenon DEF Counted
<1>6. StatsAgree
  <2> SUFFICES ASSUME NEW w \in Workers
               PROVE  /\ stats[w].claimed = Cardinality(RecordedBy(w, "run.claimed"))
                      /\ \A o \in Outcomes :
                           stats[w][o] + Cardinality(Finishing(w, o))
                             = Cardinality(RecordedBy(w, Verdict(o)))
    BY Zenon DEF StatsAgree, Outcomes
  <2>1. stats[w].claimed = 0 /\ \A o \in Outcomes : stats[w][o] = 0
    BY <1>4 DEF Outcomes
  <2>2. 0 + 0 = 0
    OBVIOUS
  <2> QED
    BY <1>1, <1>2, <1>3, <2>1, <2>2, Zenon
<1> QED
  BY <1>5, <1>6 DEF StatsInv

\* Each step adds as much to a counter as to what it counts.
LEMMA StatsStep == ASSUME RunInv, VerdictOnce, StatsInv, [Next]_vars PROVE StatsInv'
<1> DEFINE Counters == {"claimed", "completed", "failed"}
<1>1. /\ TypeOK /\ HoldsRun /\ Granted /\ VerdictReady
      /\ pc \in [Loops -> Busy \union {"idle", "loop", "rest", "asleep"}]
      /\ \A w \in Workers : \A c \in Counters : stats[w][c] \in Nat
  BY DEF RunInv, TypeOK
<1>2. \A w \in Workers, a \in Marks :
        IsFiniteSet(RecordedBy(w, a)) /\ Cardinality(RecordedBy(w, a)) \in Nat
  BY FS_CardinalityType DEF StatsInv, Counted
<1>3. \A w \in Workers, o \in Outcomes :
        IsFiniteSet(Finishing(w, o)) /\ Cardinality(Finishing(w, o)) \in Nat
  BY FS_CardinalityType DEF StatsInv, Counted
<1>4. \A w \in Workers :
        /\ stats[w]["claimed"] = Cardinality(RecordedBy(w, "run.claimed"))
        /\ \A o \in Outcomes :
             stats[w][o] + Cardinality(Finishing(w, o)) = Cardinality(RecordedBy(w, Verdict(o)))
  BY DEF StatsInv, StatsAgree, Outcomes
<1>5. \A o \in Outcomes : Verdict(o) \in Marks /\ Verdict(o) # "run.claimed" /\ o \in Counters
  BY DEF Outcomes, Verdict, Marks
<1>6. "run.claimed" \in Marks /\ Verdict("completed") # Verdict("failed")
  BY DEF Marks, Verdict
<1>7. CASE CountsQuiet
  <2>1. Counted'
    BY <1>7 DEF CountsQuiet, SameRecorded, SameFinishing, StatsInv, Counted
  <2>2. StatsAgree'
    BY <1>4, <1>5, <1>6, <1>7 DEF CountsQuiet, SameRecorded, SameFinishing, StatsAgree, Outcomes
  <2> QED
    BY <2>1, <2>2 DEF StatsInv
<1>8. ASSUME NEW l \in Loops, CountsClaim(l) PROVE StatsInv'
  <2>1. PICK r \in Runs : r = held[l]
    BY <1>1, <1>8, HeldRun DEF CountsClaim, Busy
  <2>2. \A w \in Workers : r \notin RecordedBy(w, "run.claimed")
    BY <1>1, <1>8, <2>1 DEF CountsClaim, Granted, Has, RecordedBy
  <2>3. \A w \in Workers : \A b \in Marks :
          RecordedBy(w, b)' = RecordedBy(w, b)
            \union (IF w = Worker(l) /\ b = "run.claimed" THEN {r} ELSE {})
    BY <1>8, <2>1, Zenon DEF CountsClaim, RecordedBut
  <2>4. \A w \in Workers : \A c \in Counters :
          stats'[w][c] = stats[w][c] + (IF w = Worker(l) /\ c = "claimed" THEN 1 ELSE 0)
    BY <1>1, <1>8, CountOne DEF CountsClaim
  <2>5. \A w \in Workers, b \in Marks :
          /\ IsFiniteSet(RecordedBy(w, b)')
          /\ Cardinality(RecordedBy(w, b)') = Cardinality(RecordedBy(w, b))
               + (IF w = Worker(l) /\ b = "run.claimed" THEN 1 ELSE 0)
    <3> SUFFICES ASSUME NEW w \in Workers, NEW b \in Marks
                 PROVE  /\ IsFiniteSet(RecordedBy(w, b)')
                        /\ Cardinality(RecordedBy(w, b)') = Cardinality(RecordedBy(w, b))
                             + (IF w = Worker(l) /\ b = "run.claimed" THEN 1 ELSE 0)
      OBVIOUS
    <3>1. PICK now \in BOOLEAN : now <=> w = Worker(l) /\ b = "run.claimed"
      OBVIOUS
    <3>2. RecordedBy(w, b)' = RecordedBy(w, b) \union (IF now THEN {r} ELSE {})
      BY <2>3, <3>1
    <3>3. now => r \notin RecordedBy(w, b)
      BY <2>2, <3>1
    <3>4. /\ IsFiniteSet(RecordedBy(w, b)')
          /\ Cardinality(RecordedBy(w, b)') =
               Cardinality(RecordedBy(w, b)) + (IF now THEN 1 ELSE 0)
      BY <1>2, <3>2, <3>3, GainsOne
    <3> QED
      BY <3>1, <3>4
  <2>6. Counted'
    BY <1>3, <1>8, <2>5, Zenon DEF CountsClaim, SameFinishing, Counted
  <2>7. StatsAgree'
    <3>1. ASSUME NEW w \in Workers
          PROVE  /\ stats'[w].claimed = Cardinality(RecordedBy(w, "run.claimed")')
                 /\ \A o \in Outcomes :
                      stats'[w][o] + Cardinality(Finishing(w, o)')
                        = Cardinality(RecordedBy(w, Verdict(o))')
      <4>1. stats'[w].claimed = Cardinality(RecordedBy(w, "run.claimed")')
        BY <1>1, <1>2, <1>4, <1>6, <2>4, <2>5
      <4>2. ASSUME NEW o \in Outcomes
            PROVE  stats'[w][o] + Cardinality(Finishing(w, o)')
                     = Cardinality(RecordedBy(w, Verdict(o))')
        <5>1. stats'[w][o] = stats[w][o]
          BY <1>1, <1>5, <2>4 DEF Outcomes
        <5>2. Cardinality(RecordedBy(w, Verdict(o))') = Cardinality(RecordedBy(w, Verdict(o)))
          BY <1>2, <1>5, <2>5
        <5>3. Finishing(w, o)' = Finishing(w, o)
          BY <1>8 DEF CountsClaim, SameFinishing
        <5> QED
          BY <1>4, <5>1, <5>2, <5>3
      <4> QED
        BY <4>1, <4>2
    <3> QED
      BY <3>1, Zenon DEF StatsAgree, Outcomes
  <2> QED
    BY <2>6, <2>7 DEF StatsInv
<1>9. ASSUME NEW l \in Loops, CountsVerdict(l) PROVE StatsInv'
  <2>1. PICK r \in Runs : r = held[l]
    BY <1>1, <1>9, HeldRun DEF CountsVerdict, Busy
  <2>2. PICK v \in Outcomes : v = outcome[l]
    BY <1>1, <1>9 DEF CountsVerdict, VerdictReady, Outcomes
  <2>3. \A w \in Workers : r \notin RecordedBy(w, Verdict(v))
    <3>1. ~Concluded(r)
      BY <1>9, <2>1 DEF CountsVerdict, VerdictOnce, Busy
    <3> QED
      BY <3>1 DEF Concluded, Has, RecordedBy, Verdict
  <2>4. \A w \in Workers : l \notin Finishing(w, v)
    BY <1>9 DEF CountsVerdict, Finishing
  <2>5. \A w \in Workers : \A b \in Marks :
          RecordedBy(w, b)' = RecordedBy(w, b)
            \union (IF w = Worker(l) /\ b = Verdict(v) THEN {r} ELSE {})
    BY <1>9, <2>1, <2>2, Zenon DEF CountsVerdict, RecordedBut
  <2>6. \A w \in Workers : \A o \in Outcomes :
          Finishing(w, o)' = Finishing(w, o)
            \union (IF w = Worker(l) /\ o = v THEN {l} ELSE {})
    BY <1>9, <2>2, Zenon DEF CountsVerdict
  <2>7. ASSUME NEW w \in Workers, NEW b \in Marks, NEW now \in BOOLEAN,
               now <=> w = Worker(l) /\ b = Verdict(v)
        PROVE  /\ IsFiniteSet(RecordedBy(w, b)')
               /\ Cardinality(RecordedBy(w, b)') =
                    Cardinality(RecordedBy(w, b)) + (IF now THEN 1 ELSE 0)
    <3>1. RecordedBy(w, b)' = RecordedBy(w, b) \union (IF now THEN {r} ELSE {})
      BY <2>5, <2>7
    <3>2. now => r \notin RecordedBy(w, b)
      BY <2>3, <2>7
    <3> QED
      BY <1>2, <3>1, <3>2, GainsOne
  <2>8. ASSUME NEW w \in Workers, NEW o \in Outcomes, NEW now \in BOOLEAN,
               now <=> w = Worker(l) /\ o = v
        PROVE  /\ IsFiniteSet(Finishing(w, o)')
               /\ Cardinality(Finishing(w, o)') =
                    Cardinality(Finishing(w, o)) + (IF now THEN 1 ELSE 0)
    <3>1. Finishing(w, o)' = Finishing(w, o) \union (IF now THEN {l} ELSE {})
      BY <2>6, <2>8
    <3>2. now => l \notin Finishing(w, o)
      BY <2>4, <2>8
    <3> QED
      BY <1>3, <3>1, <3>2, GainsOne
  <2>9. Counted'
    <3>1. ASSUME NEW w \in Workers, NEW b \in Marks PROVE IsFiniteSet(RecordedBy(w, b)')
      <4>1. PICK now \in BOOLEAN : now <=> w = Worker(l) /\ b = Verdict(v)
        OBVIOUS
      <4> QED
        BY <2>7, <4>1
    <3>2. ASSUME NEW w \in Workers, NEW o \in Outcomes PROVE IsFiniteSet(Finishing(w, o)')
      <4>1. PICK now \in BOOLEAN : now <=> w = Worker(l) /\ o = v
        OBVIOUS
      <4> QED
        BY <2>8, <4>1
    <3> QED
      BY <3>1, <3>2, Zenon DEF Counted
  <2>10. StatsAgree'
    <3>1. ASSUME NEW w \in Workers
          PROVE  /\ stats'[w].claimed = Cardinality(RecordedBy(w, "run.claimed")')
                 /\ \A o \in Outcomes :
                      stats'[w][o] + Cardinality(Finishing(w, o)')
                        = Cardinality(RecordedBy(w, Verdict(o))')
      <4>1. stats' = stats
        BY <1>9 DEF CountsVerdict
      <4>2. stats'[w].claimed = Cardinality(RecordedBy(w, "run.claimed")')
        <5>1. RecordedBy(w, "run.claimed")' = RecordedBy(w, "run.claimed")
          BY <1>5, <1>6, <2>5
        <5> QED
          BY <1>4, <4>1, <5>1
      <4>3. ASSUME NEW o \in Outcomes
            PROVE  stats'[w][o] + Cardinality(Finishing(w, o)')
                     = Cardinality(RecordedBy(w, Verdict(o))')
        <5>1. PICK now \in BOOLEAN : now <=> w = Worker(l) /\ o = v
          OBVIOUS
        <5>2. Verdict(o) = Verdict(v) <=> o = v
          BY DEF Verdict, Outcomes
        <5>3. Cardinality(RecordedBy(w, Verdict(o))') =
                Cardinality(RecordedBy(w, Verdict(o))) + (IF now THEN 1 ELSE 0)
          BY <1>5, <2>7, <5>1, <5>2
        <5>4. Cardinality(Finishing(w, o)') =
                Cardinality(Finishing(w, o)) + (IF now THEN 1 ELSE 0)
          BY <2>8, <5>1
        <5>5. stats[w][o] \in Nat /\ Cardinality(Finishing(w, o)) \in Nat
          BY <1>1, <1>3, <1>5
        <5> QED
          BY <1>4, <4>1, <5>3, <5>4, <5>5
      <4> QED
        BY <4>2, <4>3
    <3> QED
      BY <3>1, Zenon DEF StatsAgree, Outcomes
  <2> QED
    BY <2>9, <2>10 DEF StatsInv
<1>10. ASSUME NEW l \in Loops, CountsReturn(l) PROVE StatsInv'
  <2>1. PICK v \in Outcomes : v = outcome[l]
    BY <1>1, <1>10 DEF CountsReturn, VerdictReady, Outcomes
  <2>2. l \in Finishing(Worker(l), v)
    BY <1>10, <2>1 DEF CountsReturn, Finishing
  <2>3. \A w \in Workers : \A b \in Marks : RecordedBy(w, b)' = RecordedBy(w, b)
    BY <1>10, Zenon DEF CountsReturn, SameRecorded
  <2>4. \A w \in Workers : \A o \in Outcomes :
          Finishing(w, o)' = Finishing(w, o) \ (IF w = Worker(l) /\ o = v THEN {l} ELSE {})
    BY <1>10, <2>1, Zenon DEF CountsReturn
  <2>5. \A w \in Workers : \A c \in Counters :
          stats'[w][c] = stats[w][c] + (IF w = Worker(l) /\ c = v THEN 1 ELSE 0)
    BY <1>1, <1>5, <1>10, <2>1, CountOne DEF CountsReturn
  <2>6. ASSUME NEW w \in Workers, NEW o \in Outcomes, NEW now \in BOOLEAN,
               now <=> w = Worker(l) /\ o = v
        PROVE  /\ IsFiniteSet(Finishing(w, o)')
               /\ Cardinality(Finishing(w, o)') + (IF now THEN 1 ELSE 0) =
                    Cardinality(Finishing(w, o))
    <3>1. Finishing(w, o)' = Finishing(w, o) \ (IF now THEN {l} ELSE {})
      BY <2>4, <2>6
    <3>2. now => l \in Finishing(w, o)
      BY <2>2, <2>6
    <3> QED
      BY <1>3, <3>1, <3>2, LosesOne
  <2>7. \A w \in Workers, o \in Outcomes : IsFiniteSet(Finishing(w, o)')
    <3> SUFFICES ASSUME NEW w \in Workers, NEW o \in Outcomes
                 PROVE  IsFiniteSet(Finishing(w, o)')
      OBVIOUS
    <3>1. PICK now \in BOOLEAN : now <=> w = Worker(l) /\ o = v
      OBVIOUS
    <3> QED
      BY <2>6, <3>1
  <2>8. Counted'
    BY <1>2, <2>3, <2>7, Zenon DEF Counted
  <2>9. StatsAgree'
    <3>1. ASSUME NEW w \in Workers
          PROVE  /\ stats'[w].claimed = Cardinality(RecordedBy(w, "run.claimed")')
                 /\ \A o \in Outcomes :
                      stats'[w][o] + Cardinality(Finishing(w, o)')
                        = Cardinality(RecordedBy(w, Verdict(o))')
      <4>1. stats'[w].claimed = stats[w].claimed
        BY <1>1, <2>5 DEF Outcomes
      <4>2. stats'[w].claimed = Cardinality(RecordedBy(w, "run.claimed")')
        BY <1>4, <1>6, <2>3, <4>1
      <4>3. ASSUME NEW o \in Outcomes
            PROVE  stats'[w][o] + Cardinality(Finishing(w, o)')
                     = Cardinality(RecordedBy(w, Verdict(o))')
        <5>1. PICK now \in BOOLEAN : now <=> w = Worker(l) /\ o = v
          OBVIOUS
        <5>2. RecordedBy(w, Verdict(o))' = RecordedBy(w, Verdict(o))
          BY <1>5, <2>3
        <5>3. stats'[w][o] = stats[w][o] + (IF now THEN 1 ELSE 0)
          BY <1>5, <2>5, <5>1
        <5>4. Cardinality(Finishing(w, o)') + (IF now THEN 1 ELSE 0) =
                Cardinality(Finishing(w, o))
          BY <2>6, <5>1
        <5>5. stats[w][o] \in Nat /\ Cardinality(Finishing(w, o)') \in Nat
          BY <1>1, <1>5, <2>7, FS_CardinalityType
        <5> QED
          BY <1>4, <5>2, <5>3, <5>4, <5>5
      <4> QED
        BY <4>2, <4>3
    <3> QED
      BY <3>1, Zenon DEF StatsAgree, Outcomes
  <2> QED
    BY <2>8, <2>9 DEF StatsInv
<1> QED
  BY <1>7, <1>8, <1>9, <1>10, CountsSteps DEF CountsStep

\* The counters of the status page agree with the trail, for every number of workers,
\* restarts and ticks under way.
THEOREM StatsAlwaysAgree == Spec => []StatsAgree
<1>1. RunInv /\ VerdictOnce /\ StatsInv /\ [Next]_vars => StatsInv'
  BY StatsStep
<1>2. StatsInv => StatsAgree
  BY DEF StatsInv
<1> QED
  BY <1>1, <1>2, StatsInit, RunInvariant, VerdictsOnce, PTL DEF Spec

=============================================================================
