-------------------------- MODULE RunLifecycleProofs --------------------------
(***************************************************************************)
(* Theorems of RunLifecycle, for every set of runs, tenants, workers, loop *)
(* activations and cancel requests, and every executor bound.              *)
(***************************************************************************)
EXTENDS RunLifecycle, SequenceTheorems, TLAPS

-----------------------------------------------------------------------------
(* Executors *)

\* Whatever the backend, an executor reports an outcome and a sequence of
\* execution events, never an entry of the worker's own.
LEMMA ResultsType ==
  ASSUME NEW b, NEW res \in Results(b)
  PROVE  res.outcome \in {"completed", "failed"} /\ res.events \in Seq(ExecutionEvents)
<1> DEFINE E == ExecutionEvents
           R == [outcome : {"completed", "failed"}, events : Seq(E)]
<1>1. ProcessRan \in Seq(E)
  BY DEF ProcessRan, ExecutionEvents
<1>2. \A n \in 0..MaxToolCalls, v \in {"execution.completed", "execution.failed"} :
        ModelAnswered(n, v) \in Seq(E)
  <2> SUFFICES ASSUME NEW n \in 0..MaxToolCalls,
                      NEW v \in {"execution.completed", "execution.failed"}
               PROVE  ModelAnswered(n, v) \in Seq(E)
    OBVIOUS
  <2>1. n \in Nat
    BY MaxToolCallsAssumption
  <2>2. <<"model.request", "model.response">> \in Seq(E)
    BY DEF ExecutionEvents
  <2>3. [i \in 1..n |-> "tool.call"] \in Seq(E)
    BY <2>1, IsASeq DEF ExecutionEvents
  <2>4. <<"verifier.result", v>> \in Seq(E)
    BY DEF ExecutionEvents
  <2> QED
    BY <2>2, <2>3, <2>4, ConcatProperties DEF ModelAnswered
<1>3. \A e \in Seq(E) : Completed(e) \in R /\ Failed(e) \in R
  BY DEF Completed, Failed
<1> HIDE DEF E, R
<1>4. ASSUME ExecutorFor(b) = "model" PROVE res \in R
  <2>1. res \in ModelResults
    BY <1>4 DEF Results
  <2>2. \/ res = Failed(<<"execution.failed">>)
        \/ res = Failed(<<"model.request", "model.error", "execution.failed">>)
        \/ \E n \in 0..MaxToolCalls :
             \/ res = Completed(ModelAnswered(n, "execution.completed"))
             \/ res = Failed(ModelAnswered(n, "execution.failed"))
    BY <2>1 DEF ModelResults
  <2>3. /\ <<"execution.failed">> \in Seq(E)
        /\ <<"model.request", "model.error", "execution.failed">> \in Seq(E)
    BY DEF E, ExecutionEvents
  <2> QED
    BY <1>2, <1>3, <2>2, <2>3
<1>5. ASSUME ExecutorFor(b) = "process" PROVE res \in R
  <2>1. res \in ProcessResults
    BY <1>5 DEF Results
  <2>2. /\ <<"verifier.result", "execution.completed">> \in Seq(E)
        /\ <<"verifier.result", "execution.failed">> \in Seq(E)
        /\ <<"execution.failed">> \in Seq(E)
    BY DEF E, ExecutionEvents
  <2>3. /\ ProcessRan \o <<"verifier.result", "execution.completed">> \in Seq(E)
        /\ ProcessRan \o <<"verifier.result", "execution.failed">> \in Seq(E)
        /\ ProcessRan \o <<"execution.failed">> \in Seq(E)
    BY <1>1, <2>2, ConcatProperties
  <2> QED
    BY <1>3, <2>1, <2>3 DEF ProcessResults
<1>6. ASSUME ExecutorFor(b) \notin {"model", "process"} PROVE res \in R
  <2>1. res = Failed(<<>>)
    BY <1>6 DEF Results
  <2>2. <<>> \in Seq(E)
    OBVIOUS
  <2> QED
    BY <1>3, <2>1, <2>2
<1> QED
  BY <1>4, <1>5, <1>6 DEF R, E

-----------------------------------------------------------------------------
(* The trail *)

\* Record appends one entry to one subject and touches nothing else.
LEMMA RecordEffect ==
  ASSUME TypeOK, NEW s \in Subjects, NEW a \in Actions,
         NEW x \in Workers \union {Client}, NEW t \in Tenants \union {Nobody},
         Record(s, a, x, t)
  PROVE  /\ trail' \in [Subjects -> Seq(EntryRecord)]
         /\ \A q \in Subjects : q # s => trail'[q] = trail[q]
         /\ DOMAIN trail'[s] = 1..(Len(trail[s]) + 1)
         /\ DOMAIN trail[s] = 1..Len(trail[s]) /\ Len(trail[s]) \in Nat
         /\ \A i \in DOMAIN trail[s] : trail'[s][i] = trail[s][i]
         /\ trail'[s][Len(trail[s]) + 1] = Entry(a, x, t)
<1>1. trail \in [Subjects -> Seq(EntryRecord)]
  BY DEF TypeOK
<1>2. Entry(a, x, t) \in EntryRecord
  BY DEF Entry, EntryRecord
<1>3. trail' = [trail EXCEPT ![s] = Append(trail[s], Entry(a, x, t))]
  BY DEF Record
<1>4. /\ Append(trail[s], Entry(a, x, t)) \in Seq(EntryRecord)
      /\ Len(Append(trail[s], Entry(a, x, t))) = Len(trail[s]) + 1
      /\ \A i \in 1..Len(trail[s]) :
           Append(trail[s], Entry(a, x, t))[i] = trail[s][i]
      /\ Append(trail[s], Entry(a, x, t))[Len(trail[s]) + 1] = Entry(a, x, t)
  BY <1>1, <1>2, AppendProperties
<1> QED
  BY <1>1, <1>3, <1>4, LenProperties

\* So an action is in a subject's trail afterwards iff it was, or is the one
\* recorded.
LEMMA RecordHas ==
  ASSUME TypeOK, NEW s \in Subjects, NEW a \in Actions,
         NEW x \in Workers \union {Client}, NEW t \in Tenants \union {Nobody},
         Record(s, a, x, t)
  PROVE  \A q \in Subjects : \A b : Has(q, b)' <=> Has(q, b) \/ (q = s /\ b = a)
<1>1. SUFFICES ASSUME NEW q \in Subjects, NEW b
               PROVE  Has(q, b)' <=> Has(q, b) \/ (q = s /\ b = a)
  OBVIOUS
<1>2. CASE q # s
  BY <1>2, RecordEffect DEF Has
<1>3. CASE q = s
  <2>1. /\ DOMAIN trail'[s] = DOMAIN trail[s] \union {Len(trail[s]) + 1}
        /\ \A i \in DOMAIN trail[s] : trail'[s][i] = trail[s][i]
        /\ trail'[s][Len(trail[s]) + 1].action = a
    <3>1. /\ Len(trail[s]) \in Nat
          /\ DOMAIN trail[s] = 1..Len(trail[s])
          /\ DOMAIN trail'[s] = 1..(Len(trail[s]) + 1)
          /\ \A i \in DOMAIN trail[s] : trail'[s][i] = trail[s][i]
          /\ trail'[s][Len(trail[s]) + 1] = Entry(a, x, t)
      BY RecordEffect
    <3>2. \A n \in Nat : 1..(n + 1) = (1..n) \union {n + 1}
      OBVIOUS
    <3>3. Entry(a, x, t).action = a
      BY DEF Entry
    <3> QED
      BY <3>1, <3>2, <3>3
  <2>2. ASSUME Has(s, b)' PROVE Has(s, b) \/ b = a
    <3>1. PICK i \in DOMAIN trail'[s] : trail'[s][i].action = b
      BY <2>2 DEF Has
    <3>2. CASE i = Len(trail[s]) + 1
      BY <2>1, <3>1, <3>2
    <3>3. CASE i \in DOMAIN trail[s]
      BY <2>1, <3>1, <3>3 DEF Has
    <3> QED
      BY <2>1, <3>2, <3>3
  <2>3. ASSUME Has(s, b) PROVE Has(s, b)'
    BY <2>1, <2>3 DEF Has
  <2>4. Has(s, a)'
    <3>1. Len(trail[s]) + 1 \in DOMAIN trail'[s]
      BY <2>1
    <3> QED
      BY <2>1, <3>1 DEF Has
  <2> QED
    BY <1>3, <2>2, <2>3, <2>4
<1> QED
  BY <1>2, <1>3

-----------------------------------------------------------------------------
(* Types *)

\* The worker's actions and the API's are different things to record.
LEMMA HeldRun ==
  ASSUME TypeOK, HoldsRun, NEW l \in Loops, pc[l] \in Busy
  PROVE  /\ held[l] \in Runs
         /\ held[l] \in Subjects
         /\ Worker(l) \in Workers
         /\ runs[held[l]] \in RunRecord
         /\ runs[held[l]].tenant \in Tenants \union {Nobody}
BY DEF TypeOK, HoldsRun, Subjects, Loops, Worker, RunRecord

\* What the writers of the store write are records of it.
LEMMA RunRecordUpdate ==
  ASSUME NEW q \in RunRecord
  PROVE  /\ \A st \in Status : [q EXCEPT !.status = st] \in RunRecord
         /\ \A st \in Status, w \in Workers :
              [q EXCEPT !.status = st, !.claimedBy = w] \in RunRecord
         /\ \A st \in Status, e \in BOOLEAN :
              [q EXCEPT !.status = st, !.reason = e] \in RunRecord
         /\ [q EXCEPT !.env = TRUE] \in RunRecord
  BY Zenon DEF RunRecord

\* Counting one more claim or verdict.
LEMMA CountType ==
  ASSUME TypeOK, NEW l \in Loops, NEW k \in {"claimed", "completed", "failed"}, Count(l, k)
  PROVE  stats' \in [Workers -> [claimed: Nat, completed: Nat, failed: Nat]]
<1> DEFINE S == [claimed: Nat, completed: Nat, failed: Nat]
<1>1. Worker(l) \in Workers
  BY DEF Loops, Worker
<1>2. stats \in [Workers -> S]
  BY DEF TypeOK
<1>3. stats' = [stats EXCEPT ![Worker(l)] =
                  [stats[Worker(l)] EXCEPT ![k] = stats[Worker(l)][k] + 1]]
  BY DEF Count
<1>4. \A q \in S : [q EXCEPT ![k] = q[k] + 1] \in S
  <2>1. SUFFICES ASSUME NEW q \in S PROVE [q EXCEPT ![k] = q[k] + 1] \in S
    OBVIOUS
  <2>2. CASE k = "claimed"
    BY <2>2
  <2>3. CASE k = "completed"
    BY <2>3
  <2>4. CASE k = "failed"
    BY <2>4
  <2> QED
    BY <2>2, <2>3, <2>4
<1> QED
  BY <1>1, <1>2, <1>3, <1>4

LEMMA TypeStep ==
  ASSUME TypeOK, HoldsRun, CancelAgrees, VerdictReady, [Next]_vars
  PROVE  TypeOK'
<1> USE DEF submitVars, cancelVars, workerVars, loopVars
<1>1. ASSUME NEW r \in Runs, Refuse(r) PROVE TypeOK'
  BY <1>1 DEF TypeOK, Refuse
<1>2. ASSUME NEW r \in Runs, NEW t \in Tenants, DenySplit(r, t) PROVE TypeOK'
  <2>1. trail' \in [Subjects -> Seq(EntryRecord)]
    BY <1>2, RecordEffect DEF DenySplit, Subjects, Actions
  <2> QED
    BY <1>2, <2>1 DEF TypeOK, DenySplit
<1>3. ASSUME NEW r \in Runs, NEW t \in Tenants, NEW b \in Backends, Create(r, t, b)
      PROVE  TypeOK'
  <2>1. arrived' \in Seq(Runs)
    BY <1>3, AppendProperties DEF TypeOK, Create
  <2>2. runs' \in [Runs -> RunRecord]
    BY <1>3 DEF TypeOK, Create, RunRecord, NoRun, Status
  <2> QED
    BY <1>3, <2>1, <2>2 DEF TypeOK, Create
<1>4. ASSUME NEW r \in Runs, Accept(r) PROVE TypeOK'
  <2>1. runs[r].tenant \in Tenants \union {Nobody}
    BY DEF TypeOK, RunRecord
  <2>2. trail' \in [Subjects -> Seq(EntryRecord)]
    BY <1>4, <2>1, RecordEffect DEF Accept, Subjects, Actions
  <2> QED
    BY <1>4, <2>2 DEF TypeOK, Accept
<1>5. ASSUME NEW c \in CancelCalls, NEW r \in Runs, NEW t \in Tenants,
             CancelUnknown(c, r, t)
      PROVE  TypeOK'
  BY <1>5 DEF TypeOK, CancelUnknown
<1>6. ASSUME NEW c \in CancelCalls, NEW r \in Runs, NEW t \in Tenants,
             CancelRead(c, r, t)
      PROVE  TypeOK'
  BY <1>6 DEF TypeOK, CancelRead
<1>7. ASSUME NEW c \in CancelCalls, CancelWrite(c) PROVE TypeOK'
  <2>1. target[c] \in Runs
    BY <1>7 DEF CancelAgrees, CancelWrite
  <2>2. [copy[c] EXCEPT !.status = "cancelled"] \in RunRecord
    BY RunRecordUpdate DEF TypeOK, Status
  <2> QED
    BY <1>7, <2>1, <2>2 DEF TypeOK, CancelWrite
<1>8. ASSUME NEW c \in CancelCalls, CancelRecord(c) PROVE TypeOK'
  <2>1. target[c] \in Subjects /\ caller[c] \in Tenants \union {Nobody}
    BY <1>8 DEF CancelAgrees, CancelRecord, Subjects, TypeOK
  <2>2. trail' \in [Subjects -> Seq(EntryRecord)]
    BY <1>8, <2>1, RecordEffect DEF CancelRecord, Actions
  <2> QED
    BY <1>8, <2>2 DEF TypeOK, CancelRecord
<1>9. ASSUME NEW l \in Loops, Start(l) PROVE TypeOK'
  BY <1>9 DEF TypeOK, Start, Go, Busy, Loops, Worker
<1>10. ASSUME NEW w \in Workers, Stop(w) PROVE TypeOK'
  BY <1>10 DEF TypeOK, Stop, Go, Busy, Loops, Worker
<1>11. ASSUME NEW l \in Loops, Exit(l) PROVE TypeOK'
  BY <1>11 DEF TypeOK, Exit, Go, Busy, Loops, Worker
<1>12. ASSUME NEW l \in Loops, Sleep(l) PROVE TypeOK'
  BY <1>12 DEF TypeOK, Sleep, Go, Busy, Loops, Worker
<1>13. ASSUME NEW l \in Loops, Wake(l) PROVE TypeOK'
  BY <1>13 DEF TypeOK, Wake, Go, Busy, Loops, Worker
<1>14. ASSUME NEW l \in Loops, PollEmpty(l) PROVE TypeOK'
  BY <1>14 DEF TypeOK, PollEmpty, Go, Busy, Loops, Worker
<1>15. ASSUME NEW l \in Loops, NEW r \in Runs, Claim(l, r) PROVE TypeOK'
  <2>1. [runs[r] EXCEPT !.status = "running", !.claimedBy = Worker(l)] \in RunRecord
    BY RunRecordUpdate DEF TypeOK, Status, Loops, Worker
  <2> QED
    BY <1>15, <2>1 DEF TypeOK, Claim, Go, Busy
<1>16. ASSUME NEW l \in Loops, RecordClaim(l) PROVE TypeOK'
  <2>1. trail' \in [Subjects -> Seq(EntryRecord)]
    BY <1>16, HeldRun, RecordEffect DEF RecordClaim, RecordAs, Busy, Actions
  <2>2. stats' \in [Workers -> [claimed: Nat, completed: Nat, failed: Nat]]
    BY <1>16, CountType DEF RecordClaim
  <2> QED
    BY <1>16, <2>1, <2>2 DEF TypeOK, RecordClaim, Go, Busy
<1>17. ASSUME NEW l \in Loops, Capture(l) PROVE TypeOK'
  <2>1. [runs[held[l]] EXCEPT !.env = TRUE] \in RunRecord
    BY <1>17, HeldRun, RunRecordUpdate DEF Capture, Busy
  <2>2. runs' \in [Runs -> RunRecord]
    BY <1>17, <2>1 DEF TypeOK, Capture
  <2> QED
    BY <1>17, <2>2 DEF TypeOK, Capture, Go, Busy
<1>18. ASSUME NEW l \in Loops, RecordNode(l) PROVE TypeOK'
  <2>1. trail' \in [Subjects -> Seq(EntryRecord)]
    BY <1>18, HeldRun, RecordEffect DEF RecordNode, RecordAs, Busy, Actions
  <2> QED
    BY <1>18, <2>1 DEF TypeOK, RecordNode, Go, Busy
<1>19. ASSUME NEW l \in Loops, SelectBlocked(l) PROVE TypeOK'
  <2>1. trail' \in [Subjects -> Seq(EntryRecord)]
    BY <1>19, HeldRun, RecordEffect DEF SelectBlocked, RecordAs, Busy, Actions
  <2> QED
    BY <1>19, <2>1 DEF TypeOK, SelectBlocked, Go, Busy, Conclude
<1>20. ASSUME NEW l \in Loops, Select(l) PROVE TypeOK'
  BY <1>20 DEF TypeOK, Select, Go, Busy
<1>21. ASSUME NEW l \in Loops, Execute(l) PROVE TypeOK'
  <2>1. PICK res \in Results(runs[held[l]].backend) : Conclude(l, res.outcome, res.events)
    BY <1>21 DEF Execute
  <2>2. res.outcome \in {"completed", "failed"} /\ res.events \in Seq(ExecutionEvents)
    BY ResultsType
  <2> QED
    BY <1>21, <2>1, <2>2 DEF TypeOK, Execute, Conclude, Go, Busy
<1>22. ASSUME NEW l \in Loops, ExecutorThrew(l) PROVE TypeOK'
  BY <1>22 DEF TypeOK, ExecutorThrew, Conclude, Go, Busy
<1>23. ASSUME NEW l \in Loops, Report(l) PROVE TypeOK'
  <2>1. Head(todo[l]) \in ExecutionEvents /\ Tail(todo[l]) \in Seq(ExecutionEvents)
    BY <1>23, HeadTailProperties DEF TypeOK, Report
  <2>2. trail' \in [Subjects -> Seq(EntryRecord)]
    BY <1>23, <2>1, HeldRun, RecordEffect DEF Report, RecordAs, Busy, Actions
  <2> QED
    BY <1>23, <2>1, <2>2 DEF TypeOK, Report
<1>24. ASSUME NEW l \in Loops, ReportThrew(l) PROVE TypeOK'
  BY <1>24 DEF TypeOK, ReportThrew, Forget, Go
<1>25. ASSUME NEW l \in Loops, RecordVerdict(l) PROVE TypeOK'
  <2>1. trail' \in [Subjects -> Seq(EntryRecord)]
    BY <1>25, HeldRun, RecordEffect DEF RecordVerdict, RecordAs, Busy, Actions
  <2> QED
    BY <1>25, <2>1 DEF TypeOK, RecordVerdict, Go, Busy
<1>26. ASSUME NEW l \in Loops, Finish(l) PROVE TypeOK'
  <2>1. outcome[l] \in {"completed", "failed"}
    BY <1>26 DEF Finish, VerdictReady
  <2>2. runs' \in [Runs -> RunRecord]
    BY <1>26, <2>1, RunRecordUpdate DEF TypeOK, Finish, Status
  <2> QED
    BY <1>26, <2>1, <2>2 DEF TypeOK, Finish, Go, Busy
<1>27. ASSUME NEW l \in Loops, EndTick(l) PROVE TypeOK'
  <2>0. outcome[l] \in {"completed", "failed"}
    BY <1>27 DEF EndTick, VerdictReady
  <2>1. stats' \in [Workers -> [claimed: Nat, completed: Nat, failed: Nat]]
    BY <1>27, <2>0, CountType DEF EndTick
  <2> QED
    BY <1>27, <2>1 DEF TypeOK, EndTick, Forget, Go
<1>28. CASE UNCHANGED vars
  BY <1>28 DEF TypeOK, vars
<1> QED
  BY <1>1, <1>2, <1>3, <1>4, <1>5, <1>6, <1>7, <1>8, <1>9, <1>10, <1>11, <1>12, <1>13, <1>14, <1>15, <1>16, <1>17, <1>18, <1>19, <1>20, <1>21, <1>22, <1>23, <1>24, <1>25, <1>26, <1>27, <1>28
  DEF Next, SubmitStep, CancelStep, LoopStep, TickStep

-----------------------------------------------------------------------------
(* What a step may do to the store, to the trail and to the ticks *)

\* A record once created stays, in its tenant; one past the queue stays past
\* it; and the only writer of a verdict is finish().
LEMMA StoreStep ==
  ASSUME RunInv, [Next]_vars, NEW r \in Runs
  PROVE  /\ runs[r].status # "absent" =>
              runs'[r].status # "absent" /\ runs'[r].tenant = runs[r].tenant
         /\ runs'[r].status = "absent" => runs'[r].tenant = runs[r].tenant
         /\ runs[r].status \notin {"absent", "queued"} =>
              runs'[r].status \notin {"absent", "queued"}
         /\ runs'[r].status \in {"completed", "failed"} =>
              \/ runs'[r].status = runs[r].status /\ runs'[r].reason = runs[r].reason
              \/ \E l \in Loops :
                   /\ pc[l] = "finish" /\ held[l] = r
                   /\ runs'[r].status = outcome[l]
                   /\ outcome[l] = "failed" => runs'[r].reason
<1> DEFINE Goal ==
      /\ runs[r].status # "absent" =>
           runs'[r].status # "absent" /\ runs'[r].tenant = runs[r].tenant
      /\ runs'[r].status = "absent" => runs'[r].tenant = runs[r].tenant
      /\ runs[r].status \notin {"absent", "queued"} =>
           runs'[r].status \notin {"absent", "queued"}
      /\ runs'[r].status \in {"completed", "failed"} =>
           \/ runs'[r].status = runs[r].status /\ runs'[r].reason = runs[r].reason
           \/ \E l \in Loops :
                /\ pc[l] = "finish" /\ held[l] = r
                /\ runs'[r].status = outcome[l]
                /\ outcome[l] = "failed" => runs'[r].reason
<1> USE DEF RunInv
<1>1. runs \in [Runs -> RunRecord] /\ copy \in [CancelCalls -> RunRecord]
  BY DEF TypeOK
<1>2. ASSUME NEW q \in Runs, NEW t \in Tenants, NEW b \in Backends, Create(q, t, b)
      PROVE  Goal
  BY <1>1, <1>2 DEF Create, SubmitAgrees, NoRun
<1>3. ASSUME NEW c \in CancelCalls, CancelWrite(c) PROVE Goal
  BY <1>1, <1>3 DEF CancelWrite, CancelAgrees, RunRecord
<1>4. ASSUME NEW l \in Loops, NEW q \in Runs, Claim(l, q) PROVE Goal
  BY <1>1, <1>4 DEF Claim, FirstQueued, Queued, RunRecord
<1>5. ASSUME NEW l \in Loops, Capture(l) PROVE Goal
  BY <1>1, <1>5 DEF Capture, RunRecord
<1>6. ASSUME NEW l \in Loops, Finish(l) PROVE Goal
  <2>1. outcome[l] \in {"completed", "failed"}
    BY <1>6 DEF Finish, VerdictReady
  <2>2. CASE held[l] = r
    <3>1. runs'[r] = [runs[r] EXCEPT !.status = outcome[l],
                        !.reason = runs[r].reason \/ outcome[l] = "failed"]
      BY <1>1, <1>6, <2>2 DEF Finish
    <3>2. \A q \in RunRecord : \A o, e :
            /\ [q EXCEPT !.status = o, !.reason = e].status = o
            /\ [q EXCEPT !.status = o, !.reason = e].tenant = q.tenant
            /\ [q EXCEPT !.status = o, !.reason = e].reason = e
      BY Zenon DEF RunRecord
    <3>3. /\ runs'[r].status = outcome[l]
          /\ runs'[r].tenant = runs[r].tenant
          /\ runs'[r].reason = (runs[r].reason \/ outcome[l] = "failed")
      BY <1>1, <3>1, <3>2
    <3> QED
      BY <1>6, <2>1, <2>2, <3>3 DEF Finish
  <2>3. CASE held[l] # r
    BY <1>1, <1>6, <2>3 DEF Finish
  <2> QED
    BY <2>2, <2>3
<1>7. CASE UNCHANGED runs
  BY <1>7
<1> QED
  BY <1>2, <1>3, <1>4, <1>5, <1>6, <1>7
  DEF Next, SubmitStep, CancelStep, LoopStep, TickStep, vars,
      Refuse, DenySplit, Accept, CancelUnknown, CancelRead, CancelRecord,
      Start, Stop, Exit, Sleep, Wake, PollEmpty, RecordClaim, RecordNode,
      SelectBlocked, Select, Execute, ExecutorThrew, Report, ReportThrew,
      RecordVerdict, EndTick

\* A step records at most one entry.  Against a run, it is one that exists, in
\* its own tenant; and run.claimed is recorded only by a tick that just claimed.
LEMMA TrailStep ==
  ASSUME RunInv, [Next]_vars
  PROVE  \/ UNCHANGED trail
         \/ \E s \in Subjects, a \in Actions, x \in Workers \union {Client},
               t \in Tenants \union {Nobody} :
              /\ Record(s, a, x, t)
              /\ UNCHANGED runs
              /\ s \in Runs => runs[s].status # "absent" /\ t = runs[s].tenant
              /\ s \in Runs /\ a = "run.claimed" =>
                   \E l \in Loops :
                     pc[l] = "claimed" /\ pc'[l] = "capture" /\ held[l] = s
<1> DEFINE Goal ==
      \E s \in Subjects, a \in Actions, x \in Workers \union {Client},
         t \in Tenants \union {Nobody} :
        /\ Record(s, a, x, t)
        /\ UNCHANGED runs
        /\ s \in Runs => runs[s].status # "absent" /\ t = runs[s].tenant
        /\ s \in Runs /\ a = "run.claimed" =>
             \E l \in Loops :
               pc[l] = "claimed" /\ pc'[l] = "capture" /\ held[l] = s
<1>i. /\ TypeOK /\ HoldsRun /\ SubmitAgrees /\ CancelAgrees /\ Granted
  BY DEF RunInv
<1>0. /\ pc \in [Loops -> Busy \union {"idle", "loop", "rest", "asleep"}]
      /\ Runs \subseteq Subjects /\ TaskSet \in Subjects /\ TaskSet \notin Runs
      /\ \A r \in Runs : runs[r].tenant \in Tenants \union {Nobody}
  BY <1>i, NamesAssumption DEF TypeOK, Subjects, RunRecord
<1>1. ASSUME NEW r \in Runs, NEW t \in Tenants, DenySplit(r, t) PROVE Goal
  BY <1>0, <1>1 DEF DenySplit, Actions
<1>2. ASSUME NEW r \in Runs, Accept(r) PROVE Goal
  <2>1. /\ Record(r, "run.started", Client, runs[r].tenant)
        /\ UNCHANGED runs
        /\ runs[r].status # "absent"
    BY <1>i, <1>2 DEF Accept, SubmitAgrees
  <2>2. /\ r \in Subjects /\ "run.started" \in Actions
        /\ Client \in Workers \union {Client}
        /\ runs[r].tenant \in Tenants \union {Nobody}
    BY <1>0 DEF Actions
  <2> QED
    BY <2>1, <2>2
<1>3. ASSUME NEW c \in CancelCalls, CancelRecord(c) PROVE Goal
  <2>1. /\ Record(target[c], "run.cancelled", Client, caller[c])
        /\ UNCHANGED runs
        /\ target[c] \in Runs /\ runs[target[c]].status # "absent"
        /\ caller[c] = runs[target[c]].tenant
    BY <1>i, <1>3 DEF CancelRecord, CancelAgrees
  <2>2. /\ target[c] \in Subjects /\ "run.cancelled" \in Actions
        /\ Client \in Workers \union {Client}
        /\ caller[c] \in Tenants \union {Nobody}
    BY <1>0, <2>1 DEF Actions
  <2> QED
    BY <2>1, <2>2
<1>4. ASSUME NEW l \in Loops, NEW a \in Actions, pc[l] \in Busy, RecordAs(l, a),
             UNCHANGED runs, a = "run.claimed" => pc[l] = "claimed" /\ pc'[l] = "capture"
      PROVE  Goal
  BY <1>i, <1>0, <1>4, HeldRun DEF RecordAs, Granted
<1>5. ASSUME NEW l \in Loops, RecordClaim(l) PROVE Goal
  BY <1>0, <1>4, <1>5 DEF RecordClaim, Busy, Actions, Go
<1>6. ASSUME NEW l \in Loops, RecordNode(l) PROVE Goal
  BY <1>4, <1>6 DEF RecordNode, Busy, Actions
<1>7. ASSUME NEW l \in Loops, SelectBlocked(l) PROVE Goal
  BY <1>4, <1>7 DEF SelectBlocked, Busy, Actions
<1>8. ASSUME NEW l \in Loops, Report(l) PROVE Goal
  <2>1. Head(todo[l]) \in ExecutionEvents
    BY <1>i, <1>8, HeadTailProperties DEF TypeOK, Report
  <2>2. Head(todo[l]) \in Actions /\ Head(todo[l]) # "run.claimed"
    BY <2>1 DEF Actions, ExecutionEvents
  <2> QED
    BY <1>4, <1>8, <2>2 DEF Report, Busy
<1>9. ASSUME NEW l \in Loops, RecordVerdict(l) PROVE Goal
  BY <1>4, <1>9 DEF RecordVerdict, Busy, Actions
<1>10. CASE UNCHANGED trail
  BY <1>10
<1> QED
  BY <1>1, <1>2, <1>3, <1>5, <1>6, <1>7, <1>8, <1>9, <1>10
  DEF Next, SubmitStep, CancelStep, LoopStep, TickStep, vars,
      Refuse, Create, CancelUnknown, CancelRead, CancelWrite,
      Start, Stop, Exit, Sleep, Wake, PollEmpty, Claim, Capture,
      Select, Execute, ExecutorThrew, ReportThrew, Finish, EndTick

\* Nothing is ever taken out of a trail.
LEMMA HasStays ==
  ASSUME RunInv, [Next]_vars
  PROVE  \A r \in Runs : \A a : Has(r, a) => Has(r, a)'
<1>1. TypeOK /\ Runs \subseteq Subjects
  BY DEF RunInv, Subjects
<1>2. CASE UNCHANGED trail
  BY <1>2 DEF Has
<1>3. CASE \E s \in Subjects, b \in Actions, x \in Workers \union {Client},
              t \in Tenants \union {Nobody} : Record(s, b, x, t)
  BY <1>1, <1>3, RecordHas
<1> QED
  BY <1>2, <1>3, TrailStep

\* A tick takes a run only by claiming it off the queue, one tick at a time,
\* and holds it until it returns.
LEMMA TickStepHolds ==
  ASSUME RunInv, [Next]_vars
  PROVE  /\ HoldsRun'
         /\ \/ \A l \in Loops :
                 /\ held'[l] \in {held[l], Nobody}
                 /\ pc'[l] = "claimed" => pc[l] = "claimed" /\ held'[l] = held[l]
            \/ \E l \in Loops, r \in Runs :
                 /\ runs[r].status = "queued" /\ runs'[r].status = "running"
                 /\ held' = [held EXCEPT ![l] = r]
                 /\ \A m \in Loops : m # l => pc'[m] = pc[m]
                 /\ UNCHANGED trail
<1> DEFINE Kept ==
      \A l \in Loops :
        /\ held'[l] \in {held[l], Nobody}
        /\ pc'[l] = "claimed" => pc[l] = "claimed" /\ held'[l] = held[l]
<1> DEFINE Took ==
      \E l \in Loops, r \in Runs :
        /\ runs[r].status = "queued" /\ runs'[r].status = "running"
        /\ held' = [held EXCEPT ![l] = r]
        /\ \A m \in Loops : m # l => pc'[m] = pc[m]
        /\ UNCHANGED trail
<1> DEFINE Goal == HoldsRun' /\ (Kept \/ Took)
<1>1. /\ TypeOK
      /\ HoldsRun
      /\ pc \in [Loops -> Busy \union {"idle", "loop", "rest", "asleep"}]
      /\ held \in [Loops -> Runs \union {Nobody}]
      /\ runs \in [Runs -> RunRecord]
      /\ Nobody \notin Runs
      /\ \A w \in Workers : timer[w] \in Loops \union {Nobody}
  BY NamesAssumption DEF RunInv, TypeOK
<1>2. ASSUME NEW l \in Loops, NEW r \in Runs, Claim(l, r) PROVE Goal
  <2>1. runs[r].status = "queued" /\ runs'[r].status = "running"
    BY <1>1, <1>2 DEF Claim, FirstQueued, Queued, RunRecord
  <2>2. Took
    BY <1>1, <1>2, <2>1 DEF Claim, Go
  <2>3. HoldsRun'
    BY <1>1, <1>2 DEF Claim, Go, HoldsRun, Busy
  <2> QED
    BY <2>2, <2>3
<1>3. ASSUME NEW l \in Loops, ReportThrew(l) \/ EndTick(l) PROVE Goal
  BY <1>1, <1>3 DEF ReportThrew, EndTick, Forget, Go, HoldsRun, Busy
<1>4. ASSUME NEW l \in Loops,
             \/ Start(l) \/ Exit(l) \/ Sleep(l) \/ Wake(l) \/ PollEmpty(l)
      PROVE  Goal
  BY <1>1, <1>4 DEF Start, Exit, Sleep, Wake, PollEmpty, Go, HoldsRun, Busy
<1>5. ASSUME NEW l \in Loops,
             \/ RecordClaim(l) \/ Capture(l) \/ RecordNode(l) \/ SelectBlocked(l)
             \/ Select(l) \/ Execute(l) \/ ExecutorThrew(l) \/ RecordVerdict(l)
             \/ Finish(l)
      PROVE  Goal
  <2>1. /\ pc[l] \in Busy /\ UNCHANGED held
        /\ \E at \in Busy \ {"claimed"} : pc' = [pc EXCEPT ![l] = at]
    BY <1>5 DEF RecordClaim, Capture, RecordNode, SelectBlocked, Select, Execute,
                ExecutorThrew, RecordVerdict, Finish, Conclude, Go, Busy
  <2> QED
    BY <1>1, <2>1 DEF HoldsRun
<1>6. ASSUME NEW w \in Workers, Stop(w) PROVE Goal
  <2>1. timer[w] \in Loops => pc[timer[w]] \notin Busy
    BY <1>1, <1>6 DEF RunInv, TimerAsleep, Busy
  <2> QED
    BY <1>1, <1>6, <2>1 DEF Stop, HoldsRun, Busy
<1>7. CASE UNCHANGED <<pc, held>>
  BY <1>1, <1>7 DEF HoldsRun
<1> QED
  BY <1>2, <1>3, <1>4, <1>5, <1>6, <1>7
  DEF Next, SubmitStep, CancelStep, LoopStep, TickStep, vars, loopVars,
      Refuse, DenySplit, Create, Accept, CancelUnknown, CancelRead,
      CancelWrite, CancelRecord, Report

-----------------------------------------------------------------------------
(* The conjuncts of the inductive invariant, one at a time *)

LEMMA TimerAsleepStep == ASSUME RunInv, [Next]_vars PROVE TimerAsleep'
<1>1. /\ TimerAsleep
      /\ pc \in [Loops -> Busy \union {"idle", "loop", "rest", "asleep"}]
      /\ timer \in [Workers -> Loops \union {Nobody}]
      /\ Nobody \notin Loops
      /\ \A l \in Loops : Worker(l) \in Workers
  BY NamesAssumption DEF RunInv, TypeOK, Loops, Worker
<1>2. ASSUME NEW l \in Loops, Sleep(l) PROVE TimerAsleep'
  BY <1>1, <1>2 DEF Sleep, Go, TimerAsleep
<1>3. ASSUME NEW l \in Loops, Wake(l) PROVE TimerAsleep'
  BY <1>1, <1>3 DEF Wake, Go, TimerAsleep
<1>4. ASSUME NEW w \in Workers, Stop(w) PROVE TimerAsleep'
  <2>1. SUFFICES ASSUME NEW u \in Workers, timer'[u] \in Loops
                 PROVE  pc'[timer'[u]] = "asleep" /\ Worker(timer'[u]) = u
    BY DEF TimerAsleep
  <2>2. u # w /\ timer'[u] = timer[u]
    BY <1>1, <1>4, <2>1 DEF Stop
  <2>3. timer[w] # timer[u]
    BY <1>1, <2>1, <2>2 DEF TimerAsleep
  <2> QED
    BY <1>1, <1>4, <2>1, <2>2, <2>3 DEF Stop, TimerAsleep
<1>5. ASSUME NEW l \in Loops, pc[l] # "asleep", UNCHANGED timer,
             \E at : pc' = [pc EXCEPT ![l] = at]
      PROVE  TimerAsleep'
  BY <1>1, <1>5 DEF TimerAsleep
<1>6. ASSUME NEW l \in Loops,
             \/ Start(l) \/ Exit(l) \/ PollEmpty(l) \/ (\E r \in Runs : Claim(l, r))
             \/ RecordClaim(l) \/ Capture(l) \/ RecordNode(l) \/ SelectBlocked(l)
             \/ Select(l) \/ Execute(l) \/ ExecutorThrew(l) \/ RecordVerdict(l)
             \/ Finish(l) \/ ReportThrew(l) \/ EndTick(l)
      PROVE  TimerAsleep'
  <2>1. /\ pc[l] # "asleep" /\ UNCHANGED timer
        /\ \E at : pc' = [pc EXCEPT ![l] = at]
    BY <1>6 DEF Start, Exit, PollEmpty, Claim, RecordClaim, Capture, RecordNode,
                SelectBlocked, Select, Execute, ExecutorThrew, RecordVerdict,
                Finish, ReportThrew, EndTick, Conclude, Go, workerVars
  <2> QED
    BY <1>5, <2>1
<1>7. CASE UNCHANGED <<pc, timer>>
  BY <1>1, <1>7 DEF TimerAsleep
<1> QED
  BY <1>2, <1>3, <1>4, <1>6, <1>7
  DEF Next, SubmitStep, CancelStep, LoopStep, TickStep, vars, loopVars, workerVars,
      Refuse, DenySplit, Create, Accept, CancelUnknown, CancelRead,
      CancelWrite, CancelRecord, Report

LEMMA SubmitAgreesStep == ASSUME RunInv, [Next]_vars PROVE SubmitAgrees'
<1>1. /\ TypeOK /\ SubmitAgrees
      /\ submit \in [Runs -> {"idle", "created", "accepted", "refused"}]
      /\ runs \in [Runs -> RunRecord]
  BY DEF RunInv, TypeOK
<1>2. SUFFICES ASSUME NEW r \in Runs
               PROVE  /\ submit'[r] \in {"idle", "refused"} <=> runs'[r].status = "absent"
                      /\ runs'[r].status = "absent" =>
                           trail'[r] = <<>> /\ runs'[r].tenant = Nobody
  BY DEF SubmitAgrees
<1>3. runs'[r].status = "absent" => trail'[r] = <<>> /\ runs'[r].tenant = Nobody
  <2>1. runs'[r].status = "absent" =>
          /\ runs[r].status = "absent" /\ trail[r] = <<>>
          /\ runs'[r].tenant = Nobody
    BY <1>1, StoreStep DEF SubmitAgrees
  <2>2. r \in Subjects
    BY DEF Subjects
  <2> QED
    BY <1>1, <2>1, <2>2, TrailStep, RecordEffect
<1>4. submit'[r] \in {"idle", "refused"} <=> runs'[r].status = "absent"
  <2>1. ASSUME NEW q \in Runs, NEW t \in Tenants, NEW b \in Backends, Create(q, t, b)
        PROVE  submit'[r] \in {"idle", "refused"} <=> runs'[r].status = "absent"
    BY <1>1, <2>1 DEF Create, NoRun, SubmitAgrees
  <2>2. ASSUME NEW q \in Runs, Refuse(q) \/ (\E t \in Tenants : DenySplit(q, t)) \/ Accept(q)
        PROVE  submit'[r] \in {"idle", "refused"} <=> runs'[r].status = "absent"
    BY <1>1, <2>2 DEF Refuse, DenySplit, Accept, SubmitAgrees
  <2>3. ASSUME UNCHANGED submit, runs'[r].status = "absent" <=> runs[r].status = "absent"
        PROVE  submit'[r] \in {"idle", "refused"} <=> runs'[r].status = "absent"
    BY <1>1, <2>3 DEF SubmitAgrees
  <2>4. ASSUME NEW c \in CancelCalls, CancelWrite(c)
        PROVE  runs'[r].status = "absent" <=> runs[r].status = "absent"
    <3>1. /\ target[c] \in Runs /\ runs[target[c]].status # "absent"
          /\ copy[c] \in RunRecord
      BY <2>4 DEF RunInv, CancelAgrees, CancelWrite, TypeOK
    <3> QED
      BY <1>1, <2>4, <3>1 DEF CancelWrite, RunRecord
  <2>5. ASSUME NEW l \in Loops, \/ (\E q \in Runs : Claim(l, q)) \/ Capture(l) \/ Finish(l)
        PROVE  runs'[r].status = "absent" <=> runs[r].status = "absent"
    <3>1. CASE \E q \in Runs : Claim(l, q)
      BY <1>1, <3>1 DEF Claim, FirstQueued, Queued, RunRecord
    <3>2. CASE Capture(l)
      BY <1>1, <3>2 DEF Capture, RunRecord
    <3>3. CASE Finish(l)
      <4>1. held[l] \in Runs /\ runs[held[l]].status # "absent"
        BY <3>3, HeldRun DEF RunInv, Granted, Finish, Busy
      <4>2. outcome[l] # "absent"
        BY <3>3 DEF RunInv, VerdictReady, Finish
      <4> QED
        BY <1>1, <3>3, <4>1, <4>2 DEF Finish, RunRecord
    <3> QED
      BY <2>5, <3>1, <3>2, <3>3
  <2>6. CASE UNCHANGED <<submit, runs>>
    BY <2>3, <2>6
  <2> QED
    BY <2>1, <2>2, <2>3, <2>4, <2>5, <2>6
    DEF Next, SubmitStep, CancelStep, LoopStep, TickStep, vars, submitVars,
        CancelUnknown, CancelRead, CancelWrite, CancelRecord, Claim, Capture, Finish,
        Start, Stop, Exit, Sleep, Wake, PollEmpty, RecordClaim, RecordNode,
        SelectBlocked, Select, Execute, ExecutorThrew, Report, ReportThrew,
        RecordVerdict, EndTick
<1> QED
  BY <1>3, <1>4

LEMMA CancelAgreesStep == ASSUME RunInv, [Next]_vars PROVE CancelAgrees'
<1>1. /\ CancelAgrees
      /\ runs \in [Runs -> RunRecord]
      /\ Nobody \notin Tenants
  BY NamesAssumption DEF RunInv, TypeOK
<1>2. SUFFICES ASSUME NEW c \in CancelCalls, cancel'[c] \in {"read", "written"}
               PROVE  /\ target'[c] \in Runs
                      /\ runs'[target'[c]].status # "absent"
                      /\ copy'[c].tenant = runs'[target'[c]].tenant
                      /\ caller'[c] = runs'[target'[c]].tenant
  BY DEF CancelAgrees
<1>3. ASSUME cancel[c] \in {"read", "written"},
             target'[c] = target[c], copy'[c] = copy[c], caller'[c] = caller[c]
      PROVE  /\ target'[c] \in Runs
             /\ runs'[target'[c]].status # "absent"
             /\ copy'[c].tenant = runs'[target'[c]].tenant
             /\ caller'[c] = runs'[target'[c]].tenant
  BY <1>1, <1>3, StoreStep DEF CancelAgrees
<1>4. /\ cancel \in [CancelCalls -> {"idle", "read", "written", "done"}]
      /\ target \in [CancelCalls -> Runs \union {Nobody}]
      /\ copy \in [CancelCalls -> RunRecord]
      /\ caller \in [CancelCalls -> Tenants \union {Nobody}]
  BY DEF RunInv, TypeOK
<1>5. ASSUME NEW d \in CancelCalls, NEW r \in Runs, NEW t \in Tenants, CancelRead(d, r, t)
      PROVE  \/ cancel[c] \in {"read", "written"} /\ target'[c] = target[c]
                  /\ copy'[c] = copy[c] /\ caller'[c] = caller[c]
             \/ c = d /\ target'[c] = r /\ copy'[c] = runs[r] /\ caller'[c] = t
                  /\ runs[r].tenant = t /\ UNCHANGED runs
  BY <1>2, <1>4, <1>5 DEF CancelRead
<1>6. \A r \in Runs : runs[r].tenant # Nobody => runs[r].status # "absent"
  BY DEF RunInv, SubmitAgrees
<1>7. ASSUME NEW d \in CancelCalls, CancelWrite(d) \/ CancelRecord(d)
                  \/ \E r \in Runs, t \in Tenants : CancelUnknown(d, r, t)
      PROVE  cancel[c] \in {"read", "written"} /\ target'[c] = target[c]
               /\ copy'[c] = copy[c] /\ caller'[c] = caller[c]
  BY <1>2, <1>4, <1>7 DEF CancelWrite, CancelRecord, CancelUnknown
<1>8. ASSUME NEW d \in CancelCalls, CancelStep(d)
      PROVE  /\ target'[c] \in Runs
             /\ runs'[target'[c]].status # "absent"
             /\ copy'[c].tenant = runs'[target'[c]].tenant
             /\ caller'[c] = runs'[target'[c]].tenant
  BY <1>1, <1>3, <1>5, <1>6, <1>7, <1>8 DEF CancelStep
<1>9. ASSUME UNCHANGED cancelVars
      PROVE  cancel[c] \in {"read", "written"} /\ target'[c] = target[c]
               /\ copy'[c] = copy[c] /\ caller'[c] = caller[c]
  BY <1>2, <1>9 DEF cancelVars
<1> QED
  BY <1>3, <1>8, <1>9
  DEF Next, SubmitStep, LoopStep, TickStep, vars,
      Refuse, DenySplit, Create, Accept,
      Start, Stop, Exit, Sleep, Wake, PollEmpty, Claim, RecordClaim, Capture,
      RecordNode, SelectBlocked, Select, Execute, ExecutorThrew, Report,
      ReportThrew, RecordVerdict, Finish, EndTick

LEMMA GrantedStep == ASSUME RunInv, [Next]_vars PROVE Granted'
<1>1. /\ TypeOK /\ HoldsRun /\ Granted /\ ExecutedOnce
      /\ held \in [Loops -> Runs \union {Nobody}]
      /\ pc \in [Loops -> Busy \union {"idle", "loop", "rest", "asleep"}]
      /\ Runs \subseteq Subjects
      /\ Nobody \notin Runs
  BY NamesAssumption DEF RunInv, TypeOK, Subjects
<1>2. ASSUME NEW l \in Loops, held'[l] \in Runs
      PROVE  runs'[held'[l]].status \notin {"absent", "queued"}
  BY <1>1, <1>2, TickStepHolds, StoreStep DEF Granted
<1>3. ASSUME NEW r \in Runs, Has(r, "run.claimed")'
      PROVE  runs'[r].status \notin {"absent", "queued"}
  <2>1. CASE Has(r, "run.claimed")
    BY <1>1, <2>1, StoreStep DEF Granted
  <2>2. CASE ~Has(r, "run.claimed")
    <3>1. trail' # trail
      BY <1>3, <2>2 DEF Has
    <3>2. PICK s \in Subjects, a \in Actions, x \in Workers \union {Client},
               t \in Tenants \union {Nobody} :
            /\ Record(s, a, x, t)
            /\ s \in Runs /\ a = "run.claimed" =>
                 \E l \in Loops : pc[l] = "claimed" /\ held[l] = s
      BY <3>1, TrailStep
    <3>3. s = r /\ a = "run.claimed"
      BY <1>1, <1>3, <2>2, <3>2, RecordHas
    <3>4. \E l \in Loops : held[l] = r
      BY <3>2, <3>3
    <3> QED
      BY <1>1, <3>4, StoreStep DEF Granted
  <2> QED
    BY <2>1, <2>2
<1>4. ASSUME NEW l \in Loops, pc'[l] = "claimed"
      PROVE  (~Has(held[l], "run.claimed"))'
  <2>1. CASE pc[l] = "claimed" /\ held'[l] = held[l]
    <3>1. PICK r \in Runs : r = held[l]
      BY <1>1, <2>1 DEF HoldsRun, Busy
    <3>2. ~Has(r, "run.claimed")
      BY <1>1, <2>1, <3>1 DEF Granted
    <3>3. ASSUME Has(r, "run.claimed")' PROVE FALSE
      <4>1. trail' # trail
        BY <3>2, <3>3 DEF Has
      <4>2. PICK s \in Subjects, a \in Actions, x \in Workers \union {Client},
                 t \in Tenants \union {Nobody} :
              /\ Record(s, a, x, t)
              /\ s \in Runs /\ a = "run.claimed" =>
                   \E m \in Loops : pc[m] = "claimed" /\ pc'[m] = "capture" /\ held[m] = s
        BY <4>1, TrailStep
      <4>3. s = r /\ a = "run.claimed"
        BY <1>1, <3>2, <3>3, <4>2, RecordHas
      <4>4. PICK m \in Loops : pc'[m] = "capture" /\ held[m] = r
        BY <4>2, <4>3
      <4>5. m = l
        BY <1>1, <3>1, <4>4 DEF ExecutedOnce
      <4> QED
        BY <1>4, <4>4, <4>5
    <3> QED
      BY <2>1, <3>1, <3>3 DEF Has
  <2>2. CASE ~(pc[l] = "claimed" /\ held'[l] = held[l])
    <3>1. PICK k \in Loops, r \in Runs :
            /\ runs[r].status = "queued"
            /\ held' = [held EXCEPT ![k] = r]
            /\ \A m \in Loops : m # k => pc'[m] = pc[m]
            /\ UNCHANGED trail
      BY <1>4, <2>2, TickStepHolds
    <3>2. l = k
      BY <1>1, <1>4, <2>2, <3>1
    <3>3. held'[l] = r
      BY <1>1, <3>1, <3>2
    <3>4. ~Has(r, "run.claimed")
      BY <1>1, <3>1 DEF Granted
    <3> QED
      BY <3>1, <3>3, <3>4 DEF Has
  <2> QED
    BY <2>1, <2>2
<1> QED
  BY <1>2, <1>3, <1>4 DEF Granted

LEMMA VerdictReadyStep == ASSUME RunInv, [Next]_vars PROVE VerdictReady'
<1>1. /\ TypeOK /\ HoldsRun /\ VerdictReady
      /\ pc \in [Loops -> Busy \union {"idle", "loop", "rest", "asleep"}]
      /\ outcome \in [Loops -> {"none", "completed", "failed"}]
      /\ held \in [Loops -> Runs \union {Nobody}]
      /\ Runs \subseteq Subjects
  BY DEF RunInv, TypeOK, Subjects
<1> DEFINE Reports == {"report", "finish", "count"}
<1>2. \A r \in Runs : \A a : Has(r, a) => Has(r, a)'
  BY HasStays
<1>3. SUFFICES ASSUME NEW l \in Loops
               PROVE  /\ pc'[l] \in Reports => outcome'[l] \in {"completed", "failed"}
                      /\ (pc[l] = "finish" => Has(held[l], Verdict(outcome[l])))'
  BY DEF VerdictReady
<1> DEFINE Goal == /\ pc'[l] \in Reports => outcome'[l] \in {"completed", "failed"}
                   /\ (pc[l] = "finish" => Has(held[l], Verdict(outcome[l])))'
<1>4. ASSUME pc'[l] \in Reports => pc[l] \in Reports /\ outcome'[l] = outcome[l],
             pc'[l] = "finish" => pc[l] = "finish" /\ held'[l] = held[l]
      PROVE  Goal
  <2>1. pc'[l] \in Reports => outcome'[l] \in {"completed", "failed"}
    BY <1>1, <1>4 DEF VerdictReady
  <2>2. ASSUME pc'[l] = "finish" PROVE (Has(held[l], Verdict(outcome[l])))'
    <3>1. PICK r \in Runs : r = held[l]
      BY <1>1, <1>4, <2>2 DEF HoldsRun, Busy
    <3>2. PICK a : a = Verdict(outcome[l])
      OBVIOUS
    <3>3. Has(r, a)'
      BY <1>1, <1>2, <1>4, <2>2, <3>1, <3>2 DEF VerdictReady
    <3>4. held'[l] = r /\ Verdict(outcome'[l]) = a
      BY <1>4, <2>2, <3>1, <3>2 DEF Verdict
    <3> QED
      BY <3>3, <3>4 DEF Has, Verdict
  <2> QED
    BY <2>1, <2>2
<1>5. ASSUME NEW k \in Loops, RecordVerdict(k) PROVE Goal
  <2>1. CASE k = l
    <3>1. PICK r \in Runs : r = held[l]
      BY <1>1, <1>5, <2>1 DEF HoldsRun, Busy, RecordVerdict
    <3>2. PICK a \in Actions : a = Verdict(outcome[l])
      BY DEF Verdict, Actions
    <3>3. Record(r, a, Worker(l), runs[r].tenant)
      BY <1>5, <2>1, <3>1, <3>2 DEF RecordVerdict, RecordAs, Verdict
    <3>4. Has(r, a)'
      <4>1. Worker(l) \in Workers /\ runs[r].tenant \in Tenants \union {Nobody}
        BY <1>1, <1>5, <2>1, <3>1, HeldRun DEF Busy, RecordVerdict
      <4> QED
        BY <1>1, <3>3, <4>1, RecordHas
    <3>5. outcome[l] \in {"completed", "failed"}
      BY <1>1, <1>5, <2>1 DEF VerdictReady, RecordVerdict
    <3>6. held' = held /\ outcome' = outcome
      BY <1>5 DEF RecordVerdict
    <3> QED
      BY <3>1, <3>2, <3>4, <3>5, <3>6 DEF Has, Verdict
  <2>2. CASE k # l
    BY <1>1, <1>4, <1>5, <2>2 DEF RecordVerdict, Go
  <2> QED
    BY <2>1, <2>2
<1>6. ASSUME NEW k \in Loops, SelectBlocked(k) \/ Execute(k) \/ ExecutorThrew(k)
      PROVE  Goal
  <2>1. PICK o : \E events : Conclude(k, o, events) /\ o \in {"completed", "failed"}
    BY <1>6, ResultsType DEF SelectBlocked, Execute, ExecutorThrew
  <2>2. held' = held
    BY <1>6 DEF SelectBlocked, Execute, ExecutorThrew
  <2>3. CASE k = l
    BY <1>1, <2>1, <2>3 DEF Conclude, Go
  <2>4. CASE k # l
    BY <1>1, <1>4, <2>1, <2>2, <2>4 DEF Conclude, Go
  <2> QED
    BY <2>3, <2>4
<1>7. ASSUME NEW k \in Loops, ReportThrew(k) \/ EndTick(k) PROVE Goal
  BY <1>1, <1>4, <1>7 DEF ReportThrew, EndTick, Forget, Go
<1>8. ASSUME NEW k \in Loops,
             \/ Start(k) \/ Exit(k) \/ Sleep(k) \/ Wake(k) \/ PollEmpty(k)
             \/ (\E r \in Runs : Claim(k, r))
             \/ RecordClaim(k) \/ Capture(k) \/ RecordNode(k) \/ Select(k)
      PROVE  Goal
  <2>1. /\ UNCHANGED outcome
        /\ \A m \in Loops : m # k => held'[m] = held[m]
        /\ \E at \in {"idle", "loop", "rest", "asleep", "claimed", "capture",
                      "captured", "select", "executing"} :
             pc' = [pc EXCEPT ![k] = at]
    BY <1>1, <1>8 DEF Start, Exit, Sleep, Wake, PollEmpty, Claim, RecordClaim,
                      Capture, RecordNode, Select, Go
  <2>2. CASE k = l
    BY <1>1, <2>1, <2>2
  <2>3. CASE k # l
    BY <1>1, <1>4, <2>1, <2>3
  <2> QED
    BY <2>2, <2>3
<1>9. ASSUME NEW k \in Loops, Finish(k) \/ Report(k) PROVE Goal
  BY <1>1, <1>4, <1>9 DEF Finish, Report, Go
<1>10. ASSUME NEW w \in Workers, Stop(w) PROVE Goal
  BY <1>1, <1>4, <1>10 DEF Stop
<1>11. CASE UNCHANGED <<pc, held, outcome>>
  BY <1>1, <1>4, <1>11
<1> QED
  BY <1>5, <1>6, <1>7, <1>8, <1>9, <1>10, <1>11
  DEF Next, SubmitStep, CancelStep, LoopStep, TickStep, vars, loopVars,
      Refuse, DenySplit, Create, Accept, CancelUnknown, CancelRead,
      CancelWrite, CancelRecord

LEMMA ExecutedOnceStep == ASSUME RunInv, [Next]_vars PROVE ExecutedOnce'
<1>1. /\ TypeOK /\ HoldsRun /\ Granted /\ ExecutedOnce
      /\ held \in [Loops -> Runs \union {Nobody}]
      /\ Runs \subseteq Subjects
  BY DEF RunInv, TypeOK, Subjects
<1>2. ASSUME NEW l \in Loops, NEW m \in Loops, held'[l] = held'[m], held'[l] # Nobody
      PROVE  l = m
  <2>1. CASE \A k \in Loops : held'[k] \in {held[k], Nobody}
    BY <1>1, <1>2, <2>1 DEF ExecutedOnce
  <2>2. CASE \E k \in Loops, r \in Runs :
               runs[r].status = "queued" /\ held' = [held EXCEPT ![k] = r]
    BY <1>1, <1>2, <2>2 DEF ExecutedOnce, Granted
  <2> QED
    BY <2>1, <2>2, TickStepHolds
<1>3. ASSUME NEW r \in Runs, NEW i \in DOMAIN trail'[r], NEW j \in DOMAIN trail'[r],
             trail'[r][i].action = "run.claimed", trail'[r][j].action = "run.claimed"
      PROVE  i = j
  <2>1. CASE trail'[r] = trail[r]
    BY <1>1, <1>3, <2>1 DEF ExecutedOnce
  <2>2. CASE trail'[r] # trail[r]
    <3>1. PICK s \in Subjects, a \in Actions, x \in Workers \union {Client},
               t \in Tenants \union {Nobody} :
            /\ Record(s, a, x, t)
            /\ s \in Runs /\ a = "run.claimed" =>
                 \E l \in Loops : pc[l] = "claimed" /\ held[l] = s
      BY <2>2, TrailStep
    <3>2. s = r
      BY <1>1, <2>2, <3>1, RecordEffect
    <3>3. /\ DOMAIN trail'[r] = 1..(Len(trail[r]) + 1)
          /\ DOMAIN trail[r] = 1..Len(trail[r])
          /\ Len(trail[r]) \in Nat
          /\ \A k \in DOMAIN trail[r] : trail'[r][k] = trail[r][k]
          /\ trail'[r][Len(trail[r]) + 1].action = a
      <4>1. trail'[r][Len(trail[r]) + 1] = Entry(a, x, t)
        BY <1>1, <3>1, <3>2, RecordEffect
      <4>2. Entry(a, x, t).action = a
        BY DEF Entry
      <4> QED
        BY <1>1, <3>1, <3>2, <4>1, <4>2, RecordEffect
    <3>4. a = "run.claimed" => ~Has(r, "run.claimed")
      BY <1>1, <3>1, <3>2 DEF Granted
    <3>5. \A k \in DOMAIN trail'[r] : k \in DOMAIN trail[r] \/ k = Len(trail[r]) + 1
      BY <3>3
    <3>6. CASE i \in DOMAIN trail[r] /\ j \in DOMAIN trail[r]
      BY <1>1, <1>3, <3>3, <3>6 DEF ExecutedOnce
    <3>7. CASE i \notin DOMAIN trail[r] \/ j \notin DOMAIN trail[r]
      BY <1>3, <3>3, <3>4, <3>5, <3>7 DEF Has
    <3> QED
      BY <3>6, <3>7
  <2> QED
    BY <2>1, <2>2
<1> QED
  BY <1>2, <1>3 DEF ExecutedOnce

LEMMA VerdictSealedStep == ASSUME RunInv, [Next]_vars PROVE VerdictSealed'
<1>1. /\ TypeOK /\ VerdictSealed /\ VerdictReady /\ HoldsRun
      /\ Runs \subseteq Subjects
  BY DEF RunInv, TypeOK, Subjects
<1>2. \A r \in Runs : \A a : Has(r, a) => Has(r, a)'
  BY HasStays
<1>3. SUFFICES ASSUME NEW r \in Runs, runs'[r].status \in {"completed", "failed"}
               PROVE  /\ (Has(r, Verdict(runs[r].status)))'
                      /\ runs'[r].status = "failed" => runs'[r].reason
  BY DEF VerdictSealed
<1>4. PICK a : a = Verdict(runs'[r].status)
  OBVIOUS
<1>5. CASE runs'[r].status = runs[r].status /\ runs'[r].reason = runs[r].reason
  <2>1. Has(r, a) /\ (runs'[r].status = "failed" => runs'[r].reason)
    BY <1>1, <1>3, <1>4, <1>5 DEF VerdictSealed, Verdict
  <2> QED
    BY <1>2, <1>4, <2>1 DEF Has, Verdict
<1>6. CASE \E l \in Loops :
             /\ pc[l] = "finish" /\ held[l] = r
             /\ runs'[r].status = outcome[l]
             /\ outcome[l] = "failed" => runs'[r].reason
  <2>1. Has(r, a) /\ (runs'[r].status = "failed" => runs'[r].reason)
    BY <1>1, <1>4, <1>6 DEF VerdictReady, Verdict
  <2> QED
    BY <1>2, <1>4, <2>1 DEF Has, Verdict
<1> QED
  BY <1>3, <1>5, <1>6, StoreStep

LEMMA TenantIsolationStep == ASSUME RunInv, [Next]_vars PROVE TenantIsolation'
<1>1. /\ TypeOK /\ TenantIsolation /\ SubmitAgrees
      /\ Runs \subseteq Subjects
  BY DEF RunInv, TypeOK, Subjects
<1>2. SUFFICES ASSUME NEW r \in Runs, NEW i \in DOMAIN trail'[r]
               PROVE  trail'[r][i].tenant = runs'[r].tenant
  BY DEF TenantIsolation
<1>3. runs[r].status # "absent" => runs'[r].tenant = runs[r].tenant
  BY StoreStep
<1>4. CASE trail'[r] = trail[r]
  <2>1. runs[r].status # "absent"
    BY <1>1, <1>2, <1>4 DEF SubmitAgrees
  <2> QED
    BY <1>1, <1>2, <1>3, <1>4, <2>1 DEF TenantIsolation
<1>5. CASE trail'[r] # trail[r]
  <2>1. PICK s \in Subjects, a \in Actions, x \in Workers \union {Client},
             t \in Tenants \union {Nobody} :
          /\ Record(s, a, x, t)
          /\ s \in Runs => runs[s].status # "absent" /\ t = runs[s].tenant
    BY <1>5, TrailStep
  <2>2. s = r
    BY <1>1, <1>5, <2>1, RecordEffect
  <2>3. /\ DOMAIN trail'[r] = 1..(Len(trail[r]) + 1)
        /\ DOMAIN trail[r] = 1..Len(trail[r])
        /\ Len(trail[r]) \in Nat
        /\ \A k \in DOMAIN trail[r] : trail'[r][k] = trail[r][k]
        /\ trail'[r][Len(trail[r]) + 1].tenant = runs[r].tenant
    <3>1. trail'[r][Len(trail[r]) + 1] = Entry(a, x, t)
      BY <1>1, <2>1, <2>2, RecordEffect
    <3>2. Entry(a, x, t).tenant = t
      BY DEF Entry
    <3> QED
      BY <1>1, <2>1, <2>2, <3>1, <3>2, RecordEffect
  <2>4. i \in DOMAIN trail[r] \/ i = Len(trail[r]) + 1
    BY <1>2, <2>3
  <2>5. trail'[r][i].tenant = runs[r].tenant
    BY <1>1, <2>3, <2>4 DEF TenantIsolation
  <2> QED
    BY <1>3, <2>1, <2>2, <2>5
<1> QED
  BY <1>4, <1>5

-----------------------------------------------------------------------------
(* The theorems *)

\* The initial state and every step keep the inductive invariant.
LEMMA RunInvInit == ASSUME Init PROVE RunInv
<1>1. TypeOK
  <2>1. NoRun \in RunRecord
    BY DEF NoRun, RunRecord
  <2>2. <<>> \in Seq(Runs) /\ <<>> \in Seq(EntryRecord) /\ <<>> \in Seq(ExecutionEvents)
    OBVIOUS
  <2> QED
    BY <2>1, <2>2 DEF Init, TypeOK
<1>2. HoldsRun /\ TimerAsleep
  BY NamesAssumption DEF Init, HoldsRun, TimerAsleep, Busy, Loops
<1>3. SubmitAgrees /\ CancelAgrees
  BY DEF Init, SubmitAgrees, CancelAgrees, NoRun, Subjects
<1>4. Granted /\ VerdictReady /\ ExecutedOnce
  BY NamesAssumption DEF Init, Granted, VerdictReady, ExecutedOnce, Has, Subjects
<1>5. VerdictSealed /\ TenantIsolation
  BY DEF Init, VerdictSealed, TenantIsolation, NoRun, Subjects
<1> QED
  BY <1>1, <1>2, <1>3, <1>4, <1>5 DEF RunInv

LEMMA RunInvStep == ASSUME RunInv, [Next]_vars PROVE RunInv'
<1>1. TypeOK'
  BY TypeStep DEF RunInv
<1> QED
  BY <1>1, TickStepHolds, TimerAsleepStep, SubmitAgreesStep, CancelAgreesStep,
     GrantedStep, VerdictReadyStep, ExecutedOnceStep, VerdictSealedStep,
     TenantIsolationStep
  DEF RunInv

\* The inductive invariant holds in every state of every behaviour.
THEOREM RunInvariant == Spec => []RunInv
<1>1. Init => RunInv
  BY RunInvInit
<1>2. RunInv /\ [Next]_vars => RunInv'
  BY RunInvStep
<1> QED
  BY <1>1, <1>2, PTL DEF Spec

\* Every variable keeps its type.
THEOREM TypeCorrect == Spec => []TypeOK
<1>1. RunInv => TypeOK
  BY DEF RunInv
<1> QED
  BY <1>1, RunInvariant, PTL

\* No two ticks hold one run and no run is claimed twice, for any number of
\* workers, restarts and cancellations.
THEOREM RunsExecutedOnce == Spec => []ExecutedOnce
<1>1. RunInv => ExecutedOnce
  BY DEF RunInv
<1> QED
  BY <1>1, RunInvariant, PTL

\* A verdict is in the audit trail before any reader sees it as a status.
THEOREM VerdictsSealed == Spec => []VerdictSealed
<1>1. RunInv => VerdictSealed
  BY DEF RunInv
<1> QED
  BY <1>1, RunInvariant, PTL

\* Every entry against a run is in the tenant that submitted it.
THEOREM TenantsIsolated == Spec => []TenantIsolation
<1>1. RunInv => TenantIsolation
  BY DEF RunInv
<1> QED
  BY <1>1, RunInvariant, PTL

\* No step takes a run back: to the queue, or from a concluded status to
\* running.
THEOREM StatusesForward == Spec => StatusForward
<1>1. ASSUME RunInv, [Next]_vars, NEW r \in Runs
      PROVE  Stage(runs[r].status) <= Stage(runs'[r].status)
  <2>1. /\ runs \in [Runs -> RunRecord]
        /\ runs[r].status \in Status \union {"absent"}
        /\ copy \in [CancelCalls -> RunRecord]
        /\ outcome \in [Loops -> {"none", "completed", "failed"}]
    BY <1>1 DEF RunInv, TypeOK, RunRecord
  <2>2. ASSUME NEW q \in Runs, NEW t \in Tenants, NEW b \in Backends, Create(q, t, b)
        PROVE  runs'[r].status = runs[r].status \/ runs[r].status = "absent"
    BY <1>1, <2>1, <2>2 DEF Create, RunInv, SubmitAgrees
  <2>3. ASSUME NEW c \in CancelCalls, CancelWrite(c)
        PROVE  runs'[r].status = runs[r].status \/ runs'[r].status = "cancelled"
    BY <2>1, <2>3 DEF CancelWrite, RunRecord
  <2>4. ASSUME NEW l \in Loops, NEW q \in Runs, Claim(l, q)
        PROVE  \/ runs'[r].status = runs[r].status
               \/ runs[r].status = "queued" /\ runs'[r].status = "running"
    BY <2>1, <2>4 DEF Claim, FirstQueued, Queued, RunRecord
  <2>5. ASSUME NEW l \in Loops, Capture(l)
        PROVE  runs'[r].status = runs[r].status
    BY <2>1, <2>5 DEF Capture, RunRecord
  <2>6. ASSUME NEW l \in Loops, Finish(l)
        PROVE  \/ runs'[r].status = runs[r].status
               \/ runs'[r].status \in {"completed", "failed"}
    BY <1>1, <2>1, <2>6 DEF Finish, RunRecord, RunInv, VerdictReady
  <2>7. \/ runs'[r].status = runs[r].status
        \/ runs[r].status = "absent"
        \/ runs'[r].status \in {"completed", "failed", "cancelled"}
        \/ runs[r].status = "queued" /\ runs'[r].status = "running"
    BY <1>1, <2>2, <2>3, <2>4, <2>5, <2>6
    DEF Next, SubmitStep, CancelStep, LoopStep, TickStep, vars,
        Refuse, DenySplit, Accept, CancelUnknown, CancelRead, CancelRecord,
        Start, Stop, Exit, Sleep, Wake, PollEmpty, RecordClaim, RecordNode,
        SelectBlocked, Select, Execute, ExecutorThrew, Report, ReportThrew,
        RecordVerdict, EndTick
  <2> QED
    BY <2>1, <2>7 DEF Stage, Status
<1>2. RunInv /\ [Next]_vars => [\A r \in Runs : Stage(runs[r].status) <= Stage(runs'[r].status)]_vars
  BY <1>1
<1> QED
  BY <1>2, RunInvariant, PTL DEF Spec, StatusForward

-----------------------------------------------------------------------------
(* One story: what the workers wrote about a run is the beginning of one     *)
(* execution, told in order by one of them.  The story is followed through   *)
(* the tick that tells it: at each place in tick() what has been said and    *)
(* what is still to be said make a whole one.                                *)

\* The claim, and the node if the host could describe itself.
Openings == {<<"run.claimed">>, <<"run.claimed", "compute.node.selected">>}

\* What is in the trail of a run while a tick holds it, and what the tick has still to say.
Telling(l) ==
  LET said  == Said(held[l])
      built == runs[held[l]].backend
  IN  /\ pc[l] = "claimed" => said = <<>>
      /\ pc[l] \in {"capture", "captured"} => said = <<"run.claimed">>
      /\ pc[l] \in {"select", "executing"} => said \in Openings
      /\ pc[l] = "executing" => ~Blocked(built)
      /\ pc[l] = "report" =>
           said \o (todo[l] \o <<Verdict(outcome[l])>>) \in Stories(built)
      /\ pc[l] \in {"finish", "count"} => said \in Stories(built)

TicksTell == \A l \in Loops : held[l] \in Runs => Telling(l)

\* Nothing is said of a run nobody claimed, and nothing more once its verdict is its status.
Silent ==
  /\ \A r \in Runs : runs[r].status \in {"absent", "queued"} => Said(r) = <<>>
  /\ \A l \in Loops : held[l] \in Runs /\ runs[held[l]].status \in {"completed", "failed"} =>
       pc[l] = "count"

\* Who tells is the worker whose tick holds the run.
TellerHolds ==
  \A l \in Loops : held[l] \in Runs =>
    \A i \in DOMAIN WorkerEntries(held[l]) : WorkerEntries(held[l])[i].actor = Worker(l)

\* The backend a run was submitted with is written back by a cancel request.
BackendKept ==
  \A c \in CancelCalls : cancel[c] = "read" => copy[c].backend = runs[target[c]].backend

\* A cancel request names no run before it has read one.
TargetUnset == \A c \in CancelCalls : cancel[c] = "idle" => target[c] = Nobody

\* The environment is in the record before the node is in the trail.
Captured ==
  \A l \in Loops : pc[l] = "captured" /\ (\A c \in CancelCalls : target[c] # held[l]) =>
    runs[held[l]].env

\* The inductive invariant behind OneStory.
StoryInv ==
  /\ TicksTell /\ Silent /\ TellerHolds
  /\ BackendKept /\ TargetUnset /\ Captured
  /\ NodeKept /\ OneTeller /\ StoryTold

-----------------------------------------------------------------------------
(* The worker's part of a trail *)

\* An entry of a worker is told last, one of a client is not told.
LEMMA ToldNext ==
  ASSUME TypeOK, NEW s \in Subjects, NEW a \in Actions,
         NEW x \in Workers \union {Client}, NEW t \in Tenants \union {Nobody},
         Record(s, a, x, t), NEW r \in Runs
  PROVE  WorkerEntries(r)' = IF r = s /\ x # Client
                             THEN Append(WorkerEntries(r), Entry(a, x, t))
                             ELSE WorkerEntries(r)
<1>1. trail \in [Subjects -> Seq(EntryRecord)] /\ r \in Subjects /\ Entry(a, x, t) \in EntryRecord
  BY DEF TypeOK, Subjects, Entry, EntryRecord
<1>2. CASE r # s
  <2>1. trail'[r] = trail[r]
    BY <1>1, <1>2 DEF Record
  <2> QED
    BY <1>2, <2>1 DEF WorkerEntries
<1>3. CASE r = s
  <2> DEFINE old == trail[r]
             new == trail'[r]
             I == {i \in DOMAIN old : old[i].actor # Client}
             J == {i \in DOMAIN new : new[i].actor # Client}
  <2>1. old \in Seq(EntryRecord) /\ new = Append(old, Entry(a, x, t))
    BY <1>1, <1>3 DEF Record
  <2>2. /\ Len(old) \in Nat /\ DOMAIN old = 1..Len(old)
        /\ DOMAIN new = 1..(Len(old) + 1)
        /\ \A i \in 1..Len(old) : new[i] = old[i]
        /\ new[Len(old) + 1] = Entry(a, x, t)
    BY <1>1, <2>1
  <2>3. \A k \in 1..Len(old) : k \in I <=> k \in J
    BY <2>2
  <2>4. Len(old) + 1 \in J <=> x # Client
    BY <2>2 DEF Entry
  <2> HIDE DEF I, J, old, new
  <2>5. Chosen(new, J) = IF Len(old) + 1 \in J THEN Append(Chosen(old, I), Entry(a, x, t))
                         ELSE Chosen(old, I)
    BY <1>1, <2>1, <2>3, ChosenAppend
  <2> QED
    BY <1>3, <2>4, <2>5 DEF WorkerEntries, I, J, old, new
<1> QED
  BY <1>2, <1>3

\* The actions of a sequence of entries.
LEMMA ActionsOf ==
  ASSUME NEW told \in Seq(EntryRecord)
  PROVE  /\ [i \in DOMAIN told |-> told[i].action] \in Seq(Actions)
         /\ Len([i \in DOMAIN told |-> told[i].action]) = Len(told)
         /\ \A i \in 1..Len(told) :
              [j \in DOMAIN told |-> told[j].action][i] = told[i].action
<1>1. DOMAIN told = 1..Len(told)
  OBVIOUS
<1>2. \A i \in 1..Len(told) : told[i].action \in Actions
  <2>1. \A i \in 1..Len(told) : told[i] \in EntryRecord
    BY ElementOfSeq
  <2> QED
    BY <2>1 DEF EntryRecord
<1> QED
  BY <1>1, <1>2

\* What is told is a sequence of entries, and what is said is their actions.
LEMMA ToldType ==
  ASSUME TypeOK, NEW r \in Runs
  PROVE  /\ WorkerEntries(r) \in Seq(EntryRecord)
         /\ Said(r) \in Seq(Actions)
         /\ Len(Said(r)) = Len(WorkerEntries(r))
         /\ \A i \in 1..Len(WorkerEntries(r)) : Said(r)[i] = WorkerEntries(r)[i].action
<1>1. trail[r] \in Seq(EntryRecord)
  BY DEF TypeOK, Subjects
<1>2. WorkerEntries(r) \in Seq(EntryRecord)
  BY <1>1, ChosenPlaces DEF WorkerEntries
<1>3. PICK told \in Seq(EntryRecord) : told = WorkerEntries(r)
  BY <1>2
<1>4. Said(r) = [i \in DOMAIN told |-> told[i].action]
  BY <1>3 DEF Said
<1> QED
  BY <1>2, <1>3, <1>4, ActionsOf

\* What a worker records is said last; a client's entry is not said.
LEMMA SaidNext ==
  ASSUME TypeOK, TypeOK', NEW s \in Subjects, NEW a \in Actions,
         NEW x \in Workers \union {Client}, NEW t \in Tenants \union {Nobody},
         Record(s, a, x, t), NEW r \in Runs
  PROVE  Said(r)' = IF r = s /\ x # Client THEN Append(Said(r), a) ELSE Said(r)
<1>1. CASE r = s /\ x # Client
  <2> DEFINE told == WorkerEntries(r)
  <2>1. WorkerEntries(r)' = Append(told, Entry(a, x, t))
    BY <1>1, ToldNext
  <2>2. told \in Seq(EntryRecord) /\ Entry(a, x, t) \in EntryRecord /\ Entry(a, x, t).action = a
    BY ToldType DEF Entry, EntryRecord
  <2>3. /\ Said(r) \in Seq(Actions) /\ Len(Said(r)) = Len(told)
        /\ \A i \in 1..Len(told) : Said(r)[i] = told[i].action
    BY ToldType
  <2> HIDE DEF told
  <2>4. PICK new : new = Append(told, Entry(a, x, t))
    OBVIOUS
  <2>5. /\ Len(told) \in Nat /\ DOMAIN new = 1..(Len(told) + 1)
        /\ \A i \in 1..Len(told) : new[i] = told[i]
        /\ new[Len(told) + 1] = Entry(a, x, t)
    BY <2>2, <2>4
  <2>6. Said(r)' = [i \in 1..(Len(told) + 1) |-> new[i].action]
    BY <2>1, <2>4, <2>5 DEF Said
  <2>7. PICK said : said = Said(r)
    OBVIOUS
  <2>8. PICK more : more = Append(said, a)
    OBVIOUS
  <2>9. /\ DOMAIN more = 1..(Len(told) + 1) /\ more \in Seq(Actions)
        /\ \A i \in 1..Len(told) : more[i] = said[i]
        /\ more[Len(told) + 1] = a
    BY <2>3, <2>7, <2>8, AppendProperties
  <2>10. more = [i \in 1..(Len(told) + 1) |-> more[i]]
    BY <2>9
  <2>11. \A i \in 1..(Len(told) + 1) : i \in 1..Len(told) \/ i = Len(told) + 1
    BY <2>5
  <2>12. \A i \in 1..(Len(told) + 1) : new[i].action = more[i]
    BY <2>2, <2>3, <2>5, <2>7, <2>9, <2>11
  <2> QED
    BY <1>1, <2>6, <2>7, <2>8, <2>10, <2>12
<1>2. CASE ~(r = s /\ x # Client)
  BY <1>2, ToldNext DEF Said
<1> QED
  BY <1>1, <1>2

-----------------------------------------------------------------------------
(* Stories *)

\* Saying the next of what is to be said changes nothing of the whole.
LEMMA SayNext ==
  ASSUME NEW A, NEW s \in Seq(A), NEW q \in Seq(A), q # <<>>, NEW v \in Seq(A)
  PROVE  Append(s, Head(q)) \o (Tail(q) \o v) = s \o (q \o v)
<1>1. Head(q) \in A /\ Tail(q) \in Seq(A) /\ <<Head(q)>> \in Seq(A)
  BY HeadTailProperties
<1>2. Append(s, Head(q)) = s \o <<Head(q)>>
  BY <1>1, AppendIsConcat
<1>3. q = <<Head(q)>> \o Tail(q)
  BY <1>1, HeadTailProperties
<1>4. (s \o <<Head(q)>>) \o (Tail(q) \o v) = s \o (<<Head(q)>> \o (Tail(q) \o v))
  BY <1>1, ConcatProperties, ConcatAssociative
<1>5. <<Head(q)>> \o (Tail(q) \o v) = (<<Head(q)>> \o Tail(q)) \o v
  BY <1>1, ConcatAssociative
<1> QED
  BY <1>2, <1>3, <1>4, <1>5

\* Saying two things.
LEMMA SayTwo == ASSUME NEW a, NEW b PROVE Append(<<a>>, b) = <<a, b>>
<1>1. PICK s : s = <<a>> /\ s \in Seq({a, b})
  <2>1. <<a>> \in Seq({a, b})
    OBVIOUS
  <2> QED
    BY <2>1
<1>2. PICK two : two = <<a, b>> /\ two \in Seq({a, b})
  <2>1. <<a, b>> \in Seq({a, b})
    OBVIOUS
  <2> QED
    BY <2>1
<1>3. Len(s) = 1 /\ s[1] = a /\ Len(two) = 2 /\ two[1] = a /\ two[2] = b
  BY <1>1, <1>2
<1>4. PICK more : more = Append(s, b)
  OBVIOUS
<1>5. more \in Seq({a, b}) /\ Len(more) = 2 /\ more[1] = a /\ more[2] = b
  BY <1>1, <1>3, <1>4, AppendProperties
<1>6. more = two
  <2>1. \A i \in 1..Len(more) : i = 1 \/ i = 2
    BY <1>5
  <2> QED
    BY <1>2, <1>3, <1>5, <2>1, SeqEqual
<1> QED
  BY <1>1, <1>2, <1>4, <1>6

\* Saying the last.
LEMMA SayLast ==
  ASSUME NEW A, NEW s \in Seq(A), NEW v \in A
  PROVE  s \o (<<>> \o <<v>>) = Append(s, v)
<1>1. <<v>> \in Seq(A) /\ <<>> \o <<v>> = <<v>>
  BY ConcatEmptySeq
<1> QED
  BY <1>1, AppendIsConcat

\* What was said first is a prefix of the whole.
LEMMA PrefixOfConcat ==
  ASSUME NEW A, NEW s \in Seq(A), NEW t \in Seq(A)
  PROVE  IsPrefix(s, s \o t)
<1>1. PICK whole : whole = s \o t
  OBVIOUS
<1>2. /\ whole \in Seq(A) /\ Len(whole) = Len(s) + Len(t)
      /\ \A i \in 1..Len(s) : whole[i] = s[i]
      /\ Len(s) \in Nat /\ Len(t) \in Nat
  BY <1>1, ConcatProperties
<1>3. /\ SubSeq(whole, 1, Len(s)) \in Seq(A)
      /\ Len(SubSeq(whole, 1, Len(s))) = Len(s)
      /\ \A i \in 1..Len(s) : SubSeq(whole, 1, Len(s))[i] = whole[i]
  BY <1>2
<1>4. SubSeq(s, 1, Len(s)) = s
  BY SubSeqFull
<1>5. SubSeq(whole, 1, Len(s)) = s
  BY <1>2, <1>3, SeqEqual
<1> QED
  BY <1>1, <1>2, <1>4, <1>5 DEF IsPrefix

\* Bodies of a story: after its opening.
Bodies(b) ==
  IF Blocked(b) THEN {<<"execution.unavailable", "run.failed">>}
  ELSE {<<"run.failed">>} \union {res.events \o <<Verdict(res.outcome)>> : res \in Results(b)}

\* A story is an opening and a body, and there is always one to tell.
LEMMA StoriesType ==
  ASSUME NEW b
  PROVE  /\ \A o \in Openings : o \in Seq(Actions)
         /\ \A body \in Bodies(b) : body \in Seq(Actions)
         /\ \A o \in Openings, body \in Bodies(b) : o \o body \in Stories(b)
         /\ \A story \in Stories(b) : story \in Seq(Actions)
         /\ \E body : body \in Bodies(b)
<1>1. Stories(b) = {o \o body : o \in Openings, body \in Bodies(b)}
  BY DEF Stories, Openings, Bodies
<1>2. \A o \in Openings : o \in Seq(Actions)
  <2>1. "run.claimed" \in Actions /\ "compute.node.selected" \in Actions
    BY DEF Actions
  <2>2. <<"run.claimed">> \in Seq(Actions) /\ <<"run.claimed", "compute.node.selected">> \in Seq(Actions)
    BY <2>1
  <2> QED
    BY <2>2 DEF Openings
<1>3. ASSUME NEW res \in Results(b) PROVE res.events \o <<Verdict(res.outcome)>> \in Seq(Actions)
  <2>1. res.events \in Seq(ExecutionEvents)
    BY ResultsType
  <2>2. ExecutionEvents \subseteq Actions
    BY DEF Actions
  <2>3. res.events \in Seq(Actions)
    BY <2>1, <2>2, SeqMonotonic
  <2>4. <<Verdict(res.outcome)>> \in Seq(Actions)
    BY DEF Verdict, Actions
  <2> QED
    BY <2>3, <2>4, ConcatProperties
<1>4. <<"execution.unavailable", "run.failed">> \in Seq(Actions) /\ <<"run.failed">> \in Seq(Actions)
  BY DEF Actions
<1>5. /\ \A body \in Bodies(b) : body \in Seq(Actions)
      /\ \E body : body \in Bodies(b)
  BY <1>3, <1>4 DEF Bodies
<1>6. \A story \in Stories(b) : story \in Seq(Actions)
  <2> SUFFICES ASSUME NEW story \in Stories(b) PROVE story \in Seq(Actions)
    OBVIOUS
  <2>1. PICK o \in Openings, body \in Bodies(b) : story = o \o body
    BY <1>1
  <2>2. o \in Seq(Actions) /\ body \in Seq(Actions)
    BY <1>2, <1>5
  <2> QED
    BY <2>1, <2>2, ConcatProperties
<1>7. \A o \in Openings, body \in Bodies(b) : o \o body \in Stories(b)
  BY <1>1
<1> QED
  BY <1>2, <1>5, <1>6, <1>7

\* Every opening begins a story, and so does its beginning.
LEMMA OpeningsBegin ==
  ASSUME NEW b, NEW said, said \in Openings \union {<<>>}
  PROVE  \E story \in Stories(b) : IsPrefix(said, story)
<1>1. PICK body : body \in Bodies(b) /\ body \in Seq(Actions)
  BY StoriesType
<1>2. CASE said \in Openings
  <2>1. said \in Seq(Actions) /\ said \o body \in Stories(b)
    BY <1>1, <1>2, StoriesType
  <2> QED
    BY <1>1, <2>1, PrefixOfConcat
<1>3. CASE said = <<>>
  <2>1. <<"run.claimed">> \o body \in Stories(b)
    BY <1>1, StoriesType DEF Openings
  <2>2. PICK story : story = <<"run.claimed">> \o body
    OBVIOUS
  <2>3. story \in Seq(Actions)
    BY <2>1, <2>2, StoriesType
  <2>4. <<>> \in Seq(Actions) /\ <<>> \o story = story
    BY <2>3, ConcatEmptySeq
  <2>5. IsPrefix(<<>>, story)
    BY <2>3, <2>4, PrefixOfConcat
  <2> QED
    BY <1>3, <2>1, <2>2, <2>5
<1> QED
  BY <1>2, <1>3

\* A story is a prefix of itself.
LEMMA PrefixOfItself == ASSUME NEW A, NEW s \in Seq(A) PROVE IsPrefix(s, s)
<1>1. <<>> \in Seq(A) /\ s \o <<>> = s
  BY ConcatEmptySeq
<1> QED
  BY <1>1, PrefixOfConcat

\* A tick that is at `at` tells the beginning of a story, whatever it has still to say.
LEMMA TellingBegins ==
  ASSUME NEW at \in Busy, NEW said \in Seq(Actions), NEW left \in Seq(ExecutionEvents),
         NEW o, NEW b,
         at \in {"claimed", "capture", "captured", "select", "executing"} =>
           said \in Openings \union {<<>>},
         at = "report" => said \o (left \o <<Verdict(o)>>) \in Stories(b),
         at \in {"finish", "count"} => said \in Stories(b)
  PROVE  \E story \in Stories(b) : IsPrefix(said, story)
<1>1. CASE at \in {"claimed", "capture", "captured", "select", "executing"}
  BY <1>1, OpeningsBegin
<1>2. CASE at = "report"
  <2>1. left \in Seq(Actions) /\ <<Verdict(o)>> \in Seq(Actions)
    <3>1. ExecutionEvents \subseteq Actions
      BY DEF Actions
    <3> QED
      BY <3>1, SeqMonotonic DEF Verdict, Actions
  <2>2. left \o <<Verdict(o)>> \in Seq(Actions)
    BY <2>1, ConcatProperties
  <2>3. IsPrefix(said, said \o (left \o <<Verdict(o)>>))
    BY <2>2, PrefixOfConcat
  <2> QED
    BY <1>2, <2>3
<1>3. CASE at \in {"finish", "count"}
  BY <1>3, PrefixOfItself
<1> QED
  BY <1>1, <1>2, <1>3 DEF Busy

-----------------------------------------------------------------------------
(* What a step may do to what is told *)

\* Nothing more is told of any run.
SameTold == \A r \in Runs : WorkerEntries(r)' = WorkerEntries(r) /\ Said(r)' = Said(r)

\* The tick of l tells a of the run it holds.
Tells(l, a) ==
  \A r \in Runs :
    IF r = held[l]
    THEN /\ \E t \in Tenants \union {Nobody} :
              WorkerEntries(r)' = Append(WorkerEntries(r), Entry(a, Worker(l), t))
         /\ Said(r)' = Append(Said(r), a)
    ELSE WorkerEntries(r)' = WorkerEntries(r) /\ Said(r)' = Said(r)

\* A step that leaves the trail alone tells nothing.
LEMMA SilentStep == ASSUME UNCHANGED trail PROVE SameTold
BY DEF SameTold, WorkerEntries, Said

\* What a handler records on behalf of a client is not told.
LEMMA ClientTells ==
  ASSUME TypeOK, TypeOK', NEW s \in Subjects, NEW a \in Actions,
         NEW t \in Tenants \union {Nobody}, Record(s, a, Client, t)
  PROVE  SameTold
BY ToldNext, SaidNext DEF SameTold

\* What a tick records is told of the run it holds.
LEMMA WorkerTells ==
  ASSUME TypeOK, TypeOK', HoldsRun, NEW l \in Loops, pc[l] \in Busy, NEW a \in Actions,
         RecordAs(l, a)
  PROVE  Tells(l, a)
<1>1. /\ held[l] \in Subjects /\ Worker(l) \in Workers
      /\ runs[held[l]].tenant \in Tenants \union {Nobody}
      /\ Worker(l) # Client
  BY HeldRun, NamesAssumption
<1>2. PICK t \in Tenants \union {Nobody} : Record(held[l], a, Worker(l), t)
  BY <1>1 DEF RecordAs
<1> QED
  BY <1>1, <1>2, ToldNext, SaidNext DEF Tells

\* A record keeps the backend it was created with.
LEMMA BackendStays ==
  ASSUME RunInv, BackendKept, [Next]_vars
  PROVE  \A r \in Runs : runs[r].status # "absent" => runs'[r].backend = runs[r].backend
<1> SUFFICES ASSUME NEW r \in Runs, runs[r].status # "absent"
             PROVE  runs'[r].backend = runs[r].backend
  OBVIOUS
<1>1. runs \in [Runs -> RunRecord] /\ copy \in [CancelCalls -> RunRecord] /\ SubmitAgrees
  BY DEF RunInv, TypeOK
<1>2. ASSUME NEW q \in Runs, NEW t \in Tenants, NEW b \in Backends, Create(q, t, b)
      PROVE  runs'[r].backend = runs[r].backend
  BY <1>1, <1>2 DEF Create, SubmitAgrees
<1>3. ASSUME NEW c \in CancelCalls, CancelWrite(c) PROVE runs'[r].backend = runs[r].backend
  BY <1>1, <1>3 DEF CancelWrite, BackendKept, RunRecord
<1>4. ASSUME NEW l \in Loops, NEW q \in Runs, Claim(l, q) PROVE runs'[r].backend = runs[r].backend
  BY <1>1, <1>4 DEF Claim, RunRecord
<1>5. ASSUME NEW l \in Loops, Capture(l) PROVE runs'[r].backend = runs[r].backend
  BY <1>1, <1>5 DEF Capture, RunRecord
<1>6. ASSUME NEW l \in Loops, Finish(l) PROVE runs'[r].backend = runs[r].backend
  BY <1>1, <1>6 DEF Finish, RunRecord
<1>7. CASE UNCHANGED runs
  BY <1>7
<1> QED
  BY <1>2, <1>3, <1>4, <1>5, <1>6, <1>7
  DEF Next, SubmitStep, CancelStep, LoopStep, TickStep, vars,
      Refuse, DenySplit, Accept, CancelUnknown, CancelRead, CancelRecord,
      Start, Stop, Exit, Sleep, Wake, PollEmpty, RecordClaim, RecordNode,
      SelectBlocked, Select, Execute, ExecutorThrew, Report, ReportThrew,
      RecordVerdict, EndTick

\* A tick that makes no step and of whose run nothing is told is where it was.
LEMMA Bystander ==
  ASSUME RunInv, BackendKept, [Next]_vars, NEW m \in Loops, NEW r \in Runs, held[m] = r,
         Telling(m), Said(r)' = Said(r),
         held'[m] = r, pc'[m] = pc[m], todo'[m] = todo[m], outcome'[m] = outcome[m]
  PROVE  Telling(m)'
<1>1. runs'[r].backend = runs[r].backend
  BY BackendStays DEF RunInv, Granted
<1>2. Said(held[m]) = Said(r) /\ Said(held[m])' = Said(r)'
  OBVIOUS
<1> QED
  BY <1>1, <1>2 DEF Telling

\* One tick steps, the others stand by.
LEMMA OneTickSteps ==
  ASSUME RunInv, TicksTell, BackendKept, [Next]_vars, NEW l \in Loops,
         SameTold \/ (held[l] \in Runs /\ \E a : Tells(l, a)),
         \A m \in Loops : m # l =>
           /\ held'[m] = held[m] /\ pc'[m] = pc[m]
           /\ todo'[m] = todo[m] /\ outcome'[m] = outcome[m],
         held'[l] \in Runs => Telling(l)'
  PROVE  TicksTell'
<1> SUFFICES ASSUME NEW m \in Loops, m # l, held'[m] \in Runs PROVE Telling(m)'
  BY DEF TicksTell
<1>1. PICK r \in Runs : held[m] = r /\ held'[m] = r /\ Telling(m)
  BY DEF TicksTell
<1>2. held[l] \in Runs => held[l] # r
  BY <1>1, NamesAssumption DEF RunInv, ExecutedOnce
<1>3. Said(r)' = Said(r)
  BY <1>1, <1>2 DEF SameTold, Tells
<1> QED
  BY <1>1, <1>3, Bystander

\* Only a tick that holds a run tells of it, and it changes no record in that step.
LEMMA TellStep ==
  ASSUME RunInv, TypeOK', [Next]_vars
  PROVE  \/ SameTold
         \/ \E l \in Loops, a \in Actions :
              /\ Tells(l, a) /\ held[l] \in Runs /\ pc[l] \in Busy \ {"count"}
              /\ UNCHANGED <<runs, held>>
<1> DEFINE Goal ==
      \/ SameTold
      \/ \E l \in Loops, a \in Actions :
           /\ Tells(l, a) /\ held[l] \in Runs /\ pc[l] \in Busy \ {"count"}
           /\ UNCHANGED <<runs, held>>
<1>1. /\ TypeOK /\ HoldsRun /\ CancelAgrees
      /\ Runs \subseteq Subjects /\ TaskSet \in Subjects
      /\ \A r \in Runs : runs[r].tenant \in Tenants \union {Nobody}
      /\ caller \in [CancelCalls -> Tenants \union {Nobody}]
  BY DEF RunInv, TypeOK, Subjects, RunRecord
<1>2. ASSUME NEW r \in Runs, NEW t \in Tenants, DenySplit(r, t) PROVE Goal
  BY <1>1, <1>2, ClientTells DEF DenySplit, Actions
<1>3. ASSUME NEW r \in Runs, Accept(r) PROVE Goal
  BY <1>1, <1>3, ClientTells DEF Accept, Actions
<1>4. ASSUME NEW c \in CancelCalls, CancelRecord(c) PROVE Goal
  BY <1>1, <1>4, ClientTells DEF CancelRecord, CancelAgrees, Actions
<1>5. ASSUME NEW l \in Loops, NEW a \in Actions, pc[l] \in Busy \ {"count"}, RecordAs(l, a),
             UNCHANGED <<runs, held>>
      PROVE  Goal
  BY <1>1, <1>5, HeldRun, WorkerTells
<1>6. ASSUME NEW l \in Loops, RecordClaim(l) \/ RecordNode(l) \/ SelectBlocked(l) PROVE Goal
  BY <1>5, <1>6 DEF RecordClaim, RecordNode, SelectBlocked, Busy, Actions
<1>7. ASSUME NEW l \in Loops, Report(l) PROVE Goal
  <2>1. Head(todo[l]) \in ExecutionEvents
    BY <1>1, <1>7, HeadTailProperties DEF TypeOK, Report
  <2> QED
    BY <1>5, <1>7, <2>1 DEF Report, Busy, Actions
<1>8. ASSUME NEW l \in Loops, RecordVerdict(l) PROVE Goal
  BY <1>5, <1>8 DEF RecordVerdict, Busy, Actions
<1>9. CASE UNCHANGED trail
  BY <1>9, SilentStep
<1> QED
  BY <1>2, <1>3, <1>4, <1>6, <1>7, <1>8, <1>9
  DEF Next, SubmitStep, CancelStep, LoopStep, TickStep, vars,
      Refuse, Create, CancelUnknown, CancelRead, CancelWrite,
      Start, Stop, Exit, Sleep, Wake, PollEmpty, Claim, Capture,
      Select, Execute, ExecutorThrew, ReportThrew, Finish, EndTick

\* Handlers and idle loops leave every tick where it was.
LEMMA TicksTellQuiet ==
  ASSUME RunInv, TypeOK', TicksTell, BackendKept, [Next]_vars,
         UNCHANGED <<held, todo, outcome>>,
         \A l \in Loops : pc'[l] = pc[l] \/ pc[l] \notin Busy,
         SameTold
  PROVE  TicksTell'
<1> SUFFICES ASSUME NEW m \in Loops, held'[m] \in Runs PROVE Telling(m)'
  BY DEF TicksTell
<1>1. PICK r \in Runs : held[m] = r /\ held'[m] = r /\ Telling(m)
  BY DEF TicksTell
<1>2. pc'[m] = pc[m]
  BY <1>1 DEF RunInv, HoldsRun
<1> QED
  BY <1>1, <1>2, Bystander DEF SameTold

\* A tick that records a of its run.
LEMMA RecordingTells ==
  ASSUME RunInv, TypeOK', [Next]_vars, NEW l \in Loops, NEW a \in Actions, pc[l] \in Busy,
         RecordAs(l, a), UNCHANGED <<runs, held>>
  PROVE  \E r \in Runs :
           /\ held[l] = r /\ held'[l] = r /\ Tells(l, a)
           /\ Said(r)' = Append(Said(r), a) /\ Said(r) \in Seq(Actions)
           /\ Said(held[l]) = Said(r) /\ Said(held[l])' = Said(r)'
           /\ runs'[r] = runs[r]
<1>1. TypeOK /\ HoldsRun
  BY DEF RunInv
<1>2. PICK r \in Runs : held[l] = r /\ held'[l] = r
  BY <1>1, HeldRun
<1>3. Tells(l, a)
  BY <1>1, WorkerTells
<1>4. Said(r) \in Seq(Actions)
  BY <1>1, ToldType
<1>5. Said(r)' = Append(Said(r), a)
  BY <1>2, <1>3 DEF Tells
<1> QED
  BY <1>2, <1>3, <1>4, <1>5

\* A tick that records nothing of its run.
LEMMA HoldingSilent ==
  ASSUME RunInv, TypeOK', [Next]_vars, BackendKept, NEW l \in Loops, pc[l] \in Busy,
         UNCHANGED <<trail, held>>
  PROVE  \E r \in Runs :
           /\ held[l] = r /\ held'[l] = r /\ SameTold
           /\ Said(r)' = Said(r) /\ Said(r) \in Seq(Actions)
           /\ Said(held[l]) = Said(r) /\ Said(held[l])' = Said(r)'
           /\ runs'[r].backend = runs[r].backend
<1>1. TypeOK /\ HoldsRun /\ Granted
  BY DEF RunInv
<1>2. PICK r \in Runs : held[l] = r /\ held'[l] = r
  BY <1>1, HeldRun
<1>3. SameTold
  BY SilentStep
<1>4. Said(r) \in Seq(Actions) /\ Said(r)' = Said(r)
  BY <1>1, <1>3, ToldType DEF SameTold
<1>5. runs'[r].backend = runs[r].backend
  BY <1>1, <1>2, BackendStays DEF Granted
<1> QED
  BY <1>2, <1>3, <1>4, <1>5

\* The claim of a run, recorded or not yet.
LEMMA ClaimTells ==
  ASSUME RunInv, TypeOK', TicksTell, Silent, BackendKept, [Next]_vars, NEW l \in Loops,
         (\E r \in Runs : Claim(l, r)) \/ RecordClaim(l)
  PROVE  TicksTell'
<1>1. TypeOK /\ HoldsRun /\ pc \in [Loops -> Busy \union {"idle", "loop", "rest", "asleep"}]
      /\ held \in [Loops -> Runs \union {Nobody}]
  BY DEF RunInv, TypeOK
<1>2. ASSUME NEW r \in Runs, Claim(l, r) PROVE TicksTell'
  <2>1. SameTold
    BY <1>2, SilentStep DEF Claim
  <2>2. Said(r)' = <<>>
    BY <1>2, <2>1 DEF Claim, FirstQueued, Queued, Silent, SameTold
  <2>3. held'[l] = r /\ pc'[l] = "claimed"
    BY <1>1, <1>2 DEF Claim, Go
  <2>4. Said(held[l])' = Said(r)'
    BY <2>3
  <2>5. Telling(l)'
    BY <2>2, <2>3, <2>4 DEF Telling
  <2> QED
    BY <1>1, <1>2, <2>1, <2>5, OneTickSteps DEF Claim, Go
<1>3. CASE RecordClaim(l)
  <2>1. PICK r \in Runs :
          /\ held[l] = r /\ held'[l] = r /\ Tells(l, "run.claimed")
          /\ Said(r)' = Append(Said(r), "run.claimed")
          /\ Said(held[l]) = Said(r) /\ Said(held[l])' = Said(r)'
    BY <1>3, RecordingTells DEF RecordClaim, Busy, Actions
  <2>2. Said(r) = <<>>
    BY <1>3, <2>1 DEF RecordClaim, TicksTell, Telling
  <2>3. Said(r)' = <<"run.claimed">>
    BY <2>1, <2>2
  <2>4. pc'[l] = "capture"
    BY <1>1, <1>3 DEF RecordClaim, Go
  <2>5. Telling(l)'
    BY <2>1, <2>3, <2>4 DEF Telling
  <2> QED
    BY <1>1, <1>3, <2>1, <2>5, OneTickSteps DEF RecordClaim, Go
<1> QED
  BY <1>2, <1>3

\* The host described itself, or could not.
LEMMA CaptureTells ==
  ASSUME RunInv, TypeOK', TicksTell, BackendKept, [Next]_vars, NEW l \in Loops,
         Capture(l) \/ RecordNode(l)
  PROVE  TicksTell'
<1>1. TypeOK /\ HoldsRun /\ pc \in [Loops -> Busy \union {"idle", "loop", "rest", "asleep"}]
  BY DEF RunInv, TypeOK
<1>2. CASE Capture(l)
  <2>1. PICK r \in Runs :
          /\ held[l] = r /\ held'[l] = r /\ SameTold /\ Said(r)' = Said(r)
          /\ Said(held[l]) = Said(r) /\ Said(held[l])' = Said(r)'
    BY <1>2, HoldingSilent DEF Capture, Busy
  <2>2. Said(r) = <<"run.claimed">>
    BY <1>2, <2>1 DEF Capture, TicksTell, Telling
  <2>3. pc'[l] \in {"captured", "select"}
    BY <1>1, <1>2 DEF Capture, Go
  <2>4. Said(held[l])' = <<"run.claimed">>
    BY <2>1, <2>2
  <2>5. Telling(l)'
    BY <2>3, <2>4 DEF Telling, Openings
  <2> QED
    BY <1>1, <1>2, <2>1, <2>5, OneTickSteps DEF Capture, Go
<1>3. CASE RecordNode(l)
  <2>1. PICK r \in Runs :
          /\ held[l] = r /\ held'[l] = r /\ Tells(l, "compute.node.selected")
          /\ Said(r)' = Append(Said(r), "compute.node.selected")
          /\ Said(held[l]) = Said(r) /\ Said(held[l])' = Said(r)'
    BY <1>3, RecordingTells DEF RecordNode, Busy, Actions
  <2>2. Said(r) = <<"run.claimed">>
    BY <1>3, <2>1 DEF RecordNode, TicksTell, Telling
  <2>3. Said(r)' = <<"run.claimed", "compute.node.selected">>
    BY <2>1, <2>2, SayTwo
  <2>4. pc'[l] = "select" /\ Said(held[l])' \in Openings
    BY <1>1, <1>3, <2>1, <2>3 DEF RecordNode, Go, Openings
  <2>5. Telling(l)'
    BY <2>4 DEF Telling
  <2> QED
    BY <1>1, <1>3, <2>1, <2>5, OneTickSteps DEF RecordNode, Go
<1> QED
  BY <1>2, <1>3

\* The executor is chosen, and answers: the rest of the story is fixed.
LEMMA ExecutionTells ==
  ASSUME RunInv, TypeOK', TicksTell, BackendKept, [Next]_vars, NEW l \in Loops,
         SelectBlocked(l) \/ Select(l) \/ Execute(l) \/ ExecutorThrew(l)
  PROVE  TicksTell'
<1>1. /\ TypeOK /\ HoldsRun /\ pc \in [Loops -> Busy \union {"idle", "loop", "rest", "asleep"}]
      /\ todo \in [Loops -> Seq(ExecutionEvents)]
      /\ outcome \in [Loops -> {"none", "completed", "failed"}]
  BY DEF RunInv, TypeOK
<1>2. CASE SelectBlocked(l)
  <2>1. PICK r \in Runs :
          /\ held[l] = r /\ held'[l] = r /\ Tells(l, "execution.unavailable")
          /\ Said(r)' = Append(Said(r), "execution.unavailable")
          /\ Said(held[l]) = Said(r) /\ Said(held[l])' = Said(r)'
          /\ runs'[r] = runs[r]
    BY <1>2, RecordingTells DEF SelectBlocked, Conclude, Busy, Actions
  <2>2. PICK o \in Openings : Said(r) = o
    BY <1>2, <2>1 DEF SelectBlocked, TicksTell, Telling
  <2>3. /\ pc'[l] = "report" /\ todo'[l] = <<>> /\ outcome'[l] = "failed"
        /\ Blocked(runs[r].backend)
    BY <1>1, <1>2, <2>1 DEF SelectBlocked, Conclude, Go
  <2>4. o \o <<"execution.unavailable", "run.failed">> \in Stories(runs[r].backend)
    BY <2>3, StoriesType DEF Bodies
  <2>5. Append(o, "execution.unavailable") \o (<<>> \o <<"run.failed">>)
          = o \o <<"execution.unavailable", "run.failed">>
    BY DEF Openings
  <2>6. Said(held[l])' \o (todo'[l] \o <<Verdict(outcome'[l])>>) \in Stories(runs'[r].backend)
    BY <2>1, <2>2, <2>3, <2>4, <2>5 DEF Verdict
  <2>7. Telling(l)'
    BY <2>1, <2>3, <2>6 DEF Telling
  <2> QED
    BY <1>1, <1>2, <2>1, <2>7, OneTickSteps DEF SelectBlocked, Conclude, Go
<1>3. ASSUME Select(l) \/ Execute(l) \/ ExecutorThrew(l)
      PROVE  \E r \in Runs :
               /\ held[l] = r /\ held'[l] = r /\ SameTold /\ Said(held[l])' = Said(r)
               /\ Said(r) \in Openings /\ Said(r) \in Seq(Actions)
               /\ runs'[r].backend = runs[r].backend /\ ~Blocked(runs[r].backend)
  <2>1. PICK r \in Runs :
          /\ held[l] = r /\ held'[l] = r /\ SameTold
          /\ Said(r)' = Said(r) /\ Said(r) \in Seq(Actions)
          /\ Said(held[l]) = Said(r) /\ Said(held[l])' = Said(r)'
          /\ runs'[r].backend = runs[r].backend
    BY <1>3, HoldingSilent DEF Select, Execute, ExecutorThrew, Busy
  <2>2. Said(r) \in Openings /\ ~Blocked(runs[r].backend)
    BY <1>3, <2>1 DEF Select, Execute, ExecutorThrew, TicksTell, Telling
  <2> QED
    BY <2>1, <2>2
<1>4. CASE Select(l)
  <2>1. PICK r \in Runs :
          /\ held[l] = r /\ held'[l] = r /\ SameTold /\ Said(held[l])' = Said(r)
          /\ Said(r) \in Openings
          /\ runs'[r].backend = runs[r].backend /\ ~Blocked(runs[r].backend)
    BY <1>3, <1>4
  <2>2. pc'[l] = "executing"
    BY <1>1, <1>4 DEF Select, Go
  <2>3. Telling(l)'
    BY <2>1, <2>2 DEF Telling
  <2> QED
    BY <1>1, <1>4, <2>1, <2>3, OneTickSteps DEF Select, Go
<1>5. CASE Execute(l) \/ ExecutorThrew(l)
  <2>1. PICK r \in Runs :
          /\ held[l] = r /\ held'[l] = r /\ SameTold /\ Said(held[l])' = Said(r)
          /\ Said(r) \in Openings
          /\ runs'[r].backend = runs[r].backend /\ ~Blocked(runs[r].backend)
    BY <1>3, <1>5
  <2>2. pc'[l] = "report"
    BY <1>1, <1>5 DEF Execute, ExecutorThrew, Conclude, Go
  <2>3. todo'[l] \o <<Verdict(outcome'[l])>> \in Bodies(runs[r].backend)
    <3>1. CASE Execute(l)
      <4>1. PICK result \in Results(runs[r].backend) :
              todo'[l] = result.events /\ outcome'[l] = result.outcome
        BY <1>1, <2>1, <3>1 DEF Execute, Conclude
      <4> QED
        BY <2>1, <4>1 DEF Bodies
    <3>2. CASE ExecutorThrew(l)
      <4>1. todo'[l] = <<>> /\ Verdict(outcome'[l]) = "run.failed"
        BY <1>1, <3>2 DEF ExecutorThrew, Conclude, Verdict
      <4>2. <<>> \o <<"run.failed">> = <<"run.failed">>
        OBVIOUS
      <4> QED
        BY <2>1, <4>1, <4>2 DEF Bodies
    <3> QED
      BY <1>5, <3>1, <3>2
  <2>4. Said(held[l])' \o (todo'[l] \o <<Verdict(outcome'[l])>>) \in Stories(runs'[r].backend)
    BY <2>1, <2>3, StoriesType
  <2>5. Telling(l)'
    BY <2>1, <2>2, <2>4 DEF Telling
  <2> QED
    BY <1>1, <1>5, <2>1, <2>5, OneTickSteps DEF Execute, ExecutorThrew, Conclude, Go
<1> QED
  BY <1>2, <1>4, <1>5

\* The tick reports what its executor said, and the verdict; then it returns.
LEMMA ReportTells ==
  ASSUME RunInv, TypeOK', TicksTell, BackendKept, [Next]_vars, NEW l \in Loops,
         Report(l) \/ ReportThrew(l) \/ RecordVerdict(l) \/ Finish(l) \/ EndTick(l)
  PROVE  TicksTell'
<1>1. /\ TypeOK /\ HoldsRun /\ pc \in [Loops -> Busy \union {"idle", "loop", "rest", "asleep"}]
      /\ held \in [Loops -> Runs \union {Nobody}]
      /\ todo \in [Loops -> Seq(ExecutionEvents)]
      /\ outcome \in [Loops -> {"none", "completed", "failed"}]
      /\ ExecutionEvents \subseteq Actions
      /\ \A o : Verdict(o) \in Actions /\ <<Verdict(o)>> \in Seq(Actions)
  BY DEF RunInv, TypeOK, Actions, Verdict
<1>2. CASE Report(l)
  <2>1. PICK q \in Seq(ExecutionEvents) : q = todo[l]
    BY <1>1
  <2>2. /\ q # <<>> /\ q \in Seq(Actions) /\ Head(q) \in Actions
        /\ RecordAs(l, Head(q)) /\ todo'[l] = Tail(q)
        /\ pc[l] = "report" /\ pc'[l] = "report" /\ outcome'[l] = outcome[l]
    <3>1. q # <<>> /\ RecordAs(l, Head(q)) /\ todo'[l] = Tail(q)
      BY <1>1, <1>2, <2>1 DEF Report
    <3>2. q \in Seq(Actions)
      BY <1>1, SeqMonotonic
    <3>3. Head(q) \in Actions
      BY <3>1, <3>2, HeadTailProperties
    <3> QED
      BY <1>2, <3>1, <3>2, <3>3 DEF Report
  <2>3. PICK r \in Runs :
          /\ held[l] = r /\ held'[l] = r /\ Tells(l, Head(q))
          /\ Said(r)' = Append(Said(r), Head(q)) /\ Said(r) \in Seq(Actions)
          /\ Said(held[l]) = Said(r) /\ Said(held[l])' = Said(r)'
          /\ runs'[r] = runs[r]
    BY <1>2, <2>2, RecordingTells DEF Report, Busy
  <2>4. PICK v : v = <<Verdict(outcome[l])>> /\ v \in Seq(Actions)
    BY <1>1
  <2>5. Said(r) \o (q \o v) \in Stories(runs[r].backend)
    BY <2>1, <2>2, <2>3, <2>4 DEF TicksTell, Telling
  <2>6. Append(Said(r), Head(q)) \o (Tail(q) \o v) = Said(r) \o (q \o v)
    BY <2>2, <2>3, <2>4, SayNext
  <2>7. Said(held[l])' \o (todo'[l] \o <<Verdict(outcome'[l])>>) \in Stories(runs'[r].backend)
    BY <2>2, <2>3, <2>4, <2>5, <2>6
  <2>8. Telling(l)'
    BY <2>2, <2>3, <2>7 DEF Telling
  <2> QED
    BY <1>1, <1>2, <2>3, <2>8, OneTickSteps DEF Report
<1>3. CASE ReportThrew(l) \/ EndTick(l)
  <2>1. SameTold
    BY <1>3, SilentStep DEF ReportThrew, EndTick
  <2>2. held'[l] \notin Runs
    BY <1>1, <1>3, NamesAssumption DEF ReportThrew, EndTick, Forget
  <2> QED
    BY <1>1, <1>3, <2>1, <2>2, OneTickSteps DEF ReportThrew, EndTick, Forget, Go
<1>4. CASE RecordVerdict(l)
  <2>1. PICK a \in Actions : a = Verdict(outcome[l])
    BY <1>1
  <2>2. RecordAs(l, a) /\ pc[l] = "report" /\ todo[l] = <<>> /\ pc'[l] = "finish"
    BY <1>1, <1>4, <2>1 DEF RecordVerdict, Verdict, Go
  <2>3. PICK r \in Runs :
          /\ held[l] = r /\ held'[l] = r /\ Tells(l, a)
          /\ Said(r)' = Append(Said(r), a) /\ Said(r) \in Seq(Actions)
          /\ Said(held[l]) = Said(r) /\ Said(held[l])' = Said(r)'
          /\ runs'[r] = runs[r]
    BY <1>4, <2>2, RecordingTells DEF RecordVerdict, Busy
  <2>4. Said(r) \o (<<>> \o <<a>>) \in Stories(runs[r].backend)
    BY <2>1, <2>2, <2>3 DEF TicksTell, Telling
  <2>5. Said(r) \o (<<>> \o <<a>>) = Append(Said(r), a)
    BY <2>3, SayLast
  <2>6. Telling(l)'
    BY <2>2, <2>3, <2>4, <2>5 DEF Telling
  <2> QED
    BY <1>1, <1>4, <2>3, <2>6, OneTickSteps DEF RecordVerdict, Go
<1>5. CASE Finish(l)
  <2>1. PICK r \in Runs :
          /\ held[l] = r /\ held'[l] = r /\ SameTold
          /\ Said(r)' = Said(r)
          /\ Said(held[l]) = Said(r) /\ Said(held[l])' = Said(r)'
          /\ runs'[r].backend = runs[r].backend
    BY <1>5, HoldingSilent DEF Finish, Busy
  <2>2. Said(r) \in Stories(runs[r].backend)
    BY <1>5, <2>1 DEF Finish, TicksTell, Telling
  <2>3. pc'[l] = "count"
    BY <1>1, <1>5 DEF Finish, Go
  <2>4. Telling(l)'
    BY <2>1, <2>2, <2>3 DEF Telling
  <2> QED
    BY <1>1, <1>5, <2>1, <2>4, OneTickSteps DEF Finish, Go
<1> QED
  BY <1>2, <1>3, <1>4, <1>5

\* Every step leaves every tick telling its story.
LEMMA TicksTellStep ==
  ASSUME RunInv, TypeOK', TicksTell, Silent, BackendKept, [Next]_vars
  PROVE  TicksTell'
<1>1. /\ TypeOK /\ TimerAsleep /\ CancelAgrees
      /\ pc \in [Loops -> Busy \union {"idle", "loop", "rest", "asleep"}]
      /\ timer \in [Workers -> Loops \union {Nobody}]
      /\ Runs \subseteq Subjects /\ TaskSet \in Subjects
      /\ \A r \in Runs : runs[r].tenant \in Tenants \union {Nobody}
      /\ caller \in [CancelCalls -> Tenants \union {Nobody}]
  BY DEF RunInv, TypeOK, Subjects, RunRecord
<1>2. ASSUME NEW r \in Runs, SubmitStep(r) PROVE TicksTell'
  <2>1. SameTold
    <3>1. ASSUME NEW t \in Tenants, DenySplit(r, t) PROVE SameTold
      BY <1>1, <3>1, ClientTells DEF DenySplit, Actions
    <3>2. CASE Accept(r)
      BY <1>1, <3>2, ClientTells DEF Accept, Actions
    <3>3. CASE UNCHANGED trail
      BY <3>3, SilentStep
    <3> QED
      BY <1>2, <3>1, <3>2, <3>3 DEF SubmitStep, Refuse, Create
  <2> QED
    BY <1>2, <2>1, TicksTellQuiet
    DEF SubmitStep, Refuse, DenySplit, Create, Accept, loopVars
<1>3. ASSUME NEW c \in CancelCalls, CancelStep(c) PROVE TicksTell'
  <2>1. SameTold
    <3>1. CASE CancelRecord(c)
      BY <1>1, <3>1, ClientTells DEF CancelRecord, CancelAgrees, Actions
    <3>2. CASE UNCHANGED trail
      BY <3>2, SilentStep
    <3> QED
      BY <1>3, <3>1, <3>2 DEF CancelStep, CancelUnknown, CancelRead, CancelWrite
  <2> QED
    BY <1>3, <2>1, TicksTellQuiet
    DEF CancelStep, CancelUnknown, CancelRead, CancelWrite, CancelRecord, loopVars
<1>4. ASSUME NEW l \in Loops, Start(l) \/ PollEmpty(l) \/ Sleep(l) \/ Wake(l) \/ Exit(l)
      PROVE  TicksTell'
  <2>1. SameTold
    BY <1>4, SilentStep DEF Start, PollEmpty, Sleep, Wake, Exit
  <2>2. \A m \in Loops : pc'[m] = pc[m] \/ pc[m] \notin Busy
    BY <1>1, <1>4 DEF Start, PollEmpty, Sleep, Wake, Exit, Go, Busy
  <2> QED
    BY <1>4, <2>1, <2>2, TicksTellQuiet DEF Start, PollEmpty, Sleep, Wake, Exit
<1>5. ASSUME NEW w \in Workers, Stop(w) PROVE TicksTell'
  <2>1. SameTold
    BY <1>5, SilentStep DEF Stop
  <2>2. \A m \in Loops : pc'[m] = pc[m] \/ pc[m] \notin Busy
    BY <1>1, <1>5 DEF Stop, TimerAsleep, Busy
  <2> QED
    BY <1>5, <2>1, <2>2, TicksTellQuiet DEF Stop
<1>6. CASE UNCHANGED vars
  <2>1. SameTold
    BY <1>6, SilentStep DEF vars
  <2> QED
    BY <1>6, <2>1, TicksTellQuiet DEF vars, loopVars
<1> QED
  BY <1>2, <1>3, <1>4, <1>5, <1>6, ClaimTells, CaptureTells, ExecutionTells, ReportTells
  DEF Next, LoopStep, TickStep

-----------------------------------------------------------------------------
(* The other conjuncts *)

\* A verdict becomes a status only in the step that takes the run's tick to its end.
LEMMA Concludes ==
  ASSUME RunInv, [Next]_vars, NEW r \in Runs, runs'[r].status \in {"completed", "failed"}
  PROVE  \/ runs'[r].status = runs[r].status
         \/ \E l \in Loops :
              /\ held[l] = r /\ held' = held /\ pc[l] = "finish" /\ pc'[l] = "count"
              /\ UNCHANGED trail
<1>1. /\ runs \in [Runs -> RunRecord] /\ copy \in [CancelCalls -> RunRecord]
      /\ pc \in [Loops -> Busy \union {"idle", "loop", "rest", "asleep"}]
  BY DEF RunInv, TypeOK
<1>2. ASSUME NEW q \in Runs, NEW t \in Tenants, NEW b \in Backends, Create(q, t, b)
      PROVE  runs'[r].status = runs[r].status
  BY <1>1, <1>2 DEF Create, NoRun
<1>3. ASSUME NEW c \in CancelCalls, CancelWrite(c) PROVE runs'[r].status = runs[r].status
  BY <1>1, <1>3 DEF CancelWrite, RunRecord
<1>4. ASSUME NEW l \in Loops, NEW q \in Runs, Claim(l, q)
      PROVE  runs'[r].status = runs[r].status
  BY <1>1, <1>4 DEF Claim, RunRecord
<1>5. ASSUME NEW l \in Loops, Capture(l) PROVE runs'[r].status = runs[r].status
  BY <1>1, <1>5 DEF Capture, RunRecord
<1>6. ASSUME NEW l \in Loops, Finish(l)
      PROVE  \/ runs'[r].status = runs[r].status
             \/ /\ held[l] = r /\ held' = held /\ pc[l] = "finish" /\ pc'[l] = "count"
                /\ UNCHANGED trail
  BY <1>1, <1>6 DEF Finish, Go
<1>7. CASE UNCHANGED runs
  BY <1>7
<1> QED
  BY <1>2, <1>3, <1>4, <1>5, <1>6, <1>7
  DEF Next, SubmitStep, CancelStep, LoopStep, TickStep, vars,
      Refuse, DenySplit, Accept, CancelUnknown, CancelRead, CancelRecord,
      Start, Stop, Exit, Sleep, Wake, PollEmpty, RecordClaim, RecordNode,
      SelectBlocked, Select, Execute, ExecutorThrew, Report, ReportThrew,
      RecordVerdict, EndTick

\* A tick that has finished leaves only by returning.
LEMMA CountStays ==
  ASSUME RunInv, [Next]_vars, NEW l \in Loops, pc[l] = "count", held'[l] \in Runs
  PROVE  pc'[l] = "count"
<1>1. /\ pc \in [Loops -> Busy \union {"idle", "loop", "rest", "asleep"}]
      /\ held \in [Loops -> Runs \union {Nobody}]
      /\ TimerAsleep /\ timer \in [Workers -> Loops \union {Nobody}]
      /\ Nobody \notin Runs
  BY NamesAssumption DEF RunInv, TypeOK
<1>2. ASSUME NEW k \in Loops, EndTick(k) PROVE pc'[l] = "count"
  BY <1>1, <1>2 DEF EndTick, Go, Forget
<1>3. ASSUME NEW k \in Loops, Start(k) \/ PollEmpty(k) \/ Sleep(k) \/ Wake(k) \/ Exit(k)
      PROVE  pc'[l] = "count"
  BY <1>1, <1>3 DEF Start, PollEmpty, Sleep, Wake, Exit, Go
<1>4. ASSUME NEW k \in Loops,
             \/ (\E r \in Runs : Claim(k, r)) \/ RecordClaim(k) \/ Capture(k) \/ RecordNode(k)
             \/ SelectBlocked(k) \/ Select(k) \/ Execute(k) \/ ExecutorThrew(k)
             \/ Report(k) \/ ReportThrew(k) \/ RecordVerdict(k) \/ Finish(k)
      PROVE  pc'[l] = "count"
  BY <1>1, <1>4 DEF Claim, RecordClaim, Capture, RecordNode, SelectBlocked, Select, Execute,
                    ExecutorThrew, Report, ReportThrew, RecordVerdict, Finish, Conclude, Go
<1>5. ASSUME NEW w \in Workers, Stop(w) PROVE pc'[l] = "count"
  BY <1>1, <1>5 DEF Stop, TimerAsleep
<1>6. CASE UNCHANGED pc
  BY <1>6
<1> QED
  BY <1>2, <1>3, <1>4, <1>5, <1>6
  DEF Next, SubmitStep, CancelStep, LoopStep, TickStep, vars, loopVars,
      Refuse, DenySplit, Create, Accept, CancelUnknown, CancelRead, CancelWrite, CancelRecord

\* Silence is kept: of a run in the queue, and after its verdict.
LEMMA SilentKept ==
  ASSUME RunInv, TypeOK', Silent, [Next]_vars
  PROVE  Silent'
<1>1. TypeOK /\ HoldsRun /\ Granted /\ ExecutedOnce /\ Nobody \notin Runs
  BY NamesAssumption DEF RunInv
<1>2. ASSUME NEW r \in Runs, runs'[r].status \in {"absent", "queued"} PROVE Said(r)' = <<>>
  <2>1. runs[r].status \in {"absent", "queued"} /\ Said(r) = <<>>
    BY <1>2, StoreStep DEF Silent
  <2>2. CASE SameTold
    BY <2>1, <2>2 DEF SameTold
  <2>3. ASSUME NEW l \in Loops, NEW a \in Actions, Tells(l, a), held[l] \in Runs
        PROVE  Said(r)' = <<>>
    <3>1. held[l] # r
      BY <1>1, <2>1, <2>3 DEF Granted
    <3> QED
      BY <2>1, <2>3, <3>1 DEF Tells
  <2> QED
    BY <2>2, <2>3, TellStep
<1>3. ASSUME NEW l \in Loops, held'[l] \in Runs,
             runs'[held'[l]].status \in {"completed", "failed"}
      PROVE  pc'[l] = "count"
  <2>1. held'[l] = held[l]
    <3>1. CASE \A m \in Loops : held'[m] \in {held[m], Nobody}
      BY <1>1, <1>3, <3>1
    <3>2. ASSUME NEW m \in Loops, NEW r \in Runs, runs'[r].status = "running",
                 held' = [held EXCEPT ![m] = r]
          PROVE  held'[l] = held[l]
      BY <1>1, <1>3, <3>2 DEF TypeOK
    <3> QED
      BY <3>1, <3>2, TickStepHolds
  <2>2. PICK r \in Runs : held[l] = r
    BY <1>3, <2>1
  <2>3. CASE runs'[r].status = runs[r].status
    <3>1. pc[l] = "count"
      BY <1>3, <2>1, <2>2, <2>3 DEF Silent
    <3> QED
      BY <1>3, <3>1, CountStays
  <2>4. ASSUME NEW k \in Loops, held[k] = r, pc'[k] = "count"
        PROVE  pc'[l] = "count"
    BY <1>1, <2>2, <2>4 DEF ExecutedOnce
  <2> QED
    BY <1>3, <2>1, <2>2, <2>3, <2>4, Concludes
<1> QED
  BY <1>2, <1>3 DEF Silent

\* What w told is still told by w when w tells more.
LEMMA ToldBy ==
  ASSUME NEW told \in Seq(EntryRecord), NEW w, \A i \in DOMAIN told : told[i].actor = w,
         NEW a, NEW t, Entry(a, w, t) \in EntryRecord,
         NEW more, more = Append(told, Entry(a, w, t))
  PROVE  \A i \in DOMAIN more : more[i].actor = w
<1>1. /\ DOMAIN told = 1..Len(told) /\ DOMAIN more = 1..(Len(told) + 1)
      /\ \A i \in 1..Len(told) : more[i] = told[i]
      /\ more[Len(told) + 1] = Entry(a, w, t)
  BY AppendProperties
<1>2. \A i \in DOMAIN more : i \in DOMAIN told \/ i = Len(told) + 1
  BY <1>1
<1> QED
  BY <1>1, <1>2 DEF Entry

\* Whoever tells of a run goes on being the only one.
LEMMA TellerHoldsKept ==
  ASSUME RunInv, TypeOK', Silent, TellerHolds, OneTeller, [Next]_vars
  PROVE  TellerHolds' /\ OneTeller'
<1>1. /\ TypeOK /\ HoldsRun /\ Granted /\ ExecutedOnce /\ Nobody \notin Runs
      /\ held \in [Loops -> Runs \union {Nobody}]
      /\ \A l \in Loops : Worker(l) \in Workers
  BY NamesAssumption DEF RunInv, TypeOK, Loops, Worker
<1> DEFINE By(told, w) == \A i \in DOMAIN told : told[i].actor = w
<1>2. ASSUME NEW r \in Runs, NEW w, By(WorkerEntries(r), w),
             \A k \in Loops, a \in Actions : Tells(k, a) /\ held[k] = r => Worker(k) = w
      PROVE  By(WorkerEntries(r)', w)
  <2>1. CASE SameTold
    BY <1>2, <2>1 DEF SameTold
  <2>2. ASSUME NEW k \in Loops, NEW a \in Actions, Tells(k, a)
        PROVE  By(WorkerEntries(r)', w)
    <3>1. CASE held[k] = r
      <4>1. PICK t \in Tenants \union {Nobody} :
              WorkerEntries(r)' = Append(WorkerEntries(r), Entry(a, w, t))
        BY <1>2, <2>2, <3>1 DEF Tells
      <4>2. WorkerEntries(r) \in Seq(EntryRecord)
        BY <1>1, ToldType
      <4>3. Entry(a, w, t) \in EntryRecord
        BY <1>1, <1>2, <2>2, <3>1 DEF Entry, EntryRecord
      <4> QED
        BY <1>2, <4>1, <4>2, <4>3, ToldBy
    <3>2. CASE held[k] # r
      BY <1>2, <2>2, <3>2 DEF Tells
    <3> QED
      BY <3>1, <3>2
  <2> QED
    BY <2>1, <2>2, TellStep
<1> HIDE DEF By
<1>3. ASSUME NEW l \in Loops, held'[l] \in Runs
      PROVE  By(WorkerEntries(held[l])', Worker(l))
  <2>1. PICK r \in Runs : r = held'[l]
    BY <1>3
  <2>2. CASE held[l] = r
    <3>1. By(WorkerEntries(r), Worker(l))
      BY <2>2 DEF TellerHolds, By
    <3>2. \A k \in Loops : held[k] = r => k = l
      BY <1>1, <2>2 DEF ExecutedOnce
    <3>3. By(WorkerEntries(r)', Worker(l))
      BY <1>2, <3>1, <3>2
    <3> QED
      BY <2>1, <3>3
  <2>3. CASE held[l] # r
    <3>1. runs[r].status = "queued" /\ UNCHANGED trail
      BY <1>1, <2>1, <2>3, TickStepHolds
    <3>2. Said(r) = <<>> /\ WorkerEntries(r)' = WorkerEntries(r)
      BY <3>1, SilentStep DEF Silent, SameTold
    <3>3. DOMAIN WorkerEntries(r) = {}
      <4>1. WorkerEntries(r) \in Seq(EntryRecord) /\ Len(WorkerEntries(r)) = 0
        BY <1>1, <3>2, ToldType
      <4> QED
        BY <4>1
    <3>4. By(WorkerEntries(r)', Worker(l))
      BY <3>2, <3>3 DEF By
    <3> QED
      BY <2>1, <3>4
  <2> QED
    BY <2>2, <2>3
<1>4. ASSUME NEW r \in Runs
      PROVE  \E w : By(WorkerEntries(r)', w)
  <2>1. CASE \E l \in Loops : held[l] = r
    <3>1. PICK l \in Loops : held[l] = r
      BY <2>1
    <3>2. By(WorkerEntries(r), Worker(l))
      BY <3>1 DEF TellerHolds, By
    <3>3. \A k \in Loops : held[k] = r => k = l
      BY <1>1, <3>1 DEF ExecutedOnce
    <3> QED
      BY <1>2, <3>2, <3>3
  <2>2. CASE \A l \in Loops : held[l] # r
    <3>1. By(WorkerEntries(r), WorkerEntries(r)[1].actor)
      BY DEF OneTeller, By
    <3> QED
      BY <1>2, <2>2, <3>1
  <2> QED
    BY <2>1, <2>2
<1>5. TellerHolds'
  BY <1>3 DEF TellerHolds, By
<1>6. OneTeller'
  <2> SUFFICES ASSUME NEW r \in Runs, NEW i \in DOMAIN WorkerEntries(r)'
               PROVE  WorkerEntries(r)'[i].actor = WorkerEntries(r)'[1].actor
    BY DEF OneTeller
  <2>1. PICK w : By(WorkerEntries(r)', w)
    BY <1>4
  <2>2. 1 \in DOMAIN WorkerEntries(r)'
    <3>1. PICK more : more = WorkerEntries(r)'
      OBVIOUS
    <3>2. \E n \in Nat : DOMAIN more = 1..n
      <4>1. trail'[r] \in Seq(EntryRecord)
        BY DEF TypeOK, Subjects
      <4>2. more \in Seq(EntryRecord)
        BY <3>1, <4>1, ChosenPlaces DEF WorkerEntries
      <4> QED
        BY <4>2
    <3> QED
      BY <3>1, <3>2
  <2> QED
    BY <2>1, <2>2 DEF By
<1> QED
  BY <1>5, <1>6

\* What a cancel request holds is the record of its target, but for what it may have missed.
LEMMA CancelKept ==
  ASSUME RunInv, BackendKept, TargetUnset, [Next]_vars
  PROVE  /\ BackendKept' /\ TargetUnset'
         /\ \A r \in Runs : (\A c \in CancelCalls : target'[c] # r) =>
              \A c \in CancelCalls : target[c] # r
<1>1. /\ CancelAgrees /\ Nobody \notin Runs
      /\ cancel \in [CancelCalls -> {"idle", "read", "written", "done"}]
      /\ target \in [CancelCalls -> Runs \union {Nobody}]
      /\ copy \in [CancelCalls -> RunRecord]
  BY NamesAssumption DEF RunInv, TypeOK
<1>2. ASSUME NEW c \in CancelCalls
      PROVE  \/ UNCHANGED <<cancel[c], target[c], copy[c]>>
             \/ cancel'[c] \in {"written", "done"} /\ UNCHANGED target
             \/ \E r \in Runs :
                  /\ cancel[c] = "idle" /\ cancel'[c] = "read" /\ target'[c] = r
                  /\ copy'[c] = runs[r] /\ UNCHANGED runs
  <2>1. CASE UNCHANGED cancelVars
    BY <2>1 DEF cancelVars
  <2>2. ASSUME NEW d \in CancelCalls, NEW r \in Runs, NEW t \in Tenants,
               CancelUnknown(d, r, t) \/ CancelRead(d, r, t)
        PROVE  \/ UNCHANGED <<cancel[c], target[c], copy[c]>>
               \/ cancel'[c] \in {"written", "done"} /\ UNCHANGED target
               \/ /\ cancel[c] = "idle" /\ cancel'[c] = "read" /\ target'[c] = r
                  /\ copy'[c] = runs[r] /\ UNCHANGED runs
    BY <1>1, <2>2 DEF CancelUnknown, CancelRead
  <2>3. ASSUME NEW d \in CancelCalls, CancelWrite(d) \/ CancelRecord(d)
        PROVE  \/ UNCHANGED <<cancel[c], target[c], copy[c]>>
               \/ cancel'[c] \in {"written", "done"} /\ UNCHANGED target
    BY <1>1, <2>3 DEF CancelWrite, CancelRecord
  <2> QED
    BY <2>1, <2>2, <2>3
    DEF Next, SubmitStep, CancelStep, LoopStep, TickStep, vars, cancelVars,
        Refuse, DenySplit, Create, Accept, Start, Stop, Exit, Sleep, Wake, PollEmpty, Claim,
        RecordClaim, Capture, RecordNode, SelectBlocked, Select, Execute, ExecutorThrew,
        Report, ReportThrew, RecordVerdict, Finish, EndTick
<1>3. BackendKept'
  <2> SUFFICES ASSUME NEW c \in CancelCalls, cancel'[c] = "read"
               PROVE  copy'[c].backend = runs'[target'[c]].backend
    BY DEF BackendKept
  <2>1. CASE UNCHANGED <<cancel[c], target[c], copy[c]>>
    <3>1. target[c] \in Runs /\ runs[target[c]].status # "absent"
      BY <1>1, <2>1 DEF CancelAgrees
    <3>2. runs'[target[c]].backend = runs[target[c]].backend
      BY <3>1, BackendStays
    <3> QED
      BY <2>1, <3>2 DEF BackendKept
  <2> QED
    BY <1>2, <2>1
<1>4. TargetUnset'
  BY <1>1, <1>2 DEF TargetUnset
<1>5. ASSUME NEW r \in Runs, \A c \in CancelCalls : target'[c] # r, NEW c \in CancelCalls
      PROVE  target[c] # r
  BY <1>1, <1>2, <1>5 DEF TargetUnset
<1> QED
  BY <1>3, <1>4, <1>5

\* The environment, once recorded, is lost only to a cancel request that names the run.
LEMMA EnvStays ==
  ASSUME RunInv, [Next]_vars, NEW r \in Runs, runs[r].status # "absent",
         \A c \in CancelCalls : target[c] # r, runs[r].env
  PROVE  runs'[r].env
<1>1. /\ runs \in [Runs -> RunRecord] /\ SubmitAgrees
  BY DEF RunInv, TypeOK
<1>2. ASSUME NEW q \in Runs, NEW t \in Tenants, NEW b \in Backends, Create(q, t, b)
      PROVE  runs'[r].env
  BY <1>1, <1>2 DEF Create, SubmitAgrees
<1>3. ASSUME NEW c \in CancelCalls, CancelWrite(c) PROVE runs'[r].env
  BY <1>1, <1>3 DEF CancelWrite
<1>4. ASSUME NEW l \in Loops, NEW q \in Runs, Claim(l, q) PROVE runs'[r].env
  BY <1>1, <1>4 DEF Claim, RunRecord
<1>5. ASSUME NEW l \in Loops, Capture(l) PROVE runs'[r].env
  BY <1>1, <1>5 DEF Capture, RunRecord
<1>6. ASSUME NEW l \in Loops, Finish(l) PROVE runs'[r].env
  BY <1>1, <1>6 DEF Finish, RunRecord
<1>7. CASE UNCHANGED runs
  BY <1>7
<1> QED
  BY <1>2, <1>3, <1>4, <1>5, <1>6, <1>7
  DEF Next, SubmitStep, CancelStep, LoopStep, TickStep, vars,
      Refuse, DenySplit, Accept, CancelUnknown, CancelRead, CancelRecord,
      Start, Stop, Exit, Sleep, Wake, PollEmpty, RecordClaim, RecordNode,
      SelectBlocked, Select, Execute, ExecutorThrew, Report, ReportThrew,
      RecordVerdict, EndTick

\* The environment a tick captured is there until it names the node.
LEMMA CapturedKept ==
  ASSUME RunInv, BackendKept, TargetUnset, Captured, [Next]_vars
  PROVE  Captured'
<1>1. /\ runs \in [Runs -> RunRecord] /\ HoldsRun /\ Granted /\ TimerAsleep
      /\ pc \in [Loops -> Busy \union {"idle", "loop", "rest", "asleep"}]
      /\ held \in [Loops -> Runs \union {Nobody}]
  BY DEF RunInv, TypeOK
<1>2. SUFFICES ASSUME NEW l \in Loops, pc'[l] = "captured",
                      \A c \in CancelCalls : target'[c] # held'[l]
               PROVE  runs'[held'[l]].env
  BY DEF Captured
<1>3. CASE pc[l] = "captured" /\ held'[l] = held[l]
  <2>1. PICK r \in Runs : r = held[l] /\ runs[r].status # "absent"
    BY <1>1, <1>3 DEF HoldsRun, Granted, Busy
  <2>2. \A c \in CancelCalls : target[c] # r
    BY <1>2, <1>3, <2>1, CancelKept
  <2>3. runs[r].env
    BY <1>3, <2>1, <2>2 DEF Captured
  <2> QED
    BY <1>3, <2>1, <2>2, <2>3, EnvStays
<1>4. ASSUME NEW k \in Loops, Capture(k)
      PROVE  runs'[held'[l]].env \/ (pc[l] = "captured" /\ held'[l] = held[l])
  <2>1. CASE k = l
    <3>1. held[l] \in Runs
      BY <1>1, <1>4, <2>1 DEF HoldsRun, Capture, Busy
    <3> QED
      BY <1>1, <1>2, <1>4, <2>1, <3>1 DEF Capture, Go, RunRecord
  <2>2. CASE k # l
    BY <1>1, <1>2, <1>4, <2>2 DEF Capture, Go
  <2> QED
    BY <2>1, <2>2
<1>5. ASSUME NEW k \in Loops,
             \/ Start(k) \/ PollEmpty(k) \/ Sleep(k) \/ Wake(k) \/ Exit(k)
             \/ (\E r \in Runs : Claim(k, r)) \/ RecordClaim(k) \/ RecordNode(k)
             \/ SelectBlocked(k) \/ Select(k) \/ Execute(k) \/ ExecutorThrew(k)
             \/ ReportThrew(k) \/ RecordVerdict(k) \/ Finish(k) \/ EndTick(k)
      PROVE  pc[l] = "captured" /\ held'[l] = held[l]
  <2>1. /\ \A m \in Loops : m # k => held'[m] = held[m]
        /\ \E at \in {"idle", "loop", "rest", "asleep", "claimed", "capture", "select",
                       "executing", "report", "finish", "count"} : pc' = [pc EXCEPT ![k] = at]
    BY <1>1, <1>5
    DEF Start, PollEmpty, Sleep, Wake, Exit, Claim, RecordClaim, RecordNode, SelectBlocked,
        Select, Execute, ExecutorThrew, ReportThrew, RecordVerdict, Finish, EndTick,
        Conclude, Forget, Go
  <2> QED
    BY <1>1, <1>2, <2>1
<1>6. ASSUME NEW w \in Workers, Stop(w) PROVE pc[l] = "captured" /\ held'[l] = held[l]
  BY <1>1, <1>2, <1>6 DEF Stop
<1>7. CASE UNCHANGED <<pc, held>>
  BY <1>2, <1>3, <1>7
<1> QED
  BY <1>3, <1>4, <1>5, <1>6, <1>7
  DEF Next, SubmitStep, CancelStep, LoopStep, TickStep, vars, loopVars,
      Refuse, DenySplit, Create, Accept, CancelUnknown, CancelRead, CancelWrite,
      CancelRecord, Report

\* The node is recorded by the tick that captured the environment.
LEMMA NodeRecorded ==
  ASSUME RunInv, [Next]_vars, NEW r \in Runs, Has(r, "compute.node.selected")'
  PROVE  \/ Has(r, "compute.node.selected")
         \/ \E l \in Loops :
              pc[l] = "captured" /\ held[l] = r /\ UNCHANGED <<runs, target>>
<1> DEFINE node == "compute.node.selected"
           Goal == \/ Has(r, node)
                   \/ \E l \in Loops :
                        pc[l] = "captured" /\ held[l] = r /\ UNCHANGED <<runs, target>>
<1>1. /\ TypeOK /\ HoldsRun /\ CancelAgrees
      /\ Runs \subseteq Subjects /\ TaskSet \in Subjects
      /\ \A q \in Runs : runs[q].tenant \in Tenants \union {Nobody}
      /\ caller \in [CancelCalls -> Tenants \union {Nobody}]
      /\ todo \in [Loops -> Seq(ExecutionEvents)]
  BY DEF RunInv, TypeOK, Subjects, RunRecord
<1>2. ASSUME NEW s \in Subjects, NEW a \in Actions \ {node}, NEW x \in Workers \union {Client},
             NEW t \in Tenants \union {Nobody}, Record(s, a, x, t)
      PROVE  Goal
  <2>1. a \in Actions /\ a # node /\ r \in Subjects
    BY <1>1
  <2>2. \A b : Has(r, b)' <=> Has(r, b) \/ (r = s /\ b = a)
    BY <1>1, <1>2, <2>1, RecordHas
  <2> QED
    BY <2>1, <2>2
<1>3. ASSUME NEW q \in Runs, NEW t \in Tenants, DenySplit(q, t) PROVE Goal
  BY <1>1, <1>2, <1>3 DEF DenySplit, Actions
<1>4. ASSUME NEW q \in Runs, Accept(q) PROVE Goal
  BY <1>1, <1>2, <1>4 DEF Accept, Actions
<1>5. ASSUME NEW c \in CancelCalls, CancelRecord(c) PROVE Goal
  BY <1>1, <1>2, <1>5 DEF CancelRecord, CancelAgrees, Actions
<1>6. ASSUME NEW l \in Loops, NEW a \in Actions \ {node}, pc[l] \in Busy, RecordAs(l, a)
      PROVE  Goal
  BY <1>1, <1>2, <1>6, HeldRun DEF RecordAs
<1>7. ASSUME NEW l \in Loops, RecordNode(l) PROVE Goal
  <2>1. held[l] \in Runs /\ held[l] \in Subjects /\ Worker(l) \in Workers
        /\ runs[held[l]].tenant \in Tenants \union {Nobody}
    BY <1>1, <1>7, HeldRun DEF RecordNode, Busy
  <2>2. Record(held[l], node, Worker(l), runs[held[l]].tenant)
    BY <1>7 DEF RecordNode, RecordAs
  <2>3. Has(r, node) \/ r = held[l]
    BY <1>1, <2>1, <2>2, RecordHas DEF Actions
  <2> QED
    BY <1>7, <2>3 DEF RecordNode, cancelVars
<1>8. ASSUME NEW l \in Loops, RecordClaim(l) \/ SelectBlocked(l) \/ RecordVerdict(l) PROVE Goal
  BY <1>6, <1>8 DEF RecordClaim, SelectBlocked, RecordVerdict, Busy, Actions
<1>9. ASSUME NEW l \in Loops, Report(l) PROVE Goal
  <2>1. Head(todo[l]) \in ExecutionEvents
    BY <1>1, <1>9, HeadTailProperties DEF Report
  <2>2. Head(todo[l]) \in Actions \ {node}
    BY <2>1 DEF ExecutionEvents, Actions
  <2> QED
    BY <1>6, <1>9, <2>2 DEF Report, Busy
<1>10. CASE UNCHANGED trail
  BY <1>10 DEF Has
<1> QED
  BY <1>3, <1>4, <1>5, <1>7, <1>8, <1>9, <1>10
  DEF Next, SubmitStep, CancelStep, LoopStep, TickStep, vars,
      Refuse, Create, CancelUnknown, CancelRead, CancelWrite,
      Start, Stop, Exit, Sleep, Wake, PollEmpty, Claim, Capture,
      Select, Execute, ExecutorThrew, ReportThrew, Finish, EndTick

\* And stays there afterwards.
LEMMA NodeStays ==
  ASSUME RunInv, BackendKept, TargetUnset, Captured, NodeKept, [Next]_vars
  PROVE  NodeKept'
<1>1. /\ SubmitAgrees /\ HoldsRun
  BY DEF RunInv
<1>2. SUFFICES ASSUME NEW r \in Runs, Has(r, "compute.node.selected")',
                      \A c \in CancelCalls : target'[c] # r
               PROVE  runs'[r].env
  BY DEF NodeKept
<1>3. \A c \in CancelCalls : target[c] # r
  BY <1>2, CancelKept
<1>4. CASE Has(r, "compute.node.selected")
  <2>1. runs[r].env /\ runs[r].status # "absent"
    BY <1>1, <1>3, <1>4 DEF NodeKept, SubmitAgrees, Has
  <2> QED
    BY <1>3, <2>1, EnvStays
<1>5. ASSUME NEW l \in Loops, pc[l] = "captured", held[l] = r, UNCHANGED runs
      PROVE  runs'[r].env
  BY <1>3, <1>5 DEF Captured
<1> QED
  BY <1>2, <1>4, <1>5, NodeRecorded

\* What is said of a run stays a beginning of a story, and a whole one once it has ended.
LEMMA StoryToldKept ==
  ASSUME RunInv, RunInv', TicksTell, TicksTell', Silent, BackendKept, StoryTold, [Next]_vars
  PROVE  StoryTold'
<1>1. /\ TypeOK /\ TypeOK' /\ HoldsRun /\ HoldsRun' /\ SubmitAgrees
  BY DEF RunInv
<1> SUFFICES ASSUME NEW r \in Runs
             PROVE  IF runs'[r].status \in {"completed", "failed"}
                    THEN Said(r)' \in Stories(runs'[r].backend)
                    ELSE \E story \in Stories(runs'[r].backend) : IsPrefix(Said(r)', story)
  BY DEF StoryTold
<1>2. runs[r].status # "absent" => runs'[r].backend = runs[r].backend
  BY BackendStays
<1>3. ASSUME runs'[r].status \in {"completed", "failed"}
      PROVE  Said(r)' \in Stories(runs'[r].backend)
  <2>1. CASE runs'[r].status = runs[r].status
    <3>1. Said(r) \in Stories(runs[r].backend)
      BY <1>3, <2>1 DEF StoryTold
    <3>2. Said(r)' = Said(r)
      <4>1. ASSUME NEW l \in Loops, NEW a \in Actions, Tells(l, a), held[l] \in Runs,
                   pc[l] # "count"
            PROVE  Said(r)' = Said(r)
        <5>1. held[l] # r
          BY <1>3, <2>1, <4>1 DEF Silent
        <5> QED
          BY <4>1, <5>1 DEF Tells
      <4> QED
        BY <1>1, <4>1, TellStep DEF SameTold
    <3> QED
      BY <1>2, <1>3, <2>1, <3>1, <3>2
  <2>2. ASSUME NEW l \in Loops, held[l] = r, pc[l] = "finish", UNCHANGED trail
        PROVE  Said(r)' \in Stories(runs'[r].backend)
    <3>1. Said(r) \in Stories(runs[r].backend) /\ Said(r)' = Said(r)
      BY <2>2, SilentStep DEF TicksTell, Telling, SameTold
    <3>2. runs[r].status # "absent"
      BY <2>2 DEF RunInv, Granted
    <3> QED
      BY <1>2, <3>1, <3>2
  <2> QED
    BY <1>3, <2>1, <2>2, Concludes
<1>4. ASSUME runs'[r].status \notin {"completed", "failed"}
      PROVE  \E story \in Stories(runs'[r].backend) : IsPrefix(Said(r)', story)
  <2>1. CASE Said(r)' = Said(r)
    <3>1. CASE runs[r].status = "absent"
      BY <2>1, <3>1, OpeningsBegin DEF Silent
    <3>2. CASE runs[r].status \in {"completed", "failed"}
      <4>1. Said(r) \in Stories(runs[r].backend) /\ Said(r) \in Seq(Actions)
        BY <1>1, <3>2, ToldType DEF StoryTold
      <4>2. IsPrefix(Said(r), Said(r))
        BY <4>1, PrefixOfItself
      <4> QED
        BY <1>2, <2>1, <3>2, <4>1, <4>2
    <3>3. CASE runs[r].status \notin {"absent", "completed", "failed"}
      BY <1>2, <2>1, <3>3 DEF StoryTold
    <3> QED
      BY <3>1, <3>2, <3>3
  <2>2. ASSUME NEW l \in Loops, held[l] = r, UNCHANGED held
        PROVE  \E story \in Stories(runs'[r].backend) : IsPrefix(Said(r)', story)
    <3>1. held'[l] = r /\ Said(held[l])' = Said(r)' /\ Telling(l)'
      BY <2>2 DEF TicksTell
    <3>2. PICK at \in Busy : at = pc'[l]
      BY <1>1, <3>1 DEF HoldsRun
    <3>3. PICK said \in Seq(Actions) : said = Said(r)'
      <4>1. trail'[r] \in Seq(EntryRecord)
        BY <1>1 DEF TypeOK, Subjects
      <4>2. PICK told \in Seq(EntryRecord) : told = WorkerEntries(r)'
        BY <4>1, ChosenPlaces DEF WorkerEntries
      <4>3. Said(r)' = [i \in DOMAIN told |-> told[i].action]
        BY <4>2 DEF Said
      <4> QED
        BY <4>3, ActionsOf
    <3>4. PICK left \in Seq(ExecutionEvents) : left = todo'[l]
      BY <1>1 DEF TypeOK
    <3>5. PICK o : o = outcome'[l]
      OBVIOUS
    <3>6. PICK b : b = runs'[r].backend
      OBVIOUS
    <3>7. /\ at \in {"claimed", "capture", "captured", "select", "executing"} =>
                said \in Openings \union {<<>>}
          /\ at = "report" => said \o (left \o <<Verdict(o)>>) \in Stories(b)
          /\ at \in {"finish", "count"} => said \in Stories(b)
      BY <3>1, <3>2, <3>3, <3>4, <3>5, <3>6 DEF Telling, Openings
    <3>8. \E story \in Stories(b) : IsPrefix(said, story)
      BY <3>7, TellingBegins
    <3> QED
      BY <3>3, <3>6, <3>8
  <2>3. CASE SameTold
    BY <2>1, <2>3 DEF SameTold
  <2>4. ASSUME NEW l \in Loops, NEW a \in Actions, Tells(l, a), UNCHANGED held
        PROVE  \E story \in Stories(runs'[r].backend) : IsPrefix(Said(r)', story)
    BY <2>1, <2>2, <2>4 DEF Tells
  <2> QED
    BY <1>1, <2>3, <2>4, TellStep
<1> QED
  BY <1>3, <1>4

-----------------------------------------------------------------------------
(* The theorem *)

\* Before anything was recorded every story can still be told.
LEMMA StoryInit == ASSUME Init PROVE StoryInv
<1>1. \A r \in Runs : trail[r] = <<>> /\ runs[r] = NoRun
  BY DEF Init, Subjects
<1>2. \A r \in Runs : WorkerEntries(r) = <<>>
  <2> SUFFICES ASSUME NEW r \in Runs PROVE WorkerEntries(r) = <<>>
    OBVIOUS
  <2>1. PICK told : told = WorkerEntries(r)
    OBVIOUS
  <2>2. /\ told \in Seq(EntryRecord)
        /\ \E at : Places(<<>>, {i \in DOMAIN <<>> : <<>>[i].actor # Client}, Len(<<>>), told, at)
    <3>1. trail[r] = <<>> /\ <<>> \in Seq(EntryRecord)
      BY <1>1
    <3> QED
      BY <2>1, <3>1, ChosenPlaces DEF WorkerEntries
  <2>3. Len(told) = 0
    BY <2>2 DEF Places
  <2> QED
    BY <2>1, <2>2, <2>3
<1>3. \A r \in Runs : Said(r) = <<>>
  BY <1>2 DEF Said
<1>4. \A l \in Loops : held[l] \notin Runs /\ pc[l] = "idle"
  BY NamesAssumption DEF Init
<1>5. TicksTell /\ Silent /\ TellerHolds /\ Captured
  BY <1>3, <1>4 DEF TicksTell, Silent, TellerHolds, Captured
<1>6. BackendKept /\ TargetUnset
  BY DEF Init, BackendKept, TargetUnset
<1>7. NodeKept /\ OneTeller
  BY <1>1, <1>2 DEF NodeKept, OneTeller, Has
<1>8. StoryTold
  BY <1>1, <1>3, OpeningsBegin DEF StoryTold, NoRun
<1> QED
  BY <1>5, <1>6, <1>7, <1>8 DEF StoryInv

\* Every step keeps the inductive invariant of the stories.
LEMMA StoryStep == ASSUME RunInv, StoryInv, [Next]_vars PROVE StoryInv'
<1>1. RunInv' /\ TypeOK'
  BY RunInvStep DEF RunInv
<1>2. TicksTell'
  BY <1>1, TicksTellStep DEF StoryInv
<1>3. Silent' /\ TellerHolds' /\ OneTeller'
  BY <1>1, SilentKept, TellerHoldsKept DEF StoryInv
<1>4. BackendKept' /\ TargetUnset' /\ Captured' /\ NodeKept'
  BY CancelKept, CapturedKept, NodeStays DEF StoryInv
<1>5. StoryTold'
  BY <1>1, <1>2, StoryToldKept DEF StoryInv
<1> QED
  BY <1>2, <1>3, <1>4, <1>5 DEF StoryInv

\* What the workers wrote about a run is one execution told in order by one of them, for
\* every number of workers, restarts and cancellations and every executor bound.
THEOREM StoryAlwaysOne == Spec => []OneStory
<1>1. RunInv /\ StoryInv /\ [Next]_vars => StoryInv'
  BY StoryStep
<1>2. StoryInv => OneStory
  BY DEF StoryInv, OneStory
<1> QED
  BY <1>1, <1>2, StoryInit, RunInvariant, PTL DEF Spec

=============================================================================
