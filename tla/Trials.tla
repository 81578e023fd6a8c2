------------------------------- MODULE Trials -------------------------------
(***************************************************************************)
(* The trial store of trajectories/store.ts and the step sequence of       *)
(* trajectories/atif.ts.                                                   *)
(*                                                                         *)
(* appendStep, finishTrial and setTrialStatus read the trial, await, and   *)
(* write back a whole record built from what they read.  A call is two     *)
(* actions, the read and the write, with any other call in between.  A     *)
(* step is its step_id and the call that submitted it.                     *)
(***************************************************************************)
EXTENDS Tenancy, Naturals, Sequences

CONSTANTS TrialIds,
          Calls,       \* calls on the store, each made once
          Outcomes,    \* outcomes finishTrial is given
          StepIds      \* step ids clients submit

ASSUME OutcomesAssumption ==
  Outcomes \subseteq {"success", "failure", "error", "incomplete", "blocked_by_policy"}
ASSUME StepIdsAssumption == StepIds \subseteq Nat

VARIABLES
  trials,     \* the store: the record of each id, NoTrial before createTrial
  calls,      \* where each call is, and its locals
  accepted,   \* history: per trial, the steps whose append succeeded, in order
  overtaken   \* history: trials written from a record replaced since it was read

trialVars == <<trials, calls, accepted, overtaken>>

Open        == {"running", "pending_approval"}
TrialStatus == Open \union {"completed", "failed", "terminated_by_policy", "cancelled"}

NoTrial == [status |-> "absent", tenant |-> None, steps |-> <<>>, outcome |-> "none",
            pendingApprovalId |-> None]

TrialsInit ==
  /\ trials = [t \in TrialIds |-> NoTrial]
  /\ calls = [c \in Calls |-> [at |-> "idle"]]
  /\ accepted = [t \in TrialIds |-> <<>>]
  /\ overtaken = {}

-----------------------------------------------------------------------------

NewTrial(tenant) ==
  [status |-> "running", tenant |-> tenant, steps |-> <<>>, outcome |-> "none",
   pendingApprovalId |-> None]

\* The call is answered, or refused, and its locals go with it.
Return(c) == calls' = [calls EXCEPT ![c] = [at |-> "done"]]

\* Seeded fault: an id that is taken starts over.
CreateTrialAgain(c, t, tenant) ==
  /\ calls[c].at = "idle"
  /\ trials' = [trials EXCEPT ![t] = NewTrial(tenant)]
  /\ Return(c)
  /\ UNCHANGED <<accepted, overtaken>>

\* An id that is taken is refused, whoever took it.
CreateTrial(c, t, tenant) ==
  /\ calls[c].at = "idle"
  /\ IF trials[t] = NoTrial
     THEN /\ trials' = [trials EXCEPT ![t] = NewTrial(tenant)]
          /\ Return(c)
     ELSE /\ Return(c)
          /\ UNCHANGED trials
  /\ UNCHANGED <<accepted, overtaken>>

\* Null for another tenant's trial.
GetTrial(t, tenant) == Seen(trials[t], tenant, NoTrial)

\* The read of a method on a trial, and what it was called with.
Read(c, t, tenant, method, step) ==
  /\ calls[c].at = "idle"
  /\ calls' = [calls EXCEPT ![c] =
       [at |-> method, trial |-> t, tenant |-> tenant, step |-> step,
        copy |-> GetTrial(t, tenant)]]
  /\ UNCHANGED <<trials, accepted, overtaken>>

AppendRead(c, t, tenant) ==
  \E n \in StepIds : Read(c, t, tenant, "append", [step_id |-> n, by |-> c])

FinishRead(c, t, tenant) == Read(c, t, tenant, "finish", None)

StatusRead(c, t, tenant) == Read(c, t, tenant, "status", None)

\* this.trials.set(trialId, updated)
Write(c, updated) ==
  LET t == calls[c].trial
  IN  /\ trials' = [trials EXCEPT ![t] = updated]
      /\ overtaken' = IF trials[t] = calls[c].copy THEN overtaken ELSE overtaken \union {t}

\* Seeded fault: any later step is taken.
NextStepGiven(steps, n) == n > Len(steps)

\* The id an append must use, from the length of the sequence.
NextStep(steps, n) == n = Len(steps) + 1

\* Seeded fault: a concluded trial takes more steps.
AppendsToAny(copy, step) == copy # NoTrial /\ NextStep(copy.steps, step.step_id)

\* Refused: no such trial, a trial that is concluded, a step out of sequence.
Appends(copy, step) == copy.status \in Open /\ NextStep(copy.steps, step.step_id)

AppendWrite(c) ==
  /\ calls[c].at = "append"
  /\ LET copy == calls[c].copy
         step == calls[c].step
         t    == calls[c].trial
     IN  IF Appends(copy, step)
         THEN /\ Write(c, [copy EXCEPT !.steps = Append(copy.steps, step)])
              /\ accepted' = [accepted EXCEPT ![t] = Append(accepted[t], step)]
              /\ Return(c)
         ELSE /\ Return(c)
              /\ UNCHANGED <<trials, accepted, overtaken>>

StatusOf(outcome) ==
  CASE outcome = "success"           -> "completed"
    [] outcome = "blocked_by_policy" -> "terminated_by_policy"
    [] OTHER                         -> "failed"

\* A concluded trial is no longer waiting on anyone.
FinishWrite(c) ==
  /\ calls[c].at = "finish"
  /\ IF calls[c].copy = NoTrial
     THEN Return(c) /\ UNCHANGED <<trials, overtaken>>
     ELSE /\ \E outcome \in Outcomes :
               Write(c, [calls[c].copy EXCEPT !.status = StatusOf(outcome),
                                              !.outcome = outcome,
                                              !.pendingApprovalId = None])
          /\ Return(c)
  /\ UNCHANGED accepted

\* An approval is kept only with the status that waits on it.
StatusWrite(c) ==
  /\ calls[c].at = "status"
  /\ IF calls[c].copy = NoTrial
     THEN Return(c) /\ UNCHANGED <<trials, overtaken>>
     ELSE /\ \E status \in TrialStatus, approval \in ApprovalIds \union {None} :
               Write(c, [calls[c].copy EXCEPT !.status = status,
                         !.pendingApprovalId =
                            IF status = "pending_approval" THEN approval ELSE None])
          /\ Return(c)
  /\ UNCHANGED accepted

TrialStep(c) ==
  \/ \E t \in TrialIds, tenant \in Tenants :
       \/ CreateTrial(c, t, tenant)
       \/ AppendRead(c, t, tenant)
       \/ FinishRead(c, t, tenant)
       \/ StatusRead(c, t, tenant)
  \/ AppendWrite(c)
  \/ FinishWrite(c)
  \/ StatusWrite(c)

TrialsNext == \E c \in Calls : TrialStep(c)

TrialsSpec == TrialsInit /\ [][TrialsNext]_trialVars

-----------------------------------------------------------------------------
(* What the store promises *)

StepRecord == [step_id: StepIds, by: Calls]

TrialRecord ==
  [status: TrialStatus \union {"absent"}, tenant: Tenants \union {None},
   steps: Seq(StepRecord), outcome: Outcomes \union {"none"},
   pendingApprovalId: ApprovalIds \union {None}]

\* A record in the store or on its way back to it: "1-indexed and gapless", and
\* waiting on an approval only while suspended.
Sound(record) ==
  /\ record \in TrialRecord
  /\ \A i \in 1..Len(record.steps) : record.steps[i].step_id = i
  /\ record.pendingApprovalId # None => record.status = "pending_approval"
  /\ record.status = "absent" => record = NoTrial
  /\ record.tenant = None => record = NoTrial

Midway == {"append", "finish", "status"}

\* However appends, conclusions and suspensions interleave, every stored record
\* is sound, and what a call is about to write back is a sound record of the
\* tenant it was called for, on a trial of that tenant: a write never moves a
\* trajectory from one tenant to another.
TrialsInv ==
  /\ trials \in [TrialIds -> TrialRecord]
  /\ \A t \in TrialIds : Sound(trials[t])
  /\ accepted \in [TrialIds -> Seq(StepRecord)]
  /\ DOMAIN calls = Calls
  /\ \A c \in Calls : calls[c].at \in Midway =>
       /\ calls[c].trial \in TrialIds
       /\ calls[c].at = "append" => calls[c].step \in StepRecord
       /\ Sound(calls[c].copy)
       /\ calls[c].copy # NoTrial =>
            /\ calls[c].tenant \in Tenants
            /\ calls[c].copy.tenant = calls[c].tenant
            /\ trials[calls[c].trial].tenant = calls[c].tenant

\* As long as no write to a trial was overtaken by another, its trajectory is
\* exactly the steps that were accepted, in the order they were: nothing but a
\* race of two writes loses a step.
TrajectoryComplete ==
  \A t \in TrialIds \ overtaken : trials[t].steps = accepted[t]

\* "A concluded trajectory is a closed record": concluding a trial, suspending it
\* or reopening its status leaves the steps alone, and no step is added to a
\* concluded one but by a write that was overtaken.
ClosedRecord ==
  [][\A t \in TrialIds \ overtaken' :
       trials[t].status \notin Open \union {"absent"} =>
         trials'[t].steps = trials[t].steps]_trialVars

-----------------------------------------------------------------------------
(* What the documentation says and the code does not do *)

\* trajectories/store.ts: "appendStep refuses an out-of-sequence write rather than
\* reordering, so a client that has lost steps finds out instead of producing a
\* plausible-looking trajectory with a hole in it": a step that was accepted is
\* in the trajectory.
AcceptedStepKept ==
  \A t \in TrialIds : \A i \in DOMAIN accepted[t] :
    \E j \in DOMAIN trials[t].steps : trials[t].steps[j] = accepted[t][i]

=============================================================================
