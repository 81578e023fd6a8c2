------------------------------ MODULE TaskSets ------------------------------
(***************************************************************************)
(* Task sets and tasks of tasks/registry.ts.                               *)
(*                                                                         *)
(* createTask looks whether its id is taken and reads the set, awaits, and *)
(* then writes the task and the set built from what it read: two actions.  *)
(***************************************************************************)
EXTENDS Tenancy, Naturals, Sequences

CONSTANTS TaskIds, SetIds,
          Creates,     \* calls of createTask, each made once
          MaxGiven     \* bound: ids a set is created with

ASSUME TaskSetsAssumption == None \notin SetIds /\ MaxGiven \in Nat

Splits == {"TRAIN", "DEV", "HELD_OUT"}

VARIABLES
  tasks,      \* the tasks, NoTask before creation
  taskSets,   \* the sets, NoSet before creation
  creates,    \* where each createTask is, and its locals
  startedWith, \* history: the ids each set was created with
  outdated    \* history: sets written from a record replaced since it was read

taskVars == <<tasks, taskSets, creates, startedWith, outdated>>

NoTask == [tenant |-> None, set |-> None]
NoSet  == [tenant |-> None, taskIds |-> <<>>]

TaskSetsInit ==
  /\ tasks = [i \in TaskIds |-> NoTask]
  /\ taskSets = [s \in SetIds |-> NoSet]
  /\ creates = [c \in Creates |-> [at |-> "idle"]]
  /\ startedWith = [s \in SetIds |-> <<>>]
  /\ outdated = {}

\* The pin binds the set's identity, its split and its ids in order.
ComputeTaskSetHash(id, split, taskIds) == <<id, split, Len(taskIds), taskIds>>

\* input.taskIds: ids in any order, that may repeat and may name no task yet.
InitialIds == UNION {[1..n -> TaskIds] : n \in 0..MaxGiven}

\* An id of a set that is taken is refused, whoever took it.  The ids the set starts
\* with are pinned as they come.
CreateTaskSet(s, tenant, split, taskIds) ==
  /\ taskSets[s] = NoSet
  /\ taskSets' = [taskSets EXCEPT ![s] =
       [tenant |-> tenant, split |-> split, taskIds |-> taskIds,
        contentHash |-> ComputeTaskSetHash(s, split, taskIds)]]
  /\ startedWith' = [startedWith EXCEPT ![s] = taskIds]
  /\ UNCHANGED <<tasks, creates, outdated>>

GetTaskSet(s, tenant) == Seen(taskSets[s], tenant, NoSet)

CreateTaskCheck(c, i, s, tenant) ==
  /\ creates[c].at = "idle"
  /\ creates' = [creates EXCEPT ![c] =
       IF tasks[i] # NoTask THEN [at |-> "done"]
       ELSE [at |-> "checked", task |-> i, id |-> s, tenant |-> tenant,
             set |-> GetTaskSet(s, tenant)]]
  /\ UNCHANGED <<tasks, taskSets, startedWith, outdated>>

\* Seeded fault: the pin is left for a later read to renew.
WithTaskUnpinned(id, set, i) == [set EXCEPT !.taskIds = Append(@, i)]

\* "Membership changed, so the pin must change with it."
WithTask(id, set, i) ==
  [set EXCEPT !.taskIds = Append(set.taskIds, i),
              !.contentHash = ComputeTaskSetHash(id, set.split, Append(set.taskIds, i))]

CreateTaskWrite(c) ==
  /\ creates[c].at = "checked"
  /\ LET call == creates[c]
     IN  IF call.set = NoSet
         THEN UNCHANGED <<tasks, taskSets, outdated>>
         ELSE /\ tasks' = [tasks EXCEPT ![call.task] =
                   [tenant |-> call.tenant, set |-> call.id]]
              /\ taskSets' = [taskSets EXCEPT ![call.id] =
                   WithTask(call.id, call.set, call.task)]
              /\ outdated' =
                   IF taskSets[call.id] = call.set /\ tasks[call.task] = NoTask
                   THEN outdated ELSE outdated \union {call.id, tasks[call.task].set}
  /\ creates' = [creates EXCEPT ![c] = [at |-> "done"]]
  /\ UNCHANGED startedWith

TaskSetsNext ==
  \/ \E tenant \in Tenants, s \in SetIds :
       \/ \E split \in Splits, taskIds \in InitialIds :
            CreateTaskSet(s, tenant, split, taskIds)
       \/ \E c \in Creates, i \in TaskIds : CreateTaskCheck(c, i, s, tenant)
  \/ \E c \in Creates : CreateTaskWrite(c)

TaskSetsSpec == TaskSetsInit /\ [][TaskSetsNext]_taskVars

-----------------------------------------------------------------------------
(* Reading *)

ListTasks(tenant, s) == {i \in TaskIds : tasks[i].tenant = tenant /\ tasks[i].set = s}

-----------------------------------------------------------------------------
(* What the registry promises *)

\* The ids as they came, and behind them each of the members once.
ListedAfter(ids, members, listed) ==
  LET added == Len(ids) + 1..Len(listed)
  IN  /\ Len(ids) <= Len(listed)
      /\ \A n \in DOMAIN ids : listed[n] = ids[n]
      /\ {listed[n] : n \in added} = members
      /\ \A m, n \in added : listed[m] = listed[n] => m = n

\* "A set can never be read with a hash that describes different contents than it
\* currently holds", whatever calls overlap; a task belongs to a set of its own
\* tenant; and as long as no write was built from a record replaced since, a set
\* lists the ids it was created with, as they came, and behind them each of its tasks
\* once.  Nothing checks the ids it was created with: a pin stands for exactly the
\* tasks a set has only if it was created with none.
PinDescribesSet ==
  \A s \in SetIds : taskSets[s] # NoSet =>
    /\ taskSets[s].contentHash
         = ComputeTaskSetHash(s, taskSets[s].split, taskSets[s].taskIds)
    /\ \A i \in TaskIds : tasks[i].set = s => tasks[i].tenant = taskSets[s].tenant
    /\ s \notin outdated =>
         ListedAfter(startedWith[s], ListTasks(taskSets[s].tenant, s), taskSets[s].taskIds)

=============================================================================
