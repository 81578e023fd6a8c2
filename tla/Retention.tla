----------------------------- MODULE Retention ------------------------------
(***************************************************************************)
(* The retention rules of evidence/retention.ts: how overlapping regimes   *)
(* become one period, whether an anchor enforces it, and what may be       *)
(* deleted.  Times are integers, Day of them to a day.                     *)
(***************************************************************************)
EXTENDS Integers, Sequences, FiniteSetsExt, Functions

CONSTANTS Rules,   \* STANDARD_RULES and an operator's own: id -> its two limits
          Day,     \* DAY_MS
          None     \* a limit that is not set

ASSUME RetentionAssumption ==
  /\ Day \in Nat \ {0}
  /\ \A id \in DOMAIN Rules :
       /\ Rules[id].minimumDays \in Nat
       /\ Rules[id].maximumDays \in Nat \union {None}

-----------------------------------------------------------------------------
(* Resolving the rules *)

Refused(problem) == [error |-> problem]

\* The first of the rules whose floor is the longest.
Governing(ids) ==
  CHOOSE i \in DOMAIN ids :
    /\ \A j \in DOMAIN ids : Rules[ids[j]].minimumDays <= Rules[ids[i]].minimumDays
    /\ \A j \in 1..i - 1 : Rules[ids[j]].minimumDays < Rules[ids[i]].minimumDays

\* Seeded fault: the governing rule is the first whose floor is not below the first one's.
GoverningFirst(ids) ==
  CHOOSE i \in DOMAIN ids :
    /\ Rules[ids[i]].minimumDays >= Rules[ids[1]].minimumDays
    /\ \A j \in 2..i - 1 : Rules[ids[j]].minimumDays < Rules[ids[1]].minimumDays

Ceilings(ids) == {Rules[id].maximumDays : id \in Range(ids)} \ {None}

ResolveRetention(ids, from) ==
  IF ids = <<>> THEN Refused("no basis")
  ELSE IF \E i \in DOMAIN ids : ids[i] \notin DOMAIN Rules THEN Refused("unknown rule")
  ELSE LET retainForDays == Rules[ids[Governing(ids)]].minimumDays
           deleteByDays == IF Ceilings(ids) = {} THEN None ELSE Min(Ceilings(ids))
       IN  IF deleteByDays # None /\ deleteByDays < retainForDays
           THEN Refused("conflict")
           ELSE [error |-> "none", governingRule |-> ids[Governing(ids)],
                 retainForDays |-> retainForDays,
                 retainUntil |-> from + retainForDays * Day,
                 deleteBy |-> IF deleteByDays = None THEN None
                              ELSE from + deleteByDays * Day]

-----------------------------------------------------------------------------
(* Anchors and expiry *)

\* Why an anchor does not enforce the required period.
Problems(anchor, required) ==
  IF anchor = None THEN {"no anchor"}
  ELSE {p \in {"no lock", "governance", "short"} :
          \/ p = "no lock" /\ anchor.mode = "none"
          \/ p = "governance" /\ anchor.mode = "governance"
          \/ p = "short" /\ anchor.retainUntil < required.retainUntil}

AssessAnchor(anchor, required) ==
  LET problems == Problems(anchor, required)
  IN  [sufficient |-> problems = {}, problems |-> problems]

\* Past its ceiling, past its floor with no ceiling yet reached, or inside its period.
PlanExpiry(candidate, now) ==
  IF candidate.retainUntil > now THEN "retained"
  ELSE IF candidate.deleteBy # None /\ candidate.deleteBy <= now THEN "due"
  ELSE "eligible"

-----------------------------------------------------------------------------
(* What retention promises, judged from the rules themselves *)

\* Ages in time units that a rule allows evidence to be deleted at, and to be kept to.
MayDelete(id, age) == age >= Rules[id].minimumDays * Day
MustDelete(id, age) == Rules[id].maximumDays # None /\ age >= Rules[id].maximumDays * Day

\* A set of rules is accepted exactly when some number of days satisfies each of
\* them; in whatever order the rules are named, the plan keeps evidence that any of
\* them still protects, has it deleted once any of them demands it, and an anchor is
\* called sufficient only if nobody can delete before every floor has passed.
RetentionSound(ids, from, now, anchor) ==
  LET resolved == ResolveRetention(ids, from)
      known == ids # <<>> /\ Range(ids) \subseteq DOMAIN Rules
      horizon == 0..Max({Rules[id].minimumDays : id \in DOMAIN Rules})
  IN  /\ resolved.error = "none" <=>
           /\ known
           /\ \E d \in horizon : \A id \in Range(ids) :
                /\ Rules[id].minimumDays <= d
                /\ Rules[id].maximumDays # None => d <= Rules[id].maximumDays
      /\ resolved.error = "none" =>
           LET plan == PlanExpiry(resolved, now)
           IN  /\ plan = "retained" <=> \E id \in Range(ids) : ~MayDelete(id, now - from)
               /\ plan = "due" <=> /\ \E id \in Range(ids) : MustDelete(id, now - from)
                                   /\ \A id \in Range(ids) : MayDelete(id, now - from)
               /\ AssessAnchor(anchor, resolved).sufficient =>
                    /\ anchor # None /\ anchor.mode = "compliance"
                    /\ \A id \in Range(ids) : MayDelete(id, anchor.retainUntil - from)

=============================================================================
