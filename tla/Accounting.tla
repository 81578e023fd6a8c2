----------------------------- MODULE Accounting -----------------------------
(***************************************************************************)
(* What a model costs (models/cost.ts) and which benchmarks it may run     *)
(* (models/capabilities.ts).                                               *)
(*                                                                         *)
(* Money is counted in micro-dollars, the precision costs are rounded to;  *)
(* a rate per million tokens in tenths of one.  Absent numbers are Absent. *)
(***************************************************************************)
EXTENDS Integers, Sequences, FiniteSetsExt

CONSTANTS Absent, Capability

-----------------------------------------------------------------------------
(* Cost of a call *)

Known(usd) == [known |-> TRUE, usd |-> usd]
UnknownCost == [known |-> FALSE]

\* Math.round of a quotient of naturals.
RoundQuotient(a, b) == (2 * a + b) \div (2 * b)

OrElse(value, default) == IF value = Absent THEN default ELSE value

Larger(a, b) == IF a >= b THEN a ELSE b

\* Tokens that were not reported are not zero, and cached input is billed once.
CostOfGeneration(pricing, usage, hardware) ==
  LET cached == OrElse(usage.cached, 0)
      reasoning == OrElse(usage.reasoning, 0)
  IN  CASE pricing.kind = "unknown" -> UnknownCost
        [] pricing.kind = "hardware" ->
             IF hardware = Absent THEN UnknownCost
             ELSE Known(RoundQuotient(pricing.hourly * hardware, 3600))
        [] pricing.kind = "tokens" ->
             IF Absent \in {usage.input, usage.output} THEN UnknownCost
             ELSE Known(RoundQuotient(
                    Larger(0, usage.input - cached) * pricing.input
                    + usage.output * pricing.output
                    + cached * OrElse(pricing.cached, pricing.input)
                    + reasoning * OrElse(pricing.reasoning, 0), 10))

-----------------------------------------------------------------------------
(* Totals *)

\* One unknown makes the total unknown.
SumCosts(costs) ==
  IF \E i \in DOMAIN costs : ~costs[i].known THEN UnknownCost
  ELSE Known(MapThenSumSet(LAMBDA i : costs[i].usd, DOMAIN costs))

\* Per task, and per success: undefined, not zero, where none was attempted or succeeded.
Efficiency(total, attempted, succeeded) ==
  LET Per(n) == IF ~total.known \/ n <= 0 THEN UnknownCost ELSE Known(RoundQuotient(total.usd, n))
  IN  [costPerTask |-> Per(attempted), costPerSuccess |-> Per(succeeded)]

PricingStatus(model) == model.pricing.kind \in {"tokens", "hardware"}

-----------------------------------------------------------------------------
(* Compatibility *)

\* The capabilities a benchmark's flags can ask for: five of the ten.
RequirementsFrom(flags, minContextWindow, minOutputTokens) ==
  [required |-> flags \intersect {"vision", "tools", "structuredOutput", "reasoning", "audio"},
   minContextWindow |-> minContextWindow, minOutputTokens |-> minOutputTokens]

Support(model, requirements, support) ==
  {c \in requirements.required : model.capabilities[c] = support}

\* A window that is unknown is not assumed to be large enough.
Limits(model, requirements) ==
  {field \in {"contextWindow", "maxOutputTokens"} :
     LET least == IF field = "contextWindow" THEN requirements.minContextWindow
                  ELSE requirements.minOutputTokens
     IN  /\ least # Absent
         /\ model[field] = Absent \/ model[field] < least}

\* Seeded fault: what was never established blocks nothing.
CheckCompatibilityLoose(model, requirements, unknownPolicy) ==
  [compatible |-> Support(model, requirements, "unsupported") = {}
                  /\ Limits(model, requirements) = {},
   flagged |-> FALSE]

CheckCompatibility(model, requirements, unknownPolicy) ==
  LET unknown == Support(model, requirements, "unknown")
      compatible == /\ Support(model, requirements, "unsupported") = {}
                    /\ Limits(model, requirements) = {}
                    /\ unknown = {} \/ unknownPolicy = "include_flagged"
  IN  [compatible |-> compatible, flagged |-> compatible /\ unknown # {}]

\* Every model is in one part, with its reason; the flagged are among the included.
BuildCompatibilityMatrix(models, requirements, unknownPolicy) ==
  LET Decision(model) == CheckCompatibility(model, requirements, unknownPolicy)
  IN  [included |-> SelectSeq(models, LAMBDA m : Decision(m).compatible),
       excluded |-> SelectSeq(models, LAMBDA m : ~Decision(m).compatible),
       flagged |-> SelectSeq(models, LAMBDA m : Decision(m).flagged)]

-----------------------------------------------------------------------------
(* What the accounts promise *)

\* Cached input is part of the input: without a rate of its own it changes nothing, with a
\* lower one it never raises the bill.  More of anything never costs less, and a call whose
\* tokens or hours were not reported is never free.
BillsOnce(pricing, usage, hardware) ==
  LET cost == CostOfGeneration(pricing, usage, hardware)
      uncached == CostOfGeneration(pricing, [usage EXCEPT !.cached = Absent], hardware)
      More(field) == [usage EXCEPT ![field] = @ + 1]
  IN  /\ cost.known => /\ pricing.kind = "tokens" => Absent \notin {usage.input, usage.output}
                       /\ pricing.kind = "hardware" => hardware # Absent
      /\ cost.known /\ pricing.kind = "tokens" =>
           /\ OrElse(usage.cached, 0) <= usage.input =>
                /\ pricing.cached = Absent => cost = uncached
                /\ pricing.cached # Absent /\ pricing.cached <= pricing.input =>
                     cost.usd <= uncached.usd
           /\ \A field \in {"input", "output"} :
                CostOfGeneration(pricing, More(field), hardware).usd >= cost.usd

\* A total is known exactly when every part is; it is their sum in any order and however
\* they are grouped, and shared out again it comes back to within half a micro-dollar each.
TotalsHold(costs, attempted, succeeded) ==
  LET total == SumCosts(costs)
      share == Efficiency(total, attempted, succeeded)
  IN  /\ total.known <=> \A i \in DOMAIN costs : costs[i].known
      /\ \A n \in 0..Len(costs) :
           SumCosts(<<SumCosts(SubSeq(costs, 1, n)),
                      SumCosts(SubSeq(costs, n + 1, Len(costs)))>>) = total
      /\ share.costPerTask.known <=> total.known /\ attempted > 0
      /\ share.costPerTask.known =>
           /\ 2 * (share.costPerTask.usd * attempted - total.usd) <= attempted
           /\ 2 * (total.usd - share.costPerTask.usd * attempted) <= attempted
      /\ share.costPerSuccess.known =>
           /\ succeeded > 0
           /\ succeeded <= attempted => share.costPerSuccess.usd >= share.costPerTask.usd

\* The ways the capabilities nobody established may turn out.
Worlds(model) ==
  {[model EXCEPT !.capabilities = known] :
     known \in {k \in [Capability -> {"supported", "unsupported"}] :
                  \A c \in Capability :
                    model.capabilities[c] # "unknown" => k[c] = model.capabilities[c]}}

Meets(model, requirements) ==
  /\ \A c \in requirements.required : model.capabilities[c] = "supported"
  /\ requirements.minContextWindow = Absent
     \/ (model.contextWindow # Absent /\ model.contextWindow >= requirements.minContextWindow)
  /\ requirements.minOutputTokens = Absent
     \/ (model.maxOutputTokens # Absent /\ model.maxOutputTokens >= requirements.minOutputTokens)

\* A model admitted without a flag meets the benchmark however the unknown turns out; one
\* admitted with a flag may or may not; one turned away where the unknown is admitted meets
\* it in no way; and every selected model appears in the matrix once.
AdmissionSound(models, requirements, unknownPolicy) ==
  LET matrix == BuildCompatibilityMatrix(models, requirements, unknownPolicy)
  IN  /\ \A i \in DOMAIN models :
           LET m == models[i]
               decision == CheckCompatibility(m, requirements, unknownPolicy)
           IN  /\ decision.compatible /\ ~decision.flagged =>
                    \A world \in Worlds(m) : Meets(world, requirements)
               /\ decision.flagged => /\ \E world \in Worlds(m) : Meets(world, requirements)
                                      /\ \E world \in Worlds(m) : ~Meets(world, requirements)
               /\ ~decision.compatible /\ unknownPolicy = "include_flagged" =>
                    \A world \in Worlds(m) : ~Meets(world, requirements)
      /\ Len(matrix.included) + Len(matrix.excluded) = Len(models)
      /\ \A i \in DOMAIN matrix.flagged : \E j \in DOMAIN matrix.included :
           matrix.flagged[i] = matrix.included[j]

=============================================================================
