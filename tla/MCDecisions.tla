---------------------------- MODULE MCDecisions ----------------------------
(***************************************************************************)
(* The pure decisions of the program, each asked one question at a time.   *)
(***************************************************************************)
EXTENDS Retention, Comparisons, Manifests, Finance, Canonical, Adapters, Provenance,
        Accounting, Hosts, Conformance, Atif, TLC

VARIABLE question   \* what was asked of which decision

\* The first conjunct of every question: it is asked before its inputs are enumerated.
Unasked == question.kind = "none"
Ask(kind, inputs) == question' = [kind |-> kind] @@ inputs

-----------------------------------------------------------------------------
(* Retention *)

MCRules ==
  [id \in {"short", "long", "other", "capped"} |->
    CASE id = "short" -> [minimumDays |-> 1, maximumDays |-> None]
      [] id = "long" -> [minimumDays |-> 3, maximumDays |-> None]
      [] id = "other" -> [minimumDays |-> 3, maximumDays |-> 4]
      [] id = "capped" -> [minimumDays |-> 0, maximumDays |-> 2]]

Anchors == {None} \union [mode : {"none", "governance", "compliance"}, retainUntil : {2, 4, 7}]

AskRetention ==
  /\ Unasked
  /\ \E ids \in SeqOf({"short", "long", "other", "capped", "unknown"}, 2),
        now \in 1..9, anchor \in Anchors :
       /\ anchor = None \/ now = 4
       /\ Ask("retention", [ids |-> ids, from |-> 1, now |-> now, anchor |-> anchor])

-----------------------------------------------------------------------------
(* Scores *)

AskEstimators ==
  /\ Unasked
  /\ \E n \in 1..4, p \in {<<1, 4>>, <<2, 4>>}, tau \in {<<0, 1>>, <<1, 2>>, <<2, 3>>, <<1, 1>>} :
       \E c \in 0..n, k \in 1..n :
         Ask("estimators", [n |-> n, c |-> c, k |-> k, tau |-> tau, p |-> p])

AskTasks ==
  /\ Unasked
  /\ \E noise \in {<<1, 1>>, <<7, 2>>, <<9, 4>>}, gap \in {<<0, 1>>, <<1, 3>>, <<3, 2>>},
        sizes \in {<<>>, <<1, 2>>}, maxTasks \in {1, 5, 12} :
       /\ gap[1] > 0
       /\ Ask("tasks", [noise |-> noise, gap |-> gap, maxTasks |-> maxTasks,
                        deff |-> DesignEffect(sizes, <<1, 2>>)])

Observations ==
  UNION {[1..m -> [value : 0..2, cluster : {Alone, "shared"}]] : m \in 1..3}

AskInterval ==
  /\ Unasked
  /\ \E observations \in Observations, alpha \in {<<1, 2>>} :
       LET clusters == 1..Cardinality(GroupByCluster(observations))
       IN  \E picks \in [clusters -> clusters] :
             Ask("interval", [observations |-> observations, alpha |-> alpha,
                              resamples |-> <<picks, [g \in clusters |-> 1]>>])

AskExact ==
  /\ Unasked
  /\ \E trials \in 1..4, alpha \in {<<1, 4>>, <<1, 2>>} : \E successes \in 0..trials :
       Ask("exact", [trials |-> trials, successes |-> successes, alpha |-> alpha])

-----------------------------------------------------------------------------
(* Comparisons *)

ScoreList(m, values, clusters) ==
  [i \in 1..m |-> [taskId |-> i, value |-> values[i], cluster |-> clusters[i]]]

\* Three resamples, in one order of each.
Picks(clusters) ==
  {picks \in [1..3 -> [1..clusters -> 1..clusters]] :
     \A i \in 1..2 : LET Code(p) == clusters * p[1] + p[clusters]
                     IN  Code(picks[i]) <= Code(picks[i + 1])}

AskPair ==
  /\ Unasked
  /\ \E m \in 1..3, values, others \in [1..3 -> 0..1], cluster \in {Alone, "shared"} :
       LET clusters == <<cluster, cluster, Alone>>
           a == ScoreList(m, values, clusters)
           b == ScoreList(3, others, clusters)
           groups == Cardinality(GroupByCluster(PairedDifferences(a, b)))
       IN  /\ groups <= 2
           /\ \E picks \in Picks(groups) :
                Ask("pair", [a |-> a, b |-> b, resamples |-> picks])

AskRanking ==
  /\ Unasked
  /\ \E n \in 0..3, alpha \in {<<1, 2>>, <<1, 4>>} :
       \E pValues \in [1..(n * (n - 1)) \div 2 -> {1, 3, 5, 12}] :
         Ask("ranking", [n |-> n, pValues |-> pValues, alpha |-> alpha])

AskComposite ==
  /\ Unasked
  /\ \E factors \in [Range(FactorNames) -> {Alone, 0, 1, 3, 4}],
        base \in {[estimate |-> 0, lower |-> 0, upper |-> 1],
                 [estimate |-> 2, lower |-> 1, upper |-> 4],
                 [estimate |-> 3, lower |-> 2, upper |-> 4],
                 [estimate |-> 4, lower |-> 4, upper |-> 4]} :
       Ask("composite", [base |-> base, factors |-> factors])

\* Every figure a result is reported with, and every verdict drawn from figures, follows
\* from its definition.
StatisticsHold ==
  /\ question.kind = "estimators" =>
       EstimatorsExact(question.n, question.c, question.k, question.tau, question.p)
  /\ question.kind = "tasks" =>
       TasksSuffice(question.noise, question.gap, question.deff, question.maxTasks)
  /\ question.kind = "interval" =>
       IntervalsHonest(question.observations, question.resamples, question.alpha, 2)
  /\ question.kind = "exact" =>
       ExactIntervalCovers(question.successes, question.trials, question.alpha)
  /\ question.kind = "pair" =>
       VerdictSupported(question.a, question.b, <<1, 16>>, 2, question.resamples, <<1, 2>>)
  /\ question.kind = "ranking" =>
       RankingSupported(question.n, question.pValues, 12, question.alpha)
  /\ question.kind = "composite" =>
       CompositeRecomputes(question.base, question.factors, 4, Alone)

-----------------------------------------------------------------------------
(* Financial answers *)

MCScaleFactor == [thousand |-> 1000, million |-> 1000000]
MCSymbolCode == [dollar |-> "USD", euro |-> "EUR"]

Run(value, length) == [value |-> value, length |-> length]
Number(runs, seps) == [runs |-> runs, seps |-> seps, exponent |-> Missing, scales |-> <<>>]
Twelve == Number(<<Run(12, 2)>>, <<>>)
OnePointTwo == Number(<<Run(1, 1), Run(2, 1)>>, <<".">>)
TwelveHundred == Number(<<Run(1, 1), Run(200, 3)>>, <<",">>)
Text(numbers) ==
  [parentheses |-> "none", sign |-> "none", symbols |-> {}, code |-> Missing,
   unit |-> Missing, numbers |-> numbers]
Plain(number) == Text(<<number>>)
Scaled(number, words) == Plain([number EXCEPT !.scales = words])
Powered(number, exponent) == Plain([number EXCEPT !.exponent = exponent])
In(unit, number) == [Plain(number) EXCEPT !.unit = unit]

Texts ==
  {Plain(Twelve), Plain(OnePointTwo), Plain(TwelveHundred), Plain(Number(<<Run(0, 1)>>, <<>>)),
   Plain(Number(<<Run(12, 2), Run(12, 2)>>, <<",">>)),
   Scaled(OnePointTwo, <<"thousand">>), Scaled(OnePointTwo, <<"thousand", "million">>),
   In("percent", Twelve), In("percent", OnePointTwo), In("bps", Number(<<Run(120, 3)>>, <<>>)),
   Text(<<>>), Text(<<Twelve, OnePointTwo>>),
   Text(<<[Twelve EXCEPT !.scales = <<"thousand">>], [Twelve EXCEPT !.scales = <<"million">>]>>),
   [Plain(Twelve) EXCEPT !.sign = "minus"], [Plain(Twelve) EXCEPT !.parentheses = "around"],
   [Plain(Twelve) EXCEPT !.sign = "minus", !.parentheses = "around"],
   [Plain(Twelve) EXCEPT !.symbols = {"dollar"}], [Plain(Twelve) EXCEPT !.code = "EUR"],
   [Plain(Twelve) EXCEPT !.symbols = {"dollar"}, !.code = "EUR"],
   Plain(Number(<<Run(13, 2)>>, <<>>)),
   Powered(Twelve, 0), Powered(Twelve, 30), Powered(OnePointTwo, 1), Powered(OnePointTwo, 3),
   Powered(Number(<<Run(1, 1), Run(25, 2)>>, <<",">>), 1),
   Powered(Number(<<Run(1, 1), Run(25, 2)>>, <<".">>), 1)}

Tolerances == {[kind |-> "exact"], [kind |-> "absolute", value |-> 1000],
               [kind |-> "relative", part |-> 10], [kind |-> "significantFigures", digits |-> 1]}

AskAnswer ==
  /\ Unasked
  /\ \E expected, actual \in Texts, tolerance \in Tolerances, locale \in {"en", "eu"},
        bare \in {"percent", "ratio"}, strict \in BOOLEAN :
       /\ expected.unit = "bps" => bare = "percent"
       /\ Ask("answer", [expected |-> expected, actual |-> actual,
                        options |-> [tolerance |-> tolerance, locale |-> locale,
                                     bareNumberUnit |-> bare, requireExplicitUnit |-> strict,
                                     requireCurrency |-> strict]])

-----------------------------------------------------------------------------
(* Canonical texts *)

Field(key, value) == [key |-> key, value |-> value]

Values ==
  LET plain == {Atom("null"), Atom("iso"), Date("iso"), Undefined, Unfit("-0"), Ancestor}
      arrays == {ArrayOf(items) : items \in SeqOf(plain \ {Unfit("-0"), Ancestor}, 2)}
      inner == {ObjectOf(<<>>), ObjectOf(<<Field(1, Atom("iso"))>>), ArrayOf(<<>>),
                Atom("null"), Undefined}
      objects == {ObjectOf(<<Field(1, x)>>) : x \in inner}
        \union {ObjectOf(<<Field(1, x), Field(2, y)>>) : x, y \in inner}
        \union {ObjectOf(<<Field(2, y), Field(1, x)>>) : x, y \in inner}
  IN  plain \union arrays \union inner \union objects

AskSignature ==
  /\ Unasked
  /\ \E value, other \in Values, otherKey \in {"this", "another"} :
       /\ otherKey = "another" => other = value
       /\ Ask("signature", [value |-> value, other |-> other, otherKey |-> otherKey])

-----------------------------------------------------------------------------
(* Manifests *)

Submission ==
  [environmentId |-> "image", environmentDigest |-> [pinned |-> TRUE, of |-> 1],
   model |-> [identifier |-> "model", sampling |-> "cold"],
   taskSetId |-> "set", taskSetVersion |-> "1", split |-> "test",
   verifierId |-> <<"v">>, verifierVersion |-> <<"1">>, seed |-> 7,
   toolchain |-> {"platform"}, isolationBackend |-> "gvisor"]

Submissions ==
  {[Submission EXCEPT !.taskSetVersion = version, !.split = split, !.verifierId = id,
                      !.verifierVersion = revision] :
     version \in {"1", "2"}, split \in {"test", "dev"}, id \in {<<"v">>, <<"v", "@", "1">>},
     revision \in {<<>>, <<"1">>, <<"1", "@", "2">>, <<"2">>}}
  \union
  {[Submission EXCEPT !.environmentDigest = [pinned |-> pinned, of |-> image],
                      !.model.sampling = sampling, !.toolchain = toolchain, !.seed = seed,
                      !.isolationBackend = backend] :
     pinned \in BOOLEAN, image \in {1, 2}, sampling \in {"cold", "hot"},
     toolchain \in {{}, {"platform"}, {"platform", "sdk"}}, seed \in {0, 7},
     backend \in {"gvisor", "model"}}

AskManifests ==
  /\ Unasked
  /\ \E one, other \in Submissions :
       /\ \/ one = Submission
          \/ /\ one.environmentDigest = Submission.environmentDigest /\ one.seed = 7
             /\ other.environmentDigest = Submission.environmentDigest /\ other.seed = 7
       /\ Ask("manifests", [one |-> one, other |-> other])

MCAgents ==
  {[model_identifier |-> "m", provider |-> "p"] @@ identified :
     identified \in {<<>>, [system_prompt |-> "s"], [system_prompt_sha256 |-> "h", top_p |-> 10],
                     [system_prompt |-> "s", temperature |-> 21]}}

MCCall(given) == [tool_call_id |-> "c", name |-> "n", arguments |-> <<>>] @@ given

\* What a step holds beside its number: what is accepted and what is not.
MCBodies ==
  {<<>>, [reasoning |-> [content |-> "r"]], [reasoning |-> [redacted |-> TRUE]],
   [reasoning |-> [redacted |-> TRUE, redaction_reason |-> "withheld"]],
   [tool_calls |-> <<MCCall(<<>>), MCCall([blocked_by_policy |-> "p"])>>],
   [tool_calls |-> <<MCCall([output_truncated |-> TRUE, token |-> "t"])>>],
   [observation |-> [screenshot |-> "sha256:a"]], [observation |-> [screenshot |-> "bytes"]],
   [observation |-> [screenshot_format |-> "png"]],
   [observation |-> [screenshot |-> "sha256:b", screenshot_format |-> "png", terminated |-> TRUE]],
   [metrics |-> [prompt_tokens |-> 2, completion_tokens |-> 2, total_tokens |-> 3]],
   [metrics |-> [prompt_tokens |-> 2, total_tokens |-> 3], ended_at |-> 1], [ended_at |-> 0]}

MCSteps == {[step_id |-> n, started_at |-> 1] @@ body : n \in 1..3, body \in MCBodies}

AskTrajectory ==
  /\ Unasked
  /\ \E steps \in SeqOf(MCSteps, 2) \union
                   SeqOf({[step_id |-> n, started_at |-> 1] : n \in 0..4}, 4),
        agent \in MCAgents, more \in {<<>>, [outcome |-> "success"], [outcome |-> "won"]} :
       /\ Len(steps) > 1 => agent = [model_identifier |-> "m", provider |-> "p",
                                     system_prompt |-> "s"] /\ more = <<>>
       /\ Ask("trajectory", [doc |-> [atif_version |-> "1.7", trial_id |-> "t", run_id |-> "r",
                                     task_id |-> "k", agent |-> agent, started_at |-> 1,
                                     steps |-> steps] @@ more])

MCMetrics ==
  UNION {[given -> {0, 4}] :
    given \in SUBSET {"prompt_tokens", "completion_tokens", "total_tokens", "cost_usd"}}

AskMetrics ==
  /\ Unasked
  /\ \E first, second \in {m \in MCMetrics : ValidMetrics(m)} :
       Ask("metrics", [steps |-> <<[tool_calls |-> <<>>, metrics |-> first],
                                   [tool_calls |-> <<MCCall(<<>>)>>],
                                   [tool_calls |-> <<MCCall([blocked_by_policy |-> "p"])>>,
                                    metrics |-> second]>>])

\* What a reader years later relies on: how long a bundle is kept, that a signature stands
\* for its payload, that two manifests compare exactly when their runs may, and that a
\* trajectory is whole and its totals are what was observed.
EvidenceHolds ==
  /\ question.kind = "retention" =>
       RetentionSound(question.ids, question.from, question.now, question.anchor)
  /\ question.kind = "signature" =>
       SignatureStands(question.value, question.other, "this", question.otherKey)
  /\ question.kind = "manifests" => ManifestsSound(question.one, question.other)
  /\ question.kind = "trajectory" => RecordGapless(question.doc)
  /\ question.kind = "metrics" => TotalsObserved(question.steps)

-----------------------------------------------------------------------------
(* Providers *)

Said(role, text) ==
  [role |-> role, text |-> text, parts |-> FALSE, image |-> FALSE, calls |-> <<>>,
   answers |-> Unset]
Call(id) == [id |-> id, name |-> "tool"]

ProviderMessages ==
  {Said("system", "rule"), [Said("system", "rule") EXCEPT !.parts = TRUE],
   Said("user", "question"), [Said("user", "question") EXCEPT !.parts = TRUE, !.image = TRUE],
   Said("assistant", "answer"), [Said("assistant", "") EXCEPT !.calls = <<Call(1), Call(2)>>],
   [Said("tool", "result") EXCEPT !.answers = 1],
   [Said("tool", "result") EXCEPT !.answers = 2, !.parts = TRUE, !.image = TRUE]}

AskRequest ==
  /\ Unasked
  /\ \E messages \in SeqOf(ProviderMessages, 3), system \in {"", "rules"},
        given \in {{}, {"temperature", "stop", "toolChoice"},
                  {"topP", "maxTokens", "json", "tools", "toolChoice"}} :
       /\ given = {} \/ Len(messages) = 1
       /\ Ask("request", [request |-> [system |-> system, messages |-> messages, given |-> given]])

AskResponse ==
  /\ Unasked
  /\ \E calls \in SeqOf({Call(1), Call(2)}, 2), input, output \in {Unset, 0, 3}, cut \in BOOLEAN :
       /\ \A i, j \in DOMAIN calls : calls[i] = calls[j] => i = j
       /\ Ask("response", [answer |-> [text |-> "said", calls |-> calls, input |-> input,
                                       output |-> output, cut |-> cut]])

AskConnection ==
  /\ Unasked
  /\ \E adapter \in Adapters, key, override, address \in {Unset, "given"},
        listed \in {"data", "AUTHENTICATION_ERROR", "AUTHORIZATION_ERROR", "NETWORK_ERROR",
                   "TIMEOUT", "PROVIDER_ERROR"} :
       Ask("connection", [adapter |-> adapter, listed |-> listed,
                          environment |-> [apiKey |-> key, baseUrl |-> Unset],
                          overrides |-> [apiKey |-> override, baseUrl |-> address]])

\* Every provider is asked the same question in its own form, its answer is read the same
\* way, and a connection test tells a refused key from an unreachable host.
AdaptersHold ==
  /\ question.kind = "request" => RequestsAgree(question.request)
  /\ question.kind = "response" => AnswersAgree(question.answer)
  /\ question.kind = "connection" =>
       ConnectionTold(question.adapter, question.environment, question.overrides,
                      question.listed)

-----------------------------------------------------------------------------
(* Passports *)

Weights ==
  [origin |-> "hub", repository |-> "family", revision |-> "", commitSha |-> "",
   weightsDigest |-> "", tokenizerRepository |-> "", tokenizerRevision |-> ""]

MCModels ==
  {Weights, [Weights EXCEPT !.revision = "main"], [Weights EXCEPT !.commitSha = "c1"],
   [Weights EXCEPT !.commitSha = "c2"], [Weights EXCEPT !.weightsDigest = "d1"],
   [Weights EXCEPT !.tokenizerRepository = "tok", !.tokenizerRevision = "1"]}

Host ==
  [provider |-> "cloud", servedModelId |-> "model",
   runtime |-> [engine |-> "vllm", precision |-> "bf16", quantization |-> "", version |-> "1"],
   accelerator |-> [vendor |-> "nvidia", model |-> "H", count |-> 1,
                    toolkits |-> <<<<1, "12">>, <<2, "9">>>>],
   endpoint |-> ""]

MCHosts ==
  {Host, [Host EXCEPT !.accelerator = NoAccelerator], [Host EXCEPT !.endpoint = "https"],
   [Host EXCEPT !.accelerator.toolkits = <<<<2, "9">>, <<1, "12">>>>],
   [Host EXCEPT !.runtime.precision = "int4"], [Host EXCEPT !.runtime.engine = "tgi"],
   [Host EXCEPT !.runtime.quantization = "awq"], [Host EXCEPT !.provider = "other"],
   [Host EXCEPT !.accelerator.count = 2]}

Evaluated == [model : MCModels, deployment : MCHosts]

AskPassport ==
  /\ Unasked
  /\ \E metrics \in [successRate : {<<1, 2>>, <<1, 1>>}, tasksAttempted : {0, 2, 40},
                     tasksSucceeded : {0, 1, 20}, trials : {1}],
        statistics \in [low : {-1, 40}, high : {30, 60}],
        evidence \in {[merkleRoot |-> "", treeSize |-> 4], [merkleRoot |-> "root", treeSize |-> 0],
                     [merkleRoot |-> "root", treeSize |-> 4]},
        selfReported, costKnown \in BOOLEAN, other \in Evaluated :
       /\ other.model = Weights \/ other.deployment = Host
       /\ Ask("passport", [other |-> other,
              input |-> [model |-> Weights, deployment |-> Host, metrics |-> metrics,
                         statistics |-> statistics, evidence |-> evidence,
                         selfReported |-> selfReported, costKnown |-> costKnown]])

AskExecutions ==
  /\ Unasked
  /\ \E a, b \in Evaluated :
       /\ a.deployment = Host \/ b.model = Weights
       /\ Ask("executions", [a |-> a, b |-> b])

-----------------------------------------------------------------------------
(* Costs and compatibility *)

Tokens(input, output, cached, reasoning) ==
  [kind |-> "tokens", input |-> input, output |-> output, cached |-> cached,
   reasoning |-> reasoning]

AskCost ==
  /\ Unasked
  /\ \E pricing \in {[kind |-> "unknown"], [kind |-> "hardware", hourly |-> 7200],
                     Tokens(0, 0, Absent, Absent), Tokens(5, 15, Absent, Absent),
                     Tokens(5, 15, 1, 20), Tokens(4, 15, 4, Absent)},
        input, output \in {Absent, 0, 3, 10}, cached \in {Absent, 0, 2, 9},
        reasoning \in {Absent, 4}, hardware \in {Absent, 0, 1, 1801} :
       /\ pricing.kind = "hardware" \/ hardware = Absent
       /\ Ask("cost", [pricing |-> pricing, hardware |-> hardware,
                       usage |-> [input |-> input, output |-> output, cached |-> cached,
                                  reasoning |-> reasoning]])

AskTotal ==
  /\ Unasked
  /\ \E costs \in SeqOf({UnknownCost, Known(0), Known(5), Known(8)}, 3), attempted \in 0..4 :
       \E succeeded \in 0..attempted :
         Ask("total", [costs |-> costs, attempted |-> attempted, succeeded |-> succeeded])

MCFlags == {"vision", "tools"}
MCRegistered ==
  [capabilities : [MCFlags \union {"audio"} -> {"supported", "unsupported", "unknown"}],
   contextWindow : {Absent, 4, 8}, maxOutputTokens : {Absent, 2}]

AskAdmission ==
  /\ Unasked
  /\ \E one \in MCRegistered, flags \in SUBSET MCFlags, window, output \in {Absent, 2, 5},
        policy \in {"exclude", "include_flagged", "probe"} :
       /\ one.capabilities["audio"] = "unknown"
       /\ Ask("admission", [models |-> <<one, [one EXCEPT !.capabilities["vision"] = "supported"]>>,
                            requirements |-> RequirementsFrom(flags, window, output),
                            policy |-> policy])

\* Amounts of money: an answer is judged by what it says, whatever its notation; a token
\* is billed once, an unknown price is never a zero; a model is admitted when it may serve.
AccountsHold ==
  /\ question.kind = "answer" =>
       AnswersJudged(question.expected, question.actual, question.options)
  /\ question.kind = "cost" => BillsOnce(question.pricing, question.usage, question.hardware)
  /\ question.kind = "total" => TotalsHold(question.costs, question.attempted, question.succeeded)
  /\ question.kind = "admission" =>
       AdmissionSound(question.models, question.requirements, question.policy)

-----------------------------------------------------------------------------
(* Machines *)

Gpu(name, memory, driver) ==
  [name |-> name, computeCapability |-> "12.1", memory |-> memory, driver |-> driver]

MCSmi ==
  {NotInstalled @@ [rows |-> <<>>, metrics |-> <<>>], TimedOut @@ [rows |-> <<>>, metrics |-> <<>>]}
  \union
  {Exited(0, out) @@ [rows |-> rows, metrics |-> metrics] :
     out \in {"", "13.0"},
     rows \in {<<>>, <<Gpu("", "1", "5")>>, <<Gpu("GB10", "[N/A]", "5")>>,
              <<Gpu("Grace Blackwell", "1", "[N/A]"), Gpu("GB10", "1", "5")>>,
              <<Gpu("Grace Blackwell", "1", "")>>},
     metrics \in {<<>>, <<[utilization |-> "0", power |-> "[N/A]"]>>,
                 <<[utilization |-> "", power |-> "7"], [utilization |-> "9", power |-> "8"]>>}}

AskMachine ==
  /\ Unasked
  /\ \E smi \in MCSmi, arch \in {"arm64", "x64"}, platform \in {"linux", "darwin"},
        nvcc \in {NotInstalled, Exited(0, ""), Exited(0, "12.8")},
        docker \in {NotInstalled, Exited(1, ""), Exited(0, "27")},
        runtimes \in {{}, {"not JSON"}, {"runc", "nvidia"}},
        releases \in {<<"", "">>, <<"DGX", "Ubuntu">>, <<"", "Ubuntu">>}, contained \in BOOLEAN :
       Ask("machine", [machine |->
         [smi |-> smi, arch |-> arch, platform |-> platform, nvcc |-> nvcc, docker |-> docker,
          info |-> docker @@ [runtimes |-> runtimes], releases |-> releases,
          contained |-> contained]])

AskMemory ==
  /\ Unasked
  /\ \E parametersB \in {1, 2, 5, 8, 20, 40, 80, 150, 180}, precision \in DOMAIN BytesPerParam,
        context \in {0, 8, 128}, concurrency \in {1, 4}, available \in {1000, 24000, 128000, 600000},
        reserve \in {0, 10} :
       Ask("memory", [input |-> [parametersB |-> parametersB, precision |-> precision,
                                 context |-> context, concurrency |-> concurrency],
                      available |-> available, reserve |-> reserve])

\* Where a result comes from is told as it was: a passport's identities tell apart what
\* differs and nothing else, its claims are what its evidence carries, and a machine is
\* reported by what its tools answered, with room for the model that is said to fit.
OriginsHold ==
  /\ question.kind = "passport" =>
       /\ PassportHonest(question.input, question.other, "this", "this")
       /\ PassportHonest(question.input, question.other, "this", "another")
  /\ question.kind = "executions" => ExecutionsToldApart(question.a, question.b)
  /\ question.kind = "machine" => MachineReported(question.machine)
  /\ question.kind = "memory" => FitIsSafe(question.input, question.available, question.reserve)

-----------------------------------------------------------------------------
(* The second implementation *)

AskTree ==
  /\ Unasked
  /\ \E n \in (1..9) \union {16} : \E m \in 0..n : Ask("tree", [n |-> n, m |-> m])

Numbers ==
  [int : {<<0>>, <<1>>, <<1, 0>>, <<4, 2, 5>>}, frac : {<<>>, <<0>>, <<0, 5>>, <<2, 5>>, <<5, 0>>},
   exp : {-8, -6, -5, -1, 0, 1, 18, 20, 21}]

AskNumber ==
  /\ Unasked
  /\ \E number, other \in Numbers : Ask("number", [number |-> number, other |-> other])

CodePoints == {65, 255, 256, 55295, 57344, 65535, 65536, 66559, 66560, 1114111}

AskKeys ==
  /\ Unasked
  /\ \E a, b \in CodePoints : a # b /\ Ask("keys", [a |-> a, b |-> b])

AskCopy ==
  /\ Unasked
  /\ \E value \in Values : Ask("copy", [value |-> value])

\* verify.py and verify-local.ts, written apart from the server, accept and refuse what
\* it does: the same trees and proofs, the same number texts, the same order of keys.
ImplementationsAgree ==
  /\ question.kind = "tree" => VerifiersAgree(question.n, question.m)
  /\ question.kind = "number" => NumberLaidOut(question.number, question.other)
  /\ question.kind = "keys" => KeysOrdered(question.a, question.b)
  /\ question.kind = "copy" => LocalTextAgrees(question.value)

-----------------------------------------------------------------------------

DecisionsInit == question = [kind |-> "none"]
DecisionsNext ==
  \/ AskRetention
  \/ AskEstimators
  \/ AskTasks
  \/ AskInterval
  \/ AskExact
  \/ AskPair
  \/ AskRanking
  \/ AskComposite
  \/ AskAnswer
  \/ AskSignature
  \/ AskManifests
  \/ AskTrajectory
  \/ AskMetrics
  \/ AskRequest
  \/ AskResponse
  \/ AskConnection
  \/ AskPassport
  \/ AskExecutions
  \/ AskCost
  \/ AskTotal
  \/ AskAdmission
  \/ AskMachine
  \/ AskMemory
  \/ AskTree
  \/ AskNumber
  \/ AskKeys
  \/ AskCopy
DecisionsSpec == DecisionsInit /\ [][DecisionsNext]_question
=============================================================================
