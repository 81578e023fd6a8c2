------------------------------- MODULE Hosts --------------------------------
(***************************************************************************)
(* What the server says of the machine it runs on: probes that may find    *)
(* nothing (system/probe.ts), the capabilities drawn from them             *)
(* (system/capabilities.ts), the memory a model needs (system/memory.ts)   *)
(* and the answers of api/routes/system.ts.                                *)
(*                                                                         *)
(* A command's result is a record of how it ended and what it printed, by  *)
(* what the parsers look for.  Sizes are in MiB.                           *)
(***************************************************************************)
EXTENDS Integers, Sequences, SequencesExt, FiniteSets, TLC

-----------------------------------------------------------------------------
(* Probes *)

Ok(value) == [status |-> "ok", value |-> value]
Unavailable == [status |-> "unavailable"]
Unknown == [status |-> "unknown"]
IsOk(probe) == probe.status = "ok"

\* A command that is missing or never answers, one that ends with a code, and its output.
NotInstalled == [ended |-> "missing"]
TimedOut == [ended |-> "exited", code |-> 1, out |-> ""]   \* killed: no ETIMEDOUT code
Exited(code, out) == [ended |-> "exited", code |-> code, out |-> out]
Succeeded(result) == result.ended = "exited" /\ result.code = 0

\* Output that the parser does not recognise ("") is unknown rather than unavailable.
ProbeCommand(result) ==
  CASE ~Succeeded(result) -> Unavailable
    [] Succeeded(result) /\ result.out = "" -> Unknown
    [] OTHER -> Ok(result.out)

-----------------------------------------------------------------------------
(* Detection *)

\* A field of a CSV row: what it holds, "" and "[N/A]" as they are printed.
Printed(field) == field \notin {"", "[N/A]"}

\* Rows [name, computeCapability, memory, driver]; a row without a name is skipped.
ProbeGpus(smi) ==
  LET named == SelectSeq(smi.rows, LAMBDA row : row.name # "")
  IN  IF ~Succeeded(smi) \/ named = <<>> THEN Unavailable
      ELSE Ok([i \in DOMAIN named |->
                {<<f, named[i][f]>> : f \in {g \in {"name", "computeCapability", "memory", "driver"} :
                                               Printed(named[i][g])}}])

\* Seeded fault: a metric that the driver does not give is read as a zero.
MetricZeroed(field) == IF Printed(field) THEN <<field>> ELSE <<"0">>

\* Number(field) where it is one; Number("") is 0, and "[N/A]" is none.
Metric(field) ==
  CASE field = "[N/A]" -> <<>>
    [] field = "" -> <<"0">>
    [] OTHER -> <<field>>

ProbeGpuTelemetry(smi) ==
  IF ~Succeeded(smi) \/ smi.metrics = <<>> THEN Unavailable
  ELSE Ok([i \in DOMAIN smi.metrics |->
            [metric \in DOMAIN smi.metrics[i] |-> Metric(smi.metrics[i][metric])]])

\* The toolkit's own version, or else the driver's maximum, and labelled as one.
ProbeCuda(nvcc, smi) ==
  LET toolkit == ProbeCommand(nvcc)
      driver == ProbeCommand(smi)
  IN  CASE IsOk(toolkit) -> Ok([version |-> toolkit.value, toolkit |-> TRUE])
        [] ~IsOk(toolkit) /\ IsOk(driver) -> Ok([version |-> driver.value, toolkit |-> FALSE])
        [] OTHER -> Unavailable

ProbeDocker(docker) == ProbeCommand(docker)

\* docker info: the names of its runtimes, or something that is not JSON.
ProbeNvidiaRuntime(info) ==
  CASE ~Succeeded(info) -> Unavailable
    [] Succeeded(info) /\ info.runtimes = {"not JSON"} -> Unknown
    [] OTHER -> IF "nvidia" \in info.runtimes THEN Ok(TRUE) ELSE Unavailable

\* The first release file that names a system; "" for one that is absent or empty.
ProbeOs(files) ==
  LET named == SelectSeq(files, LAMBDA name : name # "")
  IN  IF named = <<>> THEN Unavailable ELSE Ok(Head(named))

\* GB10 on an arm64 Linux, or Grace Blackwell where the system calls itself DGX too.
IdentifyDgxSpark(isArm64, isLinux, gpuNames, osName) ==
  CASE /\ isArm64 /\ isLinux
       /\ "GB10" \in gpuNames \/ ("Grace Blackwell" \in gpuNames /\ osName = "DGX") -> "dgx-spark"
    [] /\ isLinux
       /\ ~(isArm64 /\ ("GB10" \in gpuNames
                        \/ ("Grace Blackwell" \in gpuNames /\ osName = "DGX"))) -> "server"
    [] OTHER -> "local"

Reading(probe, default) == IF IsOk(probe) THEN probe.value ELSE default

FieldsOf(gpu, name) == {pair[2] : pair \in {p \in gpu : p[1] = name}}

DetectCapabilities(machine) ==
  LET gpu == ProbeGpus(machine.smi)
      os == ProbeOs(machine.releases)
      gpus == Reading(gpu, <<>>)
      names == UNION {FieldsOf(gpus[i], "name") : i \in DOMAIN gpus}
      drivers == {i \in DOMAIN gpus : FieldsOf(gpus[i], "driver") # {}}
      target == IdentifyDgxSpark(machine.arch = "arm64", machine.platform = "linux", names,
                                 Reading(os, ""))
  IN  [platform |-> machine.platform, architecture |-> machine.arch, gpu |-> gpu,
       unified |-> IF target = "dgx-spark" THEN Ok(TRUE) ELSE Unknown,
       cuda |-> ProbeCuda(machine.nvcc, machine.smi),
       driver |-> IF drivers = {} THEN Unavailable
                  ELSE Ok(FieldsOf(gpus[CHOOSE i \in drivers : \A j \in drivers : i <= j], "driver")),
       docker |-> ProbeDocker(machine.docker), os |-> os,
       nvidiaContainerRuntime |-> ProbeNvidiaRuntime(machine.info),
       detected |-> target = "dgx-spark",
       target |-> IF machine.contained /\ target # "dgx-spark" THEN "docker" ELSE target]

\* What a run's manifest says of the machine: only what was measured.
ToEnvironmentRecord(caps) ==
  LET gpus == Reading(caps.gpu, <<>>)
      First(field) == IF gpus = <<>> THEN {} ELSE FieldsOf(gpus[1], field)
  IN  [platform |-> caps.platform, architecture |-> caps.architecture,
       os |-> IF IsOk(caps.os) THEN {caps.os.value} ELSE {},
       gpuName |-> First("name"), gpuComputeCapability |-> First("computeCapability"),
       gpuCount |-> IF IsOk(caps.gpu) THEN {Len(gpus)} ELSE {},
       cudaVersion |-> IF IsOk(caps.cuda) THEN {caps.cuda.value} ELSE {},
       driverVersion |-> IF IsOk(caps.driver) THEN caps.driver.value ELSE {},
       deploymentTarget |-> caps.target, dgxSpark |-> caps.detected]

\* GET /v1/system/health: the components that did not answer.
Degraded(caps) ==
  {component \in {"gpu", "cuda", "driver", "docker", "nvidiaContainerRuntime", "os"} :
     ~IsOk(caps[component])}

-----------------------------------------------------------------------------
(* Memory *)

\* Ten times the bytes a parameter takes.
BytesPerParam ==
  [fp32 |-> 40, fp16 |-> 20, bf16 |-> 20, fp8 |-> 10, int8 |-> 10, nvfp4 |-> 6, mxfp4 |-> 6,
   int4 |-> 6]

InferGeometry(parametersB) ==
  LET Shape(layers, hiddenSize, kvHeads) ==
        [layers |-> layers, hiddenSize |-> hiddenSize, kvHeads |-> kvHeads]
  IN  CASE parametersB <= 2 -> Shape(24, 2048, 4)
        [] 2 < parametersB /\ parametersB <= 5 -> Shape(32, 3072, 8)
        [] 5 < parametersB /\ parametersB <= 10 -> Shape(32, 4096, 8)
        [] 10 < parametersB /\ parametersB <= 20 -> Shape(48, 6144, 8)
        [] 20 < parametersB /\ parametersB <= 40 -> Shape(60, 8192, 8)
        [] 40 < parametersB /\ parametersB <= 80 -> Shape(80, 8192, 8)
        [] 80 < parametersB /\ parametersB <= 150 -> Shape(96, 12288, 8)
        [] OTHER -> Shape(126, 16384, 8)

Greater(a, b) == IF a >= b THEN a ELSE b

\* Parameters in billions, the context in units of 1024 tokens; the parts are rounded.
EstimateModelMemory(input) ==
  LET shape == InferGeometry(input.parametersB)
      heads == Greater(shape.kvHeads, shape.hiddenSize \div 128)
      weights == (input.parametersB * BytesPerParam[input.precision] * 95367) \div 1000
      kvCache == (shape.layers * shape.kvHeads * (shape.hiddenSize \div heads)
                  * input.context * input.concurrency) \div 256
      overhead == Greater(1536, (12 * (weights + kvCache)) \div 100)
  IN  [weights |-> weights, kvCache |-> kvCache, overhead |-> overhead,
       total |-> weights + kvCache + overhead]

CheckModelFits(estimate, available, reservePercent) ==
  estimate.total * 100 <= available * (100 - reservePercent)

-----------------------------------------------------------------------------
(* What is said of a machine *)

\* The machine as it would answer without one of its tools.
Without(machine, tool) ==
  CASE tool = "smi" -> [machine EXCEPT !.smi = NotInstalled @@ [rows |-> <<>>, metrics |-> <<>>]]
    [] tool = "nvcc" -> [machine EXCEPT !.nvcc = NotInstalled]
    [] tool = "docker" -> [machine EXCEPT !.docker = NotInstalled, !.info = NotInstalled]
    [] tool = "releases" -> [machine EXCEPT !.releases = <<"", "">>]

\* Nothing is claimed that no tool reported: a machine that loses a tool claims no more of
\* its parts, is degraded in no fewer, and never turns into a Spark; a metric that was not
\* given is left out rather than zero; unified memory and a Spark stand or fall together;
\* and the record of a run holds nothing that a probe did not answer.
MachineReported(machine) ==
  LET caps == DetectCapabilities(machine)
      record == ToEnvironmentRecord(caps)
      telemetry == ProbeGpuTelemetry(machine.smi)
  IN  /\ \A tool \in {"smi", "nvcc", "docker", "releases"} :
           LET less == DetectCapabilities(Without(machine, tool))
           IN  /\ Degraded(caps) \subseteq Degraded(less)
               /\ less.detected => caps.detected
               /\ \A part \in {"gpu", "driver", "docker", "nvidiaContainerRuntime", "os"} :
                    IsOk(less[part]) => less[part] = caps[part]
               /\ IsOk(less.cuda) /\ less.cuda.value.toolkit => less.cuda = caps.cuda
      /\ IsOk(caps.unified) <=> caps.detected
      /\ caps.detected => /\ machine.arch = "arm64" /\ machine.platform = "linux"
                          /\ Succeeded(machine.smi)
      /\ record.gpuName # {} => "gpu" \notin Degraded(caps) /\ record.gpuCount # {0}
      /\ IsOk(telemetry) => \A i \in DOMAIN telemetry.value :
           \A metric \in DOMAIN telemetry.value[i] :
             /\ machine.smi.metrics[i][metric] = "[N/A]" => telemetry.value[i][metric] = <<>>
             /\ Printed(machine.smi.metrics[i][metric]) =>
                  telemetry.value[i][metric] = <<machine.smi.metrics[i][metric]>>

\* A larger request never needs less memory, a model that fits keeps its reserve free, and
\* one that fits still fits where there is more room.
FitIsSafe(input, available, reservePercent) ==
  LET estimate == EstimateModelMemory(input)
      More(field) == EstimateModelMemory([input EXCEPT ![field] = @ + 1])
      fits == CheckModelFits(estimate, available, reservePercent)
  IN  /\ \A field \in {"parametersB", "context", "concurrency"} :
           More(field).total >= estimate.total
      /\ fits => /\ available - estimate.total >= (available * reservePercent) \div 100
                 /\ CheckModelFits(estimate, available + 1, reservePercent)
      /\ ~fits => \A more \in 0..5 :
           ~CheckModelFits(EstimateModelMemory([input EXCEPT !.context = @ + more]), available,
                           reservePercent)

=============================================================================
