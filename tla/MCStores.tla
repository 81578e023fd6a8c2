------------------------------ MODULE MCStores ------------------------------
(***************************************************************************)
(* The parts of the server beside the run, its log and its evidence, for   *)
(* TLC: the stores the tenants share and the services the routes call.     *)
(* They share no state with each other, so a behaviour runs one of them    *)
(* while every other is as it began.                                       *)
(***************************************************************************)
EXTENDS Trials, Approvals, TaskSets, Blobs, Gate, Registry, Credentials, Robustness,
        Providers, Settings, Pages

MCContexts ==
  [tool: {"browser", "shell"}, action: {"read", "delete", "deploy"},
   domain: {Absent, "listed", "unlisted"}, tokensUsed: {0, 1}, costIncurred: {0},
   budgetTokens: {0, Absent}, maxCost: {0, Absent}, callCost: {1, Absent}]

MCTask(applies, reference) == [applies |-> applies, reference |-> reference]

\* One task or two, to which some probes do not apply; budgets that run out in the
\* middle of a task, and one that lasts.
MCOptions ==
  [tasks : {<<>>, <<MCTask({"c1", "c2", "p1"}, TRUE)>>,
            <<MCTask({"c1"}, FALSE), MCTask({"c2", "p1"}, TRUE)>>},
   canaries : {<<"c1", "c2">>}, perturbations : {<<"p1">>}, repeats : {2},
   determinismSamples : {2}, rewardThreshold : {<<0, 1>>}, maxGraderCalls : {3, 9, 20},
   fuzz : {Nothing, [maxGraderCallsPerTask |-> 4, maxStepsPerSeed |-> 2, mutators |-> 2]},
   oracle : BOOLEAN]

\* The assessment that the steps of the other services leave alone.
Quiet == CHOOSE given \in Options : TRUE

\* The part that takes the steps of this behaviour.
VARIABLE part

Parts ==
  {"trials", "approvals", "tasks", "blobs", "gate", "registry", "credentials", "robustness",
   "call", "console", "settings", "pages", "keys"}

\* Requests are interchangeable, and so are keys: they come in the order of their
\* numbers.  The tenants are too: the first request is of the same one always.
InOrder ==
  /\ \A q \in Requests :
       requests'[q].at = "in" /\ (\A r \in Requests : q <= r) =>
         requests'[q].tenant = CHOOSE one \in Tenants : TRUE
  /\ \A q, r \in Requests : q < r /\ requests[q].at = "idle" => requests'[r].at = "idle"
  /\ \A k, l \in KeyIds : k < l /\ keys[k] = NoKey => keys'[l] = NoKey

\* Calls of createTask are interchangeable too, and so are sets: one that is created with
\* ids is enough beside one that starts empty.  A split is only ever hashed.
TasksInOrder ==
  /\ \A c, d \in Creates : c < d /\ creates[c].at = "idle" => creates'[d].at = "idle"
  /\ \A s \in SetIds :
       /\ startedWith'[s] # <<>> => s = CHOOSE one \in SetIds : TRUE
       /\ taskSets'[s] # NoSet => taskSets'[s].split = CHOOSE one \in Splits : TRUE

\* The registry is kept by tenant, so one tenant's models show every case.
OneTenant ==
  \A t \in Tenants, m \in ModelIds :
    revisions'[t][m] # <<>> => t = CHOOSE one \in Tenants : TRUE

StoresInit ==
  /\ part \in Parts
  /\ TrialsInit
  /\ ApprovalsInit
  /\ TaskSetsInit
  /\ BlobsInit
  /\ GateInit
  /\ RegistryInit
  /\ CredentialsInit
  /\ RobustnessInit
  /\ ProvidersInit
  /\ ConsoleInit
  /\ SettingsInit
  /\ PagesInit
  /\ SigningKeysInit
  /\ part # "robustness" => options = Quiet
  /\ part # "pages" => listing = "audit"

StoresNext ==
  \/ /\ part = "trials" /\ TrialsNext
     /\ UNCHANGED <<part, approvalVars, taskVars, blobVars, gateVars, registryVars,
                    credentialVars, robustnessVars, providersVars, consoleVars,
                    settingsVars, pageVars, keyVars>>
  \/ /\ part = "approvals" /\ ApprovalsNext
     /\ UNCHANGED <<part, trialVars, taskVars, blobVars, gateVars, registryVars,
                    credentialVars, robustnessVars, providersVars, consoleVars,
                    settingsVars, pageVars, keyVars>>
  \/ /\ part = "tasks" /\ TaskSetsNext /\ TasksInOrder
     /\ UNCHANGED <<part, trialVars, approvalVars, blobVars, gateVars, registryVars,
                    credentialVars, robustnessVars, providersVars, consoleVars,
                    settingsVars, pageVars, keyVars>>
  \/ /\ part = "blobs" /\ BlobsNext
     /\ UNCHANGED <<part, trialVars, approvalVars, taskVars, gateVars, registryVars,
                    credentialVars, robustnessVars, providersVars, consoleVars,
                    settingsVars, pageVars, keyVars>>
  \/ /\ part = "gate" /\ GateNext
     /\ UNCHANGED <<part, trialVars, approvalVars, taskVars, blobVars, registryVars,
                    credentialVars, robustnessVars, providersVars, consoleVars,
                    settingsVars, pageVars, keyVars>>
  \/ /\ part = "registry" /\ RegistryNext /\ OneTenant
     /\ UNCHANGED <<part, trialVars, approvalVars, taskVars, blobVars, gateVars,
                    credentialVars, robustnessVars, providersVars, consoleVars,
                    settingsVars, pageVars, keyVars>>
  \/ /\ part = "credentials" /\ CredentialsNext /\ InOrder
     /\ UNCHANGED <<part, trialVars, approvalVars, taskVars, blobVars, gateVars,
                    registryVars, robustnessVars, providersVars, consoleVars,
                    settingsVars, pageVars, keyVars>>
  \/ /\ part = "robustness" /\ RobustnessNext
     /\ UNCHANGED <<part, trialVars, approvalVars, taskVars, blobVars, gateVars,
                    registryVars, credentialVars, providersVars, consoleVars,
                    settingsVars, pageVars, keyVars>>
  \/ /\ part = "call" /\ ProvidersNext
     /\ UNCHANGED <<part, trialVars, approvalVars, taskVars, blobVars, gateVars,
                    registryVars, credentialVars, robustnessVars, consoleVars,
                    settingsVars, pageVars, keyVars>>
  \/ /\ part = "console" /\ ConsoleNext
     /\ UNCHANGED <<part, trialVars, approvalVars, taskVars, blobVars, gateVars,
                    registryVars, credentialVars, robustnessVars, providersVars,
                    settingsVars, pageVars, keyVars>>
  \/ /\ part = "settings" /\ SettingsNext
     /\ UNCHANGED <<part, trialVars, approvalVars, taskVars, blobVars, gateVars,
                    registryVars, credentialVars, robustnessVars, providersVars,
                    consoleVars, pageVars, keyVars>>
  \/ /\ part = "pages" /\ PagesNext
     /\ UNCHANGED <<part, trialVars, approvalVars, taskVars, blobVars, gateVars,
                    registryVars, credentialVars, robustnessVars, providersVars,
                    consoleVars, settingsVars, keyVars>>
  \/ /\ part = "keys" /\ SigningKeysNext
     /\ UNCHANGED <<part, trialVars, approvalVars, taskVars, blobVars, gateVars,
                    registryVars, credentialVars, robustnessVars, providersVars,
                    consoleVars, settingsVars, pageVars>>

storesVars ==
  <<part, trialVars, approvalVars, taskVars, blobVars, gateVars, registryVars,
    credentialVars, robustnessVars, providersVars, consoleVars, settingsVars,
    pageVars, keyVars>>

StoresSpec == StoresInit /\ [][StoresNext]_storesVars /\ ProvidersFairness
=============================================================================
