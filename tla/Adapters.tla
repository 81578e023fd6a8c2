------------------------------ MODULE Adapters ------------------------------
(***************************************************************************)
(* The adapters of providers/openai-compatible.ts, anthropic.ts, google.ts *)
(* and ollama.ts, and the configuration of providers/registry.ts.          *)
(*                                                                         *)
(* A message is [role, text, parts, image, calls, answers]: parts says     *)
(* that its content was a list, of one text and maybe an image; a tool     *)
(* call is [id, name], and answers the id of the call a tool answers.      *)
(***************************************************************************)
EXTENDS Naturals, Sequences

CONSTANT Unset   \* a value that is not given

Adapters == {"openai", "anthropic", "google", "ollama"}

-----------------------------------------------------------------------------
(* What is sent *)

\* The system texts that go in a field of their own; one given in parts is not read.
InlineSystem(messages) == SelectSeq(messages, LAMBDA m : m.role = "system" /\ ~m.parts)

Wire(role, text, image, calls, answers) ==
  [role |-> role, text |-> text, image |-> image, calls |-> calls, answers |-> answers]

Names(calls) == [i \in DOMAIN calls |-> [id |-> Unset, name |-> calls[i].name]]

ToWireOpenAI(m) ==
  CASE m.role = "tool" -> Wire("tool", m.text, FALSE, <<>>, m.answers)
    [] m.role # "tool" /\ m.calls # <<>> -> Wire("assistant", m.text, FALSE, m.calls, Unset)
    [] OTHER -> Wire(m.role, m.text, m.parts /\ m.image, <<>>, Unset)

\* A tool's answer in parts is sent as the text of the JSON of its parts.
ToBlocks(m) ==
  IF m.role = "tool"
  THEN Wire("user", IF m.parts THEN [json |-> <<m.text, m.image>>] ELSE m.text, FALSE, <<>>,
            m.answers)
  ELSE Wire(m.role, m.text, m.parts /\ m.image, m.calls, Unset)

\* Calls are sent without their ids, and a tool's answer as the user's words.
ToParts(m) ==
  Wire(IF m.role = "assistant" THEN "model" ELSE "user", m.text, m.parts /\ m.image,
       Names(m.calls), Unset)

\* Neither the calls nor what a tool answers to is sent.
ToWireOllama(m) == Wire(m.role, m.text, m.parts /\ m.image, <<>>, Unset)

ToWire(adapter, m) ==
  CASE adapter = "openai" -> ToWireOpenAI(m)
    [] adapter = "anthropic" -> ToBlocks(m)
    [] adapter = "google" -> ToParts(m)
    [] adapter = "ollama" -> ToWireOllama(m)

\* The system texts, and the messages of the conversation.
ToWireMessages(adapter, request) ==
  LET given == IF request.system = "" THEN <<>> ELSE <<request.system>>
      conversation == SelectSeq(request.messages, LAMBDA m : m.role # "system")
      kept == IF adapter \in {"anthropic", "google"} THEN InlineSystem(request.messages)
              ELSE SelectSeq(request.messages, LAMBDA m : m.role = "system")
  IN  [system |-> given \o [i \in DOMAIN kept |-> kept[i].text],
       messages |-> [i \in DOMAIN conversation |-> ToWire(adapter, conversation[i])]]

\* The parameters that are sent of those that are given; the Messages API wants a limit.
ParametersSent(adapter, given) ==
  LET read == CASE adapter = "openai" -> {"temperature", "topP", "maxTokens", "stop", "json",
                                          "tools", "toolChoice"}
                [] adapter = "anthropic" -> {"temperature", "topP", "maxTokens", "stop",
                                             "tools", "toolChoice"}
                [] OTHER -> {"temperature", "topP", "maxTokens", "stop", "json", "tools"}
      sent == given \intersect read
  IN  (IF "tools" \in sent THEN sent ELSE sent \ {"toolChoice"})
        \union IF adapter = "anthropic" THEN {"maxTokens"} ELSE {}

-----------------------------------------------------------------------------
(* What comes back *)

\* Seeded fault: a provider's name for a length stop is passed by.
MapFinishReasonRaw(adapter, raw) ==
  IF raw \in {Unset, "stop", "end_turn", "STOP"} THEN "stop" ELSE "unknown"

\* Each provider's own words for why it stopped.
MapFinishReason(adapter, raw) ==
  CASE adapter = "openai" ->
         CASE raw = Unset -> "stop"
           [] raw \in {"stop", "length", "tool_calls", "content_filter"} -> raw
           [] raw = "function_call" -> "tool_calls"
           [] OTHER -> "unknown"
    [] adapter = "anthropic" ->
         CASE raw \in {Unset, "end_turn", "stop_sequence"} -> "stop"
           [] raw = "max_tokens" -> "length"
           [] raw = "tool_use" -> "tool_calls"
           [] raw = "refusal" -> "content_filter"
           [] OTHER -> "unknown"
    [] adapter = "google" ->
         CASE raw \in {Unset, "STOP"} -> "stop"
           [] raw = "MAX_TOKENS" -> "length"
           [] raw \in {"SAFETY", "PROHIBITED_CONTENT"} -> "content_filter"
           [] OTHER -> "unknown"
    [] adapter = "ollama" ->
         CASE raw \in {Unset, "stop"} -> "stop" [] raw = "length" -> "length"
           [] OTHER -> "unknown"

\* Input, output and total tokens, each if the provider counted it.
UsageOf(adapter, wire) ==
  [input |-> wire.input, output |-> wire.output,
   total |-> IF adapter \in {"openai", "google"} THEN wire.total
             ELSE IF wire.input = Unset \/ wire.output = Unset THEN Unset
             ELSE wire.input + wire.output]

\* Google and Ollama give calls no ids: they are numbered within the answer.
ToolCalls(adapter, wire) ==
  IF adapter \in {"openai", "anthropic"} THEN wire.calls
  ELSE [i \in DOMAIN wire.calls |-> [id |-> <<adapter, i - 1>>, name |-> wire.calls[i].name]]

\* The normalized response of generate().
Generate(adapter, wire) ==
  [text |-> wire.text, toolCalls |-> ToolCalls(adapter, wire), usage |-> UsageOf(adapter, wire),
   finishReason |-> IF adapter \in {"google", "ollama"} /\ wire.calls # <<>> THEN "tool_calls"
                    ELSE MapFinishReason(adapter, wire.reason)]

-----------------------------------------------------------------------------
(* Configuration *)

\* The key and address a call uses: an override before the environment.
ResolveConfig(environment, overrides) ==
  [apiKey |-> IF overrides.apiKey # Unset THEN overrides.apiKey ELSE environment.apiKey,
   baseUrl |-> IF overrides.baseUrl # Unset THEN overrides.baseUrl ELSE environment.baseUrl]

\* What describe() says of a provider's credential.
CredentialConfigured(requiresApiKey, environment) ==
  ~requiresApiKey \/ ResolveConfig(environment, [apiKey |-> Unset, baseUrl |-> Unset]).apiKey # Unset

\* Every call of an adapter but Ollama's needs a key, whatever its capabilities say.
HeadersMade(adapter, config) == adapter = "ollama" \/ config.apiKey # Unset

\* testConnection, given what listing the models came to.
TestConnection(adapter, config, listed) ==
  IF ~HeadersMade(adapter, config) THEN "not_configured"
  ELSE CASE listed = "data" -> "connected"
         [] listed = "AUTHENTICATION_ERROR" /\ adapter # "ollama" -> "authentication_failed"
         [] listed = "AUTHORIZATION_ERROR" /\ adapter = "google" -> "authentication_failed"
         [] listed \in {"NETWORK_ERROR", "TIMEOUT"} -> "unavailable"
         [] OTHER -> "error"

-----------------------------------------------------------------------------
(* What the adapters promise *)

\* External: how each provider words one answer.
WireAnswer(adapter, answer) ==
  [text |-> answer.text, calls |-> answer.calls, input |-> answer.input,
   output |-> answer.output,
   total |-> IF answer.input = Unset \/ answer.output = Unset THEN Unset
             ELSE answer.input + answer.output,
   reason |->
     CASE adapter = "openai" -> IF answer.calls # <<>> THEN "tool_calls"
                                ELSE IF answer.cut THEN "length" ELSE "stop"
       [] adapter = "anthropic" -> IF answer.calls # <<>> THEN "tool_use"
                                   ELSE IF answer.cut THEN "max_tokens" ELSE "end_turn"
       [] adapter = "google" -> IF answer.calls = <<>> /\ answer.cut THEN "MAX_TOKENS"
                                ELSE "STOP"
       [] adapter = "ollama" -> IF answer.calls = <<>> /\ answer.cut THEN "length"
                                ELSE "stop"]

\* One answer is one response whichever provider gives it: its text, its tool calls by
\* name and told apart by id, why it stopped, and the tokens, those not counted staying
\* uncounted.
AnswersAgree(answer) ==
  \A adapter \in Adapters :
    LET response == Generate(adapter, WireAnswer(adapter, answer))
    IN  /\ response.text = answer.text
        /\ Names(response.toolCalls) = Names(answer.calls)
        /\ \A i, j \in DOMAIN response.toolCalls :
             response.toolCalls[i].id = response.toolCalls[j].id => i = j
        /\ response.finishReason = (IF answer.calls # <<>> THEN "tool_calls"
                                    ELSE IF answer.cut THEN "length" ELSE "stop")
        /\ response.usage.input = answer.input /\ response.usage.output = answer.output
        /\ response.usage.total # Unset =>
             response.usage.total = answer.input + answer.output

\* Every adapter sends every text of the conversation in order, images and all but for
\* openai's messages with tool calls and tools' answers, every system text that is a
\* string, and the parameters given and no other but a limit; an adapter that sends a
\* tool's answer as such names the call it sent.
RequestsAgree(request) ==
  LET conversation == SelectSeq(request.messages, LAMBDA m : m.role # "system")
      plain == \A i \in DOMAIN request.messages :
                 request.messages[i].role = "system" => ~request.messages[i].parts
  IN  \A adapter \in Adapters :
        LET sent == ToWireMessages(adapter, request)
        IN  /\ Len(sent.messages) = Len(conversation)
            /\ \A i \in DOMAIN conversation :
                 LET m == conversation[i]
                 IN  /\ ~(m.role = "tool" /\ m.parts) => sent.messages[i].text = m.text
                     /\ m.role # "tool" /\ m.calls = <<>> =>
                          sent.messages[i].image = (m.parts /\ m.image)
                     /\ sent.messages[i].answers # Unset =>
                          sent.messages[i].answers = m.answers
            /\ LET parameters == ParametersSent(adapter, request.given)
               IN  /\ request.given \ {"json", "toolChoice"} \subseteq parameters
                   /\ parameters \subseteq request.given \union {"maxTokens"}
                   /\ "toolChoice" \in parameters => "tools" \in parameters
            /\ plain => sent.system = ToWireMessages("openai", request).system
            /\ adapter \in {"openai", "anthropic"} =>
                 \A i \in DOMAIN conversation : conversation[i].role = "tool" =>
                   \A j \in 1..i : \A k \in DOMAIN conversation[j].calls :
                     conversation[j].calls[k].id = conversation[i].answers =>
                       \E l \in DOMAIN sent.messages[j].calls :
                         sent.messages[j].calls[l].id = sent.messages[i].answers

\* A provider is called connected only when it listed its models, and unconfigured
\* exactly when a call would not be sent for want of a key; a provider that needs a key
\* and that the catalogue calls configured never tests as unconfigured.
ConnectionTold(adapter, environment, overrides, listed) ==
  LET config == ResolveConfig(environment, overrides)
      status == TestConnection(adapter, config, listed)
  IN  /\ status = "connected" => listed = "data" /\ HeadersMade(adapter, config)
      /\ status = "not_configured" <=> ~HeadersMade(adapter, config)
      /\ CredentialConfigured(adapter # "ollama", environment) => status # "not_configured"

=============================================================================
