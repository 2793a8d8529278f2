----------------------------- MODULE ToolContract -----------------------------
(***************************************************************************)
(* Tool calling across providers, as functions: what the policy accepts    *)
(* (domain/chat_tool_policy.py, the emulated half of request_policy.py),   *)
(* how a Responses conversation becomes a chat one                         *)
(* (infrastructure/llm/responses_emulation.py), and what the translating   *)
(* adapters put on the wire.                                               *)
(*                                                                         *)
(* A request is a record with the following fields (a subset of them here):*)
(*   feats    what it asks for, a subset of                                *)
(*     "tools"    a non-empty list of function tools                       *)
(*     "many" "badname" "rich" "strict"   over the limits, a name that the *)
(*                provider's pattern refuses, a schema beyond the common   *)
(*                subset, strict = true                                    *)
(*     "named" "dangling" "none"   tool_choice: a declared tool, an unknown*)
(*                one, no tool at all                                      *)
(*     "serial"   parallel_tool_calls = false                              *)
(*     "json" "schema"   structured output                                 *)
(*     "image"    content that is not text                                 *)
(*     "state" "hosted"  fields and tools that bind provider-side state    *)
(*     "control"  an SDK control argument                                  *)
(*   conv     the conversation: chat messages, or Responses items          *)
(*   stream   what the `stream' field says                                 *)
(* A model m is [provider, family]; a call is [id, name, sig], where `sig' *)
(* says that the id carries a thought signature.                           *)
(***************************************************************************)
EXTENDS Naturals, FiniteSets, Sequences, SequencesExt

CONSTANTS Declared      \* the tool names a request's tools list declares

Call(i, n, s) == [id |-> i, name |-> n, sig |-> s]

Nothing == Call(0, "none", FALSE)

\* A chat message; `call' is the call a tool message answers.
Message(role, calls, call) == [role |-> role, calls |-> calls, call |-> call]

\* A Responses item: "message", "function_call" or "function_call_output".
Item(type, call) == [type |-> type, call |-> call]

Ids(calls) == [j \in DOMAIN calls |-> calls[j].id]

Distinct(s) == Cardinality(ToSet(s)) = Len(s)

\* What each provider's path does with a request.
Translated == {"anthropic", "vertex", "bedrock"}      \* _TRANSLATED_CHAT_PROVIDERS

StreamsTools == {"anthropic"}                         \* _STREAMING_TOOL_TRANSLATED_PROVIDERS

EmulatedTools == {"databricks", "anthropic", "bedrock", "vertex"}

StreamsResponsesTools == {"databricks", "anthropic"}

vertex_supports_tools(m) == m.family \in {"gemini2", "gemini3"}

bedrock_supports_tools(m) == m.family \in {"claude3", "nova"}

SupportsTools(m) ==
    /\ m.provider = "vertex" => vertex_supports_tools(m)
    /\ m.provider = "bedrock" => bedrock_supports_tools(m)

(***************************************************************************)
(* The declared tools, the choice, the rest of the chat request.           *)
(***************************************************************************)
ToolFields == {"tools", "named", "dangling", "none", "serial"}

_has_tool_contract(r) ==
    \/ r.feats \cap ToolFields # {}
    \/ \E j \in DOMAIN r.conv : r.conv[j].role = "tool" \/ r.conv[j].calls # <<>>

_validate_vertex_schema_node(r) == "rich" \notin r.feats

validate_bedrock_tool_schema(m, r) == m.family = "nova" => "rich" \notin r.feats

_validate_tools(m, r) ==
    /\ "tools" \in r.feats
    /\ r.feats \cap {"many", "badname", "hosted"} = {}
    /\ m.provider = "bedrock" => validate_bedrock_tool_schema(m, r)
    /\ m.provider = "vertex" => _validate_vertex_schema_node(r)
    /\ m.provider \in {"bedrock", "vertex"} => "strict" \notin r.feats

_validate_tool_choice(m, r) ==
    /\ "dangling" \notin r.feats
    /\ m.provider = "bedrock" => "none" \notin r.feats
    /\ m.provider \in {"bedrock", "vertex"} => "serial" \notin r.feats

_validate_messages(r) == "image" \notin r.feats

\* json_schema is parsed, checked and then refused: nothing is enabled yet.
validate_bedrock_response_format(m, r) == m.provider = "bedrock" => "schema" \notin r.feats

(***************************************************************************)
(* _validate_tool_replay: calls are answered before anything else is said, *)
(* each once; Gemini wants the answers in order, a signature only on the   *)
(* first call of a group, and Gemini 3 wants it there.                     *)
(***************************************************************************)
Signed(m, calls) ==
    m.provider = "vertex" =>
        /\ \A j \in DOMAIN calls : calls[j].sig => j = 1
        /\ m.family = "gemini3" => calls[1].sig

ReplayStep(s, x, m) ==
    IF ~s.ok THEN s
    ELSE IF x.calls # <<>>
    THEN [ok   |-> /\ s.open = <<>>
                   /\ Distinct(Ids(x.calls))
                   /\ ToSet(Ids(x.calls)) \cap s.seen = {}
                   /\ \A j \in DOMAIN x.calls : x.calls[j].name \in Declared
                   /\ Signed(m, x.calls),
          open |-> Ids(x.calls), seen |-> s.seen \cup ToSet(Ids(x.calls))]
    ELSE IF x.role = "tool"
    THEN [s EXCEPT !.ok = /\ x.call.id \in ToSet(s.open)
                          /\ m.provider = "vertex" => x.call.id = s.open[1],
                   !.open = SelectSeq(@, LAMBDA i : i # x.call.id)]
    ELSE [s EXCEPT !.ok = s.open = <<>>]

_validate_tool_replay(m, conv) ==
    LET s == FoldLeft(LAMBDA a, x : ReplayStep(a, x, m), [ok |-> TRUE, open |-> <<>>, seen |-> {}], conv)
    IN s.ok /\ s.open = <<>>

(***************************************************************************)
(* validate_chat_request: the providers that speak OpenAI's protocol take  *)
(* the request as it is.                                                   *)
(***************************************************************************)
validate_chat_request(m, r) ==
    m.provider \in Translated =>
        /\ _validate_messages(r)
        /\ validate_bedrock_response_format(m, r)
        /\ _has_tool_contract(r) =>
             /\ SupportsTools(m)
             /\ r.stream => m.provider \in StreamsTools
             /\ r.feats \cap {"json", "schema"} = {}
             /\ _validate_tools(m, r)
             /\ _validate_tool_choice(m, r)
             /\ _validate_tool_replay(m, r.conv)

(***************************************************************************)
(* The Responses conversation, where chat carries it: a group of calls is  *)
(* closed by its first output and every call is answered before the next   *)
(* message.  The order of the outputs is free on every provider.           *)
(***************************************************************************)
EmulatedStep(s, x, m) ==
    LET i == x.call.id
    IN IF ~s.ok THEN s
       ELSE IF x.type = "function_call" /\ m.provider \in EmulatedTools
       THEN [s EXCEPT !.ok = /\ ~(s.closed /\ s.open # {})
                             /\ i \notin s.seen
                             /\ m.provider \in Translated => x.call.name \in Declared,
                      !.closed = @ /\ s.open # {},
                      !.open = @ \cup {i}, !.seen = @ \cup {i}]
       ELSE IF x.type = "function_call_output" /\ m.provider \in EmulatedTools
       THEN [s EXCEPT !.ok = i \in s.seen /\ i \notin s.done,
                      !.closed = TRUE, !.open = @ \ {i}, !.done = @ \cup {i}]
       ELSE [s EXCEPT !.ok = s.open = {} /\ x.type = "message", !.closed = FALSE]

EmulatedStart == [ok |-> TRUE, closed |-> FALSE, open |-> {}, seen |-> {}, done |-> {}]

_validate_emulated_input(m, conv) ==
    LET s == FoldLeft(LAMBDA a, x : EmulatedStep(a, x, m), EmulatedStart, conv)
    IN s.ok /\ s.open = {}

_validate_emulated_tools(m, r) ==
    /\ "tools" \in r.feats =>
         /\ "hosted" \notin r.feats
         /\ m.provider \in Translated => r.feats \cap {"many", "badname"} = {}
         /\ m.provider = "bedrock" => validate_bedrock_tool_schema(m, r)
         /\ m.provider \in {"bedrock", "vertex"} => "strict" \notin r.feats
    /\ "dangling" \notin r.feats
    /\ "named" \in r.feats => "tools" \in r.feats

\* The request touches tools at all (has_tool_request).
HasToolRequest(r) ==
    \/ r.feats \cap ToolFields # {}
    \/ \E j \in DOMAIN r.conv : r.conv[j].type # "message"

_validate_native_responses_governance(r) == r.feats \cap {"state", "hosted"} = {}

Emulated(m, r) ==
    /\ "state" \notin r.feats                                        \* _unsupported_responses_fields
    /\ r.feats \cap ToolFields # {} => m.provider \in EmulatedTools
    /\ HasToolRequest(r) /\ r.stream /\ m.provider \in EmulatedTools
           => m.provider \in StreamsResponsesTools
    /\ HasToolRequest(r) =>
         /\ SupportsTools(m)
         /\ m.provider = "bedrock" => "none" \notin r.feats
         /\ m.provider \in {"bedrock", "vertex"} => "serial" \notin r.feats
    /\ m.provider \in EmulatedTools => _validate_emulated_tools(m, r)
    /\ m.provider \in Translated /\ HasToolRequest(r) =>
         "tools" \in r.feats /\ r.feats \cap {"json", "schema"} = {}
    /\ m.provider = "bedrock" => "schema" \notin r.feats             \* validate_bedrock_structured_tool
    /\ "image" \notin r.feats                                        \* _validate_emulated_content
    /\ _validate_emulated_input(m, r.conv)

validate_responses_request(m, r) ==
    IF m.provider \in {"openai", "azure"} THEN _validate_native_responses_governance(r)
    ELSE Emulated(m, r)

(***************************************************************************)
(* _input_to_messages: a run of function_call items is one assistant       *)
(* message, put down when anything else comes.                             *)
(***************************************************************************)
Flushed(s) ==
    IF s.calls = <<>> THEN s
    ELSE [msgs |-> Append(s.msgs, Message("assistant", s.calls, Nothing)), calls |-> <<>>]

InputStep(s, x) ==
    IF x.type = "function_call" THEN [s EXCEPT !.calls = Append(@, x.call)]
    ELSE LET f == Flushed(s)
         IN [f EXCEPT !.msgs = Append(@, IF x.type = "function_call_output"
                                         THEN Message("tool", <<>>, x.call)
                                         ELSE Message("user", <<>>, Nothing))]

_input_to_messages(conv) == Flushed(FoldLeft(InputStep, [msgs |-> <<>>, calls |-> <<>>], conv)).msgs

\* The chat request that carries it has no `stream' of its own.
to_chat_completions(r) == [r EXCEPT !.conv = _input_to_messages(@), !.stream = FALSE]

(***************************************************************************)
(* What the adapters send: one turn per message, but the results of a run  *)
(* of tool messages are one user turn.  Gemini's results carry the name of *)
(* the call they answer and its id without the signature.                  *)
(***************************************************************************)
Turn(who, calls, results) == [who |-> who, calls |-> calls, results |-> results]

Joins(turns) == turns # <<>> /\ turns[Len(turns)].results # <<>>

TurnStep(turns, x) ==
    IF x.role # "tool" THEN Append(turns, Turn(x.role, x.calls, <<>>))
    ELSE IF Joins(turns)
    THEN [turns EXCEPT ![Len(turns)].results = Append(@, x.call)]
    ELSE Append(turns, Turn("user", <<>>, <<x.call>>))

_anthropic_messages(conv) == FoldLeft(TurnStep, <<>>, conv)

_bedrock_messages(conv) == FoldLeft(TurnStep, <<>>, conv)

_gemini_contents(conv) ==
    LET ts == FoldLeft(TurnStep, <<>>, conv)
    IN [j \in DOMAIN ts |->
          [who |-> IF ts[j].who = "assistant" THEN "model" ELSE "user", calls |-> ts[j].calls,
           results |-> [k \in DOMAIN ts[j].results |-> [ts[j].results[k] EXCEPT !.sig = FALSE]]]]

\* The OpenAI protocol: a message is a turn of its own.
WireMessages(conv) ==
    [j \in DOMAIN conv |->
        Turn(conv[j].role, conv[j].calls, IF conv[j].role = "tool" THEN <<conv[j].call>> ELSE <<>>)]

(***************************************************************************)
(* The translator's own check, after admission: the same policy again, on  *)
(* the chat request it was given.                                          *)
(***************************************************************************)
ensure_translatable_chat_request(r) == "image" \notin r.feats

Translatable(m, r) == validate_chat_request(m, r) /\ (m.provider \in Translated => ensure_translatable_chat_request(r))

Sent(m, conv) ==
    CASE m.provider = "anthropic" -> _anthropic_messages(conv)
      [] m.provider = "bedrock"   -> _bedrock_messages(conv)
      [] m.provider = "vertex"    -> _gemini_contents(conv)
      [] OTHER                    -> WireMessages(conv)
===============================================================================
