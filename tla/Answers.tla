-------------------------------- MODULE Answers --------------------------------
(***************************************************************************)
(* What the translating adapters make of a provider's answer: the whole    *)
(* one (anthropic_adapter.py, bedrock_adapter.py, vertex_adapter.py), the  *)
(* same answer streamed event by event, and both carried on to the         *)
(* Responses protocol (responses_emulation.py).                            *)
(*                                                                         *)
(* An answer is [provider, ask, blocks, stop, out, metered]:               *)
(*   ask      [tools, choice, serial, forced]: the tools the request       *)
(*            offers, its tool_choice ("auto", "required", "none" or a     *)
(*            tool's name), parallel_tool_calls = false, and whether       *)
(*            structured output is emulated by the forced tool `Forced'    *)
(*   blocks   of [kind, id, name, x]; `x' is the text or the JSON arguments*)
(*            as the fragments they are streamed in                        *)
(*   stop     "end", "length", "tool", "refusal", "pause" or "unknown"     *)
(*   out      output tokens; `metered' says that the usage is well formed  *)
(* JSON texts that denote the same value are not told apart.               *)
(***************************************************************************)
EXTENDS Naturals, FiniteSets, Sequences, SequencesExt

CONSTANTS ProviderAnswers,      \* the answers to translate
          Forced                \* the synthetic tool's name

VARIABLES answer,       \* the provider's answer
          feed,         \* the stream events not yet read
          chat,         \* the chat stream as its reader puts it together
          meter,        \* the adapter's token counts and its view of a refusal
          resp,         \* the Responses emulation: its state and the events it sent
          stage         \* "streaming", "ended", "cut" (ended early) or "failed"

ansVars == <<answer, feed, chat, meter, resp, stage>>

Use(i, o) == [in |-> i, out |-> o]

\* The request had one prompt token.
Full(a) == Use(1, a.out)

Translation(ok, text, calls, finish, usage) ==
    [ok |-> ok, text |-> text, calls |-> calls, finish |-> finish, usage |-> usage]

\* The usage of an answer that is refused is still there to be billed.
_billable_response(a) == IF a.metered THEN Full(a) ELSE Use(0, 0)

_invalid_response(a) == Translation(FALSE, <<>>, <<>>, "none", _billable_response(a))

Text(bs) == FlattenSeq([i \in DOMAIN bs |-> IF bs[i].kind = "text" THEN bs[i].x ELSE <<>>])

ToolBlocks(bs) == FlattenSeq([i \in DOMAIN bs |-> IF bs[i].kind = "tool" THEN <<bs[i]>> ELSE <<>>])

\* json.dumps of the input: an empty one is an object too.
Arguments(b) == IF b.x = <<>> THEN <<"{}">> ELSE b.x

ToolCalls(bs) ==
    LET ts == ToolBlocks(bs)
    IN [i \in DOMAIN ts |-> [id |-> ts[i].id, name |-> ts[i].name, x |-> Arguments(ts[i])]]

\* _tool_calls: distinct ids, and names that were offered.
WellFormedCalls(calls, names) ==
    /\ \A i, j \in DOMAIN calls : i # j => calls[i].id # calls[j].id
    /\ \A i \in DOMAIN calls : calls[i].name \in names

Known(bs) == \A i \in DOMAIN bs : bs[i].kind \in {"text", "tool"}

Named(ask) == ask.choice \notin {"auto", "required", "none"}

Required(ask) == ask.choice = "required" \/ Named(ask)

_FINISH_REASON(stop) ==
    CASE stop = "length" -> "length" [] stop = "refusal" -> "content_filter" [] OTHER -> "stop"

\* What the policy let a client ask for: structured output is emulated for
\* Anthropic only, and a tool that is named is one of those that are offered.
AnswersOK ==
    \A a \in ProviderAnswers :
        /\ a.provider \in {"anthropic", "bedrock", "vertex"}
        /\ a.ask.forced => a.provider = "anthropic"
        /\ Named(a.ask) => a.ask.choice \in a.ask.tools
        /\ a.blocks \in Seq(Range(a.blocks))
        /\ \A i \in DOMAIN a.blocks : a.blocks[i].x \in Seq(Range(a.blocks[i].x))

ASSUME AnswersAssumption == AnswersOK

(***************************************************************************)
(* The whole answer.                                                       *)
(***************************************************************************)
\* The names that may come back.
_response_tool_contract(ask) ==
    IF ask.choice = "none" THEN {} ELSE IF Named(ask) THEN {ask.choice} ELSE ask.tools

max_tool_calls(ask) == IF ask.choice = "none" THEN 0 ELSE 1

Structured(a, calls) ==
    /\ \A i \in DOMAIN a.blocks : a.blocks[i].kind = "tool"
    /\ Len(calls) = 1 /\ calls[1].name = Forced
    /\ a.stop = "tool"

from_anthropic_response(a) ==
    LET calls == ToolCalls(a.blocks)
        plain == /\ WellFormedCalls(calls, _response_tool_contract(a.ask))
                 /\ a.ask.serial \/ a.ask.choice = "none" => Len(calls) <= max_tool_calls(a.ask)
                 /\ Required(a.ask) => calls # <<>>
                 /\ (calls # <<>>) = (a.stop = "tool")
    IN IF ~a.metered \/ a.stop \in {"pause", "unknown"} THEN _invalid_response(a)
       ELSE IF a.stop = "refusal"
       THEN Translation(TRUE, <<>>, <<>>, "content_filter", IF a.out = 0 THEN Use(0, 0) ELSE Full(a))
       ELSE IF ~Known(a.blocks) \/ (a.ask.forced /\ ~Structured(a, calls)) \/ (~a.ask.forced /\ ~plain)
       THEN _invalid_response(a)
       ELSE IF a.ask.forced THEN Translation(TRUE, calls[1].x, <<>>, "stop", Full(a))
       ELSE Translation(TRUE, Text(a.blocks), calls,
                        IF calls # <<>> THEN "tool_calls" ELSE _FINISH_REASON(a.stop), Full(a))

\* Converse: a stop for tools when there are calls and only then.
from_converse_response(a) ==
    LET calls == ToolCalls(a.blocks)
    IN IF /\ a.metered /\ Known(a.blocks)
          /\ a.stop \notin {"pause", "unknown"}
          /\ WellFormedCalls(calls, a.ask.tools)
          /\ Named(a.ask) => calls # <<>> /\ \A i \in DOMAIN calls : calls[i].name = a.ask.choice
          /\ Required(a.ask) => calls # <<>>
          /\ (calls # <<>>) = (a.stop = "tool")
       THEN Translation(TRUE, Text(a.blocks), calls,
                        IF calls # <<>> THEN "tool_calls" ELSE _FINISH_REASON(a.stop), Full(a))
       ELSE _invalid_response(a)

\* Gemini stops with STOP whether it calls or not; other parts are skipped.
from_gemini_response(a) ==
    LET calls == ToolCalls(a.blocks)
    IN IF /\ a.metered
          /\ a.stop \notin {"pause", "unknown"}
          /\ WellFormedCalls(calls, IF Named(a.ask) THEN {a.ask.choice} ELSE a.ask.tools)
          /\ Required(a.ask) => calls # <<>>
          /\ a.ask.choice = "none" => calls = <<>>
       THEN Translation(TRUE, Text(a.blocks), calls,
                        IF calls # <<>> THEN "tool_calls" ELSE _FINISH_REASON(a.stop), Full(a))
       ELSE _invalid_response(a)

Whole(a) ==
    CASE a.provider = "anthropic" -> from_anthropic_response(a)
      [] a.provider = "bedrock" -> from_converse_response(a)
      [] a.provider = "vertex" -> from_gemini_response(a)

\* to_responses: [ok, status, text, items, usage].
Response(ok, status, text, items, usage) ==
    [ok |-> ok, status |-> status, text |-> text, items |-> items, usage |-> usage]

to_responses(t) ==
    LET refused == t.finish = "content_filter"
    IN IF /\ t.ok
          /\ t.finish \in {"stop", "tool_calls", "content_filter"}
          /\ (t.calls # <<>>) = (t.finish = "tool_calls")
       THEN Response(TRUE, IF refused THEN "incomplete" ELSE "completed",
                     IF refused THEN <<>> ELSE t.text, t.calls, t.usage)
       ELSE Response(FALSE, "none", <<>>, <<>>, t.usage)

(***************************************************************************)
(* The stream of the same answer, as the provider sends it (external).     *)
(* Events that no adapter reads, pings and block ends, are left out.       *)
(***************************************************************************)
Event(t, i, b, x, stop, out) == [t |-> t, i |-> i, b |-> b, x |-> x, stop |-> stop, out |-> out]

NoBlock == [kind |-> "none", id |-> 0, name |-> "none", x |-> <<>>]

BlockEvents(i, b) ==
    <<Event("open", i, b, <<>>, "none", 0)>> \o
    [k \in DOMAIN b.x |-> Event("fragment", i, b, <<b.x[k]>>, "none", 0)]

ProviderStream(a) ==
    <<Event("start", 0, NoBlock, <<>>, "none", 0)>> \o
    FlattenSeq([i \in DOMAIN a.blocks |-> BlockEvents(i, a.blocks[i])]) \o
    <<Event("stop", 0, NoBlock, <<>>, a.stop, a.out)>> \o
    IF a.provider = "bedrock" THEN <<Event("usage", 0, NoBlock, <<>>, a.stop, a.out)>> ELSE <<>>

\* Tools are streamed from Anthropic only (_STREAMING_TOOL_TRANSLATED_PROVIDERS).
Streamable(a) == a.metered /\ (a.provider = "anthropic" \/ a.ask.tools = {})

AnswersInit ==
    /\ answer \in ProviderAnswers
    /\ feed = ProviderStream(answer)
    /\ chat = [text |-> <<>>, calls |-> <<>>, finish |-> "none", usage |-> Use(0, 0)]
    /\ meter = [in |-> 0, out |-> 0, refused |-> FALSE]
    /\ resp = [calls |-> <<>>, sent |-> <<>>, final |-> Response(FALSE, "none", <<>>, <<>>, Use(0, 0))]
    /\ stage = IF Streamable(answer) THEN "streaming" ELSE "failed"

(***************************************************************************)
(* One event to one chat chunk [k, i, b, x, finish].                       *)
(***************************************************************************)
Chunk(k, i, b, x, finish) == [k |-> k, i |-> i, b |-> b, x |-> x, finish |-> finish]

NoChunk == Chunk("none", 0, NoBlock, <<>>, "none")

Bad == [NoChunk EXCEPT !.k = "error"]

\* tool_call_state: the blocks opened as calls.
Opened == {chat.calls[j].i : j \in DOMAIN chat.calls}

OpensCall(e) == e.b.kind = "tool" /\ ~(answer.ask.forced /\ e.b.name = Forced)

anthropic_event_to_delta(e) ==
    CASE e.t = "start" -> NoChunk
      [] e.t = "open" -> IF OpensCall(e) THEN Chunk("call", e.i, e.b, <<>>, "none") ELSE NoChunk
      [] e.t = "fragment" /\ e.b.kind = "text" -> Chunk("content", e.i, e.b, e.x, "none")
      [] e.t = "fragment" /\ e.b.kind = "tool" ->
            Chunk(IF e.i \in Opened THEN "call" ELSE "content", e.i, e.b, e.x, "none")
      [] e.t = "fragment" /\ e.b.kind \notin {"text", "tool"} -> NoChunk
      [] e.t = "stop" ->
            IF e.stop = "pause" \/ (Opened = {} /\ e.stop = "unknown") THEN Bad
            ELSE Chunk("finish", 0, NoBlock, <<>>, IF Opened # {} THEN "tool_calls" ELSE _FINISH_REASON(e.stop))

\* Converse announces tool blocks only, and nothing but text is translated.
converse_event_to_delta(e) ==
    CASE e.t \in {"start", "usage"} -> NoChunk
      [] e.t \in {"open", "fragment"} /\ e.b.kind # "text" -> Bad
      [] e.t = "open" /\ e.b.kind = "text" -> NoChunk
      [] e.t = "fragment" /\ e.b.kind = "text" -> Chunk("content", e.i, e.b, e.x, "none")
      [] e.t = "stop" ->
            IF e.stop \in {"tool", "pause", "unknown"} THEN Bad
            ELSE Chunk("finish", 0, NoBlock, <<>>, _FINISH_REASON(e.stop))

gemini_chunk_to_delta(e) ==
    CASE e.t \in {"start", "open"} -> NoChunk
      [] e.t = "fragment" -> IF e.b.kind = "text" THEN Chunk("content", e.i, e.b, e.x, "none") ELSE NoChunk
      [] e.t = "stop" -> Chunk("finish", 0, NoBlock, <<>>, _FINISH_REASON(e.stop))

Delta(e) ==
    CASE answer.provider = "anthropic" -> anthropic_event_to_delta(e)
      [] answer.provider = "bedrock" -> converse_event_to_delta(e)
      [] answer.provider = "vertex" -> gemini_chunk_to_delta(e)

Position(calls, i) == CHOOSE j \in DOMAIN calls : calls[j].i = i

Has(calls, i) == \E j \in DOMAIN calls : calls[j].i = i

\* Calls are put together by the index that a chunk carries.
Added(calls, c) ==
    LET known == IF Has(calls, c.i) THEN calls
                 ELSE Append(calls, [i |-> c.i, id |-> c.b.id, name |-> c.b.name, x |-> <<>>])
    IN [known EXCEPT ![Position(known, c.i)].x = @ \o c.x]

Read(c) ==
    CASE c.k = "content" -> [chat EXCEPT !.text = @ \o c.x]
      [] c.k = "call" -> [chat EXCEPT !.calls = Added(@, c)]
      [] c.k = "finish" -> [chat EXCEPT !.finish = c.finish]
      [] OTHER -> chat

(***************************************************************************)
(* astream_responses: events [t, n, x], where n is the output_index.       *)
(***************************************************************************)
Sent(t, n, x) == [t |-> t, n |-> n, x |-> x]

\* The order in which the calls first appeared.
output_index(calls, i) == Position(calls, i)

_handle_tool_call_delta(r, c) ==
    LET calls == Added(r.calls, c)
        n     == output_index(calls, c.i)
        new   == IF Has(r.calls, c.i) THEN <<>> ELSE <<Sent("added", n, <<>>)>>
        args  == IF c.x = <<>> THEN <<>> ELSE <<Sent("args", n, c.x)>>
    IN [r EXCEPT !.calls = calls, !.sent = @ \o new \o args]

Emulated(c) ==
    CASE c.k = "content" -> [resp EXCEPT !.sent = Append(@, Sent("text", 0, c.x))]
      [] c.k = "call" -> _handle_tool_call_delta(resp, c)
      [] OTHER -> resp

Items(calls) == [j \in DOMAIN calls |-> [id |-> calls[j].id, name |-> calls[j].name, x |-> calls[j].x]]

\* The stream is over: what the emulation ends it with.
CompleteAnyway(c) ==
    LET refused == c.finish = "content_filter"
    IN [resp EXCEPT
          !.sent = @ \o [j \in DOMAIN resp.calls |-> Sent("done", j, resp.calls[j].x)],
          !.final = Response(TRUE, IF refused THEN "incomplete" ELSE "completed",
                             IF refused THEN <<>> ELSE c.text, Items(resp.calls), c.usage)]

\* Calls without a finish for tools are an upstream error.
astream_responses(c) ==
    LET refused == c.finish = "content_filter"
    IN IF resp.calls # <<>> /\ c.finish # "tool_calls" THEN resp
       ELSE [resp EXCEPT
              !.sent = @ \o [j \in DOMAIN resp.calls |-> Sent("done", j, resp.calls[j].x)],
              !.final = Response(TRUE, IF refused THEN "incomplete" ELSE "completed",
                                 IF refused THEN <<>> ELSE c.text, Items(resp.calls), c.usage)]

(***************************************************************************)
(* astream_chat_completion: events, then the chunk with the usage.         *)
(***************************************************************************)
\* Anthropic reports the input first and the output with the stop, Gemini both
\* with it, Converse both after it.
Metered(e) ==
    CASE e.t = "start" /\ answer.provider = "anthropic" -> [meter EXCEPT !.in = 1]
      [] e.t = "stop" /\ answer.provider # "bedrock" -> [in |-> 1, out |-> e.out, refused |-> e.stop = "refusal"]
      [] e.t = "usage" -> [in |-> 1, out |-> e.out, refused |-> FALSE]
      [] OTHER -> meter

next_event ==
    LET e == feed[1]
        c == Delta(e)
    IN /\ stage = "streaming" /\ feed # <<>>
       /\ meter' = Metered(e)
       /\ chat' = Read(c)
       /\ resp' = Emulated(c)
       /\ feed' = Tail(feed)
       /\ stage' = IF c.k = "error" THEN "failed" ELSE "streaming"
       /\ UNCHANGED answer

\* The usage chunk: a refusal before any output is not charged by Anthropic.
usage_out ==
    IF answer.provider = "anthropic" /\ meter.refused /\ meter.out = 0 THEN Use(0, 0)
    ELSE Use(meter.in, meter.out)

Closing(how) ==
    LET c == [chat EXCEPT !.usage = usage_out]
    IN /\ chat' = c
       /\ resp' = astream_responses(c)
       /\ stage' = how
       /\ UNCHANGED <<answer, feed, meter>>

end_of_stream == stage = "streaming" /\ feed = <<>> /\ Closing("ended")

\* The provider's stream stops short, without an error.
CutShort == stage = "streaming" /\ feed # <<>> /\ Closing("cut")

AnswersNext == next_event \/ end_of_stream \/ CutShort

(***************************************************************************)
(* Properties.                                                             *)
(***************************************************************************)
\* Every call has arguments: an empty input is streamed as no text at all.
Argued == \A i \in DOMAIN answer.blocks : answer.blocks[i].kind = "tool" => answer.blocks[i].x # <<>>

\* A streamed answer says what the same answer says unstreamed: text, calls and
\* their arguments in order, finish reason and usage (a refusal apart, whose text
\* is already out).
StreamAgrees ==
    LET w == Whole(answer)
    IN stage = "ended" /\ w.ok /\ answer.stop # "refusal" /\ Argued =>
        /\ chat.text = w.text /\ Items(chat.calls) = w.calls
        /\ chat.finish = w.finish /\ chat.usage = w.usage

\* A streamed refusal ends as one and costs what it costs unstreamed, unless a
\* tool block was opened before it (anthropic_adapter.py:315-316).
RefusalMarked ==
    stage = "ended" /\ answer.stop = "refusal" /\ chat.calls = <<>> =>
        chat.finish = "content_filter" /\ chat.usage = Whole(answer).usage

\* The Responses stream ends with the response that the unstreamed request gets.
ResponsesAgree ==
    LET w == to_responses(Whole(answer))
    IN stage = "ended" /\ w.ok /\ resp.final.ok /\ Argued /\ (answer.stop = "refusal" => resp.calls = <<>>) =>
        resp.final = w

\* In a Responses stream the calls are announced once each, in order and before
\* their arguments, and a `done' repeats exactly the fragments sent under its index.
CallsAnnounced ==
    LET s == resp.sent
        Args(n) == FlattenSeq([k \in DOMAIN s |-> IF s[k].t = "args" /\ s[k].n = n THEN s[k].x ELSE <<>>])
    IN /\ \A k \in DOMAIN s : s[k].t = "added" =>
            s[k].n = Cardinality({j \in 1 .. k : s[j].t = "added"})
       /\ \A k \in DOMAIN s : s[k].t = "args" =>
            \E j \in 1 .. k : s[j].t = "added" /\ s[j].n = s[k].n
       /\ \A k \in DOMAIN s : s[k].t = "done" => s[k].x = Args(s[k].n)

\* A stream that stops in the middle of a call never completes a response: the
\* calls of a completed one are whole.
NoHalfCall ==
    resp.final.ok =>
        Items(resp.calls) = [j \in DOMAIN resp.calls |->
            LET b == answer.blocks[resp.calls[j].i] IN [id |-> b.id, name |-> b.name, x |-> b.x]]

\* The tool that emulates structured output is never shown to the client, in a
\* stream or out of one.
ForcedHidden ==
    answer.ask.forced =>
        \A calls \in {chat.calls, resp.calls, Whole(answer).calls} :
            \A j \in DOMAIN calls : calls[j].name # Forced

\* What the policy lets a client ask of the provider: Converse cannot disable
\* tools, and only Anthropic can disable parallel calls.
Askable(a) ==
    /\ a.provider = "bedrock" => a.ask.choice # "none"
    /\ a.provider # "anthropic" => ~a.ask.serial

\* An answer that is passed on calls only tools that were offered, none for
\* "none", the named one, at least one when required, one at a time if asked.
ChoiceHonoured ==
    LET w == Whole(answer)
        ask == answer.ask
    IN w.ok /\ Askable(answer) /\ ~ask.forced /\ answer.stop # "refusal" =>
        /\ \A j \in DOMAIN w.calls : w.calls[j].name \in ask.tools /\ (Named(ask) => w.calls[j].name = ask.choice)
        /\ ask.choice = "none" => w.calls = <<>>
        /\ Required(ask) => w.calls # <<>>
        /\ ask.serial => Len(w.calls) <= 1

\* However a provider's answer is delivered, whole, streamed or as Responses, it
\* says, calls and costs the same, and no part of a call or of the gateway's own
\* tool passes for an answer (anthropic_adapter.py 297-468,
\* responses_emulation.py 169-492).
AnswersSound ==
    /\ StreamAgrees /\ RefusalMarked /\ ResponsesAgree
    /\ CallsAnnounced /\ NoHalfCall
    /\ ForcedHidden /\ ChoiceHonoured
===============================================================================
