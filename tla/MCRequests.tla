------------------------------ MODULE MCRequests ------------------------------
(***************************************************************************)
(* Requests, one group of hazards at a time.                               *)
(***************************************************************************)
EXTENDS Requests, TLC

CONSTANTS gpt, claude, gem, nova, dbrx, vllm, emb, img, smart, split, x1, x2, k1, k2, tm, q1, d1

VARIABLE scenario

MCType == [m \in Models |-> CASE m = emb -> "embeddings" [] m = img -> "image" [] OTHER -> "chat"]

Desc(p, f) == [provider |-> p, family |-> f, serves |-> {"chat"}]

MCDesc == gpt :> Desc("openai", "gpt") @@ claude :> Desc("anthropic", "claude") @@ gem :> Desc("vertex", "gemini3")
          @@ nova :> Desc("bedrock", "nova") @@ dbrx :> Desc("databricks", "llama")
          @@ vllm :> Desc("compatible", "llama") @@ emb :> Desc("openai", "ada") @@ img :> Desc("openai", "dalle")

Cand(n, m, t, caps) == [at |-> n, model |-> m, tier |-> t, caps |-> caps, weight |-> 1]

MCRouter ==
    smart :> [cands |-> {Cand(1, gpt, 2, {"tools"}), Cand(2, claude, 4, {"vision", "tools"}),
                         Cand(3, gem, 3, {"vision"})},
              default |-> gpt, strategy |-> "hybrid", escalation |-> "judge",
              overrides |-> {<<3, claude>>}, shadow |-> "webhook", helper |-> gpt]
    @@
    split :> [cands |-> {Cand(1, gpt, 1, {}), Cand(2, claude, 3, {"vision"})},
              default |-> claude, strategy |-> "webhook", escalation |-> "none",
              overrides |-> {}, shadow |-> "none", helper |-> "none"]

\* A rule, and what tells one from another.
R(n, kind, dir, watch, verdict) ==
    [name |-> n, kind |-> kind, dir |-> dir, pos |-> n, fail |-> "closed", model |-> NoScope,
     router |-> NoScope, enabled |-> TRUE, secret |-> kind = "webhook", watch |-> watch,
     verdict |-> verdict]

Table(a, b) == x1 :> a @@ x2 :> b

Policies ==
    [cache  |-> {Table(NoRule, NoRule), Table(R(1, "webhook", "response", "pii", "redact"), NoRule),
                 Table(R(1, "webhook", "request", "pii", "redact"), NoRule)},
     guard  |-> {Table(R(1, "webhook", "request", "pii", "redact"), R(2, "webhook", "request", "bad", "redact")),
                 Table(R(1, "judge", "request", "bad", "block"),
                       [R(2, "webhook", "request", "pii", "redact") EXCEPT !.fail = "open"]),
                 Table(R(1, "judge", "response", "bad", "block"),
                       [R(2, "webhook", "response", "pii", "redact") EXCEPT !.secret = FALSE, !.fail = "open"])},
     stream |-> {Table(NoRule, NoRule), Table(R(1, "webhook", "response", "pii", "redact"), NoRule)},
     route  |-> {Table([R(1, "webhook", "response", "pii", "redact") EXCEPT !.router = smart],
                       [R(2, "judge", "request", "bad", "block") EXCEPT !.model = claude]),
                 Table([R(1, "webhook", "request", "pii", "redact") EXCEPT !.router = split],
                       [R(2, "webhook", "response", "bad", "block") EXCEPT !.model = claude])},
     policy |-> {Table(R(1, "webhook", "request", "pii", "redact"), NoRule), Table(NoRule, NoRule)},
     tools  |-> {Table(NoRule, NoRule)},
     limits |-> {Table(NoRule, NoRule)}]

MCInitRules == UNION {Policies[s] : s \in DOMAIN Policies}

I(via, alias, key) ==
    [via |-> via, alias |-> alias, team |-> tm, key |-> key, n |-> 1, needs |-> {}, tags |-> {},
     shape |-> "single", prompt |-> 1, hot |-> FALSE, caps |-> <<>>, feats |-> {}, conv |-> <<>>]

Chat(alias) == I(chat_completion, alias, k1)

Private == [Chat(gpt) EXCEPT !.prompt = 2, !.tags = {"pii"}]

\* Conversations with two tool calls, the first one signed.
c1 == Call(1, "f", TRUE)

c2 == Call(2, "g", FALSE)

Messages ==
    {Message("user", <<>>, Nothing), Message("assistant", <<c1>>, Nothing),
     Message("assistant", <<c1, c2>>, Nothing), Message("tool", <<>>, c1), Message("tool", <<>>, c2)}

Items ==
    {Item("message", Nothing)} \cup {Item(t, c) : t \in {"function_call", "function_call_output"}, c \in {c1, c2}}

Talks(S, n) == UNION {[1 .. k -> S] : k \in 1 .. n}

Tooled(via, m, conv) == [I(via, m, k1) EXCEPT !.feats = {"tools"}, !.conv = conv]

\* Every conversation, every feature alone or with tools, and every way to name a limit.
Features == {"strict", "rich", "many", "badname", "named", "dangling", "none", "serial", "json", "schema",
             "image", "state", "hosted", "control"}

Limits == {<<>>} \cup {("max_tokens" :> c) : c \in -1 .. 3} \cup {"max_completion_tokens" :> 3, "max_output_tokens" :> 3,
           "maxOutputTokens" :> 3, "maxOutputTokens" :> 0, "max_completion_tokens" :> 0, ("max_tokens" :> 1) @@ ("max_completion_tokens" :> 3)}

Asking(via, m) ==
    {[I(via, m, k1) EXCEPT !.feats = f] : f \in {{x} : x \in Features} \cup {{x, "tools"} : x \in Features}}
    \cup {[I(via, m, k1) EXCEPT !.caps = c, !.n = n] : c \in Limits, n \in {1, 3}}

(***************************************************************************)
(* The chain asked one rule after the other, as the loop of run_chain is   *)
(* written: the reference for the operator the model uses.                 *)
(***************************************************************************)
Asked(out, x, down) ==
    IF out.blocked THEN out
    ELSE LET v == _check(x, out.content, down)
         IN [blocked  |-> v = "block",
             content  |-> IF v = "redact" THEN out.content \ {x.watch} ELSE out.content,
             redacted |-> out.redacted \/ v = "redact",
             asked    |-> out.asked \cup {x}]

OneByOne(chain, content, down) ==
    FoldLeft(LAMBDA out, x : Asked(out, x, down),
             [blocked |-> FALSE, content |-> content, redacted |-> FALSE, asked |-> {}],
             SetToSortSeq(chain, Before))

\* Two rules with equal positions and one that may come before or after them.
Trio ==
    {{[R(1, k[1], "request", w[1], v[1]) EXCEPT !.pos = 2], [R(2, k[2], "request", w[2], v[2]) EXCEPT !.fail = "open"],
      [R(3, k[3], "request", w[3], v[3]) EXCEPT !.pos = p]} :
        k \in [1 .. 3 -> {"webhook", "judge"}], w \in [1 .. 3 -> Tags], v \in [1 .. 3 -> {"block", "redact"}], p \in {1, 3}}

ASSUME ChainsRunOneByOne ==
    \A trio \in Trio, down \in SUBSET (1 .. 3), content \in SUBSET Tags :
        LET a == run_chain(trio, content, down)
            b == OneByOne(trio, content, down)
        IN /\ <<a.blocked, a.redacted, a.asked>> = <<b.blocked, b.redacted, b.asked>>
           /\ a.blocked \/ a.content = b.content

\* Requests that may not share the first one's entry.
Strangers == {I(chat_completion, gpt, k2), I(responses, gpt, k1), [Chat(gpt) EXCEPT !.hot = TRUE]}

Traffic(s) ==
    CASE s = "cache" -> {Chat(gpt), I(open_chat_stream, gpt, k1), Private} \cup Strangers
      [] s = "guard" -> UNION {{[i EXCEPT !.tags = {"pii"}], [i EXCEPT !.tags = {"pii", "bad"}],
                        [i EXCEPT !.tags = {"pii", "bad"}, !.shape = "multi"]} :
                       i \in {Chat(gpt), I(native_messages, claude, k1), I(compare, gpt, NoKey)}}
                \cup {I(embeddings_op, emb, k1), I(images, img, k1), Chat(emb),
                      I(native_messages, gpt, k1), I(generate_content, gem, k1), [Chat(claude) EXCEPT !.n = 2]}
      [] s = "stream" -> {I(op[1], op[2], k1) :
                    op \in {<<open_chat_stream, gpt>>, <<open_responses_stream, gpt>>, <<open_responses_stream, vllm>>,
                            <<open_native_messages_stream, claude>>, <<open_generate_content_stream, gem>>}}
                \cup {[I(open_responses_stream, gem, k1) EXCEPT !.feats = {"json", "rich", "tools"}]}
      [] s = "route" -> {Chat(smart), [Chat(smart) EXCEPT !.needs = {"vision"}], Chat(split),
                 [Chat(split) EXCEPT !.n = 2, !.tags = {"pii"}], [Chat(split) EXCEPT !.needs = {"tools"}],
                 [Chat(split) EXCEPT !.feats = {"tools", "json"}], [Chat(smart) EXCEPT !.feats = {"tools", "serial"}],
                 I(responses, smart, k1), I(compare, split, NoKey), I(embeddings_op, smart, k1)}
      [] s = "policy" -> {Chat(gpt)}
      [] s = "tools" -> {Tooled(chat_completion, m, c) : m \in {claude, gem, nova}, c \in Talks(Messages, 3)}
                \cup {Tooled(responses, m, c) : m \in {claude, gem, dbrx}, c \in Talks(Items, 4)}
      [] s = "limits" -> UNION {Asking(via, m) : via \in {chat_completion, responses}, m \in {gpt, claude, gem, nova, dbrx, vllm}}
                \cup Asking(native_messages, claude) \cup Asking(generate_content, gem)

Scenarios == DOMAIN Policies

MCInputs == UNION {Traffic(s) : s \in Scenarios}

MCAnswers ==
    {[tags |-> {"pii"}, shape |-> "single", usage |-> "tokens"],
     [tags |-> {"pii", "bad"}, shape |-> "multi", usage |-> "absent"],
     [tags |-> {}, shape |-> "single", usage |-> "refusal"]}

MCNewRules ==
    {R(1, "webhook", "response", "pii", "block"), [R(2, "judge", "request", "bad", "block") EXCEPT !.model = gpt]}

Edit == [model |-> NoScope, router |-> NoScope, clear |-> FALSE, toggle |-> FALSE, verdict |-> "keep", name |-> 0]

MCChanges ==
    {[Edit EXCEPT !.toggle = TRUE], [Edit EXCEPT !.router = smart], [Edit EXCEPT !.model = gpt],
     [Edit EXCEPT !.clear = TRUE], [Edit EXCEPT !.clear = TRUE, !.model = gpt], [Edit EXCEPT !.name = 2]}

MCConf == [enabled |-> TRUE, cache |-> "cold", params |-> "none", ceiling |-> NoCeiling]

MCInitConfs == {MCConf} \cup {[MCConf EXCEPT !.ceiling = c] : c \in {-1, 0, 2}}

MCConfs == {MCConf, [MCConf EXCEPT !.enabled = FALSE], [MCConf EXCEPT !.params = "hot", !.cache = "any"]}

\* One request, or in the cache scenario two of which the first fills the cache.
Arrivals(s) ==
    CASE s = "cache"  -> {<<i, j>> \in Traffic(s) \X Traffic(s) : i = Chat(gpt) \/ (i = Private /\ j = Private)}
      [] OTHER        -> {<<i, i>> : i \in Traffic(s)}

MCInit ==
    /\ scenario \in Scenarios
    /\ \E a \in Arrivals(scenario) :
         req = [p \in Procs |-> IF scenario = "policy" THEN Idle
                                ELSE IF p = q1 THEN Client(a[1])
                                ELSE IF scenario = "cache" THEN Client(a[2]) ELSE Idle]
    /\ rules \in Policies[scenario]
    /\ scenario = "cache" /\ (\E p \in Procs : req[p].in \in Strangers) => rules = Table(NoRule, NoRule)
    /\ models \in {[m \in Models |-> c] : c \in IF scenario = "limits" THEN MCInitConfs ELSE {MCConf}}
    /\ edits = CASE scenario \in {"stream", "guard", "tools", "limits"} -> 0 [] scenario = "policy" -> 2 [] OTHER -> 1
    /\ RequestsInit

MCNext == RequestsNext /\ UNCHANGED scenario

MCSpec == MCInit /\ [][MCNext]_<<requestVars, scenario>> /\ \A p \in Procs : WF_<<requestVars, scenario>>(Serve(p) /\ UNCHANGED scenario)

\* The first request is past its lookup.
Late == {"call", "settle", "respond", "put", "done"}

\* Only the cache lets requests meet, and only the policy edits let operators meet.
MCBound ==
    /\ scenario \in {"tools", "limits"} => req[q1].pc # "settle"
    /\ scenario # "policy" => \A d \in Desks \ {d1} : desk[d] = Idle
    /\ scenario = "cache" =>
         /\ \A m \in Models \ {gpt} : models[m] = MCConf
         /\ grants = [r \in Routers |-> [live |-> TRUE, rev |-> 0, ack |-> TRUE]]
         /\ \A x \in Stored : x.router = NoScope /\ x.model = NoScope /\ x.name = 1
         /\ \A d \in Desks : desk[d].pc = "update" => desk[d].rule.name = 1 /\ desk[d].rule.model = NoScope /\ desk[d].rule.router = NoScope
         /\ \A d \in Desks : desk[d].pc = "add" => desk[d].rule.name = 1
         /\ \A p \in Procs \ {q1} : Open(p) => req[q1].pc \in Late
         /\ edits = 0 => \E p \in Procs : req[p].pc \in {"idle", "done"}
    /\ scenario = "route" =>
         /\ \A d \in Desks : desk[d] = Idle
         /\ rules \in Policies["route"]
         /\ \A m \in Models \ {gpt, claude} : models[m] = MCConf
===============================================================================
