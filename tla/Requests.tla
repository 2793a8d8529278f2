------------------------------- MODULE Requests -------------------------------
(***************************************************************************)
(* The request path of the gateway: CompletionService (OpenAI, native      *)
(* Anthropic and native Gemini surfaces, streamed or not), the guardrail   *)
(* chain on both sides of the call, smart routing, the response cache and  *)
(* the settlement done by UsageMeter, with the operators who edit rules,   *)
(* models and router grants meanwhile.                                     *)
(*                                                                         *)
(* A request is a record of req; `pc' is where its coroutine waits.  A step*)
(* runs from one await that can see other tasks' writes to the next.  Rules*)
(* are read afresh at every use, the model is read once, when the alias is *)
(* resolved (q.conf), and a router is the snapshot of that moment.         *)
(*                                                                         *)
(* Budgets and rate windows are UsageLedger's and BudgetGate's business:   *)
(* here a gate either lets the request through or refuses it, and what is  *)
(* counted is how often it was hit and whether the claim was given back.   *)
(* Failover between candidates is Failover's.                              *)
(***************************************************************************)
EXTENDS Integers, Guardrails, Routing, RequestPolicy

CONSTANTS
    Procs,          \* concurrent HTTP requests
    Desks,          \* operators editing guardrail rules
    RuleIds,        \* rows of the guardrail_rule table
    Models, Routers, Tags,
    ModelType,      \* [Models -> {"chat", "embeddings", "image"}]
    ModelDesc,      \* [Models -> [provider, family, serves]], see RequestPolicy
    RouterDef,      \* [Routers -> the stored router revision]
    Inputs,         \* the requests clients may send
    Answers,        \* [tags, shape, usage]: what a provider may answer; usage is
                    \*   "tokens", "refusal" (authoritative zero), "absent"
    NewRules,       \* the rules an operator may create
    Changes,        \* the edits an operator may make to a rule
    Confs,          \* [enabled, cache, params, ceiling]: what an admin may set on a model
                    \*   cache: "off", "cold" (temperature 0 only), "any"
                    \*   params: enforced temperature, "none", "cold", "hot"
    InitRules,      \* the policies the run may start from
    InitConfs,      \* what the models may be set to at first
    MaxEntries,     \* response_cache_max_entries
    MaxEdits,       \* bound: operator edits (`edits' is how many are left)
    NoKey, NoModel, NoGrant

VARIABLES rules, models, grants, store, req, desk, edits

requestVars == <<rules, models, grants, store, req, desk, edits>>

ModelProvider(m) == ModelDesc[m].provider

(***************************************************************************)
(* The operations of the service, one record each:                         *)
(*   op, type   what is asked, and the type of model that serves it        *)
(*   stream     the answer is streamed                                     *)
(*   native     the one provider whose own protocol this is, or "none"     *)
(*   cached     the operation derives a cache key                          *)
(*   scoped     the answer is screened with the router's rules too         *)
(*   early      the usage a stream may show when it stops early            *)
(***************************************************************************)
metered_stream_usage == {"absent", "last"}      \* one count, in the last chunk

metered_native_stream_usage == {"partial"}      \* the input count, in message_start

metered_gemini_stream_usage == {"partial", "absent"}    \* a running total

chat_completion ==
    [op |-> "chat", type |-> "chat", stream |-> FALSE, native |-> "none", cached |-> TRUE,
     scoped |-> TRUE, preview |-> FALSE, early |-> {}]

responses == [chat_completion EXCEPT !.op = "responses", !.scoped = FALSE]

embeddings_op == [chat_completion EXCEPT !.op = "embeddings", !.type = "embeddings", !.cached = FALSE]

images == [chat_completion EXCEPT !.op = "images", !.type = "image", !.cached = FALSE]

open_chat_stream == [chat_completion EXCEPT !.stream = TRUE, !.early = metered_stream_usage]

open_responses_stream ==
    [responses EXCEPT !.stream = TRUE, !.cached = FALSE, !.early = metered_stream_usage]

native_messages == [chat_completion EXCEPT !.op = "messages", !.native = "anthropic", !.cached = FALSE]

open_native_messages_stream ==
    [native_messages EXCEPT !.stream = TRUE, !.early = metered_native_stream_usage]

generate_content == [chat_completion EXCEPT !.op = "gemini", !.native = "vertex", !.cached = FALSE]

open_generate_content_stream ==
    [generate_content EXCEPT !.stream = TRUE, !.early = metered_gemini_stream_usage]

\* The playground calls chat_completion without a key, and previews a router.
compare == [chat_completion EXCEPT !.preview = TRUE]

IsNative(q) == q.in.via.native # "none"

Operations ==
    {chat_completion, responses, embeddings_op, images, open_chat_stream, open_responses_stream,
     native_messages, open_native_messages_stream, generate_content, open_generate_content_stream, compare}

(***************************************************************************)
(* Constants.  Routers and rules were validated when they were stored, and *)
(* rule names are unique in a team (the table's constraint); the playground*)
(* has no key.                                                             *)
(***************************************************************************)
Rules == Rule(Models, Routers, Tags)

\* No two rules have one name and no rule has two scopes.
Readable(table) ==
    /\ \A x, y \in RuleIds :
         table[x] # NoRule /\ table[y] # NoRule /\ table[x].name = table[y].name => x = y
    /\ \A x \in RuleIds : table[x] # NoRule => table[x].model = NoScope \/ table[x].router = NoScope

ASSUME RouterAssumption ==
    /\ RouterDef \in [Routers -> RouterConfig(Models)]
    /\ \A r \in Routers : WellFormed(RouterDef[r], {m \in Models : ModelType[m] = "chat"})

ASSUME InputAssumption ==
    /\ \A i \in Inputs : /\ i.via \in Operations
                         /\ i.tags \subseteq Tags
                         /\ i.via.preview => i.key = NoKey
                         /\ i.n \in Int
                         /\ IsFiniteSet(DOMAIN i.caps) /\ \A f \in DOMAIN i.caps : i.caps[f] \in Int
    /\ \A a \in Answers : a.tags \subseteq Tags

ASSUME RulesAssumption ==
    /\ \A t \in InitRules : t \in [RuleIds -> Rules \cup {NoRule}] /\ Readable(t)
    /\ NewRules \subseteq Rules
    /\ \A c \in Changes :
         /\ c.model \in Models \cup {NoScope} /\ c.router \in Routers \cup {NoScope}
         /\ c.clear \in BOOLEAN /\ c.toggle \in BOOLEAN
         /\ c.verdict \in {"keep", "block", "redact"} /\ c.name \in Nat

ASSUME ConfAssumption == \A c \in Confs \cup InitConfs : c.ceiling \in Int \cup {NoCeiling}

ASSUME BoundAssumption == MaxEntries \in Nat /\ MaxEdits \in Nat

Idle == [pc |-> "none"]

\* What a client is about to send, if anything.
Client(i) == [pc |-> "idle", in |-> i]

Clients == {Client(i) : i \in Inputs}

Results == {"none", "ok", "blocked", "withheld", "refused", "failed", "dropped"}

(***************************************************************************)
(* What the request carries from step to step.                             *)
(*   conf, snap    the model and the router grant as they were resolved    *)
(*   held, rel     the reservation is out; how often it was given back     *)
(*   flag, soon    the stream's `released' latch; a release scheduled by   *)
(*                 the garbage collector's callback                        *)
(*   keyHits, teamHits, side   RPM hits of the request, side calls admitted*)
(*   alias         what is called; a preview replaces a router by its choice  *)
(*   hit           the buyer of the entry that was replayed, if any          *)
(*   body          the request as sanitised, clamped and validated         *)
(*   reserved, asked   output tokens reserved, and asked of the provider   *)
(*   wire          the turns of the conversation that reached the provider *)
(*   cut           the check that refused the request                      *)
(*   rows          the ledger rows written for the call                    *)
(*   sent, got     content that reached the provider / the caller          *)
(*   pre, post     request / response rules in force ever since the model  *)
(*                 was known, `open' those that failed open in this request*)
(***************************************************************************)
Body(i) ==
    LET r == [feats |-> i.feats, conv |-> i.conv, stream |-> i.via.stream, n |-> i.n, caps |-> i.caps]
    IN IF i.via.native = "none" THEN sanitize_request(i.via.op, r) ELSE r

Fresh(i) ==
    [pc |-> "resolve", in |-> i, alias |-> i.alias, model |-> NoModel, router |-> NoScope,
     conf |-> NoModel, body |-> Body(i), snap |-> NoGrant, text |-> i.tags, ans |-> {}, shape |-> "single",
     usage |-> "absent", ended |-> "no", held |-> FALSE, rel |-> 0, flag |-> FALSE,
     soon |-> FALSE, lost |-> FALSE, keyHits |-> 0, teamHits |-> 0, side |-> 0, rows |-> <<>>,
     sent |-> {}, got |-> {}, hit |-> {}, pre |-> {}, post |-> {}, open |-> {},
     called |-> FALSE, reserved |-> 0, asked |-> {}, wire |-> <<>>,
     cut |-> "none", shadow |-> "none", out |-> "none"]

RequestsInit ==
    /\ rules \in InitRules
    /\ models \in {[m \in Models |-> c] : c \in InitConfs}
    /\ grants = [r \in Routers |-> [live |-> TRUE, rev |-> 0, ack |-> TRUE]]
    /\ store = <<>>
    /\ req \in [Procs -> {Idle} \cup Clients]
    /\ desk = [d \in Desks |-> Idle]
    /\ edits \in 0 .. MaxEdits

Goes(p, pc) == req[p].pc = pc

Open(p) == req[p].pc \notin {"none", "idle"}

Put(p, q) == req' = [req EXCEPT ![p] = q]

Ends(p, q, out) == Put(p, [q EXCEPT !.pc = "done", !.out = out])

\* Meter.release: the claim goes back once per admission.
Released(q) == [q EXCEPT !.held = FALSE, !.rel = @ + 1]

Keyed(q) == q.in.key # NoKey

Stored == {rules[x] : x \in RuleIds} \ {NoRule}

Live(m) == models[m].enabled

(***************************************************************************)
(* A request arrives.  The OpenAI surface hits the key's window first,     *)
(* because a router strategy may spend money before admission; the native  *)
(* ones hit it in admit.  The playground calls the chat operation with no  *)
(* key, and previews a router instead of routing.                          *)
(***************************************************************************)
enforce_key_rate_limit(q) == IF Keyed(q) THEN [q EXCEPT !.keyHits = @ + 1] ELSE q

Opened(i) ==
    IF i.via.native # "none" THEN Fresh(i)
    ELSE IF i.via.preview /\ i.alias \in Routers THEN [Fresh(i) EXCEPT !.pc = "preview"]
    ELSE enforce_key_rate_limit(Fresh(i))

arrive(p) ==
    /\ Goes(p, "idle")
    /\ LET q == Opened(req[p].in)
       IN Put(p, q) \/ (q.keyHits > 0 /\ Ends(p, q, "refused"))
    /\ UNCHANGED <<rules, models, grants, store, desk, edits>>

(***************************************************************************)
(* Resolution.  A native surface and a non-chat operation take no router;  *)
(* _ensure_usable is the same three guards everywhere.  The native surface *)
(* also reads the credential here, and may find none.                      *)
(***************************************************************************)
_ensure_usable(m, via) == Live(m) /\ ModelType[m] = via.type

_reject_unsupported_n(m, q) == q.in.via.op = "chat" /\ q.body.n > 1 /\ ~honors_n(ModelProvider(m))

\* The rules that bind this call from now on, as the caller named it.
Bound(q, m, r) ==
    [q EXCEPT !.model = m, !.router = r, !.conf = models[m],
              !.pre  = resolve_chain(Stored, m, "request", r),
              !.post = resolve_chain(Stored, m, "response", r)]

\* The validator each operation passes to _prepare.
Validated(m, op, b) ==
    CASE op = "chat"      -> validate_chat_request(ModelDesc[m], b)
      [] op = "responses" -> validate_responses_request(ModelDesc[m], b)
      [] OTHER            -> TRUE

Clamped(q, m) ==
    IF IsNative(q) THEN clamp_native_output_tokens(ModelProvider(m), q.body, models[m].ceiling)
    ELSE clamp_output_tokens(q.in.via.op, q.body, models[m].ceiling)

\* The first check that refuses the request on this model.
Cut(q, m) ==
    CASE ~_ensure_usable(m, q.in.via)                -> "model"
      [] IsNative(q) /\ reject_native_control_kwargs(q.body) -> "control"
      [] _reject_unsupported_n(m, q)                 -> "n"
      [] ~IsNative(q) /\ ~Validated(m, q.in.via.op, Clamped(q, m)) -> "policy"
      [] OTHER                                       -> "none"

\* The checks on the resolved model, and where the request goes next.
Usable(p, q, m, r) ==
    IF Cut(q, m) = "none"
    THEN Put(p, [Bound(q, m, r) EXCEPT !.body = Clamped(q, m),
                                       !.pc = IF q.in.via.stream THEN "screen" ELSE "guard"])
    ELSE Ends(p, [q EXCEPT !.cut = Cut(q, m)], "refused")

_resolve_model(p) ==
    LET q == req[p]
    IN /\ Goes(p, "resolve")
       /\ q.alias \in Models
       /\ \/ Usable(p, q, q.alias, NoScope)
          \/ IsNative(q) /\ Ends(p, q, "refused")
       /\ UNCHANGED <<rules, models, grants, store, desk, edits>>

\* The alias names a router: chat operations route, everything else finds no model.
ResolveRouter(p) ==
    LET q == req[p]
        r == q.alias
    IN /\ Goes(p, "resolve")
       /\ r \in Routers
       /\ IF q.in.via.type = "chat" /\ ~IsNative(q) /\ grants[r].live
          THEN Put(p, [q EXCEPT !.pc = "route", !.router = r, !.snap = grants[r]])
          ELSE Ends(p, q, "refused")
       /\ UNCHANGED <<rules, models, grants, store, desk, edits>>

(***************************************************************************)
(* RouterService.route, on the grant as it was resolved.  A judge or an    *)
(* embedding is a metered call of its own: one more team-RPM hit, a claim  *)
(* and a row; one that is refused, fails or runs out of time falls back.   *)
(***************************************************************************)
Refuses(q) ==
    {m \in Models : ~Validated(m, q.in.via.op, clamp_output_tokens(q.in.via.op, q.body, models[m].ceiling))}

RouterFor(q) == _validated_router(RouterDef[q.router], Refuses(q))

Capable(q) == filter_candidates(q.in.needs, RouterFor(q).cands)

\* _metered_call: unmetered when no key called.
SideCalls(q) ==
    IF Metered(RouterFor(q)) /\ Cardinality(Capable(q)) > 1 /\ Keyed(q)
    THEN {q, [q EXCEPT !.side = @ + 1]} ELSE {q}

Routable(q) ==
    /\ Accepted(RouterDef[q.router], Refuses(q)) # {}
    /\ _validate_revision_access(RouterFor(q), {m \in Models : Live(m)})
    /\ _uses_prompt_webhook(RouterDef[q.router].strategy, RouterDef[q.router].escalation) => q.snap.ack
    /\ Capable(q) # {}

route(p) ==
    LET q == req[p]
        shadow == IF RouterDef[q.router].shadow = "none" THEN "none" ELSE "running"
    IN /\ Goes(p, "route")
       /\ \/ ~Routable(q) /\ Ends(p, q, "refused")
          \/ /\ Routable(q)
             /\ \E m \in Picks(RouterFor(q), Capable(q)), s \in SideCalls(q) :
                  Put(p, [s EXCEPT !.pc = "chosen", !.model = m, !.shadow = shadow])
       /\ UNCHANGED <<rules, models, grants, store, desk, edits>>

\* The chosen candidate is resolved again, by its id, after the strategy ran.
Chosen(p) ==
    /\ Goes(p, "chosen")
    /\ Usable(p, req[p], req[p].model, req[p].router)
    /\ UNCHANGED <<rules, models, grants, store, desk, edits>>

\* The playground: the router's preview names a candidate, which is then called by its own name.
select_preview(p) ==
    LET q == req[p]
        r == RouterDef[q.alias]
        c == filter_candidates(q.in.needs, r.cands)
    IN /\ Goes(p, "preview")
       /\ IF grants[q.alias].live /\ c # {}
          THEN \E m \in PreviewPicks(r, c) : Put(p, [q EXCEPT !.pc = "resolve", !.alias = m])
          ELSE Ends(p, q, "refused")
       /\ UNCHANGED <<rules, models, grants, store, desk, edits>>

(***************************************************************************)
(* _run_shadow: a detached task.  It looks the grant up again, runs its    *)
(* strategy unmetered and logs its own row; it never touches the request.  *)
(***************************************************************************)
_run_shadow(p) ==
    LET q == req[p]
        g == grants[q.router]
        egress == _uses_prompt_webhook(RouterDef[q.router].shadow, RouterDef[q.router].escalation)
        stale == ~g.live \/ g.rev # q.snap.rev \/ (egress /\ ~g.ack)
    IN /\ Open(p)
       /\ q.shadow = "running"
       /\ \/ ~stale /\ Put(p, [q EXCEPT !.shadow = "logged"])
          \/ Put(p, [q EXCEPT !.shadow = "dropped"])          \* stale, failed, or drained at shutdown
       /\ UNCHANGED <<rules, models, grants, store, desk, edits>>

(***************************************************************************)
(* Guardrails before the call.  A stream is refused while any response rule*)
(* applies; then the request chain runs, each rule asked in turn (a judge  *)
(* is a metered call).  Some of the providers asked may be down.           *)
(***************************************************************************)
_refuse_stream_when_response_guarded(p) ==
    LET q     == req[p]
        chain == resolve_chain(Stored, q.model, "response", q.router)
    IN /\ Goes(p, "screen")
       /\ IF build_chain(chain) # {} \/ Unbuildable(chain)
          THEN Ends(p, q, "blocked")
          ELSE Put(p, [q EXCEPT !.pc = "guard", !.open = @ \cup chain])
       /\ UNCHANGED <<rules, models, grants, store, desk, edits>>

FailedOpen(chain, down) ==
    {x \in chain : x.fail = "open" /\ (~Buildable(x) \/ x.name \in down)}

Down(chain) == SUBSET {x.name : x \in build_chain(chain)}

\* The metered calls of the judges that were asked, when a key called.
Judged(q, asked) ==
    IF Keyed(q) THEN [q EXCEPT !.side = @ + Cardinality({x \in asked : x.kind = "judge"})] ELSE q

\* A native model of another provider is refused only after the chain ran.
AfterGuard(q) ==
    IF IsNative(q) /\ ModelProvider(q.model) # q.in.via.native
    THEN [q EXCEPT !.pc = "done", !.out = "refused"]
    ELSE [q EXCEPT !.pc = "admit"]

_guard_request(p) ==
    LET q == req[p]
        chain == resolve_chain(Stored, q.model, "request", q.router)
    IN /\ Goes(p, "guard")
       /\ \E down \in Down(chain) :
            LET g == Guarded(Stored, q.model, "request", q.router, q.text, q.in.shape, down)
                j == [Judged(q, g.asked) EXCEPT !.open = @ \cup FailedOpen(chain, down)]
            IN IF g.refused THEN Ends(p, j, "blocked")
               ELSE Put(p, AfterGuard([j EXCEPT !.text = g.content]))
       /\ UNCHANGED <<rules, models, grants, store, desk, edits>>

(***************************************************************************)
(* Admission: the team's window, the key's on the native surfaces, then the*)
(* reservation.  The OpenAI surface reads the credential with the claim out*)
(* and gives it back when there is none.                                   *)
(***************************************************************************)
Hits(q) ==
    LET t == [q EXCEPT !.teamHits = @ + 1]
    IN IF IsNative(q) THEN enforce_key_rate_limit(t) ELSE t

Hot(q) == q.conf.params = "hot" \/ (q.conf.params = "none" /\ q.in.hot)

\* is_cacheable, and the surfaces that pass a cache key at all.
is_cacheable(q) ==
    /\ q.in.via.cached
    /\ q.conf.cache # "off"
    /\ q.conf.cache = "any" \/ ~Hot(q)

CallPc(q) == IF q.in.via.stream THEN "open" ELSE "call"

AdmittedPc(q) == IF is_cacheable(q) THEN "lookup" ELSE CallPc(q)

Reserves(q) ==
    _reservation_cost(ModelType[q.model],
        IF IsNative(q) THEN native_reservation_view(ModelProvider(q.model), q.body) ELSE q.body)

admit(p) ==
    LET q == Hits(req[p])
    IN /\ Goes(p, "admit")
       /\ \/ Ends(p, q, "refused")
          \/ Put(p, [q EXCEPT !.held = TRUE,
                              !.reserved = Reserves(q),
                              !.pc = IF IsNative(q) THEN CallPc(q) ELSE "creds"])
       /\ UNCHANGED <<rules, models, grants, store, desk, edits>>

LeakOnMissing(p) ==
    LET q == req[p]
    IN /\ Goes(p, "creds")
       /\ Put(p, [q EXCEPT !.pc = AdmittedPc(q)]) \/ Ends(p, q, "failed")
       /\ UNCHANGED <<rules, models, grants, store, desk, edits>>

get_values(p) ==
    LET q == req[p]
    IN /\ Goes(p, "creds")
       /\ Put(p, [q EXCEPT !.pc = AdmittedPc(q)]) \/ Ends(p, Released(q), "failed")
       /\ UNCHANGED <<rules, models, grants, store, desk, edits>>

(***************************************************************************)
(* The response cache: an LRU list of entries, the newest last.  `who' is  *)
(* the request that paid for the entry and `watched' what its response     *)
(* rules looked for.                                                       *)
(***************************************************************************)
Who(q) == [team |-> q.in.team, key |-> q.in.key, op |-> q.in.via.op, model |-> q.model,
           prompt |-> q.in.prompt, body |-> [q.body EXCEPT !.stream = FALSE], text |-> q.text, hot |-> Hot(q)]

derive_cache_key(q) == Who(q)

At(k) == {j \in DOMAIN store : store[j].key = k}

\* A key has at most one entry.
Without(k) ==
    IF At(k) = {} THEN store ELSE RemoveAt(store, CHOOSE j \in At(k) : TRUE)

\* What the rules that screen the answer look for (/responses ignores the router's).
Watched(q) ==
    IF ~q.in.via.scoped /\ q.router # NoScope THEN {} ELSE {x.watch : x \in q.post \ q.open}

\* InMemoryResponseCache.put: newest last, the oldest evicted over the limit.
CachePut(q, tags) ==
    LET s == Append(Without(derive_cache_key(q)),
                    [key |-> derive_cache_key(q), who |-> Who(q), tags |-> tags,
                     shape |-> q.shape, usage |-> q.usage,
                     watched |-> Watched(q)])
    IN IF Len(s) > MaxEntries THEN Tail(s) ELSE s

\* A hit settles at zero and gives the claim back before it is screened again;
\* a stream replays it first.  A failing cache is a miss.
ReplayUnscreened(p, q) ==
    IF q.in.via.stream THEN Put(p, [q EXCEPT !.pc = "primed"])
    ELSE Ends(p, [Released(q) EXCEPT !.rows = Append(@, "hit"), !.got = q.ans], "ok")

Replay(p, q) ==
    IF q.in.via.stream THEN Put(p, [q EXCEPT !.pc = "primed"])
    ELSE Put(p, [Released(q) EXCEPT !.pc = "respond", !.rows = Append(@, "hit")])

_cache_get(p) ==
    LET q == req[p]
        k == derive_cache_key(q)
    IN /\ Goes(p, "lookup")
       /\ \/ \E j \in At(k) :
               LET e == store[j]
               IN /\ store' = Append(Without(k), e)
                  /\ Replay(p, [q EXCEPT !.hit = {e.who}, !.ans = e.tags,
                                         !.shape = e.shape, !.usage = e.usage])
          \/ UNCHANGED store /\ Put(p, [q EXCEPT !.pc = CallPc(q)])
       /\ UNCHANGED <<rules, models, grants, desk, edits>>

Expire ==
    /\ store # <<>>
    /\ \E j \in DOMAIN store : store' = Without(store[j].key)
    /\ UNCHANGED <<rules, models, grants, req, desk, edits>>

(***************************************************************************)
(* _dispatch: the call, its settlement, the response chain, the cache.  A  *)
(* provider that answered something unusable is billed all the same.       *)
(***************************************************************************)
Emulates(q) == q.in.via.op = "responses" /\ ModelProvider(q.model) \notin {"openai", "azure"}

\* The chat request the provider's adapter works on.
ChatBody(q) == IF Emulates(q) THEN to_chat_completions(Renamed(q.body)) ELSE q.body

SpeaksChat(q) == q.in.via.op = "chat" \/ Emulates(q)

\* The gateway and the translator check once more, with the claim out.
Serves(q) == _resolve(ModelDesc[q.model], q.in.via.op)

Translates(q) == SpeaksChat(q) => Translatable(ModelDesc[q.model], ChatBody(q))

Answered(q, a) ==
    [q EXCEPT !.called = TRUE, !.sent = q.text, !.ans = a.tags, !.shape = a.shape, !.usage = a.usage,
              !.wire = IF SpeaksChat(q) THEN Sent(ModelDesc[q.model], ChatBody(q).conv) ELSE <<>>,
              !.asked = IF SpeaksChat(q) THEN AskedFor(ModelProvider(q.model), ChatBody(q))
                        ELSE {q.body.caps[f] : f \in DOMAIN q.body.caps
                                 \cap IF IsNative(q) THEN {NativeField(q.in.via.native)} ELSE {"max_output_tokens"}}]

\* _settle_usage: an authoritative zero of a refusal is kept, but only the
\* OpenAI shapes are recognised; every other missing count is estimated.
RowFor(q) ==
    IF q.usage = "tokens" THEN "real"
    ELSE IF q.usage = "refusal" /\ q.in.via.op \in {"chat", "responses"} THEN "zero"
    ELSE IF q.in.via.op = "images" THEN "image" ELSE "estimate"

Billed(q) == [q EXCEPT !.rows = Append(@, RowFor(q))]

call(p) ==
    LET q == req[p]
    IN /\ Goes(p, "call")
       /\ IF Serves(q) /\ Translates(q)
          THEN \/ \E a \in Answers :
                    \/ Put(p, [Answered(q, a) EXCEPT !.pc = "settle"])
                    \/ Ends(p, Released(Billed(Answered(q, a))), "failed") \* UpstreamResponseInvalid
               \/ Ends(p, [Released(q) EXCEPT !.sent = q.text], "failed")
          ELSE Ends(p, [Released(q) EXCEPT !.cut = "adapter"], "refused")
       /\ UNCHANGED <<rules, models, grants, store, desk, edits>>

settle_ok(p) ==
    /\ Goes(p, "settle")
    /\ Put(p, [Billed(req[p]) EXCEPT !.pc = "respond"])
    /\ UNCHANGED <<rules, models, grants, store, desk, edits>>

\* The router whose rules screen the answer: /responses passes none.
ResponseScope(q) == IF q.in.via.scoped THEN q.router ELSE NoScope

_guard_response(p) ==
    LET q == req[p]
        chain == resolve_chain(Stored, q.model, "response", ResponseScope(q))
        back(x) == IF x.held THEN Released(x) ELSE x
    IN /\ Goes(p, "respond")
       /\ \E down \in Down(chain) :
            LET g == Guarded(Stored, q.model, "response", ResponseScope(q), q.ans, q.shape, down)
                j == [Judged(q, g.asked) EXCEPT !.open = @ \cup FailedOpen(chain, down)]
                s == [j EXCEPT !.ans = g.content]
            IN IF g.refused THEN Ends(p, back(j), "withheld")
               ELSE IF q.hit = {} /\ is_cacheable(q) /\ q.usage # "absent"
               THEN Put(p, [s EXCEPT !.pc = "put"])
               ELSE Ends(p, [back(s) EXCEPT !.got = g.content], "ok")
       /\ UNCHANGED <<rules, models, grants, store, desk, edits>>

_cache_put(p) ==
    LET q == req[p]
    IN /\ Goes(p, "put")
       /\ store' \in {store, CachePut(q, q.ans)}          \* a store failure is swallowed
       /\ Ends(p, [Released(q) EXCEPT !.got = q.ans], "ok")
       /\ UNCHANGED <<rules, models, grants, desk, edits>>

(***************************************************************************)
(* Streams.  The provider stream is opened and its first chunk pulled      *)
(* (_prime) before the response starts, so that an error still is a status;*)
(* then the chunks flow until the end, an error, or the client goes away.  *)
(* The generator's finally gives the claim back and bills, shielded.       *)
(***************************************************************************)
open_stream(p) ==
    LET q == req[p]
    IN /\ Goes(p, "open")
       /\ IF Serves(q) THEN Put(p, [q EXCEPT !.pc = "prime"])
          ELSE Ends(p, [Released(q) EXCEPT !.cut = "adapter"], "refused")
       /\ UNCHANGED <<rules, models, grants, store, desk, edits>>

Closing(q, how) == [q EXCEPT !.pc = "closing", !.ended = how]

_prime(p) ==
    LET q == req[p]
    IN /\ Goes(p, "prime")
       /\ IF Translates(q)
          THEN \E a \in Answers :
                 LET r == Answered(q, a)
                     e == [r EXCEPT !.usage = "absent", !.ans = {}]
                 IN \/ Put(p, [r EXCEPT !.pc = "primed"])
                    \/ Put(p, Closing(e, "clean"))                   \* an empty stream
                    \/ Put(p, Closing(e, "rejected"))
          ELSE Put(p, [Closing(q, "rejected") EXCEPT !.cut = "adapter"])
       /\ UNCHANGED <<rules, models, grants, store, desk, edits>>

\* The response starts: the primed chunk is with the client.
_rechain(p) ==
    LET q == req[p]
    IN /\ Goes(p, "primed")
       /\ Put(p, [q EXCEPT !.pc = "flow", !.got = q.ans])
       /\ UNCHANGED <<rules, models, grants, store, desk, edits>>

Early(q) == {IF u = "last" THEN q.usage ELSE u : u \in q.in.via.early}

metered_stream(p) ==
    LET q == req[p]
    IN /\ Goes(p, "flow")
       /\ \/ Put(p, Closing(q, "clean"))
          \/ /\ q.hit = {}                        \* a replay cannot fail
             /\ \E u \in Early(q) : Put(p, [Closing(q, "error") EXCEPT !.usage = u])
       /\ UNCHANGED <<rules, models, grants, store, desk, edits>>

(***************************************************************************)
(* The client goes away.  Before the first byte nothing iterates the       *)
(* generator any more: it is collected, and the collector's callback may   *)
(* take the latch before the close that the event loop schedules runs.     *)
(***************************************************************************)
Disconnect(p) ==
    LET q == req[p]
    IN /\ req[p].pc \in {"primed", "flow"}
       /\ \E u \in IF q.hit = {} THEN Early(q) ELSE {q.usage} :
            LET c == [Closing(q, "disconnect") EXCEPT !.usage = u]
            IN \/ Put(p, c)
               \/ /\ Goes(p, "primed")                \* release_from_finalizer
                  /\ Put(p, [c EXCEPT !.flag = TRUE, !.soon = TRUE])
       /\ UNCHANGED <<rules, models, grants, store, desk, edits>>

release_soon(p) ==
    LET q == req[p]
    IN /\ Open(p)
       /\ q.soon
       /\ Put(p, [Released(q) EXCEPT !.soon = FALSE])
       /\ UNCHANGED <<rules, models, grants, store, desk, edits>>

\* release(): the latch is set before the await.
ReleaseUnlatched(q) == Released(q)

release(q) == IF q.flag THEN q ELSE [Released(q) EXCEPT !.flag = TRUE]

CloseStream(p) ==
    /\ Goes(p, "closing")
    /\ Put(p, [release(req[p]) EXCEPT !.pc = "billing"])
    /\ UNCHANGED <<rules, models, grants, store, desk, edits>>

(***************************************************************************)
(* _finalize_stream_billing.  A stream rejected before it produced anything*)
(* is free; one that ends without counts is estimated, except after a      *)
(* refusal with an authoritative zero, which only the OpenAI shapes carry; *)
(* a settlement that exceeds its deadline is dropped.                      *)
(***************************************************************************)
StreamRow(q) ==
    LET zero == q.usage = "refusal" /\ q.in.via.op \in {"chat", "responses"}
    IN IF q.hit # {} THEN <<"hit">>
       ELSE IF q.ended = "rejected" THEN <<>>
       ELSE IF q.usage \in {"tokens", "partial"} THEN <<"real">>
       ELSE IF zero THEN IF q.ended = "error" THEN <<>> ELSE <<"zero">>
       ELSE <<"estimate">>

StreamOut(q) ==
    CASE q.ended = "clean" -> "ok" [] q.ended = "disconnect" -> "dropped" [] OTHER -> "failed"

_finalize_stream_billing(p) ==
    LET q == req[p]
    IN /\ Goes(p, "billing")
       /\ \/ Ends(p, [q EXCEPT !.rows = @ \o StreamRow(q)], StreamOut(q))
          \/ q.hit = {} /\ Ends(p, [q EXCEPT !.lost = TRUE], StreamOut(q))
       /\ UNCHANGED <<rules, models, grants, store, desk, edits>>

(***************************************************************************)
(* The operators.  A rule is read, checked and written in steps of its own;*)
(* the table's unique (team, name) decides between two that collide.  Every*)
(* change of the policy narrows what stood since a request was resolved.   *)
(***************************************************************************)
Unresolved == {"none", "idle", "resolve", "preview", "route", "chosen", "done"}

Narrowed(stored) ==
    [p \in Procs |->
        IF req[p].pc \in Unresolved THEN req[p]
        ELSE [req[p] EXCEPT
                !.pre  = @ \cap resolve_chain(stored, req[p].model, "request", req[p].router),
                !.post = @ \cap resolve_chain(stored, req[p].model, "response", req[p].router)]]

SetRule(x, r) ==
    /\ rules' = [rules EXCEPT ![x] = r]
    /\ req' = Narrowed({rules'[y] : y \in RuleIds} \ {NoRule})
    /\ UNCHANGED <<models, grants, store>>

NameTaken(n, but) == \E y \in RuleIds \ but : rules[y] # NoRule /\ rules[y].name = n

create_rule(d) ==
    /\ desk[d] = Idle
    /\ edits > 0
    /\ \E x \in NewRules :
         /\ validate_rule(x, FALSE)
         /\ ~NameTaken(x.name, {})                                       \* _ensure_name_free
         /\ desk' = [desk EXCEPT ![d] = [pc |-> "add", rule |-> x]]
    /\ edits' = edits - 1
    /\ UNCHANGED <<rules, models, grants, store, req>>

add(d) ==
    /\ desk[d].pc = "add"
    /\ IF NameTaken(desk[d].rule.name, {})                               \* the unique constraint
       THEN UNCHANGED <<rules, models, grants, store, req>>
       ELSE \E x \in RuleIds : rules[x] = NoRule /\ SetRule(x, desk[d].rule)
    /\ desk' = [desk EXCEPT ![d] = Idle]
    /\ UNCHANGED edits

Changed(x, c) == [Rescope(x, c) EXCEPT !.enabled = IF c.toggle THEN ~x.enabled ELSE @,
                                       !.verdict = IF c.verdict = "keep" THEN @ ELSE c.verdict,
                                       !.name = IF c.name = 0 THEN @ ELSE c.name]

update_rule(d) ==
    /\ desk[d] = Idle
    /\ edits > 0
    /\ \E x \in RuleIds, c \in Changes :
         /\ rules[x] # NoRule
         /\ ~Contradictory(c)
         /\ validate_rule(Changed(rules[x], c), FALSE)
         /\ ~NameTaken(Changed(rules[x], c).name, {x})
         /\ desk' = [desk EXCEPT ![d] = [pc |-> "update", at |-> x, rule |-> Changed(rules[x], c)]]
    /\ edits' = edits - 1
    /\ UNCHANGED <<rules, models, grants, store, req>>

update(d) ==
    /\ desk[d].pc = "update"
    /\ IF rules[desk[d].at] = NoRule \/ NameTaken(desk[d].rule.name, {desk[d].at})
       THEN UNCHANGED <<rules, models, grants, store, req>>              \* gone, or the name is taken
       ELSE SetRule(desk[d].at, desk[d].rule)
    /\ desk' = [desk EXCEPT ![d] = Idle]
    /\ UNCHANGED edits

delete_rule ==
    /\ edits > 0
    /\ \E x \in RuleIds : rules[x] # NoRule /\ SetRule(x, NoRule)
    /\ edits' = edits - 1
    /\ UNCHANGED desk

\* The model, and the router's grant, change under a request that holds a copy.
update_model ==
    /\ edits > 0
    /\ \E m \in Models, c \in Confs : models[m] # c /\ models' = [models EXCEPT ![m] = c]
    /\ edits' = edits - 1
    /\ UNCHANGED <<rules, grants, store, req, desk>>

change_grant ==
    /\ edits > 0
    /\ \E r \in Routers :
         /\ grants[r].live
         /\ grants' \in {[grants EXCEPT ![r].live = FALSE]}                         \* unextend
                \cup {[grants EXCEPT ![r].rev = @ + 1, ![r].ack = a] : a \in BOOLEAN} \* upgrade_grant
    /\ edits' = edits - 1
    /\ UNCHANGED <<rules, models, store, req, desk>>

Serve(p) ==
    \/ _resolve_model(p) \/ ResolveRouter(p) \/ route(p) \/ Chosen(p) \/ select_preview(p)
    \/ _refuse_stream_when_response_guarded(p) \/ _guard_request(p) \/ admit(p) \/ get_values(p)
    \/ _cache_get(p) \/ call(p) \/ settle_ok(p) \/ _guard_response(p) \/ _cache_put(p)
    \/ open_stream(p) \/ _prime(p) \/ _rechain(p) \/ metered_stream(p)
    \/ release_soon(p) \/ CloseStream(p) \/ _finalize_stream_billing(p)

Operate == \E d \in Desks : create_rule(d) \/ add(d) \/ update_rule(d) \/ update(d)

RequestsNext ==
    \/ \E p \in Procs : arrive(p) \/ Serve(p) \/ Disconnect(p) \/ _run_shadow(p)
    \/ Operate \/ delete_rule \/ update_model \/ change_grant \/ Expire

(***************************************************************************)
(* The event loop runs every coroutine that can run; whether a request     *)
(* arrives, a client leaves, an operator edits or an entry expires is free.*)
(***************************************************************************)
RequestsSpec == RequestsInit /\ [][RequestsNext]_requestVars /\ \A p \in Procs : WF_requestVars(Serve(p))

(***************************************************************************)
(* Properties.                                                             *)
(***************************************************************************)
\* Types of the state.
RequestsTypeOK ==
    /\ Stored \subseteq Rules
    /\ \A r \in Routers : grants[r] \in [live : BOOLEAN, rev : 0 .. MaxEdits, ack : BOOLEAN]
    /\ Len(store) <= MaxEntries
    /\ \A p \in Procs : Open(p) =>
         LET q == req[p]
         IN /\ q.model \in Models \cup {NoModel}
            /\ q.router \in Routers \cup {NoScope}
            /\ q.text \cup q.ans \cup q.sent \cup q.got \subseteq Tags
            /\ q.out \in Results
            /\ (q.out = "none") = (q.pc # "done")

(***************************************************************************)
(* What a response rule watches for does not reach the caller: not through *)
(* a fresh answer, a cached one, a stream, or a redaction that had nowhere *)
(* to go, when the rule stood from the resolution of the model to the      *)
(* delivery and did not fail open (_guard_response, _refuse_stream_...).   *)
(* /responses through a router screens with the candidate's rules only.    *)
(***************************************************************************)
Screened ==
    \A p \in Procs :
        Open(p) /\ (req[p].in.via.scoped \/ req[p].router = NoScope)
            => \A x \in req[p].post \ req[p].open : x.watch \notin req[p].got

(***************************************************************************)
(* What a request rule watches for does not reach the provider, on any     *)
(* surface, whatever other rules of the chain rewrote (_guard_request).    *)
(***************************************************************************)
PromptScreened ==
    \A p \in Procs : Open(p) => \A x \in req[p].pre \ req[p].open : x.watch \notin req[p].sent

(***************************************************************************)
(* The cache never keeps what a response rule in force refused or removed  *)
(* while the entry was made (ISSUE-036); see Screened for /responses.      *)
(***************************************************************************)
StoredIsScreened == \A j \in DOMAIN store : store[j].tags \cap store[j].watched = {}

(***************************************************************************)
(* An answer is replayed only to the key it was bought with, for the same  *)
(* prompt as it was sent, the same model and the parameters in force now   *)
(* (derive_cache_key on the merged request, ISSUE-023).                    *)
(***************************************************************************)
ReplayedToOwner ==
    \A p \in Procs :
        Open(p) =>
            \A w \in req[p].hit :
            LET q == req[p]
            IN /\ <<w.team, w.key, w.op, w.model>> = <<q.in.team, q.in.key, q.in.via.op, q.model>>
               /\ <<w.prompt, w.text, w.body.n, w.hot>> = <<q.in.prompt, q.text, q.body.n, Hot(q)>>
               /\ Hot(q) => q.conf.cache = "any"

(***************************************************************************)
(* A claim is given back at most once, and only by a request that was      *)
(* admitted: the stream's finally, the collector's callback and the error  *)
(* paths never release the same reservation twice (M27).                   *)
(***************************************************************************)
ReleasedOnce ==
    \A p \in Procs : Open(p) => /\ req[p].rel <= 1
                                /\ req[p].rel = 1 => ~req[p].held /\ req[p].teamHits = 1

(***************************************************************************)
(* One ledger row per answer: an answer that was delivered, withheld or    *)
(* unusable is billed once, a replay at zero, and a call that never         *)
(* happened or produced nothing is free (M26); only a settlement past its  *)
(* deadline loses a row.                                                   *)
(***************************************************************************)
BilledForCalls ==
    \A p \in Procs :
        Open(p) /\ req[p].pc = "done" =>
            LET q == req[p]
            IN /\ Len(q.rows) <= 1
               /\ ~q.called /\ q.hit = {} => q.rows = <<>>
               /\ q.ended = "rejected" => q.rows = <<>>
               /\ q.hit # {} => q.rows = <<"hit">> /\ ~q.called
               /\ q.out \in {"ok", "withheld"} /\ ~q.lost => Len(q.rows) = 1
               /\ q.called /\ q.usage = "tokens" /\ ~q.lost => q.rows = <<"real">>

(***************************************************************************)
(* A request refused by a request rule took no team-RPM slot of its own, no*)
(* reservation and no row (_prepare: guardrails run before admission).     *)
(***************************************************************************)
BlockedIsFree ==
    \A p \in Procs :
        Open(p) /\ req[p].out = "blocked" =>
            req[p].teamHits = 0 /\ req[p].rel = 0 /\ req[p].rows = <<>>

(***************************************************************************)
(* An external request takes one hit of its key's window on every surface, *)
(* and exactly one before a provider is called (skip_key_rate_limit).      *)
(***************************************************************************)
OneKeyHit ==
    \A p \in Procs :
        Open(p) => /\ req[p].keyHits <= 1
                   /\ req[p].called /\ Keyed(req[p]) => req[p].keyHits = 1

(***************************************************************************)
(* Whatever the strategy did, the model a router settles on meets the      *)
(* request's hard requirements (filter_candidates, the fallback of         *)
(* _run_strategy, the default that moves in _validated_router).            *)
(***************************************************************************)
RoutedCapable ==
    \A p \in Procs :
        Open(p) /\ req[p].router # NoScope /\ req[p].model # NoModel =>
            LET q == req[p]
            IN \E c \in RouterDef[q.router].cands :
                 c.model = q.model /\ q.in.needs \subseteq c.caps

(***************************************************************************)
(* A request that a router took is not refused for its shape afterwards,   *)
(* when the strategy may have spent money: the candidates that cannot take *)
(* it were dropped first (_validated_router, which does not look at n).    *)
(***************************************************************************)
RoutedIsAccepted == \A p \in Procs : Open(p) /\ req[p].router # NoScope => req[p].cut # "policy"

(***************************************************************************)
(* What the policy accepts the adapter does not refuse once the claim is   *)
(* out.  Responses on Vertex and on an OpenAI-compatible endpoint are the  *)
(* exceptions: the emulated checks are weaker than the chat ones there.    *)
(***************************************************************************)
AdapterAgrees ==
    \A p \in Procs :
        Open(p) /\ req[p].cut = "adapter" =>
            Emulates(req[p]) /\ ModelProvider(req[p].model) \in {"vertex", "compatible"}

\* The calls, results and other messages of a conversation, one by one.
Said == <<"said", 0>>

Atoms(x) ==
    IF "type" \in DOMAIN x
    THEN <<CASE x.type = "function_call" -> <<"call", x.call>>
             [] x.type = "function_call_output" -> <<"result", x.call.id>>
             [] OTHER -> Said>>
    ELSE IF x.calls # <<>> THEN [j \in DOMAIN x.calls |-> <<"call", x.calls[j]>>]
    ELSE IF x.role = "tool" THEN <<<<"result", x.call.id>>>> ELSE <<Said>>

TurnAtoms(t) ==
    IF t.calls # <<>> THEN [j \in DOMAIN t.calls |-> <<"call", t.calls[j]>>]
    ELSE IF t.results # <<>> THEN [j \in DOMAIN t.results |-> <<"result", t.results[j].id>>]
    ELSE <<Said>>

Flat(s, F(_)) == FlattenSeq([j \in DOMAIN s |-> F(s[j])])

AnsweredBy(t, u) == {<<"result", t.calls[j].id>> : j \in DOMAIN t.calls} = ToSet(TurnAtoms(u))

(***************************************************************************)
(* A conversation with tools reaches the provider whole: every message,    *)
(* call and result once and in order, and, where the gateway translates,   *)
(* each turn of calls is followed by the one turn that answers all of them *)
(* (validate_responses_request, _input_to_messages, the adapters).         *)
(***************************************************************************)
ConversationKept ==
    \A p \in Procs :
        Open(p) /\ req[p].called /\ SpeaksChat(req[p]) =>
            LET q == req[p]
                w == q.wire
            IN /\ Flat(w, TurnAtoms) = Flat(q.in.conv, Atoms)
               /\ ModelProvider(q.model) \in Translated =>
                    \A j \in DOMAIN w :
                        /\ w[j].calls # <<>> => j < Len(w) /\ AnsweredBy(w[j], w[j + 1])
                        /\ w[j].results # <<>> => j > 1 /\ w[j - 1].calls # <<>>

(***************************************************************************)
(* The reservation covers what the provider was told it may generate, when *)
(* the client named at most one limit, and the model's ceiling binds a     *)
(* request that named none (clamp_output_tokens,                           *)
(* clamp_native_output_tokens).  Zero through a translator is out, whoever *)
(* said it, a client or an admin (infrastructure/web/models/schemas.py:36  *)
(* has no lower bound): the Anthropic translator replaces it by a limit of *)
(* its own, and the others may pass on none.                               *)
(***************************************************************************)
SaysZero(q) == q.conf.ceiling = 0 \/ \E f \in DOMAIN q.in.caps : q.in.caps[f] = 0

ReservedCovers ==
    \A p \in Procs :
        LET q == req[p]
        IN /\ Open(p) /\ q.called /\ q.in.via.type = "chat"
           /\ Cardinality(DOMAIN q.in.caps) <= 1 /\ q.body.n >= 0
           /\ SaysZero(q) => ModelProvider(q.model) \notin Translated \/ IsNative(q)
           => /\ DOMAIN q.body.caps # {} => \A c \in q.asked : q.reserved >= q.body.n * c
              /\ q.conf.ceiling # NoCeiling =>
                   q.asked # {} /\ \A c \in q.asked : c <= q.conf.ceiling /\ q.reserved >= q.body.n * c

(***************************************************************************)
(* However two operators' checks and writes interleave, the policy stays   *)
(* readable: rule names are unique and no rule has two scopes (ISSUE-049). *)
(***************************************************************************)
PolicyReadable == Readable(rules)

ClaimHeld(p) == Open(p) /\ req[p].held

(***************************************************************************)
(* Every reservation comes back, on every path: a missing credential, a    *)
(* provider error, a refused answer, a client gone before the first byte.  *)
(***************************************************************************)
EveryClaimReturns == \A p \in Procs : ClaimHeld(p) ~> ~ClaimHeld(p)

(***************************************************************************)
(* Content that a rule refuses goes nowhere: not to the provider, not to   *)
(* the caller, not into the cache, and no answer to another's request      *)
(* (completion_service.py:371, response_cache_key.py:70).                  *)
(***************************************************************************)
ContentScreened == Screened /\ PromptScreened /\ StoredIsScreened /\ ReplayedToOwner

(***************************************************************************)
(* Every request is accounted for once: one release, one row, one key hit, *)
(* and nothing at all when a request rule blocks it                        *)
(* (usage_meter.py:409, completion_service.py:1854).                       *)
(***************************************************************************)
AccountedOnce == RequestsTypeOK /\ ReleasedOnce /\ BilledForCalls /\ BlockedIsFree /\ OneKeyHit

(***************************************************************************)
(* What is routed and admitted can be served: the candidate has the        *)
(* capabilities, the policy can be read, the adapter takes what the policy *)
(* took without losing a turn, and the reservation covers the output       *)
(* (routing/service.py:1003, chat_tool_policy.py:677,                      *)
(* request_policy.py:944).                                                 *)
(***************************************************************************)
OnlyServable ==
    /\ RoutedCapable /\ RoutedIsAccepted
    /\ AdapterAgrees /\ ConversationKept
    /\ PolicyReadable /\ ReservedCovers
===============================================================================
