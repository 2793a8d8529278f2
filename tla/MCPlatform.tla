------------------------------ MODULE MCPlatform ------------------------------
(***************************************************************************)
(* Model checking of four platform services that share no state: the       *)
(* provider-client registry, the rate limiter, the vault and the           *)
(* translation of answers.  A scenario runs one of them from its initial   *)
(* states; the others stand still.                                         *)
(***************************************************************************)
EXTENDS ClientRegistry, RateWindow, Vault, Answers

CONSTANTS p1, p2, p3, k1, k2, x, y, h1, h2, h3, r1, r2, r3, e1, e2, v1, v2

VARIABLE scenario

Scenarios == {"serving", "misses", "stopping", "limiter", "edits", "sessions", "leases", "answers"}

\* Windows of two lengths, so that one ends before the other's next sweep.
MCWindowOf == [k \in {x, y} |-> IF k = x THEN 2 ELSE 3]

MCLimitOf == [k \in {x, y} |-> 1]

vars == <<scenario, regVars, rateVars, vaultVars, ansVars>>

Block(k, i, n, fragments) == [kind |-> k, id |-> i, name |-> n, x |-> fragments]

\* Text, two good calls, a call with the id of another, and the forced tool;
\* alone also an empty text, a call without arguments and a foreign block.
Paired ==
    {Block("text", 0, "none", <<"t1", "t2">>), Block("tool", 1, "f", <<"a1", "a2">>), Block("tool", 2, "g", <<"b">>),
     Block("tool", 1, "g", <<"c">>), Block("tool", 3, Forced, <<"s">>)}

Alone == Paired \cup {Block("text", 0, "none", <<>>), Block("tool", 2, "f", <<>>), Block("other", 0, "none", <<"o">>)}

BlockSeqs == {<<>>} \cup {<<z>> : z \in Alone} \cup (Paired \X Paired)

Ask(tools, choice, serial, forced) == [tools |-> tools, choice |-> choice, serial |-> serial, forced |-> forced]

PlainAsk == Ask({}, "auto", FALSE, FALSE)

AnthropicAsks ==
    {PlainAsk, Ask({}, "auto", FALSE, TRUE)} \cup
    {Ask({"f", "g"}, choice, serial, FALSE) : choice \in {"auto", "required", "none", "f"}, serial \in BOOLEAN}

OtherAsks == {z \in AnthropicAsks : ~z.serial /\ ~z.forced}

AnswersTo(providers, asks) ==
    [provider : providers, ask : asks, blocks : BlockSeqs,
     stop : {"end", "length", "tool", "refusal", "pause", "unknown"}, out : {0, 1}, metered : {TRUE}]

\* No answer that other scenarios look at.
Silent == [provider |-> "vertex", ask |-> PlainAsk, blocks |-> <<>>, stop |-> "end", out |-> 0, metered |-> FALSE]

MCAnswers == AnswersTo({"anthropic"}, AnthropicAsks) \cup AnswersTo({"bedrock", "vertex"}, OtherAsks) \cup {Silent}

\* What a step of the registry leaves alone.
others == <<scenario, rateVars, vaultVars, ansVars>>

\* Two tasks want one client, a third another: with Capacity = 1 that is enough
\* for a miss behind a miss, an eviction, and a displaced generation.  In
\* "misses" all three want the one client, which expires meanwhile.
MCKeys ==
    /\ task[p1].key = k1 /\ task[p2].key = k1
    /\ task[p3].key = IF scenario = "misses" THEN k1 ELSE k2

MCHits == hit[h1].key = x /\ hit[h2].key = x /\ hit[h3].key = y

MCInit ==
    /\ scenario \in Scenarios
    /\ RegistryInit /\ MCKeys
    /\ RateInit /\ MCHits /\ (scenario # "limiter" => backend = "memory")
    /\ VaultInit
    /\ AnswersInit /\ (scenario # "answers" => answer = Silent)

\* Requests end, fail and are cancelled, and clients expire; or the process
\* shuts down under requests that run.
ServingStep == scenario = "serving" /\ \E t \in Tasks : lease(t) \/ Run(t) \/ Cancel(t) \/ Expire(t)

MissesStep == scenario = "misses" /\ \E t \in Tasks : lease(t) \/ Run(t) \/ Expire(t)

StoppingStep == scenario = "stopping" /\ ((\E t \in Tasks : lease(t) \/ Run(t)) \/ close_registry \/ Shutdown)

RegistryStep == (ServingStep \/ MissesStep \/ StoppingStep) /\ UNCHANGED others

LimiterStep == scenario = "limiter" /\ RateNext /\ UNCHANGED <<scenario, regVars, vaultVars, ansVars>>

\* Two admins, each with a value of his own, edit a credential.
MCEditing ==
    \/ \E s \in Secrets : begin_edit(e1, s, v1) \/ begin_edit(e2, s, v2) \/ remove(s)
    \/ \E e \in Editors : choose_key(e) \/ add(e) \/ update(e)

\* Two replicas rotate while they do.
EditStep == scenario = "edits" /\ ((\E r \in {r1, r2} : Rotation(r)) \/ Lapse \/ MCEditing)

\* One replica rotates, or fails to, day after day, while users log in.
SessionStep == scenario = "sessions" /\ (Rotation(r1) \/ Lapse \/ sign \/ NextDay)

\* Three replicas contend for the rotation lock.
LeaseStep == scenario = "leases" /\ ((\E r \in Replicas : Rotation(r)) \/ Lapse)

VaultStep == (EditStep \/ SessionStep \/ LeaseStep) /\ UNCHANGED <<scenario, regVars, rateVars, ansVars>>

AnswerStep == scenario = "answers" /\ AnswersNext /\ UNCHANGED <<scenario, regVars, rateVars, vaultVars>>

MCNext == RegistryStep \/ LimiterStep \/ VaultStep \/ AnswerStep

\* The event loop runs every task that can run.
MCSpec ==
    MCInit /\ [][MCNext]_vars
    /\ (\A t \in Tasks : WF_vars(scenario \in {"serving", "misses", "stopping"} /\ Run(t) /\ UNCHANGED others))
    /\ WF_vars(scenario = "stopping" /\ Shutdown /\ UNCHANGED others)
===============================================================================
