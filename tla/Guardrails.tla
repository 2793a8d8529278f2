------------------------------ MODULE Guardrails ------------------------------
(***************************************************************************)
(* The guardrail policy as functions: which rules apply to one call        *)
(* (domain/entities/guardrail.py), how a chain is built and run            *)
(* (application/guardrails), and which rules the policy service accepts    *)
(* (application/guardrail_policy_service.py, domain/guardrail_config.py).  *)
(*                                                                         *)
(* Content is the set of the tags ("pii", "violence", ...) that a check    *)
(* could object to: a redaction removes one, a verdict reads one.  What a  *)
(* provider answers is its own business, so a rule carries the tag it looks*)
(* for and the verdict it gives on it, and `down' is the set of rules whose*)
(* provider fails (timeout, unreachable, off-contract body) this time.     *)
(***************************************************************************)
EXTENDS Naturals, FiniteSets, Sequences

CONSTANTS
    NoScope,        \* model_id / router_id that is not set
    NoRule          \* a free row of the guardrail_rule table

Directions == {"request", "response"}

(***************************************************************************)
(* A stored rule.  `watch' and `verdict' stand for its config: a webhook   *)
(* may block or redact, a judge only blocks (judge.py:86).                 *)
(***************************************************************************)
Rule(models, routers, tags) ==
    [name : Nat, kind : {"webhook", "judge"}, dir : Directions,
     pos : Nat, fail : {"open", "closed"}, model : models \cup {NoScope},
     router : routers \cup {NoScope}, enabled : BOOLEAN, secret : BOOLEAN,
     watch : tags, verdict : {"block", "redact"}]

(***************************************************************************)
(* resolve_chain: router rules replace model rules replace team-wide ones. *)
(***************************************************************************)
Tier(rules, m, r) ==
    LET byRouter == {x \in rules : r # NoScope /\ x.router = r}
        byModel  == {x \in rules : x.router = NoScope /\ x.model = m}
        teamWide == {x \in rules : x.router = NoScope /\ x.model = NoScope}
    IN IF byRouter # {} THEN byRouter
       ELSE IF byModel # {} THEN byModel ELSE teamWide

resolve_chain(rules, m, dir, r) ==
    Tier({x \in rules : x.enabled /\ x.dir = dir}, m, r)

\* Position first, then name; names are naturals here, unique in a team.
Before(x, y) == x.pos < y.pos \/ (x.pos = y.pos /\ x.name < y.name)

Earlier(chain, x) == {y \in chain : Before(y, x)}

(***************************************************************************)
(* build_chain: a rule that cannot be instantiated (a webhook whose secret *)
(* is gone, a judge that is not wired) is skipped when it fails open and   *)
(* refuses the call when it fails closed.                                  *)
(***************************************************************************)
Buildable(x) == x.kind = "webhook" => x.secret

build_chain(chain) == {x \in chain : Buildable(x)}

Unbuildable(chain) == \E x \in chain : ~Buildable(x) /\ x.fail = "closed"

(***************************************************************************)
(* _check: the provider's verdict, or what its failure means.              *)
(***************************************************************************)
_check(x, content, down) ==
    IF x.name \in down
    THEN IF x.fail = "closed" THEN "block" ELSE "allow"
    ELSE IF x.watch \notin content THEN "allow"
    ELSE IF x.kind = "judge" THEN "block" ELSE x.verdict

(***************************************************************************)
(* run_chain: sequential, each provider sees what the previous ones left,  *)
(* a BLOCK stops the chain.  A redaction by a rule that is asked takes its *)
(* tag out for good, so what a rule sees, and what is left at the end, is  *)
(* the content without the tags redacted so far.  `asked' is the set of    *)
(* the rules that ran, `content' counts only when nothing blocked.         *)
(***************************************************************************)
Redacts(x, down) == x.kind = "webhook" /\ x.verdict = "redact" /\ x.name \notin down

Left(content, ran, down) == content \ {x.watch : x \in {y \in ran : Redacts(y, down)}}

Verdict(chain, x, content, down) == _check(x, Left(content, Earlier(chain, x), down), down)

run_chain(chain, content, down) ==
    LET says(x) == Verdict(chain, x, content, down)
        ran == {x \in chain : \A y \in Earlier(chain, x) : says(y) # "block"}
    IN [blocked  |-> \E x \in chain : says(x) = "block",
        content  |-> Left(content, ran, down),
        redacted |-> \E x \in ran : says(x) = "redact",
        asked    |-> ran]

\* payloads.py: a redaction is written back only where the flattened text has
\* one place to go; every other shape is escalated to a refusal.
can_redact(shape) == shape = "single"

(***************************************************************************)
(* One side of one call: the chain the rules give, built and run.  The     *)
(* stored rules are read afresh each time (api_router/dependencies.py:147).*)
(***************************************************************************)
PassThrough(content) == [refused |-> FALSE, content |-> content, asked |-> {}]

Guarded(rules, m, dir, r, content, shape, down) ==
    LET chain == resolve_chain(rules, m, dir, r)
        out   == run_chain(build_chain(chain), content, down)
    IN IF chain = {} THEN PassThrough(content)
       ELSE IF Unbuildable(chain) THEN [refused |-> TRUE, content |-> content, asked |-> {}]
       ELSE [refused |-> out.blocked \/ (out.redacted /\ ~can_redact(shape)),
             content |-> out.content, asked |-> out.asked]

(***************************************************************************)
(* validate_rule, for the fields that are kept: not scoped to a model and a*)
(* router at once, and a webhook signs with a secret.                      *)
(***************************************************************************)
validate_rule(x, secretGiven) ==
    /\ x.model = NoScope \/ x.router = NoScope
    /\ x.kind = "webhook" => x.secret \/ secretGiven

(***************************************************************************)
(* update_rule: naming a scope sets it and clears the other side,          *)
(* `clear' widens the rule to the team, and everything not named is kept.  *)
(* A change is [model, router, clear, enabled, verdict].                   *)
(***************************************************************************)
Rescope(x, c) ==
    IF c.clear THEN [x EXCEPT !.model = NoScope, !.router = NoScope]
    ELSE IF c.router # NoScope THEN [x EXCEPT !.model = NoScope, !.router = c.router]
    ELSE IF c.model # NoScope THEN [x EXCEPT !.model = c.model, !.router = NoScope]
    ELSE x

Contradictory(c) ==
    \/ c.clear /\ (c.model # NoScope \/ c.router # NoScope)
    \/ c.model # NoScope /\ c.router # NoScope
===============================================================================
