-------------------------------- MODULE Routing --------------------------------
(***************************************************************************)
(* The routing decision as functions: capability filters, the six          *)
(* strategies, the fallback, and the configuration checks of               *)
(* RouterService (application/routing, domain/routing.py).                 *)
(*                                                                         *)
(* What a strategy looks at inside the prompt, and what a judge, a webhook *)
(* or an embedding answers, is data: a strategy is the set of candidates it*)
(* may name for a given set of capable ones, plus `Fails' when it may      *)
(* raise.  The candidates of a router are a set: `at' is the place at which*)
(* one was declared.  Tiers are 1 (SIMPLE) to 4 (REASONING).               *)
(***************************************************************************)
EXTENDS Naturals, FiniteSets

CONSTANT Fails      \* the strategy raised, timed out or named no candidate

Strategies == {"complexity", "webhook", "embeddings", "judge", "hybrid", "weighted"}

\* select_preview never runs these (_EXTERNAL_PREVIEW_STRATEGIES).
External == {"embeddings", "judge", "webhook", "hybrid"}

Tiers == 1 .. 4

\* A router as it is stored, over the models of its owner.
RouterConfig(models) ==
    [cands : SUBSET [at : Nat, model : models, tier : Tiers, weight : Nat,
                     caps : SUBSET {"vision", "tools", "json", "window"}],
     default : models, strategy : Strategies, escalation : {"judge", "webhook", "none"},
     overrides : SUBSET (Tiers \X models), shadow : Strategies \cup {"none"}, helper : models \cup {"none"}]

Names(cands) == {c.model : c \in cands}

\* The first declared of some candidates.
First(cands) == CHOOSE c \in cands : \A d \in cands : c.at <= d.at

(***************************************************************************)
(* filter_candidates: the hard filters run before any strategy.  A         *)
(* request's needs are a subset of {"vision", "tools", "json", "window"}.  *)
(***************************************************************************)
filter_candidates(needs, cands) == {c \in cands : needs \subseteq c.caps}

(***************************************************************************)
(* _validated_router: candidates that refuse the request are dropped before*)
(* any routing side effect, and the default moves to a survivor.           *)
(***************************************************************************)
Accepted(router, refuses) == {c \in router.cands : c.model \notin refuses}

\* Routes over every candidate.
Unvalidated(router, refuses) == router

_validated_router(router, refuses) ==
    LET kept == Accepted(router, refuses)
    IN IF kept = {} \/ kept = router.cands THEN router
       ELSE [router EXCEPT !.cands = kept,
                           !.default = IF router.default \in Names(kept)
                                       THEN router.default ELSE First(kept).model]

(***************************************************************************)
(* nearest_tier_candidate: the tier itself, then the nearest below, then   *)
(* above; within a tier the first declared candidate wins.                 *)
(***************************************************************************)
TierRank(want, t) == IF t <= want THEN want - t ELSE 4 + (t - want)

nearest_tier_candidate(want, cands) ==
    LET Nearest == {c \in cands : \A d \in cands : TierRank(want, c.tier) <= TierRank(want, d.tier)}
    IN First(Nearest).model

(***************************************************************************)
(* The strategies.                                                         *)
(***************************************************************************)
complexity(cands, overrides) ==
    {IF \E o \in overrides : o[1] = t /\ o[2] \in Names(cands)
     THEN (CHOOSE o \in overrides : o[1] = t /\ o[2] \in Names(cands))[2]
     ELSE nearest_tier_candidate(t, cands) : t \in Tiers}

weighted(cands) ==
    IF \A c \in cands : c.weight > 0 THEN Names(cands) ELSE {Fails}

\* Strict boundary validation of the answer: a name or 1-based index of a candidate.
webhook(cands) == Names(cands) \cup {Fails}

judge(cands) == Names(cands) \cup {Fails}

\* The best route over its threshold whose target is capable, or the default
\* when that is capable, or an error.
embeddings(cands) == Names(cands) \cup {Fails}

hybrid(cands, overrides) == complexity(cands, overrides) \cup webhook(cands) \cup judge(cands)

select(router, cands) ==
    CASE router.strategy = "complexity" -> complexity(cands, router.overrides)
      [] router.strategy = "weighted"   -> weighted(cands)
      [] router.strategy = "webhook"    -> webhook(cands)
      [] router.strategy = "judge"      -> judge(cands)
      [] router.strategy = "embeddings" -> embeddings(cands)
      [] router.strategy = "hybrid"     -> hybrid(cands, router.overrides)

\* Strategies that call a provider themselves, through the meter.
Metered(router) ==
    router.strategy \in {"judge", "embeddings"}
    \/ (router.strategy = "hybrid" /\ router.escalation = "judge")

\* Strategies that post the prompt to an operator's endpoint.
_uses_prompt_webhook(strategy, escalation) ==
    strategy = "webhook" \/ (strategy = "hybrid" /\ escalation = "webhook")

(***************************************************************************)
(* _run_strategy's fallback respects the hard filters: the default when it *)
(* is capable, else the first capable candidate in declared order.         *)
(***************************************************************************)
Fallback(router, capable) ==
    IF router.default \in Names(capable) THEN router.default ELSE First(capable).model

(***************************************************************************)
(* route / select_preview, once the candidates are filtered: the choices a *)
(* request may get.  A single survivor skips the strategy.                 *)
(***************************************************************************)
Picks(router, capable) ==
    IF Cardinality(capable) = 1 THEN {First(capable).model}
    ELSE {IF x = Fails THEN Fallback(router, capable) ELSE x : x \in select(router, capable)}

PreviewPicks(router, capable) ==
    IF Cardinality(capable) > 1 /\ router.strategy \in External
    THEN {Fallback(router, capable)}
    ELSE Picks(router, capable)

(***************************************************************************)
(* _validate: what a router must be before it is stored.  `callable' is the*)
(* set of enabled chat models the owner can reach.                         *)
(***************************************************************************)
WellFormed(router, callable) ==
    /\ IsFiniteSet(router.cands) /\ router.cands # {}
    /\ \A c, d \in router.cands : c.model = d.model \/ c.at = d.at => c = d
    /\ router.default \in Names(router.cands)
    /\ Names(router.cands) \subseteq callable
    /\ router.strategy = "weighted" => \A c \in router.cands : c.weight > 0
    /\ router.strategy = "hybrid" => router.escalation \in {"judge", "webhook"}

\* _validate_revision_access, at every call: each bound candidate, and the
\* strategy's own model, is still an enabled model the calling team reaches.
_validate_revision_access(router, callable) ==
    /\ Names(router.cands) \subseteq callable
    /\ router.helper \in callable \cup {"none"}
================================================================================
