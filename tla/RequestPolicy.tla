---------------------------- MODULE RequestPolicy ----------------------------
(***************************************************************************)
(* The numbers and fields of a request before it meets a provider          *)
(* (domain/request_policy.py), and what UsageMeter reserves for it.        *)
(*                                                                         *)
(* Besides the fields ToolContract reads, a request has                    *)
(*   n      the number of completions or images                            *)
(*   caps   the output-token limits the client named, by field             *)
(* A limit may be zero, or below: the clamp lowers a limit and never       *)
(* raises one.  A model that has no ceiling has NoCeiling (None).          *)
(***************************************************************************)
EXTENDS ToolContract

CONSTANTS MaxN, MaxTokens,      \* MAX_N, MAX_TOKENS: what a client may ask for
          DefaultMaxTokens,     \* the Anthropic translator's own limit
          NoCeiling

ASSUME PolicyAssumption == MaxN \in Nat \ {0} /\ MaxTokens \in Nat \ {0} /\ NoCeiling \notin Int

Lesser(a, b) == IF a <= b THEN a ELSE b

\* _TOKEN_FIELDS, in the order they are read.
TokenFields == <<"max_tokens", "max_completion_tokens", "max_output_tokens">>

\* _ALLOWED: the limits, and the features, an operation keeps.
AllowedFields(op) ==
    CASE op = "chat"      -> {"max_tokens", "max_completion_tokens"}
      [] op = "responses" -> {"max_output_tokens"}
      [] OTHER            -> {}

Dropped(op) ==
    CASE op = "chat"      -> {"control", "state"}
      [] op = "responses" -> {"control"}
      [] OTHER            -> ToolFields \cup {"control", "state", "hosted", "json", "schema"}

sanitize_request(op, r) ==
    [r EXCEPT !.feats = @ \ Dropped(op),
              !.n = IF op \in {"chat", "images"} THEN Lesser(@, MaxN) ELSE 1,
              !.caps = [f \in DOMAIN @ \cap AllowedFields(op) |-> Lesser(@[f], MaxTokens)]]

\* _OUTPUT_TOKEN_FIELD: where a ceiling is injected.
OutputField(op) ==
    CASE op = "chat" -> {"max_tokens"} [] op = "responses" -> {"max_output_tokens"} [] OTHER -> {}

clamp_output_tokens(op, r, ceiling) ==
    IF ceiling = NoCeiling THEN r
    ELSE IF DOMAIN r.caps # {}
    THEN [r EXCEPT !.caps = [f \in DOMAIN @ |-> Lesser(@[f], ceiling)]]
    ELSE [r EXCEPT !.caps = [f \in OutputField(op) |-> ceiling]]

(***************************************************************************)
(* The native surfaces: the body is forwarded as it is, except for control *)
(* arguments, which are refused, and the one field that limits the output. *)
(***************************************************************************)
reject_native_control_kwargs(r) == "control" \in r.feats

_native_effective_ceiling(ceiling) == IF ceiling = NoCeiling THEN MaxTokens ELSE Lesser(MaxTokens, ceiling)

NativeField(provider) == IF provider = "anthropic" THEN "max_tokens" ELSE "maxOutputTokens"

clamp_native_output_tokens(provider, r, ceiling) ==
    LET f == NativeField(provider)
        top == _native_effective_ceiling(ceiling)
    IN IF provider \notin {"anthropic", "vertex"} THEN r
       ELSE IF f \in DOMAIN r.caps THEN [r EXCEPT !.caps[f] = Lesser(@, top)]
       ELSE IF ceiling = NoCeiling THEN r
       ELSE [r EXCEPT !.caps = [g \in DOMAIN @ \cup {f} |-> IF g = f THEN top ELSE r.caps[g]]]

\* Gemini's limit and candidate count, under the names the meter reads.
native_reservation_view(provider, r) ==
    IF provider # "vertex" THEN r
    ELSE [r EXCEPT !.caps = [f \in {"max_tokens"} |->
                                IF "maxOutputTokens" \in DOMAIN r.caps THEN r.caps["maxOutputTokens"] ELSE 0]]

(***************************************************************************)
(* The reservation: the first positive limit, once per completion.         *)
(***************************************************************************)
_max_output_tokens(r) ==
    LET named == {i \in DOMAIN TokenFields : TokenFields[i] \in DOMAIN r.caps /\ r.caps[TokenFields[i]] > 0}
    IN IF named = {} THEN 0 ELSE r.caps[TokenFields[CHOOSE i \in named : \A j \in named : i <= j]]

Completions(r) == IF r.n > 0 THEN r.n ELSE 1

_reservation_cost(type, r) == IF type = "image" THEN Completions(r) ELSE _max_output_tokens(r) * Completions(r)

\* honors_n: a translator returns one completion whatever is asked.
honors_n(provider) == provider \in {"openai", "azure", "databricks"}

(***************************************************************************)
(* The limits the provider is told: a translator passes the first that is  *)
(* not zero, the OpenAI protocol every field that was named.  In place of  *)
(* a zero Anthropic has a limit of its own, and Bedrock none, unless zero  *)
(* was the last word (`or').                                               *)
(***************************************************************************)
FirstLimit(r) ==
    IF "max_tokens" \in DOMAIN r.caps /\ r.caps["max_tokens"] # 0 THEN r.caps["max_tokens"]
    ELSE IF "max_completion_tokens" \in DOMAIN r.caps THEN r.caps["max_completion_tokens"] ELSE 0

AskedFor(provider, r) ==
    IF provider \notin Translated THEN {r.caps[f] : f \in DOMAIN r.caps}
    ELSE IF FirstLimit(r) # 0 THEN {FirstLimit(r)}
    ELSE IF provider = "anthropic" THEN {DefaultMaxTokens}
    ELSE IF provider = "bedrock" /\ "max_completion_tokens" \in DOMAIN r.caps THEN {0} ELSE {}

\* The Responses limit reaches a translator under its chat name.
Renamed(r) ==
    [r EXCEPT !.caps = IF "max_output_tokens" \in DOMAIN @ THEN [f \in {"max_tokens"} |-> @["max_output_tokens"]] ELSE @]

(***************************************************************************)
(* LLMGatewayImpl._resolve: the operations a provider serves at all.       *)
(***************************************************************************)
_resolve(m, op) ==
    op \in CASE m.provider \in {"openai", "azure"} -> {"chat", "responses", "embeddings", "images"}
             [] m.provider = "databricks" -> {"chat", "responses", "embeddings"}
             [] m.provider = "compatible" -> {"chat", "embeddings", "images"} \cap m.serves
             [] m.provider = "anthropic"  -> {"chat", "responses", "messages"}
             [] m.provider = "vertex"     -> {"chat", "responses", "embeddings", "images", "gemini"}
             [] m.provider = "bedrock"    -> {"chat", "responses", "embeddings", "images"}
===============================================================================
