------------------------------- MODULE Failover -------------------------------
(***************************************************************************)
(* Cross-provider failover of routed chat completions: the attempt loops   *)
(* of CompletionService, buffered and streamed, with what each attempt     *)
(* reserves, bills and reports to the circuit breaker of its candidate     *)
(* under the router's overall deadline.                                    *)
(*                                                                         *)
(* Requests run concurrently in one process and share the in-memory        *)
(* breaker, one Breaker value per candidate; every await is a step.        *)
(***************************************************************************)
EXTENDS Breaker, Sequences, FiniteSets

CONSTANTS
    Requests,        \* routed chat requests
    Streams,         \* the streamed ones
    Timed,           \* those whose router has an overall_deadline_ms
    Candidates,      \* candidate models
    Chain,           \* per request: the strategy's choice, then the survivors
                     \* of filter_candidates in declared order
    MaxAttempts,     \* router.max_attempts
    Deadline         \* overall_deadline_ms, in ticks of the clock

ASSUME FailoverConstants ==
    /\ Streams \subseteq Requests /\ Timed \subseteq Requests
    /\ NoToken \notin Requests
    /\ Chain \in [Requests -> Seq(Candidates)]
    /\ \A q \in Requests : Chain[q] # <<>>
    /\ MaxAttempts \in Nat \ {0}
    /\ Deadline \in Nat

VARIABLES
    breaker,         \* _states of the breaker, per candidate
    at,              \* where each request is
    queue,           \* candidates still to be probed
    chain,           \* the attempts it may make, in order
    tokens,          \* candidates whose half-open trial it still owes
    attempt,         \* attempt_index + 1
    exc,             \* what the current or last attempt raised
    left,            \* what is left of the deadline
    held,            \* attempts whose reservation is not released
    billed,          \* attempts billed
    dropped          \* history: attempts whose reservation no path releases

vars == <<breaker, at, queue, chain, tokens, attempt, exc, left, held, billed, dropped>>

Expired(q)  == q \in Timed /\ left[q] = 0
Current(q)  == chain[q][attempt[q]]
Over(q)     == at[q] \in {"streaming", "done"}

\* attempt_index = max_attempts - 1
LastAttempt(q) == attempt[q] = MaxAttempts \/ attempt[q] = Len(chain[q])
Goto(q, l)  == at' = [at EXCEPT ![q] = l]
Release(q)  == held' = [held EXCEPT ![q] = @ \ {attempt[q]}]
Charge(q)   == billed' = [billed EXCEPT ![q] = @ \cup {attempt[q]}]

\* The attempt raises e.
Raise(q, e) == Goto(q, "failed") /\ exc' = [exc EXCEPT ![q] = e]

\* The token an outcome carries: trial_tokens.get(model.id).
TokenOf(q) == IF Current(q) \in tokens[q] THEN q ELSE NoToken

\* _prepare has admitted attempt #1 before the loop is entered.
Init ==
    /\ breaker = [c \in Candidates |-> Fresh]
    /\ at = [q \in Requests |-> "probing"]
    /\ queue = [q \in Requests |-> Tail(Chain[q])]
    /\ chain = [q \in Requests |-> <<Head(Chain[q])>>]
    /\ tokens = [q \in Requests |-> {}]
    /\ attempt = [q \in Requests |-> 1]
    /\ exc = [q \in Requests |-> "none"]
    /\ left = [q \in Requests |-> Deadline]
    /\ held = [q \in Requests |-> {1}]
    /\ billed = [q \in Requests |-> {}]
    /\ dropped = [q \in Requests |-> {}]

-----------------------------------------------------------------------------
(* Before the first attempt.                                               *)

\* _breaker_filtered: one allow per candidate.
Probe(q) ==
    LET c == Head(queue[q])
        b == breaker[c]
    IN
    /\ at[q] = "probing" /\ queue[q] # <<>>
    /\ breaker' = [breaker EXCEPT ![c] = AfterAllow(b, q)]
    /\ chain' = [chain EXCEPT ![q] = IF Allowed(b) THEN Append(@, c) ELSE @]
    /\ tokens' = [tokens EXCEPT ![q] = IF TokenGranted(b, q) = q THEN @ \cup {c} ELSE @]
    /\ queue' = [queue EXCEPT ![q] = Tail(@)]
    /\ UNCHANGED <<at, attempt, exc, left, held, billed, dropped>>

\* A candidate lookup raises: the loop's try is not entered yet, and nothing
\* releases what _prepare reserved.
LookupFails(q) ==
    /\ at[q] = "probing"
    /\ Goto(q, "done")
    /\ exc' = [exc EXCEPT ![q] = "terminal"]
    /\ dropped' = [dropped EXCEPT ![q] = @ \cup {1}]
    /\ UNCHANGED <<breaker, queue, chain, tokens, attempt, left, held, billed>>

StartLoop(q) ==
    /\ at[q] = "probing" /\ queue[q] = <<>>
    /\ Goto(q, "enter")
    /\ UNCHANGED <<breaker, queue, chain, tokens, attempt, exc, left, held, billed, dropped>>

-----------------------------------------------------------------------------
(* One attempt.                                                            *)

\* Attempt #2 and later: raise last_exc when the deadline has passed.
CheckDeadline(q) ==
    /\ at[q] = "check"
    /\ Goto(q, IF Expired(q) THEN "done" ELSE "admit")
    /\ UNCHANGED <<breaker, queue, chain, tokens, attempt, exc, left, held, billed, dropped>>

\* Clamp, validate, guard, load the credential, admit: a reservation of its
\* own for this attempt, or an error that ends the request.
Admit(q) ==
    /\ at[q] = "admit"
    /\ \/ /\ Goto(q, "enter")
          /\ held' = [held EXCEPT ![q] = @ \cup {attempt[q]}]
          /\ UNCHANGED exc
       \/ /\ Goto(q, "done")
          /\ exc' = [exc EXCEPT ![q] = "terminal"]
          /\ UNCHANGED held
    /\ UNCHANGED <<breaker, queue, chain, tokens, attempt, left, billed, dropped>>

\* _within_deadline.  Raised before the body runs, UpstreamTimeout is released
\* by the streamed loop's except clause; the buffered loop relies on _dispatch,
\* which was not entered.
EnterDeadline(q) ==
    /\ at[q] = "enter"
    /\ IF ~Expired(q)
         THEN /\ Goto(q, "calling")
              /\ exc' = [exc EXCEPT ![q] = "none"]
              /\ UNCHANGED <<held, dropped>>
         ELSE /\ Raise(q, "eligible")
              /\ IF q \in Streams
                   THEN Release(q) /\ UNCHANGED dropped
                   ELSE /\ dropped' = [dropped EXCEPT ![q] = @ \cup {attempt[q]}]
                        /\ UNCHANGED held
    /\ UNCHANGED <<breaker, queue, chain, tokens, attempt, left, billed>>

\* Mutant: a stream that fails to open keeps its reservation.
CallFails_KeepsClaim(q) ==
    /\ at[q] = "calling"
    /\ \E e \in {"eligible", "terminal"} : Raise(q, e)
    /\ IF q \in Streams THEN UNCHANGED held ELSE Release(q)
    /\ UNCHANGED <<breaker, queue, chain, tokens, attempt, left, billed, dropped>>

\* The provider call (or opening the stream) fails: a failover-eligible error,
\* or one that is the client's fault.
CallFails(q) ==
    /\ at[q] = "calling"
    /\ \E e \in {"eligible", "terminal"} : Raise(q, e)
    /\ Release(q)
    /\ UNCHANGED <<breaker, queue, chain, tokens, attempt, left, billed, dropped>>

\* UpstreamResponseInvalid: settle_error bills what the provider consumed.
CallInvalid(q) ==
    /\ at[q] = "calling" /\ q \notin Streams
    /\ Raise(q, "invalid")
    /\ Charge(q) /\ Release(q)
    /\ UNCHANGED <<breaker, queue, chain, tokens, attempt, left, dropped>>

CallReturns(q) ==
    /\ at[q] = "calling"
    /\ Goto(q, IF q \in Streams THEN "opened" ELSE "settling")
    /\ UNCHANGED <<breaker, queue, chain, tokens, attempt, exc, left, held, billed, dropped>>

\* settle_ok
Settle(q) ==
    /\ at[q] = "settling"
    /\ Charge(q)
    /\ Goto(q, "guarding")
    /\ UNCHANGED <<breaker, queue, chain, tokens, attempt, exc, left, held, dropped>>

\* _guard_response passes the answer on or blocks it; _dispatch's finally
\* releases.
Guard(q) ==
    /\ at[q] = "guarding"
    /\ \/ Goto(q, "succeeded") /\ UNCHANGED exc
       \/ Raise(q, "terminal")
    /\ Release(q)
    /\ UNCHANGED <<breaker, queue, chain, tokens, attempt, left, billed, dropped>>

-----------------------------------------------------------------------------
(* Streams: the first chunk is pulled before the answer is committed to.   *)

\* The second _within_deadline; a generator never iterated is released by its
\* finalizer.
EnterPrime(q) ==
    /\ at[q] = "opened"
    /\ IF Expired(q)
         THEN Raise(q, "eligible") /\ Release(q)
         ELSE Goto(q, "priming") /\ UNCHANGED <<exc, held>>
    /\ UNCHANGED <<breaker, queue, chain, tokens, attempt, left, billed, dropped>>

\* The provider errors before any chunk: metered_stream releases, bills nothing.
PrimeFails(q) ==
    /\ at[q] = "priming"
    /\ \E e \in {"eligible", "terminal"} : Raise(q, e)
    /\ Release(q)
    /\ UNCHANGED <<breaker, queue, chain, tokens, attempt, left, billed, dropped>>

\* The first chunk, or the end of an empty stream, which settles it.
PrimeReturns(q) ==
    /\ at[q] = "priming"
    /\ Goto(q, "succeeded")
    /\ \/ UNCHANGED <<held, billed>>
       \/ Release(q) /\ Charge(q)
    /\ UNCHANGED <<breaker, queue, chain, tokens, attempt, exc, left, dropped>>

\* The client has the whole stream, or has left: metered_stream's finally.
StreamEnds(q) ==
    /\ at[q] = "streaming"
    /\ Release(q) /\ Charge(q)
    /\ Goto(q, "done")
    /\ UNCHANGED <<breaker, queue, chain, tokens, attempt, exc, left, dropped>>

-----------------------------------------------------------------------------
\* asyncio.timeout cancels the body, which unwinds and releases.  A settlement
\* under way may or may not have committed; a stream being primed is settled
\* on an estimate, for its CancelledError is no Exception.
DeadlineFires(q) ==
    /\ Expired(q)
    /\ at[q] \in {"calling", "settling", "guarding", "priming"}
    /\ Raise(q, "eligible")
    /\ Release(q)
    /\ \/ at[q] \in {"settling", "priming"} /\ Charge(q)
       \/ at[q] # "priming" /\ UNCHANGED billed
    /\ UNCHANGED <<breaker, queue, chain, tokens, attempt, left, dropped>>

\* Mutant: UpstreamResponseInvalid retried like any UpstreamUnavailable.
Eligible_Invalid(q) == exc[q] \in {"eligible", "invalid"}

\* is_failover_eligible, less UpstreamResponseInvalid.
Eligible(q) == exc[q] = "eligible"

\* Mutant: the retry goes to the same candidate again.
Failed_SameCandidate(q) ==
    /\ at[q] = "failed"
    /\ IF Eligible(q)
         THEN /\ breaker' = [breaker EXCEPT ![Current(q)] = AfterFailure(@, TokenOf(q))]
              /\ tokens' = [tokens EXCEPT ![q] = @ \ {Current(q)}]
              /\ Goto(q, "check")
         ELSE Goto(q, "done") /\ UNCHANGED <<breaker, tokens>>
    /\ UNCHANGED <<queue, chain, attempt, exc, left, held, billed, dropped>>

\* The except clause: record_failure, then the next attempt or the end.
Failed(q) ==
    /\ at[q] = "failed"
    /\ IF Eligible(q)
         THEN /\ breaker' = [breaker EXCEPT ![Current(q)] = AfterFailure(@, TokenOf(q))]
              /\ tokens' = [tokens EXCEPT ![q] = @ \ {Current(q)}]
         ELSE UNCHANGED <<breaker, tokens>>
    /\ IF Eligible(q) /\ ~LastAttempt(q)
         THEN attempt' = [attempt EXCEPT ![q] = @ + 1] /\ Goto(q, "check")
         ELSE Goto(q, "done") /\ UNCHANGED attempt
    /\ UNCHANGED <<queue, chain, exc, left, held, billed, dropped>>

\* Mutant: a success reported under any token, held or not.
Succeeded_ForcedToken(q) ==
    /\ at[q] = "succeeded"
    /\ breaker' = [breaker EXCEPT ![Current(q)] = AfterSuccess(@, @.trial)]
    /\ tokens' = [tokens EXCEPT ![q] = @ \ {Current(q)}]
    /\ Goto(q, IF q \in Streams /\ attempt[q] \notin billed[q] THEN "streaming" ELSE "done")
    /\ UNCHANGED <<queue, chain, attempt, exc, left, held, billed, dropped>>

\* record_success, then the answer (a stream goes on).
Succeeded(q) ==
    /\ at[q] = "succeeded"
    /\ breaker' = [breaker EXCEPT ![Current(q)] = AfterSuccess(@, TokenOf(q))]
    /\ tokens' = [tokens EXCEPT ![q] = @ \ {Current(q)}]
    /\ Goto(q, IF q \in Streams /\ attempt[q] \notin billed[q] THEN "streaming" ELSE "done")
    /\ UNCHANGED <<queue, chain, attempt, exc, left, held, billed, dropped>>

Tick ==
    /\ \/ \E c \in Candidates : breaker[c].cool > 0
       \/ \E q \in Timed : ~Over(q) /\ left[q] > 0
    /\ breaker' = [c \in Candidates |-> Aged(breaker[c])]
    /\ left' = [q \in Requests |->
                   IF q \in Timed /\ ~Over(q) /\ left[q] > 0 THEN left[q] - 1 ELSE left[q]]
    /\ UNCHANGED <<at, queue, chain, tokens, attempt, exc, held, billed, dropped>>

-----------------------------------------------------------------------------
Step(q) ==
    \/ Probe(q) \/ LookupFails(q) \/ StartLoop(q)
    \/ CheckDeadline(q) \/ Admit(q) \/ EnterDeadline(q)
    \/ CallFails(q) \/ CallInvalid(q) \/ CallReturns(q) \/ Settle(q) \/ Guard(q)
    \/ EnterPrime(q) \/ PrimeFails(q) \/ PrimeReturns(q) \/ StreamEnds(q)
    \/ DeadlineFires(q) \/ Failed(q) \/ Succeeded(q)

Next == (\E q \in Requests : Step(q)) \/ Tick

\* Provider calls are bounded by the SDK timeout, streams by the client or the
\* idle timeout, and the event loop runs every task that is ready.
Fairness == \A q \in Requests : WF_vars(Step(q))

Spec == Init /\ [][Next]_vars
FairSpec == Spec /\ Fairness

-----------------------------------------------------------------------------
(* Properties.                                                             *)

Places == {"probing", "enter", "check", "admit", "calling", "settling", "guarding",
           "opened", "priming", "failed", "succeeded", "streaming", "done"}

TypeOK ==
    /\ breaker \in [Candidates -> BreakerStates(Requests)]
    /\ at \in [Requests -> Places]
    /\ tokens \in [Requests -> SUBSET Candidates]
    /\ attempt \in [Requests -> 1..MaxAttempts]
    /\ exc \in [Requests -> {"none", "eligible", "invalid", "terminal"}]
    /\ left \in [Requests -> 0..Deadline]
    /\ \A q \in Requests :
         /\ chain[q] \in Seq(Candidates) /\ attempt[q] \in 1..Len(chain[q])
         /\ queue[q] \in Seq(Candidates)
         /\ held[q] \cup billed[q] \cup dropped[q] \subseteq 1..attempt[q]

\* One logical request is charged at most once, over all its attempts: an
\* attempt that may have been billed is never followed by another one
\* (completion_service.py 1440-1444, 1501-1512; "Exactly one settlement for
\* the logical request").
ChargedOnce == \A q \in Requests : Cardinality(billed[q]) <= 1

\* An answer has been paid for, by the attempt that gave it and no other.
AnswerIsPaid ==
    \A q \in Requests :
        at[q] = "done" /\ exc[q] = "none" => billed[q] = {attempt[q]}

\* Between two attempts and after the last one the request holds no
\* reservation, but for those of an attempt that the deadline or a failed
\* lookup kept from starting (the code leaves those to their TTL): every exception of the
\* provider call, the guardrails, the first chunk and the timeout releases.
NothingHeldBetween ==
    \A q \in Requests :
        at[q] \in {"check", "admit", "done"} => held[q] \subseteq dropped[q]

\* Every request comes to an end, whatever the providers, the deadline and
\* the other requests do.
EveryRequestEnds == \A q \in Requests : <>(at[q] = "done")

\* What request q holds of candidate c's breaker.
Lease(c) ==
    [q \in Requests |->
        IF c \in tokens[q] THEN IF Over(q) THEN "lost" ELSE "trial"
        ELSE IF /\ at[q] \in {"enter", "calling", "settling", "guarding", "opened",
                              "priming", "failed", "succeeded"}
                /\ Current(q) = c
               THEN "plain" ELSE "none"]

CB(c) == INSTANCE CircuitBreaker WITH breaker <- breaker[c], held <- Lease(c)

\* The failover loops use the breaker of each candidate as CircuitBreaker
\* assumes: a trial is claimed by a probe, only the request that was granted
\* it presents its token, and an outcome is reported at most once.  This is
\* \A c \in Candidates : CB(c)!Spec, in the form TLC checks.
UsesBreakers ==
    /\ \A c \in Candidates : CB(c)!Init
    /\ [][\A c \in Candidates : CB(c)!Next \/ UNCHANGED CB(c)!vars]_vars

\* Over all its attempts a request is charged at most once, and an answered one
\* exactly once, by the attempt that answered (completion_service.py 1440-1512).
PaidOnce == TypeOK /\ ChargedOnce /\ AnswerIsPaid
=============================================================================
