---------------------------- MODULE CircuitBreaker ----------------------------
(***************************************************************************)
(* One key (one candidate model) of the in-memory circuit breaker, shared  *)
(* by the requests of one process.  A request that would fall back on the  *)
(* model probes it first (_breaker_filtered calls allow), and may or may   *)
(* not get as far as calling it; a request whose routing strategy chose    *)
(* the model calls it without probing.  The outcome is recorded only when  *)
(* the call returned or failed with a failover-eligible error.             *)
(*                                                                         *)
(* The token of a trial is named after the request that holds it.          *)
(***************************************************************************)
EXTENDS Breaker

CONSTANT Requests

ASSUME NoTokenIsNoRequest == NoToken \notin Requests

VARIABLES
    breaker,         \* _states[key]
    held            \* what each request holds of the breaker

vars == <<breaker, held>>

\* The token a request passes to record_success and record_failure.
Token(r) == IF held[r] = "trial" THEN r ELSE NoToken

-----------------------------------------------------------------------------
Init ==
    /\ breaker = Fresh
    /\ held = [r \in Requests |-> "none"]

\* The strategy chose this model: attempt #1 does not ask the breaker.
CallFirst(r) ==
    /\ held[r] = "none"
    /\ held' = [held EXCEPT ![r] = "plain"]
    /\ UNCHANGED breaker

\* _breaker_filtered: a refused candidate is dropped from the chain.
Probe(r) ==
    /\ held[r] = "none"
    /\ Allowed(breaker)
    /\ breaker' = AfterAllow(breaker, r)
    /\ held' = [held EXCEPT ![r] =
                    IF TokenGranted(breaker, r) = r THEN "trial" ELSE "plain"]

RecordFailure(r) ==
    /\ held[r] \in {"plain", "trial"}
    /\ breaker' = AfterFailure(breaker, Token(r))
    /\ held' = [held EXCEPT ![r] = "none"]

RecordSuccess(r) ==
    /\ held[r] \in {"plain", "trial"}
    /\ breaker' = AfterSuccess(breaker, Token(r))
    /\ held' = [held EXCEPT ![r] = "none"]

\* The request ends without an outcome: an earlier candidate answered, the
\* deadline passed, admission or validation refused the attempt, the provider
\* rejected the request (not failover-eligible), or the client went away.
Abandon(r) ==
    /\ held[r] \in {"plain", "trial"}
    /\ held' = [held EXCEPT ![r] = IF @ = "trial" THEN "lost" ELSE "none"]
    /\ UNCHANGED breaker

Tick ==
    /\ breaker.cool > 0
    /\ breaker' = Aged(breaker)
    /\ UNCHANGED held

Outcome(r) == RecordFailure(r) \/ RecordSuccess(r) \/ Abandon(r)

Next ==
    \/ \E r \in Requests : CallFirst(r) \/ Probe(r) \/ Outcome(r)
    \/ Tick

\* Every admitted attempt is bounded by the provider timeout and the request
\* by its caller, so it ends one way or another; time passes.
Fairness == WF_vars(Tick) /\ \A r \in Requests : WF_vars(Outcome(r))

Spec == Init /\ [][Next]_vars
FairSpec == Spec /\ Fairness

-----------------------------------------------------------------------------
(* Properties.                                                             *)

TypeOK ==
    /\ breaker \in BreakerStates(Requests)
    /\ held \in [Requests -> {"none", "plain", "trial", "lost"}]

\* Who owes the breaker the outcome of a trial, or owed it when it left.
Holders == {r \in Requests : held[r] \in {"trial", "lost"}}

\* The half-open breaker has granted exactly one trial and knows whose it is;
\* in any other status nobody holds one (allow, record_failure and
\* record_success keep `trial_token` and `status` in step, lines 69-135).
OneTrial ==
    /\ breaker.status = "half_open" <=> breaker.trial # NoToken
    /\ Holders = IF breaker.status = "half_open" THEN {breaker.trial} ELSE {}

\* The breaker is closed exactly while fewer than `failure_threshold`
\* consecutive failures are on the counter, and a cooldown runs only while it
\* is open (lines 117-120, 132-135): a full counter on a closed breaker, or an
\* empty one on an open breaker, would make the next failure count wrongly.
CountMatchesStatus ==
    /\ breaker.status = "closed" <=> breaker.failures < Threshold
    /\ breaker.cool > 0 => breaker.status = "open"

\* A request admitted before the breaker opened, however late it finishes,
\* decides nothing: the breaker leaves half-open only on the outcome of the
\* request that holds the trial, and never goes from open to closed without
\* one (ISSUE-033, lines 11-16 and 107-109, 125-131).
OnlyTrialResolves ==
    [][/\ breaker.status = "half_open" /\ breaker'.status # "half_open"
            => \E r \in Requests :
                  held[r] = "trial" /\ held'[r] = "none" /\ r = breaker.trial
       /\ breaker.status = "open" => breaker'.status # "closed"]_vars

\* A provider that has recovered is let back in: if no trial is abandoned, the
\* provider stops failing and requests go on falling back on the model, then
\* the breaker closes for good, whatever late outcomes arrive meanwhile
\* (lines 78-83 and 122-135).
RecoveredProviderCloses ==
    (/\ [](\A r \in Requests : held[r] # "lost")
     /\ <>[][~\E r \in Requests : RecordFailure(r)]_vars
     /\ \A r \in Requests : SF_vars(Probe(r)))
    => <>[](breaker.status = "closed")
=============================================================================
