------------------------------- MODULE Breaker -------------------------------
(***************************************************************************)
(* One key of the in-memory circuit breaker as a value: the fields of      *)
(* `_State` and what allow, record_failure and record_success make of      *)
(* them.  Each method runs under the breaker's asyncio.Lock, so it is one  *)
(* atomic function of the state.  Time is kept as what is left of the      *)
(* cooldown: `cool` is opened_at + cooldown_seconds - now, at least 0.     *)
(***************************************************************************)
EXTENDS Naturals

CONSTANTS
    Threshold,       \* failure_threshold
    Cooldown,        \* cooldown_seconds, in ticks of the clock
    NoToken          \* trial_token is None

ASSUME BreakerConstants ==
    /\ Threshold \in Nat \ {0}
    /\ Cooldown \in Nat \ {0}

\* The values of _State when trial tokens come from the set T.
BreakerStates(T) ==
    [status : {"closed", "open", "half_open"}, failures : 0..Threshold,
     cool : 0..Cooldown, trial : T \cup {NoToken}]

\* A key the breaker has not seen: _State().
Fresh == [status |-> "closed", failures |-> 0, cool |-> 0, trial |-> NoToken]

-----------------------------------------------------------------------------
(* allow                                                                   *)

\* Mutant: the half-open branch is missing, so every caller gets a trial.
TrialDue_Reentrant(b) == b.status # "closed" /\ b.cool = 0

\* The breaker is open and its cooldown has elapsed.
TrialDue(b) == b.status = "open" /\ b.cool = 0

\* lease.allowed
Allowed(b) == b.status = "closed" \/ TrialDue(b)

\* lease.trial_token, when the uuid drawn is t.
TokenGranted(b, t) == IF TrialDue(b) THEN t ELSE NoToken

AfterAllow(b, t) ==
    IF TrialDue(b) THEN [b EXCEPT !.status = "half_open", !.trial = t] ELSE b

-----------------------------------------------------------------------------
(* record_failure and record_success; t is the token the outcome carries.  *)

OwnsTrial(b, t) == t # NoToken /\ t = b.trial

\* Open from now on, on f consecutive failures.
Tripped(f) ==
    [status |-> "open", failures |-> f, cool |-> Cooldown, trial |-> NoToken]

Counted(b) ==
    IF b.failures + 1 >= Threshold
      THEN Tripped(b.failures + 1)
      ELSE [b EXCEPT !.failures = b.failures + 1]

AfterFailure(b, t) ==
    CASE b.status = "half_open" -> IF OwnsTrial(b, t) THEN Tripped(b.failures) ELSE b
      [] b.status = "open"      -> b
      [] b.status = "closed"    -> Counted(b)

\* Mutant: a late success closes an open breaker.
AfterSuccess_ClosesOpen(b, t) ==
    IF b.status = "half_open" /\ ~OwnsTrial(b, t) THEN b ELSE Fresh

\* Mutant: the trial's own success does not close the breaker either.
AfterSuccess_NeverCloses(b, t) == IF b.status = "closed" THEN Fresh ELSE b

AfterSuccess(b, t) ==
    IF b.status = "open" \/ (b.status = "half_open" /\ ~OwnsTrial(b, t))
      THEN b
      ELSE Fresh

\* One tick of the clock.
Aged(b) == [b EXCEPT !.cool = IF @ = 0 THEN 0 ELSE @ - 1]
=============================================================================
