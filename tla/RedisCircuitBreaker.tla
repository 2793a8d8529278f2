------------------------- MODULE RedisCircuitBreaker -------------------------
(***************************************************************************)
(* One key of the Redis-backed circuit breaker, shared by the replicas.    *)
(* Unlike the in-memory one it holds no lock: every GET, SET, INCR, EXPIRE *)
(* and DEL is a step of its own, the steps of concurrent requests          *)
(* interleave, and any step may be the last one of its request.            *)
(*                                                                         *)
(* The three Redis keys are kept with the age or the time to live that     *)
(* decides what a reader sees; the replicas' clocks agree.                 *)
(***************************************************************************)
EXTENDS Integers

CONSTANTS
    Requests,        \* requests, on any replica
    NoToken,         \* no cb:trial key
    Threshold,       \* failure_threshold
    Cooldown,        \* cooldown_seconds, in ticks of the clock
    MaxCount         \* bound: failures counted before the DEL takes effect

ASSUME RedisBreakerConstants ==
    /\ NoToken \notin Requests
    /\ Threshold \in Nat \ {0}
    /\ Cooldown \in Nat \ {0}
    /\ MaxCount \in Nat /\ MaxCount >= Threshold

VARIABLES
    opened,          \* cb:opened: ticks since the time it holds, or Absent
    trial,           \* cb:trial: its token and time to live
    failures,        \* cb:failures: its count and time to live
    at,              \* the next Redis command of each request
    holds,           \* the request carries the token of a trial it was granted
    seen,            \* record_success: the opened marker was there
    cut              \* history: a request ended between two of its commands

vars == <<opened, trial, failures, at, holds, seen, cut>>

Absent  == -1
Forever == Cooldown + 1          \* an INCR'd key before its EXPIRE
NoTrial == [by |-> NoToken, ttl |-> 0]
NoCount == [n |-> 0, ttl |-> 0]

\* Mutant: the marker lives exactly as long as the cooldown (ISSUE-029).
OpenMarkerTTL_Cooldown == Cooldown

\* _open_marker_ttl
OpenMarkerTTL == Cooldown * 2

Open     == opened # Absent
Cooling  == Open /\ opened < Cooldown
OwnsTrial(r) == holds[r] /\ trial.by = r
Goto(r, l) == at' = [at EXCEPT ![r] = l]

-----------------------------------------------------------------------------
Init ==
    /\ opened = Absent /\ trial = NoTrial /\ failures = NoCount
    /\ at = [r \in Requests |-> "idle"]
    /\ holds = [r \in Requests |-> FALSE]
    /\ seen = [r \in Requests |-> FALSE]
    /\ cut = FALSE

\* The strategy chose this model: attempt #1 does not ask the breaker.
CallFirst(r) ==
    /\ at[r] = "idle" /\ trial.by # r
    /\ Goto(r, "calling")
    /\ holds' = [holds EXCEPT ![r] = FALSE]
    /\ UNCHANGED <<opened, trial, failures, seen, cut>>

-----------------------------------------------------------------------------
(* allow                                                                   *)

\* GET cb:opened.  A breaker that is cooling down refuses: nothing changes.
\* (A request's next token is a new one: the old one is out of Redis.)
AllowGetOpened(r) ==
    /\ at[r] = "idle" /\ trial.by # r /\ ~Cooling
    /\ Goto(r, IF Open THEN "claim" ELSE "calling")
    /\ holds' = [holds EXCEPT ![r] = FALSE]
    /\ UNCHANGED <<opened, trial, failures, seen, cut>>

\* Mutant: SET NX without its EX.
AllowClaim_NoExpiry(r) ==
    /\ at[r] = "claim"
    /\ IF trial = NoTrial
         THEN /\ trial' = [by |-> r, ttl |-> Forever]
              /\ holds' = [holds EXCEPT ![r] = TRUE]
              /\ Goto(r, "calling")
         ELSE Goto(r, "idle") /\ UNCHANGED <<trial, holds>>
    /\ UNCHANGED <<opened, failures, seen, cut>>

\* SET cb:trial token NX EX cooldown
AllowClaim(r) ==
    /\ at[r] = "claim"
    /\ IF trial = NoTrial
         THEN /\ trial' = [by |-> r, ttl |-> Cooldown]
              /\ holds' = [holds EXCEPT ![r] = TRUE]
              /\ Goto(r, "calling")
         ELSE Goto(r, "idle") /\ UNCHANGED <<trial, holds>>
    /\ UNCHANGED <<opened, failures, seen, cut>>

-----------------------------------------------------------------------------
(* record_failure                                                          *)

\* GET cb:trial: a live trial is decided by its holder only.
FailureGetTrial(r) ==
    /\ at[r] = "calling"
    /\ Goto(r, IF trial = NoTrial THEN "f_opened"
               ELSE IF OwnsTrial(r) THEN "f_untrial" ELSE "idle")
    /\ UNCHANGED <<opened, trial, failures, holds, seen, cut>>

\* DEL cb:trial, before the breaker is re-opened.
FailureDelTrial(r) ==
    /\ at[r] = "f_untrial"
    /\ trial' = NoTrial
    /\ Goto(r, "f_open")
    /\ UNCHANGED <<opened, failures, holds, seen, cut>>

\* GET cb:opened: an open breaker has nothing new to count.
FailureGetOpened(r) ==
    /\ at[r] = "f_opened"
    /\ Goto(r, IF Open THEN "idle" ELSE "f_incr")
    /\ UNCHANGED <<opened, trial, failures, holds, seen, cut>>

\* INCR cb:failures
FailureIncr(r) ==
    LET count == failures.n + 1 IN
    /\ at[r] = "f_incr"
    /\ count <= MaxCount
    /\ failures' = [n |-> count, ttl |-> IF count = 1 THEN Forever ELSE failures.ttl]
    /\ Goto(r, IF count = 1 THEN "f_expire"
               ELSE IF count >= Threshold THEN "f_clear" ELSE "idle")
    /\ UNCHANGED <<opened, trial, holds, seen, cut>>

\* EXPIRE cb:failures cooldown, by the request that counted 1.
FailureExpire(r) ==
    /\ at[r] = "f_expire"
    /\ failures' = IF failures = NoCount THEN NoCount
                   ELSE [failures EXCEPT !.ttl = Cooldown]
    /\ Goto(r, IF Threshold = 1 THEN "f_clear" ELSE "idle")
    /\ UNCHANGED <<opened, trial, holds, seen, cut>>

\* Mutant: tripping leaves the counter behind.
FailureClear_Keeps(r) ==
    /\ at[r] = "f_clear"
    /\ Goto(r, "f_open")
    /\ UNCHANGED <<opened, trial, failures, holds, seen, cut>>

\* DEL cb:failures: the threshold is reached.
FailureClear(r) ==
    /\ at[r] = "f_clear"
    /\ failures' = NoCount
    /\ Goto(r, "f_open")
    /\ UNCHANGED <<opened, trial, holds, seen, cut>>

\* SET cb:opened now EX _open_marker_ttl()
FailureOpen(r) ==
    /\ at[r] = "f_open"
    /\ opened' = 0
    /\ Goto(r, "idle")
    /\ UNCHANGED <<trial, failures, holds, seen, cut>>

-----------------------------------------------------------------------------
(* record_success                                                          *)

\* GET cb:opened
SuccessGetOpened(r) ==
    /\ at[r] = "calling"
    /\ seen' = [seen EXCEPT ![r] = Open]
    /\ Goto(r, "s_trial")
    /\ UNCHANGED <<opened, trial, failures, holds, cut>>

\* GET cb:trial and the two early returns.
SuccessGetTrial(r) ==
    /\ at[r] = "s_trial"
    /\ Goto(r, IF IF trial = NoTrial THEN seen[r] ELSE ~OwnsTrial(r)
                 THEN "idle" ELSE "s_del")
    /\ seen' = [seen EXCEPT ![r] = FALSE]
    /\ UNCHANGED <<opened, trial, failures, holds, cut>>

\* DEL of the three keys in one command.
SuccessDel(r) ==
    /\ at[r] = "s_del"
    /\ opened' = Absent /\ trial' = NoTrial /\ failures' = NoCount
    /\ Goto(r, "idle")
    /\ UNCHANGED <<holds, seen, cut>>

-----------------------------------------------------------------------------
\* The request ends here: its outcome is not recorded (see Abandon of
\* CircuitBreaker), or a command fails or its replica dies half-way through.
Stop(r) ==
    /\ at[r] # "idle"
    /\ Goto(r, "idle")
    /\ seen' = [seen EXCEPT ![r] = FALSE]
    /\ cut' = (cut \/ at[r] # "calling")
    /\ UNCHANGED <<opened, trial, failures, holds>>

\* Redis expires keys.
Tick ==
    /\ Open \/ trial.ttl > 0 \/ failures.ttl > 0
    /\ opened' = IF Open /\ opened + 1 < OpenMarkerTTL THEN opened + 1 ELSE Absent
    /\ trial' = IF trial.ttl = Forever THEN trial
                ELSE IF trial.ttl <= 1 THEN NoTrial
                ELSE [trial EXCEPT !.ttl = @ - 1]
    /\ failures' = IF failures.ttl = Forever THEN failures
                   ELSE IF failures.ttl <= 1 THEN NoCount
                   ELSE [failures EXCEPT !.ttl = @ - 1]
    /\ UNCHANGED <<at, holds, seen, cut>>

Step(r) ==
    \/ CallFirst(r) \/ AllowGetOpened(r) \/ AllowClaim(r)
    \/ FailureGetTrial(r) \/ FailureDelTrial(r) \/ FailureGetOpened(r)
    \/ FailureIncr(r) \/ FailureExpire(r) \/ FailureClear(r) \/ FailureOpen(r)
    \/ SuccessGetOpened(r) \/ SuccessGetTrial(r) \/ SuccessDel(r)
    \/ Stop(r)

Next == (\E r \in Requests : Step(r)) \/ Tick

\* Time passes; no request has to do anything.
Spec == Init /\ [][Next]_vars
FairSpec == Spec /\ WF_vars(Tick)

-----------------------------------------------------------------------------
(* Properties.                                                             *)

TypeOK ==
    /\ opened \in {Absent} \cup 0..(OpenMarkerTTL - 1)
    /\ trial \in [by : Requests \cup {NoToken}, ttl : 0..Forever]
    /\ failures \in [n : 0..MaxCount, ttl : 0..Forever]
    /\ at \in [Requests -> {"idle", "calling", "claim", "f_opened", "f_untrial",
                  "f_incr", "f_expire", "f_clear", "f_open", "s_trial", "s_del"}]
    /\ holds \in [Requests -> BOOLEAN] /\ seen \in [Requests -> BOOLEAN]
    /\ cut \in BOOLEAN

\* The shared counter settles without a lock: it stands at the threshold, or
\* without an expiry, only while the request that put it there is about to
\* clear it or to set its expiry, however the INCR, EXPIRE and DEL of several
\* replicas interleave; only a request cut short in between leaves it so
\* (lines 236-248).
CounterSettles ==
    \/ cut
    \/ /\ failures.n >= Threshold
             => \E r \in Requests : at[r] \in {"f_expire", "f_clear"}
       /\ failures.ttl = Forever => \E r \in Requests : at[r] = "f_expire"

\* An open marker that no success deletes goes through the half-open window,
\* where the next caller has to claim the trial: it never expires while it is
\* still cooling down, which would admit everybody at once (ISSUE-029, lines
\* 159-174).
TrialWindow ==
    [][Open /\ opened' = Absent /\ UNCHANGED at => opened >= Cooldown]_vars

\* "A stale marker must never wedge a provider that has recovered" (line 173):
\* once nobody re-opens the breaker its markers are gone for good, whoever
\* stopped at whichever command and although no trial need ever report (lines
\* 205-210).
NeverWedged ==
    <>[][~\E r \in Requests : FailureOpen(r)]_vars => <>[](~Open /\ trial = NoTrial)

\* The three keys are well formed between any two commands of any replicas, and
\* the shared counter settles (lines 205-248).
MarkersSettle == TypeOK /\ CounterSettles
=============================================================================
