--------------------------- MODULE FailoverProofs ---------------------------
(***************************************************************************)
(* What the failover loops guarantee for any number of requests,           *)
(* candidates and attempts, any chain of candidates and any deadline.      *)
(*                                                                         *)
(* The argument that a request is charged once is local to the request and *)
(* follows its place in the loop: before a settlement nothing is billed, a *)
(* settled attempt that fails is not failover-eligible, unless the         *)
(* deadline fired while it was settled; the deadline, once passed, stays   *)
(* passed, so the next attempt is refused before it is admitted.           *)
(***************************************************************************)
EXTENDS Failover, FiniteSetTheorems, TLAPS

Excs == {"none", "eligible", "invalid", "terminal"}

\* Every breaker a request can meet: the fields agree with the status.
SoundBreaker(b) ==
    /\ b \in BreakerStates(Requests)
    /\ b.status = "half_open" <=> b.trial # NoToken
    /\ b.status = "closed" <=> b.failures < Threshold
    /\ b.cool > 0 => b.status = "open"

BreakersOK == breaker \in [Candidates -> BreakerStates(Requests)]
              /\ \A c \in Candidates : SoundBreaker(breaker[c])
PlacesOK   == at \in [Requests -> Places] /\ exc \in [Requests -> Excs]
ClockOK    == left \in [Requests -> 0..Deadline]
SeqsOK     == chain \in [Requests -> Seq(Candidates)]
              /\ queue \in [Requests -> Seq(Candidates)]
TokensOK   == tokens \in [Requests -> SUBSET Candidates]
CountOK    == attempt \in [Requests -> Nat]
MoneyOK    == /\ held \in [Requests -> SUBSET Nat]
              /\ billed \in [Requests -> SUBSET Nat]
              /\ dropped \in [Requests -> SUBSET Nat]

\* The attempt counter stays within the chain and the router's max_attempts,
\* and nothing is known of an attempt not made yet.
WithinChain(q) ==
    /\ attempt[q] \in 1..MaxAttempts /\ attempt[q] <= Len(chain[q])
    /\ held[q] \cup billed[q] \cup dropped[q] \subseteq 1..attempt[q]
    /\ at[q] = "probing" => attempt[q] = 1

\* What may have been billed, by the place the request has reached.
BilledSoFar(q) ==
    /\ at[q] \in {"probing", "admit", "enter", "calling", "settling", "opened",
                  "priming", "streaming"} => billed[q] = {}
    /\ at[q] = "guarding" => billed[q] = {attempt[q]}
    /\ at[q] = "check" => billed[q] = {} \/ Expired(q)
    /\ at[q] = "failed" /\ exc[q] = "eligible" => billed[q] = {} \/ Expired(q)
    /\ at[q] = "succeeded" => IF q \in Streams THEN billed[q] \subseteq {attempt[q]}
                              ELSE billed[q] = {attempt[q]}
    /\ \E a \in Nat : billed[q] \subseteq {a}

\* What the attempt raised, by place: only an answer leaves nothing raised.
RaisedSoFar(q) ==
    /\ at[q] \in {"calling", "settling", "guarding", "opened", "priming",
                  "succeeded", "streaming"} => exc[q] = "none"
    /\ at[q] \in {"check", "admit"} => exc[q] = "eligible"
    /\ at[q] = "failed" => exc[q] # "none"
    /\ at[q] = "done" /\ exc[q] = "none" => billed[q] = {attempt[q]}
    /\ at[q] \in {"settling", "guarding"} => q \notin Streams
    /\ at[q] \in {"opened", "priming", "streaming"} => q \in Streams

\* What may be held: the reservation of the current attempt, until released.
HeldSoFar(q) ==
    /\ held[q] \subseteq dropped[q] \cup {attempt[q]}
    /\ at[q] \in {"check", "admit", "done", "failed"} => held[q] \subseteq dropped[q]
    /\ at[q] = "succeeded" /\ (q \notin Streams \/ attempt[q] \in billed[q])
          => held[q] \subseteq dropped[q]

Local(q) == WithinChain(q) /\ BilledSoFar(q) /\ RaisedSoFar(q) /\ HeldSoFar(q)

Types == /\ BreakersOK /\ PlacesOK /\ ClockOK /\ SeqsOK /\ TokensOK /\ CountOK
         /\ MoneyOK

Inv == Types /\ \A q \in Requests : Local(q)

-----------------------------------------------------------------------------
(* The breaker methods keep a breaker sound.                               *)

\* A breaker nobody has used.
LEMMA FreshBreaker == SoundBreaker(Fresh)
  BY BreakerConstants DEF SoundBreaker, Fresh, BreakerStates

\* allow.
LEMMA AllowBreaker ==
  ASSUME NEW b, SoundBreaker(b), NEW q \in Requests
  PROVE  SoundBreaker(AfterAllow(b, q))
<1>1. CASE TrialDue(b)
  <2>1. AfterAllow(b, q) = [status |-> "half_open", failures |-> b.failures,
                            cool |-> b.cool, trial |-> q]
    BY <1>1 DEF AfterAllow, SoundBreaker, BreakerStates
  <2>2. b.status = "open" /\ b.cool = 0 BY <1>1 DEF TrialDue
  <2> QED BY <2>1, <2>2, FailoverConstants, BreakerConstants
          DEF SoundBreaker, BreakerStates
<1> QED BY <1>1 DEF AfterAllow

\* Opening the breaker on a full counter.
LEMMA TrippedBreaker ==
  ASSUME NEW f \in 0..Threshold, ~(f < Threshold)
  PROVE  SoundBreaker(Tripped(f))
  BY BreakerConstants DEF SoundBreaker, BreakerStates, Tripped

\* record_failure, with any token.
LEMMA FailureBreaker ==
  ASSUME NEW b, SoundBreaker(b), NEW t
  PROVE  SoundBreaker(AfterFailure(b, t))
<1>0. /\ b.failures \in 0..Threshold /\ b.status \in {"closed", "open", "half_open"}
      /\ b.status # "closed" => ~(b.failures < Threshold)
      /\ b.status = "closed" => b.failures < Threshold
  BY DEF SoundBreaker, BreakerStates
<1>1. CASE b.status = "closed" /\ b.failures + 1 >= Threshold
  <2>1. b.failures + 1 \in 0..Threshold /\ ~(b.failures + 1 < Threshold)
    BY <1>0, <1>1, BreakerConstants
  <2>2. AfterFailure(b, t) = Tripped(b.failures + 1)
    BY <1>1 DEF AfterFailure, Counted
  <2> QED BY <2>1, <2>2, TrippedBreaker
<1>2. CASE b.status = "closed" /\ ~(b.failures + 1 >= Threshold)
  <2>1. AfterFailure(b, t) = [b EXCEPT !.failures = b.failures + 1]
    BY <1>2 DEF AfterFailure, Counted
  <2> QED BY <1>0, <1>2, <2>1, BreakerConstants DEF SoundBreaker, BreakerStates
<1>3. CASE b.status = "open" BY <1>3 DEF AfterFailure
<1>4. CASE b.status = "half_open" BY <1>0, <1>4, TrippedBreaker DEF AfterFailure
<1> QED BY <1>0, <1>1, <1>2, <1>3, <1>4

\* record_success, with any token.
LEMMA SuccessBreaker ==
  ASSUME NEW b, SoundBreaker(b), NEW t
  PROVE  SoundBreaker(AfterSuccess(b, t))
  BY FreshBreaker DEF AfterSuccess

\* The clock.
LEMMA AgedBreaker ==
  ASSUME NEW b, SoundBreaker(b)
  PROVE  SoundBreaker(Aged(b))
  BY BreakerConstants DEF SoundBreaker, BreakerStates, Aged

\* One breaker changed, the others as they were.
LEMMA BreakersUpdate ==
  ASSUME BreakersOK, NEW c \in Candidates, NEW b, SoundBreaker(b),
         breaker' = [breaker EXCEPT ![c] = b]
  PROVE  BreakersOK'
  BY DEF BreakersOK, SoundBreaker, BreakerStates

-----------------------------------------------------------------------------
(* Types.                                                                  *)

\* The candidate of the current attempt is one.
LEMMA CurrentIsCandidate ==
  ASSUME SeqsOK, CountOK, NEW q \in Requests, WithinChain(q)
  PROVE  Current(q) \in Candidates
<1>1. attempt[q] \in 1..Len(chain[q]) /\ chain[q] \in Seq(Candidates)
  BY DEF SeqsOK, CountOK, WithinChain
<1> QED BY <1>1 DEF Current

\* The start: _prepare has admitted attempt #1.
LEMMA InitInv == Init => Inv
<1> SUFFICES ASSUME Init PROVE Inv
  OBVIOUS
<1>1. ASSUME NEW q \in Requests
      PROVE  /\ Chain[q] \in Seq(Candidates) /\ Chain[q] # <<>>
             /\ Tail(Chain[q]) \in Seq(Candidates)
             /\ <<Head(Chain[q])>> \in Seq(Candidates)
             /\ Len(<<Head(Chain[q])>>) = 1
  BY FailoverConstants
<1>2. BreakersOK
  <2>1. Fresh \in BreakerStates(Requests) BY FreshBreaker DEF SoundBreaker
  <2> QED BY <2>1, FreshBreaker DEF Init, BreakersOK
<1>3. PlacesOK /\ ClockOK /\ TokensOK /\ CountOK /\ MoneyOK
  BY FailoverConstants
  DEF Init, PlacesOK, ClockOK, TokensOK, CountOK, MoneyOK, Places, Excs
<1>4. SeqsOK BY <1>1 DEF Init, SeqsOK
<1>5. ASSUME NEW q \in Requests PROVE Local(q)
  <2>1. /\ at[q] = "probing" /\ attempt[q] = 1 /\ chain[q] = <<Head(Chain[q])>>
        /\ held[q] = {1} /\ billed[q] = {} /\ dropped[q] = {} /\ exc[q] = "none"
    BY DEF Init
  <2>2. WithinChain(q) BY <1>1, <2>1, FailoverConstants DEF WithinChain
  <2>3. BilledSoFar(q) BY <2>1 DEF BilledSoFar
  <2>4. RaisedSoFar(q) /\ HeldSoFar(q) BY <2>1 DEF RaisedSoFar, HeldSoFar
  <2> QED BY <2>2, <2>3, <2>4 DEF Local
<1> QED BY <1>2, <1>3, <1>4, <1>5 DEF Inv, Types

-----------------------------------------------------------------------------
(* Types and frame of a step.                                              *)

\* The places and the exceptions, whatever the request does.
LEMMA PlacesStep ==
  ASSUME PlacesOK, NEW q \in Requests, Step(q)
  PROVE  PlacesOK'
<1> USE DEF PlacesOK, Places, Excs, Goto, Raise
<1>1. at' \in [Requests -> Places]
  BY DEF Step, Probe, LookupFails, StartLoop, CheckDeadline, Admit, EnterDeadline,
         CallFails, CallInvalid, CallReturns, Settle, Guard, EnterPrime, PrimeFails,
         PrimeReturns, StreamEnds, DeadlineFires, Failed, Succeeded
<1>2. exc' \in [Requests -> Excs]
  BY DEF Step, Probe, LookupFails, StartLoop, CheckDeadline, Admit, EnterDeadline,
         CallFails, CallInvalid, CallReturns, Settle, Guard, EnterPrime, PrimeFails,
         PrimeReturns, StreamEnds, DeadlineFires, Failed, Succeeded
<1> QED BY <1>1, <1>2

\* Reservations and charges are sets of attempts.
LEMMA MoneyStep ==
  ASSUME MoneyOK, CountOK, NEW q \in Requests, Step(q)
  PROVE  MoneyOK'
<1> USE DEF MoneyOK, CountOK, Release, Charge
<1>1. held' \in [Requests -> SUBSET Nat]
  BY DEF Step, Probe, LookupFails, StartLoop, CheckDeadline, Admit, EnterDeadline,
         CallFails, CallInvalid, CallReturns, Settle, Guard, EnterPrime, PrimeFails,
         PrimeReturns, StreamEnds, DeadlineFires, Failed, Succeeded
<1>2. billed' \in [Requests -> SUBSET Nat]
  BY DEF Step, Probe, LookupFails, StartLoop, CheckDeadline, Admit, EnterDeadline,
         CallFails, CallInvalid, CallReturns, Settle, Guard, EnterPrime, PrimeFails,
         PrimeReturns, StreamEnds, DeadlineFires, Failed, Succeeded
<1>3. dropped' \in [Requests -> SUBSET Nat]
  BY DEF Step, Probe, LookupFails, StartLoop, CheckDeadline, Admit, EnterDeadline,
         CallFails, CallInvalid, CallReturns, Settle, Guard, EnterPrime, PrimeFails,
         PrimeReturns, StreamEnds, DeadlineFires, Failed, Succeeded
<1> QED BY <1>1, <1>2, <1>3

\* The chain only grows while the candidates are probed.
LEMMA SeqsStep ==
  ASSUME SeqsOK, NEW q \in Requests, Step(q)
  PROVE  SeqsOK'
<1>1. CASE Probe(q)
  <2>1. queue[q] \in Seq(Candidates) /\ queue[q] # <<>> /\ chain[q] \in Seq(Candidates)
    BY <1>1 DEF Probe, SeqsOK
  <2>2. /\ Head(queue[q]) \in Candidates
        /\ Tail(queue[q]) \in Seq(Candidates)
        /\ Append(chain[q], Head(queue[q])) \in Seq(Candidates)
    BY <2>1
  <2> QED BY <1>1, <2>1, <2>2 DEF Probe, SeqsOK
<1>2. CASE UNCHANGED <<chain, queue>> BY <1>2 DEF SeqsOK
<1> QED BY <1>1, <1>2
    DEF Step, LookupFails, StartLoop, CheckDeadline, Admit, EnterDeadline,
        CallFails, CallInvalid, CallReturns, Settle, Guard, EnterPrime, PrimeFails,
        PrimeReturns, StreamEnds, DeadlineFires, Failed, Succeeded

\* The breakers are used through allow, record_failure and record_success, and
\* tokens are only granted by a probe.
LEMMA BreakersStep ==
  ASSUME BreakersOK, SeqsOK, CountOK, TokensOK, NEW q \in Requests, WithinChain(q),
         Step(q)
  PROVE  BreakersOK' /\ TokensOK'
<1>0. Current(q) \in Candidates BY CurrentIsCandidate
<1>1. CASE Probe(q)
  <2> DEFINE c == Head(queue[q])
  <2>1. c \in Candidates BY <1>1 DEF Probe, SeqsOK
  <2>2. breaker' = [breaker EXCEPT ![c] = AfterAllow(breaker[c], q)]
    BY <1>1 DEF Probe
  <2>3. SoundBreaker(AfterAllow(breaker[c], q))
    BY <2>1, AllowBreaker DEF BreakersOK
  <2>4. TokensOK' BY <1>1, <2>1 DEF Probe, TokensOK
  <2> HIDE DEF c
  <2> QED BY <2>1, <2>2, <2>3, <2>4, BreakersUpdate
<1>2. CASE Failed(q)
  <2>1. CASE Eligible(q)
    <3>1. SoundBreaker(AfterFailure(breaker[Current(q)], TokenOf(q)))
      BY <1>0, FailureBreaker DEF BreakersOK
    <3>2. breaker' = [breaker EXCEPT ![Current(q)] =
                         AfterFailure(breaker[Current(q)], TokenOf(q))]
      BY <1>2, <2>1 DEF Failed
    <3>3. TokensOK' BY <1>2, <2>1 DEF Failed, TokensOK
    <3> QED BY <1>0, <3>1, <3>2, <3>3, BreakersUpdate
  <2>2. CASE ~Eligible(q)
    BY <1>2, <2>2 DEF Failed, BreakersOK, SoundBreaker, BreakerStates, TokensOK
  <2> QED BY <2>1, <2>2
<1>3. CASE Succeeded(q)
  <2>1. SoundBreaker(AfterSuccess(breaker[Current(q)], TokenOf(q)))
    BY <1>0, SuccessBreaker DEF BreakersOK
  <2>2. breaker' = [breaker EXCEPT ![Current(q)] =
                       AfterSuccess(breaker[Current(q)], TokenOf(q))]
    BY <1>3 DEF Succeeded
  <2>3. TokensOK' BY <1>3 DEF Succeeded, TokensOK
  <2> QED BY <1>0, <2>1, <2>2, <2>3, BreakersUpdate
<1>4. CASE UNCHANGED <<breaker, tokens>>
  BY <1>4 DEF BreakersOK, SoundBreaker, BreakerStates, TokensOK
<1> QED BY <1>1, <1>2, <1>3, <1>4
    DEF Step, LookupFails, StartLoop, CheckDeadline, Admit, EnterDeadline,
        CallFails, CallInvalid, CallReturns, Settle, Guard, EnterPrime, PrimeFails,
        PrimeReturns, StreamEnds, DeadlineFires

\* Only the except clause moves on to another attempt, and no request turns
\* the clock back.
LEMMA CountStep ==
  ASSUME CountOK, ClockOK, NEW q \in Requests, Step(q)
  PROVE  CountOK' /\ ClockOK' /\ left' = left
<1>1. left' = left
  BY DEF Step, Probe, LookupFails, StartLoop, CheckDeadline, Admit, EnterDeadline,
         CallFails, CallInvalid, CallReturns, Settle, Guard, EnterPrime, PrimeFails,
         PrimeReturns, StreamEnds, DeadlineFires, Failed, Succeeded
<1>2. CASE Failed(q) BY <1>1, <1>2 DEF Failed, CountOK, ClockOK
<1>3. CASE UNCHANGED attempt BY <1>1, <1>3 DEF CountOK, ClockOK
<1> QED BY <1>2, <1>3
    DEF Step, Probe, LookupFails, StartLoop, CheckDeadline, Admit, EnterDeadline,
        CallFails, CallInvalid, CallReturns, Settle, Guard, EnterPrime, PrimeFails,
        PrimeReturns, StreamEnds, DeadlineFires, Succeeded

\* A request only ever moves itself.
LEMMA OthersStay ==
  ASSUME PlacesOK, SeqsOK, CountOK, MoneyOK, NEW q \in Requests, Step(q),
         NEW p \in Requests, p # q
  PROVE  /\ at'[p] = at[p] /\ exc'[p] = exc[p] /\ attempt'[p] = attempt[p]
         /\ chain'[p] = chain[p] /\ held'[p] = held[p] /\ billed'[p] = billed[p]
         /\ dropped'[p] = dropped[p]
<1> USE DEF PlacesOK, SeqsOK, CountOK, MoneyOK, Goto, Raise, Release, Charge
<1>1. at'[p] = at[p] /\ exc'[p] = exc[p]
  BY DEF Step, Probe, LookupFails, StartLoop, CheckDeadline, Admit, EnterDeadline,
         CallFails, CallInvalid, CallReturns, Settle, Guard, EnterPrime, PrimeFails,
         PrimeReturns, StreamEnds, DeadlineFires, Failed, Succeeded
<1>2. attempt'[p] = attempt[p] /\ chain'[p] = chain[p]
  BY DEF Step, Probe, LookupFails, StartLoop, CheckDeadline, Admit, EnterDeadline,
         CallFails, CallInvalid, CallReturns, Settle, Guard, EnterPrime, PrimeFails,
         PrimeReturns, StreamEnds, DeadlineFires, Failed, Succeeded
<1>3. held'[p] = held[p] /\ billed'[p] = billed[p] /\ dropped'[p] = dropped[p]
  BY DEF Step, Probe, LookupFails, StartLoop, CheckDeadline, Admit, EnterDeadline,
         CallFails, CallInvalid, CallReturns, Settle, Guard, EnterPrime, PrimeFails,
         PrimeReturns, StreamEnds, DeadlineFires, Failed, Succeeded
<1> QED BY <1>1, <1>2, <1>3

\* What is known of a request that does not move stays known, as long as a
\* deadline that has passed stays passed.
LEMMA LocalFrame ==
  ASSUME NEW p \in Requests, Local(p), Expired(p) => Expired(p)',
         at'[p] = at[p], exc'[p] = exc[p], attempt'[p] = attempt[p],
         chain'[p] = chain[p], held'[p] = held[p], billed'[p] = billed[p],
         dropped'[p] = dropped[p]
  PROVE  Local(p)'
<1>1. WithinChain(p)' BY DEF Local, WithinChain
<1>2. BilledSoFar(p)' BY DEF Local, BilledSoFar
<1>3. RaisedSoFar(p)' BY DEF Local, RaisedSoFar
<1>4. HeldSoFar(p)' BY DEF Local, HeldSoFar
<1> QED BY <1>1, <1>2, <1>3, <1>4 DEF Local

-----------------------------------------------------------------------------
(* What each step of the loop leaves known of its request.                 *)

\* Probing bills nothing and the chain gets no shorter.
LEMMA ProbeLocal ==
  ASSUME Types, NEW q \in Requests, Local(q), Probe(q), left' = left
  PROVE  Local(q)'
<1> USE DEF Types, PlacesOK, CountOK, MoneyOK, SeqsOK, ClockOK, Local, Goto, Raise,
            Release, Charge
<1>1. WithinChain(q)' BY FailoverConstants DEF Probe, WithinChain
<1>2. BilledSoFar(q)' BY DEF Probe, BilledSoFar, RaisedSoFar, Expired
<1>3. RaisedSoFar(q)' BY DEF Probe, RaisedSoFar, BilledSoFar
<1>4. HeldSoFar(q)' BY DEF Probe, HeldSoFar, BilledSoFar, WithinChain
<1> QED BY <1>1, <1>2, <1>3, <1>4

\* A failed lookup ends the request with its reservation dropped.
LEMMA LookupFailsLocal ==
  ASSUME Types, NEW q \in Requests, Local(q), LookupFails(q), left' = left
  PROVE  Local(q)'
<1> USE DEF Types, PlacesOK, CountOK, MoneyOK, SeqsOK, ClockOK, Local, Goto, Raise,
            Release, Charge
<1>1. WithinChain(q)' BY FailoverConstants DEF LookupFails, WithinChain
<1>2. BilledSoFar(q)' BY DEF LookupFails, BilledSoFar, RaisedSoFar, Expired
<1>3. RaisedSoFar(q)' BY DEF LookupFails, RaisedSoFar, BilledSoFar
<1>4. HeldSoFar(q)' BY DEF LookupFails, HeldSoFar, BilledSoFar, WithinChain
<1> QED BY <1>1, <1>2, <1>3, <1>4

\* The loop is entered with the reservation of _prepare.
LEMMA StartLoopLocal ==
  ASSUME Types, NEW q \in Requests, Local(q), StartLoop(q), left' = left
  PROVE  Local(q)'
<1> USE DEF Types, PlacesOK, CountOK, MoneyOK, SeqsOK, ClockOK, Local, Goto, Raise,
            Release, Charge
<1>1. WithinChain(q)' BY FailoverConstants DEF StartLoop, WithinChain
<1>2. BilledSoFar(q)' BY DEF StartLoop, BilledSoFar, RaisedSoFar, Expired
<1>3. RaisedSoFar(q)' BY DEF StartLoop, RaisedSoFar, BilledSoFar
<1>4. HeldSoFar(q)' BY DEF StartLoop, HeldSoFar, BilledSoFar, WithinChain
<1> QED BY <1>1, <1>2, <1>3, <1>4

\* A retry that may have been billed is refused: its deadline has passed.
LEMMA CheckDeadlineLocal ==
  ASSUME Types, NEW q \in Requests, Local(q), CheckDeadline(q), left' = left
  PROVE  Local(q)'
<1> USE DEF Types, PlacesOK, CountOK, MoneyOK, SeqsOK, ClockOK, Local, Goto, Raise,
            Release, Charge
<1>1. WithinChain(q)' BY FailoverConstants DEF CheckDeadline, WithinChain
<1>2. BilledSoFar(q)' BY DEF CheckDeadline, BilledSoFar, RaisedSoFar, Expired
<1>3. RaisedSoFar(q)' BY DEF CheckDeadline, RaisedSoFar, BilledSoFar
<1>4. HeldSoFar(q)' BY DEF CheckDeadline, HeldSoFar, BilledSoFar, WithinChain
<1> QED BY <1>1, <1>2, <1>3, <1>4

\* A retry that is admitted was never billed.
LEMMA AdmitLocal ==
  ASSUME Types, NEW q \in Requests, Local(q), Admit(q), left' = left
  PROVE  Local(q)'
<1> USE DEF Types, PlacesOK, CountOK, MoneyOK, SeqsOK, ClockOK, Local, Goto, Raise,
            Release, Charge
<1>1. WithinChain(q)' BY FailoverConstants DEF Admit, WithinChain
<1>2. BilledSoFar(q)' BY DEF Admit, BilledSoFar, RaisedSoFar, Expired
<1>3. RaisedSoFar(q)' BY DEF Admit, RaisedSoFar, BilledSoFar
<1>4. HeldSoFar(q)' BY DEF Admit, HeldSoFar, BilledSoFar, WithinChain
<1> QED BY <1>1, <1>2, <1>3, <1>4

\* _within_deadline, raised before the body runs.
LEMMA EnterDeadlineLocal ==
  ASSUME Types, NEW q \in Requests, Local(q), EnterDeadline(q), left' = left
  PROVE  Local(q)'
<1> USE DEF Types, PlacesOK, CountOK, MoneyOK, SeqsOK, ClockOK, Local, Goto, Raise,
            Release, Charge
<1>1. WithinChain(q)' BY FailoverConstants DEF EnterDeadline, WithinChain
<1>2. BilledSoFar(q)' BY DEF EnterDeadline, BilledSoFar, RaisedSoFar, Expired
<1>3. RaisedSoFar(q)' BY DEF EnterDeadline, RaisedSoFar, BilledSoFar
<1>4. HeldSoFar(q)' BY DEF EnterDeadline, HeldSoFar, BilledSoFar, WithinChain
<1> QED BY <1>1, <1>2, <1>3, <1>4

\* A failed call releases and bills nothing.
LEMMA CallFailsLocal ==
  ASSUME Types, NEW q \in Requests, Local(q), CallFails(q), left' = left
  PROVE  Local(q)'
<1> USE DEF Types, PlacesOK, CountOK, MoneyOK, SeqsOK, ClockOK, Local, Goto, Raise,
            Release, Charge
<1>1. WithinChain(q)' BY FailoverConstants DEF CallFails, WithinChain
<1>2. BilledSoFar(q)' BY DEF CallFails, BilledSoFar, RaisedSoFar, Expired
<1>3. RaisedSoFar(q)' BY DEF CallFails, RaisedSoFar, BilledSoFar
<1>4. HeldSoFar(q)' BY DEF CallFails, HeldSoFar, BilledSoFar, WithinChain
<1> QED BY <1>1, <1>2, <1>3, <1>4

\* An invalid answer is billed and ends the request.
LEMMA CallInvalidLocal ==
  ASSUME Types, NEW q \in Requests, Local(q), CallInvalid(q), left' = left
  PROVE  Local(q)'
<1> USE DEF Types, PlacesOK, CountOK, MoneyOK, SeqsOK, ClockOK, Local, Goto, Raise,
            Release, Charge
<1>1. WithinChain(q)' BY FailoverConstants DEF CallInvalid, WithinChain
<1>2. BilledSoFar(q)' BY DEF CallInvalid, BilledSoFar, RaisedSoFar, Expired
<1>3. RaisedSoFar(q)' BY DEF CallInvalid, RaisedSoFar, BilledSoFar
<1>4. HeldSoFar(q)' BY DEF CallInvalid, HeldSoFar, BilledSoFar, WithinChain
<1> QED BY <1>1, <1>2, <1>3, <1>4

\* The provider answered.
LEMMA CallReturnsLocal ==
  ASSUME Types, NEW q \in Requests, Local(q), CallReturns(q), left' = left
  PROVE  Local(q)'
<1> USE DEF Types, PlacesOK, CountOK, MoneyOK, SeqsOK, ClockOK, Local, Goto, Raise,
            Release, Charge
<1>1. WithinChain(q)' BY FailoverConstants DEF CallReturns, WithinChain
<1>2. BilledSoFar(q)' BY DEF CallReturns, BilledSoFar, RaisedSoFar, Expired
<1>3. RaisedSoFar(q)' BY DEF CallReturns, RaisedSoFar, BilledSoFar
<1>4. HeldSoFar(q)' BY DEF CallReturns, HeldSoFar, BilledSoFar, WithinChain
<1> QED BY <1>1, <1>2, <1>3, <1>4

\* settle_ok: the one charge of a buffered request.
LEMMA SettleLocal ==
  ASSUME Types, NEW q \in Requests, Local(q), Settle(q), left' = left
  PROVE  Local(q)'
<1> USE DEF Types, PlacesOK, CountOK, MoneyOK, SeqsOK, ClockOK, Local, Goto, Raise,
            Release, Charge
<1>1. WithinChain(q)' BY FailoverConstants DEF Settle, WithinChain
<1>2. BilledSoFar(q)' BY DEF Settle, BilledSoFar, RaisedSoFar, Expired
<1>3. RaisedSoFar(q)' BY DEF Settle, RaisedSoFar, BilledSoFar
<1>4. HeldSoFar(q)' BY DEF Settle, HeldSoFar, BilledSoFar, WithinChain
<1> QED BY <1>1, <1>2, <1>3, <1>4

\* The answer is passed on or blocked; it has been paid for.
LEMMA GuardLocal ==
  ASSUME Types, NEW q \in Requests, Local(q), Guard(q), left' = left
  PROVE  Local(q)'
<1> USE DEF Types, PlacesOK, CountOK, MoneyOK, SeqsOK, ClockOK, Local, Goto, Raise,
            Release, Charge
<1>1. WithinChain(q)' BY FailoverConstants DEF Guard, WithinChain
<1>2. BilledSoFar(q)' BY DEF Guard, BilledSoFar, RaisedSoFar, Expired
<1>3. RaisedSoFar(q)' BY DEF Guard, RaisedSoFar, BilledSoFar
<1>4. HeldSoFar(q)' BY DEF Guard, HeldSoFar, BilledSoFar, WithinChain
<1> QED BY <1>1, <1>2, <1>3, <1>4

\* The second deadline of a stream.
LEMMA EnterPrimeLocal ==
  ASSUME Types, NEW q \in Requests, Local(q), EnterPrime(q), left' = left
  PROVE  Local(q)'
<1> USE DEF Types, PlacesOK, CountOK, MoneyOK, SeqsOK, ClockOK, Local, Goto, Raise,
            Release, Charge
<1>1. WithinChain(q)' BY FailoverConstants DEF EnterPrime, WithinChain
<1>2. BilledSoFar(q)' BY DEF EnterPrime, BilledSoFar, RaisedSoFar, Expired
<1>3. RaisedSoFar(q)' BY DEF EnterPrime, RaisedSoFar, BilledSoFar
<1>4. HeldSoFar(q)' BY DEF EnterPrime, HeldSoFar, BilledSoFar, WithinChain
<1> QED BY <1>1, <1>2, <1>3, <1>4

\* No chunk: nothing to bill.
LEMMA PrimeFailsLocal ==
  ASSUME Types, NEW q \in Requests, Local(q), PrimeFails(q), left' = left
  PROVE  Local(q)'
<1> USE DEF Types, PlacesOK, CountOK, MoneyOK, SeqsOK, ClockOK, Local, Goto, Raise,
            Release, Charge
<1>1. WithinChain(q)' BY FailoverConstants DEF PrimeFails, WithinChain
<1>2. BilledSoFar(q)' BY DEF PrimeFails, BilledSoFar, RaisedSoFar, Expired
<1>3. RaisedSoFar(q)' BY DEF PrimeFails, RaisedSoFar, BilledSoFar
<1>4. HeldSoFar(q)' BY DEF PrimeFails, HeldSoFar, BilledSoFar, WithinChain
<1> QED BY <1>1, <1>2, <1>3, <1>4

\* The first chunk, or an empty stream settled at once.
LEMMA PrimeReturnsLocal ==
  ASSUME Types, NEW q \in Requests, Local(q), PrimeReturns(q), left' = left
  PROVE  Local(q)'
<1> USE DEF Types, PlacesOK, CountOK, MoneyOK, SeqsOK, ClockOK, Local, Goto, Raise,
            Release, Charge
<1>1. WithinChain(q)' BY FailoverConstants DEF PrimeReturns, WithinChain
<1>2. BilledSoFar(q)' BY DEF PrimeReturns, BilledSoFar, RaisedSoFar, Expired
<1>3. RaisedSoFar(q)' BY DEF PrimeReturns, RaisedSoFar, BilledSoFar
<1>4. HeldSoFar(q)' BY DEF PrimeReturns, HeldSoFar, BilledSoFar, RaisedSoFar
<1> QED BY <1>1, <1>2, <1>3, <1>4

\* metered_stream's finally: the one charge of a stream.
LEMMA StreamEndsLocal ==
  ASSUME Types, NEW q \in Requests, Local(q), StreamEnds(q), left' = left
  PROVE  Local(q)'
<1> USE DEF Types, PlacesOK, CountOK, MoneyOK, SeqsOK, ClockOK, Local, Goto, Raise,
            Release, Charge
<1>1. WithinChain(q)' BY FailoverConstants DEF StreamEnds, WithinChain
<1>2. BilledSoFar(q)' BY DEF StreamEnds, BilledSoFar, RaisedSoFar, Expired
<1>3. RaisedSoFar(q)' BY DEF StreamEnds, RaisedSoFar, BilledSoFar
<1>4. HeldSoFar(q)' BY DEF StreamEnds, HeldSoFar, BilledSoFar, WithinChain
<1> QED BY <1>1, <1>2, <1>3, <1>4

\* A settlement cut short may have committed, but then the deadline has passed.
LEMMA DeadlineFiresLocal ==
  ASSUME Types, NEW q \in Requests, Local(q), DeadlineFires(q), left' = left
  PROVE  Local(q)'
<1> USE DEF Types, PlacesOK, CountOK, MoneyOK, SeqsOK, ClockOK, Local, Goto, Raise,
            Release, Charge
<1>1. WithinChain(q)' BY FailoverConstants DEF DeadlineFires, WithinChain
<1>2. BilledSoFar(q)' BY DEF DeadlineFires, BilledSoFar, RaisedSoFar, Expired
<1>3. RaisedSoFar(q)' BY DEF DeadlineFires, RaisedSoFar, BilledSoFar
<1>4. HeldSoFar(q)' BY DEF DeadlineFires, HeldSoFar, BilledSoFar, WithinChain
<1> QED BY <1>1, <1>2, <1>3, <1>4

\* The except clause keeps what the attempt left behind.
LEMMA FailedLocal ==
  ASSUME Types, NEW q \in Requests, Local(q), Failed(q), left' = left
  PROVE  Local(q)'
<1> USE DEF Types, PlacesOK, CountOK, MoneyOK, SeqsOK, ClockOK, Local, Goto, Raise,
            Release, Charge
<1>1. WithinChain(q)' BY FailoverConstants DEF Failed, WithinChain, LastAttempt
<1>2. BilledSoFar(q)' BY DEF Failed, BilledSoFar, RaisedSoFar, Expired, Eligible
<1>3. RaisedSoFar(q)' BY DEF Failed, RaisedSoFar, BilledSoFar, Eligible
<1>4. HeldSoFar(q)' BY DEF Failed, HeldSoFar, BilledSoFar, WithinChain
<1> QED BY <1>1, <1>2, <1>3, <1>4

\* record_success; a stream goes on only if it is not settled.
LEMMA SucceededLocal ==
  ASSUME Types, NEW q \in Requests, Local(q), Succeeded(q), left' = left
  PROVE  Local(q)'
<1> USE DEF Types, PlacesOK, CountOK, MoneyOK, SeqsOK, ClockOK, Local, Goto, Raise,
            Release, Charge
<1>1. WithinChain(q)' BY FailoverConstants DEF Succeeded, WithinChain
<1>2. BilledSoFar(q)' BY DEF Succeeded, BilledSoFar, RaisedSoFar, Expired
<1>3. RaisedSoFar(q)' BY DEF Succeeded, RaisedSoFar, BilledSoFar
<1>4. HeldSoFar(q)' BY DEF Succeeded, HeldSoFar, BilledSoFar, WithinChain
<1> QED BY <1>1, <1>2, <1>3, <1>4

-----------------------------------------------------------------------------
(* The inductive step.                                                     *)

\* Every step of a request keeps what is known of it.
LEMMA StepLocal ==
  ASSUME Types, NEW q \in Requests, Local(q), Step(q)
  PROVE  Local(q)'
<1>1. left' = left BY CountStep DEF Types
<1> QED
  BY <1>1, ProbeLocal, LookupFailsLocal, StartLoopLocal, CheckDeadlineLocal, AdmitLocal,
     EnterDeadlineLocal, CallFailsLocal, CallInvalidLocal, CallReturnsLocal,
     SettleLocal, GuardLocal, EnterPrimeLocal, PrimeFailsLocal, PrimeReturnsLocal,
     StreamEndsLocal, DeadlineFiresLocal, FailedLocal, SucceededLocal
  DEF Step

\* The clock ages the breakers, and a deadline that has passed stays passed.
LEMMA TickTypes ==
  ASSUME Types, Tick
  PROVE  Types' /\ \A q \in Requests : Expired(q) => Expired(q)'
<1>1. BreakersOK'
  <2>1. \A c \in Candidates : breaker'[c] = Aged(breaker[c])
    BY DEF Tick
  <2>2. \A c \in Candidates : SoundBreaker(breaker'[c])
    BY <2>1, AgedBreaker DEF Types, BreakersOK
  <2> QED BY <2>2 DEF Tick, BreakersOK, SoundBreaker, BreakerStates
<1>2. ClockOK' /\ \A q \in Requests : Expired(q) => Expired(q)'
  BY FailoverConstants DEF Tick, Types, ClockOK, Expired
<1>3. PlacesOK' /\ SeqsOK' /\ TokensOK' /\ CountOK' /\ MoneyOK'
  BY DEF Tick, Types, PlacesOK, SeqsOK, TokensOK, CountOK, MoneyOK
<1> QED BY <1>1, <1>2, <1>3 DEF Types

\* The invariant is inductive.
LEMMA NextInv == Inv /\ [Next]_vars => Inv'
<1> SUFFICES ASSUME Inv, [Next]_vars PROVE Inv'
  OBVIOUS
<1>1. ASSUME NEW q \in Requests, Step(q) PROVE Inv'
  <2>1. Types'
    BY <1>1, PlacesStep, MoneyStep, SeqsStep, BreakersStep, CountStep
    DEF Inv, Types, Local
  <2>2. ASSUME NEW p \in Requests PROVE Local(p)'
    <3>1. CASE p = q BY <1>1, <3>1, StepLocal DEF Inv
    <3>2. CASE p # q
      <4>1. Expired(p) => Expired(p)' BY <1>1, CountStep DEF Inv, Types, Expired
      <4>2. Local(p) BY DEF Inv
      <4>3. /\ at'[p] = at[p] /\ exc'[p] = exc[p] /\ attempt'[p] = attempt[p]
            /\ chain'[p] = chain[p] /\ held'[p] = held[p] /\ billed'[p] = billed[p]
            /\ dropped'[p] = dropped[p]
        BY <1>1, <3>2, OthersStay DEF Inv, Types
      <4> QED BY <4>1, <4>2, <4>3, LocalFrame
    <3> QED BY <3>1, <3>2
  <2> QED BY <2>1, <2>2 DEF Inv
<1>2. CASE Tick
  <2>1. Types' /\ \A q \in Requests : Expired(q) => Expired(q)'
    BY <1>2, TickTypes DEF Inv
  <2>2. ASSUME NEW p \in Requests PROVE Local(p)'
    <3>1. Local(p) BY DEF Inv
    <3>2. /\ at'[p] = at[p] /\ exc'[p] = exc[p] /\ attempt'[p] = attempt[p]
          /\ chain'[p] = chain[p] /\ held'[p] = held[p] /\ billed'[p] = billed[p]
          /\ dropped'[p] = dropped[p]
      BY <1>2 DEF Tick
    <3> QED BY <2>1, <3>1, <3>2, LocalFrame
  <2> QED BY <2>1, <2>2 DEF Inv
<1>3. CASE UNCHANGED vars
  <2>1. Types'
    BY <1>3 DEF vars, Inv, Types, BreakersOK, SoundBreaker, BreakerStates, PlacesOK,
       ClockOK, SeqsOK, TokensOK, CountOK, MoneyOK
  <2>2. ASSUME NEW p \in Requests PROVE Local(p)'
    <3>1. Local(p) BY DEF Inv
    <3>2. Expired(p) => Expired(p)' BY <1>3 DEF vars, Expired
    <3> QED BY <1>3, <3>1, <3>2, LocalFrame DEF vars
  <2> QED BY <2>1, <2>2 DEF Inv
<1> QED BY <1>1, <1>2, <1>3 DEF Next

-----------------------------------------------------------------------------
\* The inductive invariant holds in every reachable state.
THEOREM Invariant == Spec => []Inv
<1> QED BY InitInv, NextInv, PTL DEF Spec

\* Over all its attempts a request is charged at most once, and an answered one
\* exactly once, by the attempt that answered: the two loops of
\* CompletionService, whatever the deadline, the providers and the other
\* requests do.
THEOREM PaidOnceHolds == Spec => []PaidOnce
<1>1. Inv => PaidOnce
  <2> SUFFICES ASSUME Inv PROVE PaidOnce
    OBVIOUS
  <2>1. TypeOK
    <3>1. attempt \in [Requests -> 1..MaxAttempts]
      BY DEF Inv, Types, CountOK, Local, WithinChain
    <3>2. ASSUME NEW q \in Requests
          PROVE  /\ chain[q] \in Seq(Candidates) /\ attempt[q] \in 1..Len(chain[q])
                 /\ queue[q] \in Seq(Candidates)
                 /\ held[q] \cup billed[q] \cup dropped[q] \subseteq 1..attempt[q]
      BY <3>1, FailoverConstants DEF Inv, Types, SeqsOK, Local, WithinChain
    <3> QED BY <3>1, <3>2
        DEF TypeOK, Inv, Types, BreakersOK, PlacesOK, TokensOK, ClockOK, Excs
  <2>2. ASSUME NEW q \in Requests PROVE Cardinality(billed[q]) <= 1
    <3>1. PICK a \in Nat : billed[q] \subseteq {a} BY DEF Inv, Local, BilledSoFar
    <3>2. CASE billed[q] = {} BY <3>2, FS_EmptySet
    <3>3. CASE billed[q] = {a}
      <4>1. Cardinality({a}) = 1 BY FS_Singleton, Zenon
      <4> QED BY <3>3, <4>1
    <3> QED BY <3>1, <3>2, <3>3
  <2>3. AnswerIsPaid BY DEF AnswerIsPaid, Inv, Local, RaisedSoFar
  <2> QED BY <2>1, <2>2, <2>3 DEF PaidOnce, ChargedOnce
<1> QED BY <1>1, Invariant, PTL

\* Between two attempts and after the last one no reservation is held but the
\* dropped ones: every exception of the call, the guardrails, the first chunk
\* and the timeout releases, at any attempt.
THEOREM NothingHeldBetweenHolds == Spec => []NothingHeldBetween
<1>1. Inv => NothingHeldBetween
  BY DEF Inv, Local, HeldSoFar, NothingHeldBetween
<1> QED BY <1>1, Invariant, PTL

-----------------------------------------------------------------------------
(* The loops use the breaker of each candidate as CircuitBreaker assumes.  *)

\* A token in hand is the token of the trial its breaker is waiting for, so
\* nobody presents another request's token and no trial is claimed twice.
TokensAreTrials ==
    \A q \in Requests, c \in Candidates :
        c \in tokens[q] => breaker[c].status = "half_open" /\ breaker[c].trial = q

\* What q holds of c's breaker.
LeaseIn(c, q) ==
    IF c \in tokens[q] THEN IF Over(q) THEN "lost" ELSE "trial"
    ELSE IF /\ at[q] \in {"enter", "calling", "settling", "guarding", "opened",
                          "priming", "failed", "succeeded"}
            /\ Current(q) = c
           THEN "plain" ELSE "none"

\* How a lease may change while its breaker does not: an attempt begins, or it
\* is abandoned.
Quiet(l, m) ==
    m = l \/ (l = "none" /\ m = "plain") \/ (l = "plain" /\ m = "none")
          \/ (l = "trial" /\ m = "lost")

BreakerStep(c) == CB(c)!Next \/ UNCHANGED CB(c)!vars

\* A step that moves q's lease of c and no other request's.
LEMMA LeaseMoves ==
  ASSUME NEW c \in Candidates, NEW q \in Requests,
         \A p \in Requests : p # q => LeaseIn(c, p)' = LeaseIn(c, p)
  PROVE  Lease(c)' = [Lease(c) EXCEPT ![q] = LeaseIn(c, q)']
         /\ Lease(c)[q] = LeaseIn(c, q)
  BY DEF Lease, LeaseIn

\* Beginning and abandoning an attempt are steps of the breaker's clients.
LEMMA QuietStep ==
  ASSUME NEW c \in Candidates, NEW q \in Requests, breaker'[c] = breaker[c],
         \A p \in Requests : p # q => LeaseIn(c, p)' = LeaseIn(c, p),
         Quiet(LeaseIn(c, q), LeaseIn(c, q)')
  PROVE  BreakerStep(c)
<1> DEFINE l == LeaseIn(c, q)
           m == LeaseIn(c, q)'
<1>1. Lease(c)' = [Lease(c) EXCEPT ![q] = m] /\ Lease(c)[q] = l
  BY LeaseMoves
<1>2. Lease(c) \in [Requests -> {"none", "plain", "trial", "lost"}]
  BY DEF Lease
<1> HIDE DEF l, m
<1>3. CASE m = l
  <2>1. Lease(c)' = Lease(c) BY <1>1, <1>2, <1>3
  <2> QED BY <2>1 DEF BreakerStep, CB!vars
<1>4. CASE l = "none" /\ m = "plain"
  <2>1. CB(c)!CallFirst(q) BY <1>1, <1>4 DEF CB!CallFirst
  <2> QED BY <2>1 DEF BreakerStep, CB!Next
<1>5. CASE (l = "plain" /\ m = "none") \/ (l = "trial" /\ m = "lost")
  <2>1. CB(c)!Abandon(q) BY <1>1, <1>5 DEF CB!Abandon
  <2> QED BY <2>1 DEF BreakerStep, CB!Next, CB!Outcome
<1> QED BY <1>3, <1>4, <1>5 DEF Quiet, l, m

\* No step of q touches what another request holds.
LEMMA OthersLease ==
  ASSUME Types, NEW q \in Requests, Step(q), NEW c \in Candidates,
         NEW p \in Requests, p # q
  PROVE  LeaseIn(c, p)' = LeaseIn(c, p) /\ tokens'[p] = tokens[p]
<1>1. at'[p] = at[p] /\ attempt'[p] = attempt[p] /\ chain'[p] = chain[p]
  BY OthersStay DEF Types
<1>2. tokens'[p] = tokens[p]
  BY DEF Types, TokensOK, Step, Probe, LookupFails, StartLoop, CheckDeadline, Admit,
         EnterDeadline, CallFails, CallInvalid, CallReturns, Settle, Guard, EnterPrime,
         PrimeFails, PrimeReturns, StreamEnds, DeadlineFires, Failed, Succeeded
<1> QED BY <1>1, <1>2 DEF LeaseIn, Over, Current

\* Away from the breaker calls a step only begins or abandons attempts.
LEMMA QuietAway ==
  ASSUME Types, NEW q \in Requests, NEW c \in Candidates, Step(q),
         ~Probe(q), ~Failed(q), ~Succeeded(q)
  PROVE  Quiet(LeaseIn(c, q), LeaseIn(c, q)') /\ breaker' = breaker /\ tokens' = tokens
<1>1. UNCHANGED <<breaker, tokens, chain, attempt>>
  BY DEF Step, LookupFails, StartLoop, CheckDeadline, Admit, EnterDeadline, CallFails,
         CallInvalid, CallReturns, Settle, Guard, EnterPrime, PrimeFails, PrimeReturns,
         StreamEnds, DeadlineFires
<1>2. /\ at[q] # "streaming" /\ at[q] # "done" /\ at'[q] # "streaming"
      \/ (at[q] = "streaming" /\ at'[q] = "done")
  BY DEF Step, LookupFails, StartLoop, CheckDeadline, Admit, EnterDeadline, CallFails,
         CallInvalid, CallReturns, Settle, Guard, EnterPrime, PrimeFails, PrimeReturns,
         StreamEnds, DeadlineFires, Types, PlacesOK, Places, Goto, Raise
<1>3. UNCHANGED Current(q) BY <1>1 DEF Current
<1> QED BY <1>1, <1>2, <1>3 DEF LeaseIn, Over, Quiet

\* A probe that grants no trial changes nothing; one that does is the breaker's
\* own Probe.
LEMMA ProbeUses ==
  ASSUME Types, TokensAreTrials, NEW q \in Requests, NEW c \in Candidates, Probe(q)
  PROVE  BreakerStep(c)
<1> DEFINE h == Head(queue[q])
<1>1. h \in Candidates /\ at[q] = "probing" /\ at' = at
  BY DEF Probe, Types, SeqsOK
<1>2. breaker' = [breaker EXCEPT ![h] = AfterAllow(breaker[h], q)]
      /\ tokens' = [tokens EXCEPT ![q] =
                      IF TokenGranted(breaker[h], q) = q THEN @ \cup {h} ELSE @]
  BY DEF Probe
<1>3. q # NoToken BY FailoverConstants
<1>4. \A p \in Requests : p # q => LeaseIn(c, p)' = LeaseIn(c, p)
  BY OthersLease DEF Step
<1> HIDE DEF h
<1>5. CASE c # h \/ ~TrialDue(breaker[h])
  <2>1. breaker'[c] = breaker[c]
    BY <1>1, <1>2, <1>5 DEF AfterAllow, Types, BreakersOK
  <2>2. c \in tokens'[q] <=> c \in tokens[q]
    BY <1>1, <1>2, <1>3, <1>5 DEF TokenGranted, Types, TokensOK
  <2>3. LeaseIn(c, q)' = LeaseIn(c, q)
    BY <1>1, <2>2 DEF LeaseIn, Over
  <2> QED BY <1>4, <2>1, <2>3, QuietStep DEF Quiet
<1>6. CASE c = h /\ TrialDue(breaker[h])
  <2>1. c \notin tokens[q] BY <1>6 DEF TokensAreTrials, TrialDue
  <2>2. c \in tokens'[q]
    BY <1>1, <1>2, <1>6 DEF TokenGranted, Types, TokensOK
  <2>3. LeaseIn(c, q) = "none" /\ LeaseIn(c, q)' = "trial"
    BY <1>1, <2>1, <2>2 DEF LeaseIn, Over
  <2>4. Lease(c)' = [Lease(c) EXCEPT ![q] = "trial"] /\ Lease(c)[q] = "none"
    BY <1>4, <2>3, LeaseMoves
  <2>5. breaker'[c] = AfterAllow(breaker[c], q)
    BY <1>1, <1>2, <1>6 DEF Types, BreakersOK
  <2>6. CB(c)!Probe(q)
    BY <1>6, <2>4, <2>5
    DEF CB!Probe, CB!Allowed, CB!TrialDue, CB!AfterAllow, CB!TokenGranted, TrialDue,
        AfterAllow
  <2> QED BY <2>6 DEF BreakerStep, CB!Next
<1> QED BY <1>5, <1>6

\* What the request holds of the candidate whose outcome it reports.
LEMMA ReportingLease ==
  ASSUME NEW q \in Requests, at[q] \in {"failed", "succeeded"}
  PROVE  LeaseIn(Current(q), q) = IF Current(q) \in tokens[q] THEN "trial" ELSE "plain"
  BY DEF LeaseIn, Over

\* An outcome is reported once, under the token the request was granted.
LEMMA OutcomeUses ==
  ASSUME Types, NEW q \in Requests, WithinChain(q), NEW c \in Candidates,
         Failed(q) \/ Succeeded(q)
  PROVE  BreakerStep(c)
<1> DEFINE k == Current(q)
<1>1. k \in Candidates BY CurrentIsCandidate DEF Types
<1>2. at[q] \in {"failed", "succeeded"}
      /\ at'[q] \in {"check", "done", "streaming"}
  BY DEF Failed, Succeeded, Goto, Types, PlacesOK
<1>3. \A p \in Requests : p # q => LeaseIn(c, p)' = LeaseIn(c, p)
  BY OthersLease DEF Step
<1>4. CASE c # k
  <2>1. breaker'[c] = breaker[c] /\ (c \in tokens'[q] <=> c \in tokens[q])
    BY <1>1, <1>4 DEF Failed, Succeeded, Types, BreakersOK, TokensOK
  <2>2. LeaseIn(c, q) = IF c \in tokens[q] THEN "trial" ELSE "none"
    BY <1>2, <1>4 DEF LeaseIn, Over
  <2>3. LeaseIn(c, q)' \in IF c \in tokens'[q] THEN {"trial", "lost"} ELSE {"none"}
    BY <1>2 DEF LeaseIn, Over
  <2>4. Quiet(LeaseIn(c, q), LeaseIn(c, q)') BY <2>1, <2>2, <2>3 DEF Quiet
  <2> QED BY <1>3, <2>1, <2>4, QuietStep
<1>5. CASE c = k
  <2>1. LeaseIn(c, q) = IF c \in tokens[q] THEN "trial" ELSE "plain"
    BY <1>2, <1>5, ReportingLease
  <2>2. CASE Failed(q) /\ ~Eligible(q)
    <3>1. UNCHANGED <<breaker, tokens>> /\ at'[q] = "done"
      BY <2>2 DEF Failed, Goto, Types, PlacesOK
    <3>2. LeaseIn(c, q)' = IF c \in tokens[q] THEN "lost" ELSE "none"
      BY <3>1 DEF LeaseIn, Over
    <3>3. Quiet(LeaseIn(c, q), LeaseIn(c, q)') BY <2>1, <3>2 DEF Quiet
    <3> QED BY <1>3, <3>1, <3>3, QuietStep
  <2>3. CASE ~(Failed(q) /\ ~Eligible(q))
    <3>1. c \notin tokens'[q]
      BY <1>5, <2>3 DEF Failed, Succeeded, Types, TokensOK
    <3>2. LeaseIn(c, q)' = "none" BY <1>2, <3>1 DEF LeaseIn, Over
    <3>3. Lease(c)' = [Lease(c) EXCEPT ![q] = "none"]
          /\ Lease(c)[q] = IF c \in tokens[q] THEN "trial" ELSE "plain"
      BY <1>3, <2>1, <3>2, LeaseMoves
    <3>4. TokenOf(q) = CB(c)!Token(q)
      BY <1>5, <3>3 DEF TokenOf, CB!Token
    <3>5. CASE Succeeded(q)
      <4>1. breaker'[c] = AfterSuccess(breaker[c], TokenOf(q))
        BY <1>1, <1>5, <3>5 DEF Succeeded, Types, BreakersOK
      <4>2. CB(c)!RecordSuccess(q)
        BY <3>3, <3>4, <4>1
        DEF CB!RecordSuccess, CB!AfterSuccess, AfterSuccess, CB!OwnsTrial, OwnsTrial,
            CB!Fresh, Fresh
      <4> QED BY <4>2 DEF BreakerStep, CB!Next, CB!Outcome
    <3>6. CASE Failed(q) /\ Eligible(q)
      <4>1. breaker'[c] = AfterFailure(breaker[c], TokenOf(q))
        BY <1>1, <1>5, <3>6 DEF Failed, Types, BreakersOK
      <4>2. CB(c)!RecordFailure(q)
        BY <3>3, <3>4, <4>1
        DEF CB!RecordFailure, CB!AfterFailure, AfterFailure, CB!OwnsTrial, OwnsTrial,
            CB!Counted, Counted, CB!Tripped, Tripped
      <4> QED BY <4>2 DEF BreakerStep, CB!Next, CB!Outcome
    <3> QED BY <2>3, <3>5, <3>6
  <2> QED BY <2>2, <2>3
<1> QED BY <1>4, <1>5

\* Only the holder's report ends a trial, and only a due trial is granted.
LEMMA TokensStep ==
  ASSUME Types, TokensAreTrials, NEW q \in Requests, WithinChain(q), Step(q)
  PROVE  TokensAreTrials'
<1> SUFFICES ASSUME NEW p \in Requests, NEW c \in Candidates, c \in tokens'[p]
             PROVE  breaker'[c].status = "half_open" /\ breaker'[c].trial = p
  BY DEF TokensAreTrials
<1>1. c \in tokens[p] => breaker[c].status = "half_open" /\ breaker[c].trial = p
  BY DEF TokensAreTrials
<1>2. p # q => tokens'[p] = tokens[p] BY OthersLease
<1>3. CASE Probe(q)
  <2> DEFINE h == Head(queue[q])
  <2>1. h \in Candidates BY <1>3 DEF Probe, Types, SeqsOK
  <2>2. breaker' = [breaker EXCEPT ![h] = AfterAllow(breaker[h], q)]
        /\ tokens' = [tokens EXCEPT ![q] =
                        IF TokenGranted(breaker[h], q) = q THEN @ \cup {h} ELSE @]
    BY <1>3 DEF Probe
  <2>3. q # NoToken BY FailoverConstants
  <2> HIDE DEF h
  <2>4. CASE c # h \/ ~TrialDue(breaker[h])
    <3>1. breaker'[c] = breaker[c]
      BY <2>1, <2>2, <2>4 DEF AfterAllow, Types, BreakersOK
    <3>2. c \in tokens[p]
      BY <1>2, <2>1, <2>2, <2>3, <2>4 DEF TokenGranted, Types, TokensOK
    <3> QED BY <1>1, <3>1, <3>2
  <2>5. CASE c = h /\ TrialDue(breaker[h])
    <3>1. p = q BY <1>1, <1>2, <2>5 DEF TrialDue
    <3>2. breaker'[c] = [status |-> "half_open", failures |-> breaker[c].failures,
                         cool |-> breaker[c].cool, trial |-> q]
      BY <2>1, <2>2, <2>5 DEF AfterAllow, Types, BreakersOK, BreakerStates
    <3> QED BY <3>1, <3>2
  <2> QED BY <2>4, <2>5
<1>4. CASE Failed(q) \/ Succeeded(q)
  <2> DEFINE k == Current(q)
  <2>1. k \in Candidates BY CurrentIsCandidate DEF Types
  <2>2. c \in tokens[p] BY <1>2, <1>4 DEF Failed, Succeeded, Types, TokensOK
  <2>3. CASE breaker'[c] = breaker[c] BY <1>1, <2>2, <2>3
  <2>4. CASE breaker'[c] # breaker[c]
    <3>1. /\ c = k /\ c \notin tokens'[q]
          /\ \/ breaker'[c] = AfterFailure(breaker[c], TokenOf(q))
             \/ breaker'[c] = AfterSuccess(breaker[c], TokenOf(q))
      BY <1>4, <2>1, <2>4 DEF Failed, Succeeded, Types, BreakersOK, TokensOK
    <3>2. p # q /\ breaker[c].trial # q
      BY <1>1, <2>2, <3>1
    <3>3. ~OwnsTrial(breaker[c], TokenOf(q))
      BY <3>1, <3>2 DEF OwnsTrial, TokenOf
    <3>4. breaker'[c] = breaker[c]
      BY <1>1, <2>2, <3>1, <3>3 DEF AfterFailure, AfterSuccess
    <3> QED BY <2>4, <3>4
  <2> QED BY <2>3, <2>4
<1>5. CASE ~(Probe(q) \/ Failed(q) \/ Succeeded(q))
  <2>1. breaker' = breaker /\ tokens' = tokens BY <1>5, QuietAway
  <2> QED BY <1>1, <2>1
<1> QED BY <1>3, <1>4, <1>5

\* The clock leaves the trials alone.
LEMMA TickUses ==
  ASSUME Types, TokensAreTrials, Tick
  PROVE  TokensAreTrials' /\ \A c \in Candidates : BreakerStep(c)
<1>1. \A c \in Candidates : breaker'[c] = Aged(breaker[c]) BY DEF Tick
<1>2. tokens' = tokens BY DEF Tick
<1>3. \A c \in Candidates : /\ Aged(breaker[c]).status = breaker[c].status
                            /\ Aged(breaker[c]).trial = breaker[c].trial
  BY DEF Types, BreakersOK, BreakerStates, Aged
<1>4. TokensAreTrials' BY <1>1, <1>2, <1>3 DEF TokensAreTrials
<1>5. ASSUME NEW c \in Candidates PROVE BreakerStep(c)
  <2>1. Lease(c)' = Lease(c)
    BY DEF Tick, Lease, Over, Current
  <2>2. breaker[c] \in BreakerStates(Requests) BY DEF Types, BreakersOK
  <2>3. CASE breaker[c].cool > 0
    <3>1. CB(c)!Tick BY <1>1, <2>1, <2>3 DEF CB!Tick, CB!Aged, Aged
    <3> QED BY <3>1 DEF BreakerStep, CB!Next
  <2>4. CASE breaker[c].cool = 0
    <3>1. breaker'[c] = breaker[c] BY <1>1, <2>2, <2>4 DEF Aged, BreakerStates
    <3> QED BY <2>1, <3>1 DEF BreakerStep, CB!vars
  <2> QED BY <2>2, <2>3, <2>4 DEF BreakerStates
<1> QED BY <1>4, <1>5

\* Every step is a step of every candidate's breaker, or leaves it alone.
LEMMA NextUses ==
  ASSUME Inv, TokensAreTrials, Next
  PROVE  TokensAreTrials' /\ \A c \in Candidates : BreakerStep(c)
<1>1. Types BY DEF Inv
<1>2. ASSUME NEW q \in Requests, Step(q)
      PROVE  TokensAreTrials' /\ \A c \in Candidates : BreakerStep(c)
  <2>1. WithinChain(q) BY DEF Inv, Local
  <2>2. TokensAreTrials' BY <1>1, <1>2, <2>1, TokensStep
  <2>3. ASSUME NEW c \in Candidates PROVE BreakerStep(c)
    <3>1. CASE Probe(q) BY <1>1, <3>1, ProbeUses
    <3>2. CASE Failed(q) \/ Succeeded(q) BY <1>1, <2>1, <3>2, OutcomeUses
    <3>3. CASE ~(Probe(q) \/ Failed(q) \/ Succeeded(q))
      <4>1. Quiet(LeaseIn(c, q), LeaseIn(c, q)') /\ breaker' = breaker
        BY <1>1, <1>2, <3>3, QuietAway
      <4>2. \A p \in Requests : p # q => LeaseIn(c, p)' = LeaseIn(c, p)
        BY <1>1, <1>2, OthersLease
      <4> QED BY <4>1, <4>2, QuietStep
    <3> QED BY <3>1, <3>2, <3>3
  <2> QED BY <2>2, <2>3
<1>3. CASE Tick BY <1>1, <1>3, TickUses
<1> QED BY <1>2, <1>3 DEF Next

\* At the start nobody holds a lease of any breaker.
LEMMA InitUses == Init => TokensAreTrials /\ \A c \in Candidates : CB(c)!Init
<1> SUFFICES ASSUME Init PROVE TokensAreTrials /\ \A c \in Candidates : CB(c)!Init
  OBVIOUS
<1>1. TokensAreTrials BY DEF Init, TokensAreTrials
<1>2. ASSUME NEW c \in Candidates PROVE CB(c)!Init
  BY DEF Init, CB!Init, Lease, Over, CB!Fresh, Fresh
<1> QED BY <1>1, <1>2

\* A token in hand is always the token of the trial its breaker waits for.
THEOREM TokensAreTrialsHolds == Spec => [](Inv /\ TokensAreTrials)
<1>1. Init => Inv /\ TokensAreTrials BY InitInv, InitUses
<1>2. (Inv /\ TokensAreTrials) /\ [Next]_vars => (Inv /\ TokensAreTrials)'
  <2> SUFFICES ASSUME Inv, TokensAreTrials, [Next]_vars
               PROVE  TokensAreTrials'
    BY NextInv
  <2>1. CASE Next BY <2>1, NextUses
  <2>2. CASE UNCHANGED vars BY <2>2 DEF vars, TokensAreTrials
  <2> QED BY <2>1, <2>2
<1> QED BY <1>1, <1>2, PTL DEF Spec

\* The failover loops implement the clients of CircuitBreaker, for the breaker
\* of every candidate at once: the initial states map to initial states and
\* every step to a step or a stutter, so what is proved of CircuitBreaker (one
\* trial at a time, decided by its holder only) holds of every breaker the
\* loops share.
THEOREM UsesBreakersHolds == Spec => UsesBreakers
<1>1. Init => \A c \in Candidates : CB(c)!Init BY InitUses
<1>2. (Inv /\ TokensAreTrials) /\ [Next]_vars
        => [\A c \in Candidates : CB(c)!Next \/ UNCHANGED CB(c)!vars]_vars
  BY NextUses DEF BreakerStep
<1> QED BY <1>1, <1>2, TokensAreTrialsHolds, PTL DEF Spec, UsesBreakers

=============================================================================
