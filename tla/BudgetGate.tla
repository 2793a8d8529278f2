------------------------------ MODULE BudgetGate ------------------------------
(***************************************************************************)
(* The pre-call spend gate: UsageMeter.admit reserves a request's          *)
(* pessimistic cost against the cap of its API key and then of its team,   *)
(* the call runs, and settlement bills the real cost and gives the         *)
(* reservations back.  Requests run concurrently on every replica; the     *)
(* reservation store is shared and decides atomically, but the committed   *)
(* spend it compares with was read from the database earlier.              *)
(*                                                                         *)
(* A reservation carries the time left to its TTL; 0 means that it is      *)
(* absent or expired, which the store's sweep does not tell apart.         *)
(***************************************************************************)
EXTENDS Integers, Sequences, FiniteSets, FiniteSetsExt

CONSTANTS
    Requests,        \* requests, on any replica
    Streams,         \* the ones that stream their answer
    Keys,            \* API keys
    CappedKeys,      \* keys with a budget in `block` mode
    KeyOf,           \* the key a request authenticates with
    Team,            \* the (capped) team they all bill to
    Limit,           \* limit_cost of every capped scope
    Amount,          \* _reservation_cost of each request
    Costs,           \* the possible real costs of a call
    TTL              \* reservation_ttl_s

Scopes == CappedKeys \cup {Team}

ASSUME GateConstants ==
    /\ IsFiniteSet(Requests)
    /\ Streams \subseteq Requests
    /\ CappedKeys \subseteq Keys
    /\ Team \notin Keys
    /\ KeyOf \in [Requests -> Keys]
    /\ Limit \in [Scopes -> Nat]
    /\ Amount \in [Requests -> Nat]
    /\ Costs \subseteq Nat /\ 0 \in Costs
    /\ TTL \in Nat \ {0}

VARIABLES
    at,              \* where each request is
    spent,           \* the committed spend its gate read
    todo,            \* what its handler still has to do, in order
    held,            \* scopes of the claims in its Admission, in order
    cost,            \* the real cost to bill
    claim,           \* the store: time left of each reservation, per scope
    committed,       \* spend_since / key_spend_since of each scope
    billed,          \* requests whose cost is committed
    leaked,          \* history: claims no handler will release any more
    open             \* history: <<window, scope>>, windows seen on a scope

vars == <<at, spent, todo, held, cost, claim, committed, billed, leaked, open>>

\* How the cap can be passed by more than one request: an admission on an
\* out-of-date spend, a TTL that ran out on a call, a stream that releases
\* before it bills, a cost above the reservation.
Windows == {"stale", "expired", "unbilled", "underestimated"}

ScopesOf(q) == {KeyOf[q], Team} \cap Scopes

-----------------------------------------------------------------------------
(* The reservation store.                                                  *)

Live(s) == {q \in Requests : claim[s][q] > 0}

\* What the requests of S reserve together: the sum of their amounts, taken
\* as the number of units <<q, 1>> .. <<q, Amount[q]>> they reserve.
Units(S) == UNION {{q} \X (1 .. Amount[q]) : q \in S}

Total(S) == Cardinality(Units(S))

\* _live_total: the unexpired reservations of a scope.
LiveTotal(s) == Total(Live(s))

\* Mutant: off by one at the limit.
Admits_AtLimit(q, s) == spent[q] + LiveTotal(s) <= Limit[s]

\* try_reserve admits: one atomic read-decide-write.
Admits(q, s) == spent[q] + LiveTotal(s) < Limit[s]

Reserved(q, s) == [claim EXCEPT ![s][q] = TTL]

\* release: HDEL by id, a no-op the second time.
Released(q, s) == [claim EXCEPT ![s][q] = 0]

\* History: the admission was decided on a spend that is out of date.
OpenIfStale(q, s) ==
    IF spent[q] # committed[s] THEN open \cup {<<"stale", s>>} ELSE open

-----------------------------------------------------------------------------
Init ==
    /\ at = [q \in Requests |-> "new"]
    /\ spent = [q \in Requests |-> 0]
    /\ todo = [q \in Requests |-> <<>>]
    /\ held = [q \in Requests |-> <<>>]
    /\ cost = [q \in Requests |-> 0]
    /\ claim = [s \in Scopes |-> [q \in Requests |-> 0]]
    /\ committed = [s \in Scopes |-> 0]
    /\ billed = {}
    /\ leaked = {}
    /\ open = {}

-----------------------------------------------------------------------------
(* UsageMeter.admit: the key gate, then the team gate.                     *)

\* The handler has `tasks` left; without any it is over.
Proceed(q, tasks) ==
    /\ todo' = [todo EXCEPT ![q] = tasks]
    /\ at' = [at EXCEPT ![q] = IF tasks = <<>> THEN "over" ELSE "finishing"]

\* Mutant: the key's claim is forgotten when the team refuses.
Refuse_KeepsKeyClaim(q) == Proceed(q, <<>>)

\* What admit does when the team gate raises: give the key's claim back.
Refuse(q) == Proceed(q, IF held[q] = <<>> THEN <<>> ELSE <<"release">>)

\* _admit_key reads the key's committed spend; a key without a cap in block
\* mode goes straight to the team gate.
ReadKeySpend(q) ==
    /\ at[q] = "new"
    /\ IF KeyOf[q] \in CappedKeys
         THEN /\ at' = [at EXCEPT ![q] = "key_gate"]
              /\ spent' = [spent EXCEPT ![q] = committed[KeyOf[q]]]
         ELSE /\ at' = [at EXCEPT ![q] = "team_spend"]
              /\ UNCHANGED spent
    /\ UNCHANGED <<todo, held, cost, claim, committed, billed, leaked, open>>

\* _admit_key's try_reserve: a refusal raises BudgetExceeded.
ReserveKey(q) ==
    LET s == KeyOf[q] IN
    /\ at[q] = "key_gate"
    /\ IF Admits(q, s)
         THEN /\ claim' = Reserved(q, s)
              /\ held' = [held EXCEPT ![q] = <<s>>]
              /\ at' = [at EXCEPT ![q] = "team_spend"]
              /\ open' = OpenIfStale(q, s)
         ELSE /\ at' = [at EXCEPT ![q] = "over"]
              /\ UNCHANGED <<claim, held, open>>
    /\ spent' = [spent EXCEPT ![q] = 0]
    /\ UNCHANGED <<todo, cost, committed, billed, leaked>>

ReadTeamSpend(q) ==
    /\ at[q] = "team_spend"
    /\ at' = [at EXCEPT ![q] = "team_gate"]
    /\ spent' = [spent EXCEPT ![q] = committed[Team]]
    /\ UNCHANGED <<todo, held, cost, claim, committed, billed, leaked, open>>

\* _admit_team's try_reserve.
ReserveTeam(q) ==
    /\ at[q] = "team_gate"
    /\ IF Admits(q, Team)
         THEN /\ claim' = Reserved(q, Team)
              /\ held' = [held EXCEPT ![q] = Append(@, Team)]
              /\ at' = [at EXCEPT ![q] = "calling"]
              /\ open' = OpenIfStale(q, Team)
              /\ UNCHANGED todo
         ELSE /\ Refuse(q)
              /\ UNCHANGED <<claim, held, open>>
    /\ spent' = [spent EXCEPT ![q] = 0]
    /\ UNCHANGED <<cost, committed, billed, leaked>>

\* The gate raises: a database error, or the store's reply is lost after the
\* script ran, which leaves a claim whose id nobody knows.
GateFails(q) ==
    /\ \/ /\ at[q] \in {"new", "key_gate"}
          /\ at' = [at EXCEPT ![q] = "over"]
          /\ UNCHANGED todo
       \/ at[q] \in {"team_spend", "team_gate"} /\ Refuse(q)
    /\ LET s == IF at[q] = "key_gate" THEN KeyOf[q] ELSE Team
       IN  \/ /\ at[q] \in {"key_gate", "team_gate"} /\ Admits(q, s)
              /\ claim' = Reserved(q, s)
              /\ leaked' = leaked \cup {<<q, s>>}
              /\ open' = OpenIfStale(q, s)
           \/ UNCHANGED <<claim, leaked, open>>
    /\ spent' = [spent EXCEPT ![q] = 0]
    /\ UNCHANGED <<held, cost, committed, billed>>

-----------------------------------------------------------------------------
(* The call, its settlement and the release of its claims.                 *)

\* The provider answered (or answered unusably, which is billed as well): a
\* plain call settles and then releases, a stream releases first.
CallEnds(q) ==
    /\ at[q] = "calling"
    /\ \E c \in Costs : cost' = [cost EXCEPT ![q] = c]
    /\ Proceed(q, IF q \in Streams THEN <<"release", "bill">>
                                   ELSE <<"bill", "release">>)
    /\ UNCHANGED <<spent, held, claim, committed, billed, leaked, open>>

\* A response-cache hit: settled at cost zero, before the `try ... finally`
\* that releases on every other path.
CacheHit(q) ==
    /\ at[q] = "calling" /\ q \notin Streams
    /\ Proceed(q, <<"bill_hit", "release">>)
    /\ UNCHANGED <<spent, held, cost, claim, committed, billed, leaked, open>>

\* The provider failed, the client cancelled the call, or a stream nobody
\* iterated was collected: nothing is billed.
CallFails(q) ==
    /\ at[q] = "calling"
    /\ Proceed(q, <<"release">>)
    /\ UNCHANGED <<spent, held, cost, claim, committed, billed, leaked, open>>

Finishing(q, task) == todo[q] # <<>> /\ Head(todo[q]) = task

\* The billing record commits.
Bill(q) ==
    /\ Finishing(q, "bill") \/ Finishing(q, "bill_hit")
    /\ committed' = [s \in Scopes |->
                        committed[s] + IF s \in ScopesOf(q) THEN cost[q] ELSE 0]
    /\ billed' = billed \cup {q}
    /\ Proceed(q, Tail(todo[q]))
    /\ cost' = [cost EXCEPT ![q] = 0]
    /\ open' = IF cost[q] > Amount[q]
                  THEN open \cup ({"underestimated"} \X ScopesOf(q)) ELSE open
    /\ UNCHANGED <<spent, held, claim, leaked>>

\* Claims left to their TTL.
Leak(q, scopes) == leaked \cup {<<q, s>> : s \in {x \in scopes : claim[x][q] > 0}}

HeldScopes(q) == {held[q][i] : i \in DOMAIN held[q]}

\* The spend is dropped: record and outbox failed, the settlement timed out,
\* or the settlement was cancelled.  On a cache hit a cancellation skips the
\* release as well.
BillLost(q) ==
    /\ \/ /\ Finishing(q, "bill")
          /\ Proceed(q, Tail(todo[q]))
          /\ UNCHANGED <<held, leaked>>
       \/ /\ Finishing(q, "bill_hit")
          /\ Proceed(q, <<>>)
          /\ held' = [held EXCEPT ![q] = <<>>]
          /\ leaked' = Leak(q, HeldScopes(q))
    /\ cost' = [cost EXCEPT ![q] = 0]
    /\ UNCHANGED <<spent, claim, committed, billed, open>>

\* UsageMeter.release, one claim after the other: every claim is attempted; a
\* store error is logged and the claim is left to its TTL.  Releasing with the
\* billing still to do opens a window.
Release(q) ==
    /\ Finishing(q, "release")
    /\ LET s == Head(held[q])
       IN  /\ \/ claim' = Released(q, s) /\ UNCHANGED leaked
              \/ leaked' = Leak(q, {s}) /\ UNCHANGED claim
           /\ open' = IF Len(todo[q]) > 1 THEN open \cup {<<"unbilled", s>>}
                                          ELSE open
    /\ held' = [held EXCEPT ![q] = Tail(@)]
    /\ Proceed(q, IF Len(held[q]) = 1 THEN Tail(todo[q]) ELSE todo[q])
    /\ UNCHANGED <<spent, cost, committed, billed>>

\* The replica dies with the request: its claims stay in the store.
Crash(q) ==
    /\ at[q] # "over"
    /\ at' = [at EXCEPT ![q] = "over"]
    /\ todo' = [todo EXCEPT ![q] = <<>>]
    /\ held' = [held EXCEPT ![q] = <<>>]
    /\ spent' = [spent EXCEPT ![q] = 0]
    /\ cost' = [cost EXCEPT ![q] = 0]
    /\ leaked' = Leak(q, HeldScopes(q))
    /\ UNCHANGED <<claim, committed, billed, open>>

-----------------------------------------------------------------------------
\* Mutant: reservations do not expire.
Minus1_NoExpiry(n) == n

\* A claim's time left after one more unit of time.
Minus1(n) == IF n > 0 THEN n - 1 ELSE 0

\* Time passes.  A claim that expires while its request is still unbilled
\* opens a window.
Tick ==
    /\ \E s \in Scopes : Live(s) # {}
    /\ claim' = [s \in Scopes |-> [q \in Requests |-> Minus1(claim[s][q])]]
    /\ leaked' = {p \in leaked : claim[p[2]][p[1]] > 1}
    /\ open' = open \cup {<<"expired", s>> : s \in {x \in Scopes :
                \E q \in Requests : /\ claim[x][q] = 1
                                    /\ at[q] # "over" /\ q \notin billed}}
    /\ UNCHANGED <<at, spent, todo, held, cost, committed, billed>>

Step(q) ==
    \/ ReadKeySpend(q) \/ ReserveKey(q) \/ ReadTeamSpend(q) \/ ReserveTeam(q)
    \/ GateFails(q) \/ CallEnds(q) \/ CacheHit(q) \/ CallFails(q)
    \/ Bill(q) \/ BillLost(q) \/ Release(q) \/ Crash(q)

Next == Tick \/ \E q \in Requests : Step(q)

Spec == Init /\ [][Next]_vars

\* Time passes; nothing is assumed of the requests' handlers.
Fairness == WF_vars(Tick)

FairSpec == Spec /\ Fairness

-----------------------------------------------------------------------------
(* Properties.                                                             *)

TypeOK ==
    /\ at \in [Requests -> {"new", "key_gate", "team_spend", "team_gate",
                            "calling", "finishing", "over"}]
    /\ spent \in [Requests -> Nat]
    /\ todo \in [Requests -> Seq({"bill", "bill_hit", "release"})]
    /\ held \in [Requests -> Seq(Scopes)]
    /\ cost \in [Requests -> Costs]
    /\ claim \in [Scopes -> [Requests -> 0..TTL]]
    /\ committed \in [Scopes -> Nat]
    /\ billed \subseteq Requests
    /\ leaked \subseteq Requests \X Scopes
    /\ open \subseteq Windows \X Scopes

MaxAmount == Max({Amount[q] : q \in Requests})

\* What is reserved at any time, fleet-wide, stays below the limit plus one
\* request: the store decides and records in one step, however many requests
\* pass the gate at once and however old the spend they read is.
ReservedBounded ==
    \A s \in Scopes : LiveTotal(s) = 0 \/ LiveTotal(s) < Limit[s] + MaxAmount

\* Headroom is not lost: once a request is over, by whatever path (refused at
\* the team gate after the key gate let it in, failed, settled, streamed), the
\* store holds a claim of it only if releasing that claim failed, its reply
\* was lost, or its handler was killed.
NothingHeldWhenOver ==
    \A q \in Requests : at[q] = "over" =>
        \A s \in Scopes : claim[s][q] > 0 => <<q, s>> \in leaked

\* An admitted plain call stays covered by a reservation in every capped scope
\* until its cost is committed (or lost), unless the TTL ran out on the call.
CoveredUntilBilled ==
    \A q \in Requests \ Streams : \A s \in ScopesOf(q) :
        /\ at[q] = "calling" \/ Finishing(q, "bill")
        /\ <<"expired", s>> \notin open
        => claim[s][q] > 0

\* Spend committed, plus what is reserved for calls not billed yet.
Exposure(s) == committed[s] + Total(Live(s) \ billed)

Bounded(s) == Exposure(s) = 0 \/ Exposure(s) < Limit[s] + MaxAmount

\* The cap: unless one of the four windows was open on a scope, its spend and
\* outstanding reservations never pass the limit by a whole request.
CapHolds ==
    \A s \in Scopes : (\A w \in Windows : <<w, s>> \notin open) => Bounded(s)

\* A crashed, leaked or forgotten claim does not hold headroom for ever:
\* whatever became of the requests, in the end nothing is reserved.
HeadroomRecovers == <>[](\A s \in Scopes : Live(s) = {})

\* The reservation store keeps its promises to every request at once: bounded in
\* sum, held from admission to billing, and given back on every way out
\* (usage_meter.py 409-560, budget_reservation.py).
ClaimsCover == TypeOK /\ ReservedBounded /\ NothingHeldWhenOver /\ CoveredUntilBilled
=============================================================================
