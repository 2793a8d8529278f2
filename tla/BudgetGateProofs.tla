--------------------------- MODULE BudgetGateProofs ---------------------------
(***************************************************************************)
(* Proofs about the spend gate, for any number of requests, keys and caps, *)
(* any reservation amounts, costs and TTL: claims stay bounded in sum,     *)
(* cover their call until it is billed and are given back on every way     *)
(* out, and the cap holds outside the four named windows.                  *)
(***************************************************************************)
EXTENDS BudgetGate, FiniteSetTheorems, WellFoundedInduction, TLAPS

-----------------------------------------------------------------------------
(* Totals: the sum of the amounts of a set of requests.                    *)

\* The units of one request are as many as its amount.
LEMMA UnitsOfOne ==
  ASSUME NEW q \in Requests
  PROVE  /\ IsFiniteSet({q} \X (1..Amount[q]))
         /\ Cardinality({q} \X (1..Amount[q])) = Amount[q]
<1>1. Amount[q] \in Nat BY GateConstants
<1>2. IsFiniteSet({q}) /\ Cardinality({q}) = 1 BY FS_Singleton, Zenon
<1>3. IsFiniteSet(1..Amount[q]) /\ Cardinality(1..Amount[q]) = Amount[q]
  BY <1>1, FS_Interval
<1>4. /\ IsFiniteSet({q} \X (1..Amount[q]))
      /\ Cardinality({q} \X (1..Amount[q])) = Cardinality({q}) * Cardinality(1..Amount[q])
  BY <1>2, <1>3, FS_Product
<1> QED BY <1>1, <1>2, <1>3, <1>4

\* Finitely many requests reserve finitely many units.
LEMMA UnitsFinite ==
  ASSUME NEW S \in SUBSET Requests
  PROVE  IsFiniteSet(Units(S)) /\ Total(S) \in Nat
<1> DEFINE f == [q \in S |-> {q} \X (1..Amount[q])]
           T == {{q} \X (1..Amount[q]) : q \in S}
<1>1. IsFiniteSet(S) BY GateConstants, FS_Subset
<1>2. f \in Surjection(S, T) BY DEF Surjection
<1>3. IsFiniteSet(T)
  <2> HIDE DEF f, T
  <2> QED BY <1>1, <1>2, FS_Surjection
<1>4. \A U \in T : IsFiniteSet(U) BY UnitsOfOne
<1>5. IsFiniteSet(UNION T)
  <2> HIDE DEF T
  <2> QED BY <1>3, <1>4, FS_UNION
<1>6. IsFiniteSet(Units(S)) BY <1>5 DEF Units
<1> QED BY <1>6, FS_CardinalityType DEF Total

\* Fewer requests reserve no more.
LEMMA TotalGrows ==
  ASSUME NEW S \in SUBSET Requests, NEW T \in SUBSET S
  PROVE  Total(T) <= Total(S)
<1>1. Units(T) \subseteq Units(S) BY DEF Units
<1> QED BY <1>1, UnitsFinite, FS_Subset DEF Total

\* A request of the set counts with its amount.
LEMMA TotalSplits ==
  ASSUME NEW S \in SUBSET Requests, NEW q \in S
  PROVE  Total(S) = Total(S \ {q}) + Amount[q]
<1> DEFINE A == Units(S \ {q})
           B == {q} \X (1..Amount[q])
<1>1. Units(S) = A \cup B BY DEF Units
<1>2. A \cap B = {} BY DEF Units
<1>3. IsFiniteSet(A) /\ Cardinality(A) \in Nat BY UnitsFinite DEF Total
<1>4. IsFiniteSet(B) /\ Cardinality(B) = Amount[q] /\ Amount[q] \in Nat
  BY UnitsOfOne, GateConstants
<1> HIDE DEF A, B
<1>5. Cardinality(A \cup B) = Cardinality(A) + Cardinality(B) - Cardinality(A \cap B)
  BY <1>3, <1>4, FS_Union
<1>6. Cardinality(A \cap B) = 0 BY <1>2, FS_EmptySet
<1>7. Total(S) = Cardinality(A) + Amount[q] BY <1>1, <1>3, <1>4, <1>5, <1>6 DEF Total
<1> QED BY <1>7 DEF A, Total

\* One more request adds its amount at most.
LEMMA TotalAdds ==
  ASSUME NEW S \in SUBSET Requests, NEW q \in Requests
  PROVE  Total(S \cup {q}) <= Total(S) + Amount[q]
<1>1. S \cup {q} \in SUBSET Requests /\ q \in S \cup {q} OBVIOUS
<1>2. Total(S \cup {q}) = Total((S \cup {q}) \ {q}) + Amount[q] BY <1>1, TotalSplits
<1>3. (S \cup {q}) \ {q} \in SUBSET S OBVIOUS
<1>4. Total((S \cup {q}) \ {q}) <= Total(S) BY <1>3, TotalGrows
<1>5. /\ Total((S \cup {q}) \ {q}) \in Nat /\ Total(S) \in Nat /\ Amount[q] \in Nat
      /\ Total(S \cup {q}) \in Nat
  BY <1>1, <1>3, UnitsFinite, GateConstants
<1> QED BY <1>2, <1>4, <1>5

\* A finite set of naturals has an upper bound: of the subsets without one a
\* smallest would have to be empty.
LEMMA FiniteIsBounded ==
  ASSUME NEW S \in SUBSET Nat, IsFiniteSet(S)
  PROVE  \E n \in Nat : \A x \in S : x <= n
<1> DEFINE Bad == {T \in FiniteSubsetsOf(S) : ~ \E n \in Nat : \A x \in T : x <= n}
<1> SUFFICES ASSUME ~ \E n \in Nat : \A x \in S : x <= n PROVE FALSE
  OBVIOUS
<1>1. Bad \subseteq FiniteSubsetsOf(S) /\ S \in Bad BY DEF FiniteSubsetsOf
<1>2. PICK T \in Bad : \A U \in Bad : ~(<<U, T>> \in StrictSubsetOrdering(S))
  <2> HIDE DEF Bad
  <2> QED BY <1>1, FS_StrictSubsetOrderingWellFounded, WFMin
<1>3. T \subseteq S /\ IsFiniteSet(T) /\ ~ \E n \in Nat : \A x \in T : x <= n
  BY <1>2 DEF FiniteSubsetsOf
<1>4. PICK x \in T : TRUE BY <1>3
<1>5. x \in Nat BY <1>3, <1>4
<1>6. T \ {x} \in FiniteSubsetsOf(S)
  BY <1>3, FS_RemoveElement DEF FiniteSubsetsOf
<1>7. <<T \ {x}, T>> \in StrictSubsetOrdering(S)
  BY <1>3, <1>4 DEF StrictSubsetOrdering
<1>8. T \ {x} \notin Bad BY <1>2, <1>7
<1>9. PICK n \in Nat : \A y \in T \ {x} : y <= n BY <1>6, <1>8
<1> DEFINE m == IF n < x THEN x ELSE n
<1>10. m \in Nat /\ \A y \in T : y \in Nat /\ y <= m BY <1>3, <1>5, <1>9
<1> QED BY <1>3, <1>10

\* MaxAmount is an upper bound of the reservations.
LEMMA MaxAmountBounds ==
  ASSUME NEW q \in Requests
  PROVE  MaxAmount \in Nat /\ Amount[q] \in Nat /\ Amount[q] <= MaxAmount
<1> DEFINE T == {Amount[p] : p \in Requests}
           f == [p \in Requests |-> Amount[p]]
<1>1. T \in SUBSET Nat /\ Amount[q] \in T BY GateConstants
<1>2. f \in Surjection(Requests, T) BY DEF Surjection
<1>3. IsFiniteSet(T)
  <2> HIDE DEF f, T
  <2> QED BY <1>2, GateConstants, FS_Surjection
<1> HIDE DEF T, f
<1>4. PICK n \in Nat : \A x \in T : x <= n BY <1>1, <1>3, FiniteIsBounded
<1> DEFINE R == {n - x : x \in T}
<1>5. R \subseteq Nat /\ R # {}
  <2>1. \A x \in T : n - x \in Nat BY <1>1, <1>4
  <2>2. R \subseteq Nat BY <2>1
  <2>3. n - Amount[q] \in R BY <1>1
  <2> QED BY <2>2, <2>3
<1>6. PICK m \in R : \A z \in R : ~(<<z, m>> \in OpToRel(<, Nat))
  <2> HIDE DEF R
  <2> QED BY <1>5, WFMin, NatLessThanWellFounded
<1>7. PICK y \in T : m = n - y BY <1>6
<1>8. ASSUME NEW x \in T PROVE y >= x
  <2>1. n - x \in R /\ n - x \in Nat /\ m \in Nat BY <1>5, <1>6
  <2>2. ~(n - x < m) BY <1>6, <2>1 DEF OpToRel
  <2> QED BY <1>1, <1>7, <2>1, <2>2
<1>9. Max(T) \in T /\ \A x \in T : Max(T) >= x
  <2>1. \E z \in T : \A x \in T : z >= x BY <1>8
  <2> QED BY <2>1 DEF Max
<1>10. MaxAmount = Max(T) BY DEF MaxAmount, T
<1> QED BY <1>1, <1>9, <1>10

-----------------------------------------------------------------------------
(* The invariant.                                                          *)

\* What the Admission holds after the key gate, and after both gates.
KeyHeld(q) == IF KeyOf[q] \in CappedKeys THEN <<KeyOf[q]>> ELSE <<>>

FullHeld(q) == IF KeyOf[q] \in CappedKeys THEN <<KeyOf[q], Team>> ELSE <<Team>>

\* Where a handler may be: its place a, tasks t, claims h and cost c belong
\* together, and while it has to bill, its request is not among the billed B.
Stage(q, a, t, h, c, B) ==
    \/ /\ a \in {"new", "key_gate"} /\ t = <<>> /\ h = <<>> /\ c = 0 /\ q \notin B
       /\ a = "key_gate" => KeyOf[q] \in CappedKeys
    \/ /\ a \in {"team_spend", "team_gate"} /\ t = <<>> /\ h = KeyHeld(q)
       /\ c = 0 /\ q \notin B
    \/ a = "calling" /\ t = <<>> /\ h = FullHeld(q) /\ c = 0 /\ q \notin B
    \/ /\ a = "finishing" /\ t = <<"bill", "release">> /\ h = FullHeld(q)
       /\ q \notin Streams /\ q \notin B
    \/ /\ a = "finishing" /\ t = <<"bill_hit", "release">> /\ h = FullHeld(q)
       /\ c = 0 /\ q \notin B
    \/ /\ a = "finishing" /\ t = <<"release", "bill">> /\ h \in {FullHeld(q), <<Team>>}
       /\ q \in Streams /\ q \notin B
    \/ a = "finishing" /\ t = <<"bill">> /\ h = <<>> /\ q \in Streams /\ q \notin B
    \/ /\ a = "finishing" /\ t = <<"release">> /\ h # <<>>
       /\ h \in {FullHeld(q), <<Team>>, KeyHeld(q)} /\ c = 0
    \/ a = "over" /\ t = <<>> /\ h = <<>> /\ c = 0

Stages == \A q \in Requests : Stage(q, at[q], todo[q], held[q], cost[q], billed)

\* A claim in the store is in an Admission or known to be leaked.
ClaimsKnown ==
    \A q \in Requests, s \in Scopes :
        claim[s][q] > 0 => <<q, s>> \in leaked \/ s \in HeldScopes(q)

\* What an Admission holds is in the store until its request is billed,
\* unless the TTL ran out on it.
HeldIsClaimed ==
    \A q \in Requests : \A s \in HeldScopes(q) :
        claim[s][q] > 0 \/ <<"expired", s>> \in open \/ q \in billed

\* A stream that has yet to bill holds its claims or has opened a window.
StreamsBillLater ==
    \A q \in Requests : todo[q] \in {<<"release", "bill">>, <<"bill">>} =>
        \A s \in ScopesOf(q) : s \in HeldScopes(q) \/ <<"unbilled", s>> \in open

Handlers ==
    /\ at = [q \in Requests |-> at[q]]
    /\ todo = [q \in Requests |-> todo[q]]
    /\ held = [q \in Requests |-> held[q]]
    /\ spent \in [Requests -> Nat]
    /\ cost \in [Requests -> Costs]
    /\ billed \subseteq Requests

Store ==
    /\ claim \in [Scopes -> [Requests -> 0..TTL]]
    /\ committed \in [Scopes -> Nat]
    /\ leaked \subseteq Requests \X Scopes
    /\ open \subseteq Windows \X Scopes

Inv ==
    /\ Handlers /\ Store /\ Stages /\ ClaimsKnown /\ HeldIsClaimed /\ StreamsBillLater
    /\ ReservedBounded /\ CapHolds

-----------------------------------------------------------------------------
(* Lists of at most two tasks or claims.                                   *)

ScopesIn(h) == {h[i] : i \in DOMAIN h}

\* A list of two.
LEMMA Pairs ==
  ASSUME NEW a, NEW b
  PROVE  /\ <<a, b>> # <<>> /\ Len(<<a, b>>) = 2
         /\ Head(<<a, b>>) = a /\ Tail(<<a, b>>) = <<b>>
         /\ ScopesIn(<<a, b>>) = {a, b}
  BY DEF ScopesIn

\* A list of one.
LEMMA Singles ==
  ASSUME NEW a
  PROVE  /\ <<a>> # <<>> /\ Len(<<a>>) = 1
         /\ Head(<<a>>) = a /\ Tail(<<a>>) = <<>>
         /\ ScopesIn(<<a>>) = {a}
         /\ Append(<<>>, a) = <<a>>
<1>1. <<a>> # <<>> /\ Len(<<a>>) = 1 /\ Head(<<a>>) = a OBVIOUS
<1>2. Tail(<<a>>) = <<>> OBVIOUS
<1>3. ScopesIn(<<a>>) = {a} BY DEF ScopesIn
<1>4. Append(<<>>, a) = <<a>> OBVIOUS
<1> QED BY <1>1, <1>2, <1>3, <1>4

\* The team's claim after the key's.
LEMMA OneMore == ASSUME NEW a, NEW b PROVE Append(<<a>>, b) = <<a, b>>
<1> DEFINE s == Append(<<a>>, b)
<1>1. <<a>> \in Seq({a, b}) /\ Len(<<a>>) = 1 OBVIOUS
<1>2. s \in Seq({a, b}) /\ Len(s) = 2 /\ s[1] = a /\ s[2] = b BY <1>1
<1>3. <<a, b>> \in Seq({a, b}) /\ Len(<<a, b>>) = 2 OBVIOUS
<1> HIDE DEF s
<1>4. s = <<a, b>> BY <1>2, <1>3
<1> QED BY <1>4 DEF s

\* The empty list.
LEMMA NoScopes == ScopesIn(<<>>) = {}
  BY DEF ScopesIn

\* The scopes an Admission holds.
LEMMA HeldSets ==
  ASSUME NEW q \in Requests
  PROVE  /\ ScopesIn(FullHeld(q)) = ScopesOf(q) /\ FullHeld(q) # <<>>
         /\ ScopesIn(KeyHeld(q)) = {KeyOf[q]} \cap CappedKeys
         /\ KeyOf[q] # Team /\ Team \in ScopesOf(q) /\ ScopesOf(q) \subseteq Scopes
         /\ Append(KeyHeld(q), Team) = FullHeld(q)
<1>1. KeyOf[q] \in Keys /\ Team \notin Keys /\ KeyOf[q] # Team /\ CappedKeys \subseteq Keys
  BY GateConstants
<1>2. ScopesOf(q) = {KeyOf[q], Team} \cap (CappedKeys \cup {Team})
  BY DEF ScopesOf, Scopes
<1>3. CASE KeyOf[q] \in CappedKeys
  <2>1. FullHeld(q) = <<KeyOf[q], Team>> /\ KeyHeld(q) = <<KeyOf[q]>>
    BY <1>3 DEF FullHeld, KeyHeld
  <2>2. ScopesOf(q) = {KeyOf[q], Team} BY <1>2, <1>3
  <2>3. ScopesIn(FullHeld(q)) = ScopesOf(q) /\ FullHeld(q) # <<>> BY <2>1, <2>2, Pairs
  <2>4. ScopesIn(KeyHeld(q)) = {KeyOf[q]} BY <2>1, Singles
  <2>5. Append(KeyHeld(q), Team) = FullHeld(q) BY <2>1, OneMore
  <2> QED BY <1>1, <1>2, <1>3, <2>2, <2>3, <2>4, <2>5 DEF Scopes
<1>4. CASE KeyOf[q] \notin CappedKeys
  <2>1. FullHeld(q) = <<Team>> /\ KeyHeld(q) = <<>>
    BY <1>4 DEF FullHeld, KeyHeld
  <2>2. ScopesOf(q) = {Team} BY <1>1, <1>2, <1>4
  <2> QED BY <1>1, <1>2, <1>4, <2>1, <2>2, Singles, NoScopes DEF Scopes
<1> QED BY <1>3, <1>4

\* A handler about to release holds one claim, or both and the team's is next.
LEMMA ReleaseHeld ==
  ASSUME NEW q \in Requests, NEW h, h # <<>>, h \in {FullHeld(q), <<Team>>, KeyHeld(q)}
  PROVE  /\ Head(h) \in ScopesOf(q) /\ ScopesIn(Tail(h)) = ScopesIn(h) \ {Head(h)}
         /\ Head(h) \in ScopesIn(h) /\ ScopesIn(h) \subseteq ScopesOf(q)
         /\ \/ Len(h) = 1 /\ Tail(h) = <<>>
            \/ Len(h) = 2 /\ Tail(h) = <<Team>> /\ h = FullHeld(q)
<1>1. CASE h = <<Team>> BY <1>1, Singles, NoScopes, HeldSets
<1>2. CASE KeyOf[q] \in CappedKeys /\ h = <<KeyOf[q]>>
  <2>1. KeyOf[q] \in ScopesOf(q) BY <1>2 DEF ScopesOf, Scopes
  <2> QED BY <1>2, <2>1, Singles, NoScopes
<1>3. CASE KeyOf[q] \in CappedKeys /\ h = <<KeyOf[q], Team>>
  <2>1. KeyOf[q] \in ScopesOf(q) BY <1>3 DEF ScopesOf, Scopes
  <2>2. h = FullHeld(q) BY <1>3 DEF FullHeld
  <2>3. /\ Head(h) = KeyOf[q] /\ Tail(h) = <<Team>> /\ Len(h) = 2
        /\ ScopesIn(h) = {KeyOf[q], Team} /\ ScopesIn(<<Team>>) = {Team}
    BY <1>3, Pairs, Singles
  <2> QED BY <2>1, <2>2, <2>3, HeldSets
<1> QED BY <1>1, <1>2, <1>3 DEF FullHeld, KeyHeld

-----------------------------------------------------------------------------
(* The handlers.                                                           *)

\* A handler that has to release: its claims, and what is left after them.
LEMMA AtRelease ==
  ASSUME NEW q \in Requests, NEW a, NEW t, NEW h, NEW c, NEW B,
         Stage(q, a, t, h, c, B), t # <<>>, Head(t) = "release"
  PROVE  /\ a = "finishing" /\ h # <<>> /\ h \in {FullHeld(q), <<Team>>, KeyHeld(q)}
         /\ \/ t = <<"release">> /\ c = 0
            \/ /\ t = <<"release", "bill">> /\ q \in Streams /\ q \notin B
               /\ h \in {FullHeld(q), <<Team>>}
<1>1. FullHeld(q) # <<>> /\ <<Team>> # <<>> BY HeldSets
<1> QED BY <1>1, Pairs, Singles DEF Stage

\* A handler that has to bill.
LEMMA AtBill ==
  ASSUME NEW q \in Requests, NEW a, NEW t, NEW h, NEW c, NEW B,
         Stage(q, a, t, h, c, B), t # <<>>, Head(t) \in {"bill", "bill_hit"}
  PROVE  /\ a = "finishing" /\ q \notin B
         /\ \/ t = <<"bill", "release">> /\ h = FullHeld(q) /\ q \notin Streams
            \/ t = <<"bill_hit", "release">> /\ h = FullHeld(q) /\ c = 0
            \/ t = <<"bill">> /\ h = <<>> /\ q \in Streams
  BY Pairs, Singles DEF Stage

\* One handler moves, the others stand still.
LEMMA OthersStand ==
  ASSUME Stages, NEW q \in Requests,
         \A p \in Requests \ {q} : /\ at'[p] = at[p] /\ todo'[p] = todo[p] /\ held'[p] = held[p]
                                   /\ cost'[p] = cost[p] /\ (p \in billed' <=> p \in billed),
         Stage(q, at'[q], todo'[q], held'[q], cost'[q], billed')
  PROVE  Stages'
<1>1. ASSUME NEW p \in Requests PROVE Stage(p, at'[p], todo'[p], held'[p], cost'[p], billed')
  <2>1. CASE p = q BY <2>1
  <2>2. CASE p # q BY <2>2 DEF Stages, Stage
  <2> QED BY <2>1, <2>2
<1> QED BY <1>1 DEF Stages

\* The same for a handler that assigns its own fields.
LEMMA Moved ==
  ASSUME Handlers, Stages, NEW q \in Requests, NEW a, NEW t, NEW h, NEW c \in Costs,
         at' = [at EXCEPT ![q] = a], todo' = [todo EXCEPT ![q] = t],
         held' = [held EXCEPT ![q] = h], cost' = [cost EXCEPT ![q] = c],
         billed' \in {billed, billed \cup {q}}, spent' \in [Requests -> Nat],
         Stage(q, a, t, h, c, billed')
  PROVE  Handlers' /\ Stages'
<1>1. Handlers' BY DEF Handlers
<1>2. at'[q] = a /\ todo'[q] = t /\ held'[q] = h /\ cost'[q] = c BY DEF Handlers
<1>3. \A p \in Requests \ {q} : /\ at'[p] = at[p] /\ todo'[p] = todo[p] /\ held'[p] = held[p]
                                /\ cost'[p] = cost[p] /\ (p \in billed' <=> p \in billed)
  BY DEF Handlers
<1> QED BY <1>1, <1>2, <1>3, OthersStand

\* One handler goes on to another place and nothing else changes.
LEMMA MovedPlace ==
  ASSUME Handlers, Stages, NEW q \in Requests, NEW a,
         at' = [at EXCEPT ![q] = a], UNCHANGED <<todo, held, cost, billed>>,
         spent' \in [Requests -> Nat],
         Stage(q, a, todo[q], held[q], cost[q], billed')
  PROVE  Handlers' /\ Stages'
<1>1. Handlers' BY DEF Handlers
<1>2. at'[q] = a BY DEF Handlers
<1>3. \A p \in Requests \ {q} : /\ at'[p] = at[p] /\ todo'[p] = todo[p] /\ held'[p] = held[p]
                                /\ cost'[p] = cost[p] /\ (p \in billed' <=> p \in billed)
  BY DEF Handlers
<1> QED BY <1>1, <1>2, <1>3, OthersStand

\* Every step of a request leaves its handler at an allowed stage: it never
\* runs out of claims to release, or of tasks with claims in hand.
LEMMA HandlersStep ==
  ASSUME Handlers, Stages, Store, NEW q \in Requests, Step(q)
  PROVE  Handlers' /\ Stages'
<1>0. /\ Stage(q, at[q], todo[q], held[q], cost[q], billed)
      /\ cost[q] \in Costs /\ 0 \in Costs /\ Costs \subseteq Nat
      /\ CappedKeys \subseteq Scopes /\ Team \in Scopes
  BY GateConstants DEF Stages, Handlers, Scopes
<1>s. /\ at = [at EXCEPT ![q] = at[q]] /\ todo = [todo EXCEPT ![q] = todo[q]]
      /\ held = [held EXCEPT ![q] = held[q]] /\ cost = [cost EXCEPT ![q] = cost[q]]
      /\ spent \in [Requests -> Nat] /\ [spent EXCEPT ![q] = 0] \in [Requests -> Nat]
  BY DEF Handlers
<1>1. CASE ReadKeySpend(q)
  <2>1. at[q] = "new" /\ UNCHANGED <<todo, held, cost, billed>> BY <1>1 DEF ReadKeySpend
  <2>2. todo[q] = <<>> /\ held[q] = <<>> /\ cost[q] = 0 /\ q \notin billed
    BY <1>0, <2>1 DEF Stage
  <2>3. spent' \in [Requests -> Nat]
    BY <1>1, <1>s, <1>0 DEF ReadKeySpend, Store
  <2>4. CASE KeyOf[q] \in CappedKeys
    <3>1. at' = [at EXCEPT ![q] = "key_gate"] BY <1>1, <2>4 DEF ReadKeySpend
    <3>2. Stage(q, "key_gate", todo[q], held[q], cost[q], billed') BY <2>1, <2>2, <2>4 DEF Stage
    <3> QED BY <1>0, <1>s, <2>1, <2>3, <3>1, <3>2, MovedPlace
  <2>5. CASE KeyOf[q] \notin CappedKeys
    <3>1. at' = [at EXCEPT ![q] = "team_spend"] BY <1>1, <2>5 DEF ReadKeySpend
    <3>2. Stage(q, "team_spend", todo[q], held[q], cost[q], billed')
      BY <2>1, <2>2, <2>5 DEF Stage, KeyHeld
    <3> QED BY <1>0, <1>s, <2>1, <2>3, <3>1, <3>2, MovedPlace
  <2> QED BY <2>4, <2>5
<1>2. CASE ReserveKey(q)
  <2>1. /\ at[q] = "key_gate" /\ UNCHANGED <<todo, cost, billed>>
        /\ spent' = [spent EXCEPT ![q] = 0]
    BY <1>2 DEF ReserveKey
  <2>2. /\ todo[q] = <<>> /\ held[q] = <<>> /\ cost[q] = 0 /\ q \notin billed
        /\ KeyOf[q] \in CappedKeys
    BY <1>0, <2>1 DEF Stage
  <2>3. CASE Admits(q, KeyOf[q])
    <3>1. /\ at' = [at EXCEPT ![q] = "team_spend"]
          /\ held' = [held EXCEPT ![q] = <<KeyOf[q]>>]
      BY <1>2, <2>3 DEF ReserveKey
    <3>2. Stage(q, "team_spend", todo[q], <<KeyOf[q]>>, cost[q], billed')
      BY <2>1, <2>2 DEF Stage, KeyHeld
    <3> QED BY <1>0, <1>s, <2>1, <3>1, <3>2, Moved
  <2>4. CASE ~Admits(q, KeyOf[q])
    <3>1. at' = [at EXCEPT ![q] = "over"] /\ held' = held BY <1>2, <2>4 DEF ReserveKey
    <3>2. Stage(q, "over", todo[q], held[q], cost[q], billed') BY <2>2 DEF Stage
    <3> QED BY <1>0, <1>s, <2>1, <3>1, <3>2, MovedPlace
  <2> QED BY <2>3, <2>4
<1>3. CASE ReadTeamSpend(q)
  <2>1. /\ at[q] = "team_spend" /\ UNCHANGED <<todo, held, cost, billed>>
        /\ at' = [at EXCEPT ![q] = "team_gate"]
        /\ spent' = [spent EXCEPT ![q] = committed[Team]]
    BY <1>3 DEF ReadTeamSpend
  <2>2. spent' \in [Requests -> Nat] BY <1>s, <1>0, <2>1 DEF Store
  <2>3. Stage(q, "team_gate", todo[q], held[q], cost[q], billed')
    BY <1>0, <2>1 DEF Stage
  <2> QED BY <1>0, <1>s, <2>1, <2>2, <2>3, MovedPlace
<1>r. ASSUME at[q] \in {"team_spend", "team_gate"}, Refuse(q),
             UNCHANGED <<held, cost, billed>>, spent' = [spent EXCEPT ![q] = 0]
      PROVE  Handlers' /\ Stages'
  <2>1. todo[q] = <<>> /\ held[q] = KeyHeld(q) /\ cost[q] = 0 /\ q \notin billed
    BY <1>0, <1>r DEF Stage
  <2>2. CASE held[q] = <<>>
    <3>1. at' = [at EXCEPT ![q] = "over"] /\ todo' = [todo EXCEPT ![q] = <<>>]
      BY <1>r, <2>2 DEF Refuse, Proceed
    <3>2. Stage(q, "over", <<>>, held[q], cost[q], billed') BY <2>1, <2>2 DEF Stage
    <3> QED BY <1>0, <1>s, <1>r, <3>1, <3>2, Moved
  <2>3. CASE held[q] # <<>>
    <3>1. /\ at' = [at EXCEPT ![q] = "finishing"]
          /\ todo' = [todo EXCEPT ![q] = <<"release">>]
      BY <1>r, <2>3, Singles DEF Refuse, Proceed
    <3>2. Stage(q, "finishing", <<"release">>, held[q], cost[q], billed')
      BY <2>1, <2>3 DEF Stage
    <3> QED BY <1>0, <1>s, <1>r, <3>1, <3>2, Moved
  <2> QED BY <2>2, <2>3
<1>4. CASE ReserveTeam(q)
  <2>1. /\ at[q] = "team_gate" /\ UNCHANGED <<cost, billed>>
        /\ spent' = [spent EXCEPT ![q] = 0]
    BY <1>4 DEF ReserveTeam
  <2>2. todo[q] = <<>> /\ held[q] = KeyHeld(q) /\ cost[q] = 0 /\ q \notin billed
    BY <1>0, <2>1 DEF Stage
  <2>3. CASE Admits(q, Team)
    <3>1. /\ at' = [at EXCEPT ![q] = "calling"] /\ todo' = todo
          /\ held' = [held EXCEPT ![q] = Append(held[q], Team)]
      BY <1>4, <1>s, <2>3 DEF ReserveTeam
    <3>2. Append(held[q], Team) = FullHeld(q) BY <2>2, HeldSets
    <3>3. Stage(q, "calling", todo[q], FullHeld(q), cost[q], billed')
      BY <2>1, <2>2 DEF Stage
    <3>4. Handlers' BY <1>s, <2>1, <3>1 DEF Handlers
    <3>5. /\ at'[q] = "calling" /\ todo'[q] = todo[q] /\ held'[q] = FullHeld(q)
          /\ cost'[q] = cost[q]
      BY <2>1, <3>1, <3>2 DEF Handlers
    <3>6. \A p \in Requests \ {q} :
              /\ at'[p] = at[p] /\ todo'[p] = todo[p] /\ held'[p] = held[p]
              /\ cost'[p] = cost[p] /\ (p \in billed' <=> p \in billed)
      BY <2>1, <3>1 DEF Handlers
    <3> QED BY <3>3, <3>4, <3>5, <3>6, OthersStand
  <2>4. CASE ~Admits(q, Team)
    BY <1>4, <1>r, <2>1, <2>4 DEF ReserveTeam
  <2> QED BY <2>3, <2>4
<1>5. CASE GateFails(q)
  <2>1. UNCHANGED <<held, cost, billed>> /\ spent' = [spent EXCEPT ![q] = 0]
    BY <1>5 DEF GateFails
  <2>2. CASE at[q] \in {"new", "key_gate"} /\ at' = [at EXCEPT ![q] = "over"] /\ todo' = todo
    <3>1. Stage(q, "over", todo[q], held[q], cost[q], billed') BY <1>0, <2>2 DEF Stage
    <3> QED BY <1>0, <1>s, <2>1, <2>2, <3>1, MovedPlace
  <2>3. CASE at[q] \in {"team_spend", "team_gate"} /\ Refuse(q)
    BY <1>r, <2>1, <2>3
  <2> QED BY <1>5, <2>2, <2>3 DEF GateFails
<1>c. ASSUME at[q] = "calling", NEW l, NEW c \in Costs,
             \/ l = <<"release", "bill">> /\ q \in Streams
             \/ l = <<"bill", "release">> /\ q \notin Streams
             \/ l = <<"bill_hit", "release">> /\ c = 0
             \/ l = <<"release">> /\ c = 0,
             Proceed(q, l), cost' = [cost EXCEPT ![q] = c], UNCHANGED <<spent, held, billed>>
      PROVE  Handlers' /\ Stages'
  <2>1. held[q] = FullHeld(q) /\ q \notin billed BY <1>0, <1>c DEF Stage
  <2>2. l # <<>> BY <1>c, Pairs, Singles
  <2>3. at' = [at EXCEPT ![q] = "finishing"] /\ todo' = [todo EXCEPT ![q] = l]
    BY <1>c, <2>2 DEF Proceed
  <2>4. FullHeld(q) # <<>> BY HeldSets
  <2>5. Stage(q, "finishing", l, held[q], c, billed') BY <1>c, <2>1, <2>4 DEF Stage
  <2> QED BY <1>0, <1>s, <1>c, <2>3, <2>5, Moved
<1>6. CASE CallEnds(q)
  <2>1. PICK c \in Costs : cost' = [cost EXCEPT ![q] = c] BY <1>6 DEF CallEnds
  <2> QED BY <1>6, <1>c, <2>1 DEF CallEnds
<1>7. CASE CacheHit(q) \/ CallFails(q)
  <2>1. at[q] = "calling" /\ cost[q] = 0 /\ cost' = [cost EXCEPT ![q] = 0]
    BY <1>0, <1>s, <1>7 DEF CacheHit, CallFails, Stage
  <2> QED BY <1>0, <1>7, <1>c, <2>1 DEF CacheHit, CallFails
<1>b. ASSUME todo[q] # <<>>, Head(todo[q]) \in {"bill", "bill_hit"},
             Proceed(q, Tail(todo[q])), cost' = [cost EXCEPT ![q] = 0],
             UNCHANGED <<spent, held>>, billed' \in {billed, billed \cup {q}}
      PROVE  Handlers' /\ Stages'
  <2>1. \/ todo[q] = <<"bill", "release">> /\ held[q] = FullHeld(q)
        \/ todo[q] = <<"bill_hit", "release">> /\ held[q] = FullHeld(q)
        \/ todo[q] = <<"bill">> /\ held[q] = <<>>
    BY <1>0, <1>b, AtBill
  <2>2. CASE Tail(todo[q]) = <<"release">> /\ held[q] = FullHeld(q)
    <3>1. /\ at' = [at EXCEPT ![q] = "finishing"]
          /\ todo' = [todo EXCEPT ![q] = <<"release">>]
      BY <1>b, <2>2, Singles DEF Proceed
    <3>2. FullHeld(q) # <<>> BY HeldSets
    <3>3. Stage(q, "finishing", <<"release">>, held[q], 0, billed')
      BY <2>2, <3>2 DEF Stage
    <3> QED BY <1>0, <1>s, <1>b, <3>1, <3>3, Moved
  <2>3. CASE Tail(todo[q]) = <<>> /\ held[q] = <<>>
    <3>1. at' = [at EXCEPT ![q] = "over"] /\ todo' = [todo EXCEPT ![q] = <<>>]
      BY <1>b, <2>3 DEF Proceed
    <3>2. Stage(q, "over", <<>>, held[q], 0, billed') BY <2>3 DEF Stage
    <3> QED BY <1>0, <1>s, <1>b, <3>1, <3>2, Moved
  <2>4. \/ Tail(todo[q]) = <<"release">> /\ held[q] = FullHeld(q)
        \/ Tail(todo[q]) = <<>> /\ held[q] = <<>>
    <3>1. CASE todo[q] = <<"bill", "release">> /\ held[q] = FullHeld(q)
      BY <3>1, Pairs
    <3>2. CASE todo[q] = <<"bill_hit", "release">> /\ held[q] = FullHeld(q)
      BY <3>2, Pairs
    <3>3. CASE todo[q] = <<"bill">> /\ held[q] = <<>>
      BY <3>3, Singles
    <3> QED BY <2>1, <3>1, <3>2, <3>3
  <2> QED BY <2>2, <2>3, <2>4
<1>8. CASE Bill(q) BY <1>8, <1>b DEF Bill, Finishing
<1>e. ASSUME at' = [at EXCEPT ![q] = "over"], todo' = [todo EXCEPT ![q] = <<>>],
             held' = [held EXCEPT ![q] = <<>>], cost' = [cost EXCEPT ![q] = 0],
             billed' = billed, spent' \in [Requests -> Nat]
      PROVE  Handlers' /\ Stages'
  <2>1. Stage(q, "over", <<>>, <<>>, 0, billed') BY DEF Stage
  <2> QED BY <1>0, <1>e, <2>1, Moved
<1>9. CASE BillLost(q)
  <2>1. cost' = [cost EXCEPT ![q] = 0] /\ UNCHANGED <<spent, billed>>
    BY <1>9 DEF BillLost
  <2>2. CASE Finishing(q, "bill") /\ Proceed(q, Tail(todo[q])) /\ held' = held
    BY <1>b, <2>1, <2>2 DEF Finishing
  <2>3. CASE Proceed(q, <<>>) /\ held' = [held EXCEPT ![q] = <<>>]
    BY <1>s, <1>e, <2>1, <2>3 DEF Proceed
  <2> QED BY <1>9, <2>2, <2>3 DEF BillLost
<1>10. CASE Release(q)
  <2>1. /\ todo[q] # <<>> /\ Head(todo[q]) = "release"
        /\ held' = [held EXCEPT ![q] = Tail(held[q])]
        /\ Proceed(q, IF Len(held[q]) = 1 THEN Tail(todo[q]) ELSE todo[q])
        /\ UNCHANGED <<spent, cost, billed>>
    BY <1>10, <1>s DEF Release, Finishing
  <2>2. /\ held[q] # <<>> /\ held[q] \in {FullHeld(q), <<Team>>, KeyHeld(q)}
        /\ \/ todo[q] = <<"release">> /\ cost[q] = 0
           \/ /\ todo[q] = <<"release", "bill">> /\ q \in Streams /\ q \notin billed
              /\ held[q] \in {FullHeld(q), <<Team>>}
    BY <1>0, <2>1, AtRelease
  <2>3. CASE Len(held[q]) = 2 /\ Tail(held[q]) = <<Team>>
    <3>1. at' = [at EXCEPT ![q] = "finishing"] /\ todo' = [todo EXCEPT ![q] = todo[q]]
      BY <2>1, <2>3 DEF Proceed
    <3>2. Stage(q, "finishing", todo[q], <<Team>>, cost[q], billed')
      BY <2>1, <2>2, Singles DEF Stage
    <3> QED BY <1>0, <1>s, <2>1, <2>3, <3>1, <3>2, Moved
  <2>4. CASE Len(held[q]) = 1 /\ Tail(held[q]) = <<>> /\ todo[q] = <<"release">>
    <3>1. Tail(todo[q]) = <<>> BY <2>4, Singles
    <3>2. at' = [at EXCEPT ![q] = "over"] /\ todo' = [todo EXCEPT ![q] = <<>>]
      BY <2>1, <2>4, <3>1 DEF Proceed
    <3>3. Stage(q, "over", <<>>, <<>>, cost[q], billed')
      <4>1. cost[q] = 0 BY <2>2, <2>4, Pairs, Singles
      <4> QED BY <4>1 DEF Stage
    <3> QED BY <1>0, <1>s, <2>1, <2>4, <3>2, <3>3, Moved
  <2>5. CASE /\ Len(held[q]) = 1 /\ Tail(held[q]) = <<>> /\ todo[q] = <<"release", "bill">>
             /\ q \in Streams /\ q \notin billed
    <3>1. Tail(todo[q]) = <<"bill">> /\ <<"bill">> # <<>> BY <2>5, Pairs, Singles
    <3>2. at' = [at EXCEPT ![q] = "finishing"] /\ todo' = [todo EXCEPT ![q] = <<"bill">>]
      BY <2>1, <2>5, <3>1 DEF Proceed
    <3>3. Stage(q, "finishing", <<"bill">>, <<>>, cost[q], billed') BY <2>1, <2>5 DEF Stage
    <3> QED BY <1>0, <1>s, <2>1, <2>5, <3>2, <3>3, Moved
  <2> QED BY <2>2, <2>3, <2>4, <2>5, ReleaseHeld
<1>11. CASE Crash(q) BY <1>s, <1>e, <1>11 DEF Crash
<1> QED BY <1>1, <1>2, <1>3, <1>4, <1>5, <1>6, <1>7, <1>8, <1>9, <1>10, <1>11 DEF Step

-----------------------------------------------------------------------------
(* The reservation store.                                                  *)

\* What a release touches is one of the request's own scopes.
LEMMA ReleaseScope ==
  ASSUME Handlers, Stages, NEW q \in Requests, Finishing(q, "release")
  PROVE  /\ held[q] # <<>> /\ held[q] \in {FullHeld(q), <<Team>>, KeyHeld(q)}
         /\ Head(held[q]) \in Scopes /\ Head(held[q]) \in ScopesOf(q)
<1>1. Stage(q, at[q], todo[q], held[q], cost[q], billed) BY DEF Stages
<1>2. held[q] # <<>> /\ held[q] \in {FullHeld(q), <<Team>>, KeyHeld(q)}
  BY <1>1, AtRelease DEF Finishing
<1> QED BY <1>2, ReleaseHeld, HeldSets

\* An Admission holds claims on its own scopes only.
LEMMA HeldInScopes ==
  ASSUME Stages, NEW q \in Requests
  PROVE  HeldScopes(q) \subseteq ScopesOf(q) /\ HeldScopes(q) = ScopesIn(held[q])
<1>1. HeldScopes(q) = ScopesIn(held[q]) BY DEF HeldScopes, ScopesIn
<1>2. held[q] \in {<<>>, FullHeld(q), KeyHeld(q), <<Team>>} BY DEF Stages, Stage
<1>3. {KeyOf[q]} \cap CappedKeys \subseteq ScopesOf(q) BY DEF ScopesOf, Scopes
<1> QED BY <1>1, <1>2, <1>3, HeldSets, NoScopes, Singles

\* A reservation and a release keep the store a store.
LEMMA StoreWrites ==
  ASSUME Store, NEW q \in Requests, NEW s \in Scopes
  PROVE  /\ Reserved(q, s) \in [Scopes -> [Requests -> 0..TTL]]
         /\ Released(q, s) \in [Scopes -> [Requests -> 0..TTL]]
         /\ Reserved(q, s)[s][q] = TTL /\ TTL > 0 /\ Released(q, s)[s][q] = 0
         /\ \A u \in Scopes, p \in Requests : u # s \/ p # q =>
               Reserved(q, s)[u][p] = claim[u][p] /\ Released(q, s)[u][p] = claim[u][p]
<1>1. TTL \in Nat /\ TTL > 0 BY GateConstants
<1>2. 0 \in 0..TTL /\ TTL \in 0..TTL BY <1>1
<1>3. claim \in [Scopes -> [Requests -> 0..TTL]] /\ claim[s] \in [Requests -> 0..TTL]
  BY DEF Store
<1>4. /\ Reserved(q, s) = [claim EXCEPT ![s] = [claim[s] EXCEPT ![q] = TTL]]
      /\ Released(q, s) = [claim EXCEPT ![s] = [claim[s] EXCEPT ![q] = 0]]
  BY <1>3 DEF Reserved, Released
<1>5. /\ [claim[s] EXCEPT ![q] = TTL] \in [Requests -> 0..TTL]
      /\ [claim[s] EXCEPT ![q] = 0] \in [Requests -> 0..TTL]
  BY <1>2, <1>3
<1> QED BY <1>1, <1>3, <1>4, <1>5

\* What a step of q leaves alone in the store, and what only grows.
LEMMA StoreStep ==
  ASSUME Handlers, Stages, Store, NEW q \in Requests, Step(q)
  PROVE  /\ Store'
         /\ open \subseteq open' /\ leaked \subseteq leaked' /\ billed \subseteq billed'
         /\ \A p \in Requests \ {q} : /\ held'[p] = held[p] /\ todo'[p] = todo[p]
                                      /\ \A s \in Scopes : claim'[s][p] = claim[s][p]
<1>0. /\ KeyOf[q] \in CappedKeys => KeyOf[q] \in Scopes
      /\ Team \in Scopes /\ ScopesOf(q) \subseteq Scopes
      /\ HeldScopes(q) \subseteq Scopes
  BY HeldSets, HeldInScopes DEF Scopes
<1>1. \A p \in Requests \ {q} : held'[p] = held[p] /\ todo'[p] = todo[p]
  BY DEF Step, ReadKeySpend, ReserveKey, ReadTeamSpend, ReserveTeam, GateFails, CallEnds,
     CacheHit, CallFails, Bill, BillLost, Release, Crash, Proceed, Refuse, Handlers
<1>2. billed \subseteq billed'
  BY DEF Step, ReadKeySpend, ReserveKey, ReadTeamSpend, ReserveTeam, GateFails, CallEnds,
     CacheHit, CallFails, Bill, BillLost, Release, Crash
<1>3. ASSUME NEW s \in Scopes, claim' = Reserved(q, s), open' = OpenIfStale(q, s),
             leaked' \in {leaked, leaked \cup {<<q, s>>}}, committed' = committed
      PROVE  /\ Store' /\ open \subseteq open' /\ leaked \subseteq leaked'
             /\ \A p \in Requests \ {q}, u \in Scopes : claim'[u][p] = claim[u][p]
  BY <1>3, StoreWrites DEF Store, OpenIfStale, Windows
<1>4. ASSUME UNCHANGED <<claim, committed, leaked, open>>
      PROVE  /\ Store' /\ open \subseteq open' /\ leaked \subseteq leaked'
             /\ \A p \in Requests \ {q}, u \in Scopes : claim'[u][p] = claim[u][p]
  BY <1>4 DEF Store
<1>5. ASSUME NEW S \in SUBSET Scopes, leaked' = Leak(q, S),
             UNCHANGED <<claim, committed>>, open \subseteq open', open' \subseteq Windows \X Scopes
      PROVE  /\ Store' /\ open \subseteq open' /\ leaked \subseteq leaked'
             /\ \A p \in Requests \ {q}, u \in Scopes : claim'[u][p] = claim[u][p]
  BY <1>5 DEF Store, Leak
<1>6. CASE ReserveKey(q)
  <2>1. KeyOf[q] \in Scopes BY <1>0, <1>6 DEF ReserveKey, Stages, Stage
  <2> QED BY <1>1, <1>2, <1>3, <1>4, <1>6, <2>1 DEF ReserveKey
<1>7. CASE ReserveTeam(q)
  BY <1>0, <1>1, <1>2, <1>3, <1>4, <1>7 DEF ReserveTeam
<1>8. CASE GateFails(q)
  <2>1. at[q] = "key_gate" => KeyOf[q] \in Scopes BY <1>0 DEF Stages, Stage
  <2> QED BY <1>0, <1>1, <1>2, <1>3, <1>4, <1>8, <2>1 DEF GateFails
<1>9. CASE Bill(q)
  <2>1. /\ committed' = [s \in Scopes |-> committed[s] + IF s \in ScopesOf(q) THEN cost[q] ELSE 0]
        /\ UNCHANGED <<claim, leaked>>
        /\ open' = IF cost[q] > Amount[q]
                   THEN open \cup ({"underestimated"} \X ScopesOf(q)) ELSE open
    BY <1>9 DEF Bill
  <2>2. cost[q] \in Nat BY GateConstants DEF Handlers
  <2>3. committed' \in [Scopes -> Nat] BY <2>1, <2>2 DEF Store
  <2>4. open' \subseteq Windows \X Scopes /\ open \subseteq open'
    BY <1>0, <2>1 DEF Store, Windows
  <2> QED BY <1>1, <1>2, <2>1, <2>3, <2>4 DEF Store
<1>10. CASE BillLost(q)
  <2>1. UNCHANGED <<claim, committed, open>> BY <1>10 DEF BillLost
  <2>2. leaked' = leaked \/ leaked' = Leak(q, HeldScopes(q)) BY <1>10 DEF BillLost
  <2>3. open' \subseteq Windows \X Scopes BY <2>1 DEF Store
  <2> QED BY <1>0, <1>1, <1>2, <1>4, <1>5, <2>1, <2>2, <2>3
<1>11. CASE Crash(q)
  <2>1. UNCHANGED <<claim, committed, open>> /\ leaked' = Leak(q, HeldScopes(q))
    BY <1>11 DEF Crash
  <2>2. open' \subseteq Windows \X Scopes BY <2>1 DEF Store
  <2> QED BY <1>0, <1>1, <1>2, <1>5, <2>1, <2>2
<1>12. CASE Release(q)
  <2> DEFINE s == Head(held[q])
  <2>1. s \in Scopes BY <1>12, ReleaseScope DEF Release
  <2>2. /\ open' = IF Len(todo[q]) > 1 THEN open \cup {<<"unbilled", s>>} ELSE open
        /\ committed' = committed
        /\ \/ claim' = Released(q, s) /\ leaked' = leaked
           \/ leaked' = Leak(q, {s}) /\ claim' = claim
    BY <1>12 DEF Release
  <2> HIDE DEF s
  <2>3. open \subseteq open' /\ open' \subseteq Windows \X Scopes
    BY <2>1, <2>2 DEF Store, Windows
  <2>4. CASE claim' = Released(q, s) /\ leaked' = leaked
    <3>1. /\ claim' \in [Scopes -> [Requests -> 0..TTL]]
          /\ \A p \in Requests \ {q}, u \in Scopes : claim'[u][p] = claim[u][p]
      BY <2>1, <2>4, StoreWrites
    <3>2. Store' BY <2>2, <2>3, <2>4, <3>1 DEF Store
    <3> QED BY <1>1, <1>2, <2>3, <2>4, <3>1, <3>2
  <2>5. CASE leaked' = Leak(q, {s}) /\ claim' = claim
    BY <1>1, <1>2, <1>5, <2>1, <2>2, <2>3, <2>5
  <2> QED BY <2>2, <2>4, <2>5
<1> QED BY <1>1, <1>2, <1>4, <1>6, <1>7, <1>8, <1>9, <1>10, <1>11, <1>12
    DEF Step, ReadKeySpend, ReadTeamSpend, CallEnds, CacheHit, CallFails

Claims == ClaimsKnown /\ HeldIsClaimed /\ StreamsBillLater

\* Every way a request goes on, ends, is refused or dies keeps the books: no
\* claim is in the store that its handler forgot, none is missing that covers
\* a call not billed yet, and a stream that has yet to bill left its mark.
LEMMA ClaimsStep ==
  ASSUME Inv, NEW q \in Requests, Step(q)
  PROVE  Claims'
<1>0. /\ Handlers /\ Stages /\ Store /\ Handlers' /\ Stages' /\ Store'
      /\ open \subseteq open' /\ leaked \subseteq leaked' /\ billed \subseteq billed'
      /\ Stage(q, at[q], todo[q], held[q], cost[q], billed)
  BY HandlersStep, StoreStep DEF Inv, Stages
<1>f. \A p \in Requests \ {q} : /\ held'[p] = held[p] /\ todo'[p] = todo[p]
                                /\ \A s \in Scopes : claim'[s][p] = claim[s][p]
  BY <1>0, StoreStep
<1>h. \A p \in Requests : /\ HeldScopes(p) = ScopesIn(held[p])
                          /\ HeldScopes(p)' = ScopesIn(held'[p])
                          /\ ScopesIn(held[p]) \subseteq Scopes
  <2>1. \A p \in Requests : HeldScopes(p) \subseteq Scopes
    BY <1>0, HeldInScopes, HeldSets
  <2> QED BY <2>1 DEF HeldScopes, ScopesIn
<1> DEFINE Known == \A s \in Scopes : claim'[s][q] > 0 =>
                        <<q, s>> \in leaked' \/ s \in ScopesIn(held'[q])
           Covered == \A s \in ScopesIn(held'[q]) :
                        claim'[s][q] > 0 \/ <<"expired", s>> \in open' \/ q \in billed'
           Later == todo'[q] \in {<<"release", "bill">>, <<"bill">>} =>
                        \A s \in ScopesOf(q) :
                            s \in ScopesIn(held'[q]) \/ <<"unbilled", s>> \in open'
<1>p. SUFFICES Known /\ Covered /\ Later
  <2> SUFFICES ASSUME Known, Covered, Later PROVE Claims'
    OBVIOUS
  <2>1. ClaimsKnown'
    <3>1. ASSUME NEW p \in Requests, NEW s \in Scopes, claim'[s][p] > 0
          PROVE  <<p, s>> \in leaked' \/ s \in ScopesIn(held'[p])
      <4>1. CASE p = q BY <3>1, <4>1
      <4>2. CASE p # q BY <1>0, <1>f, <1>h, <3>1, <4>2 DEF Inv, ClaimsKnown
      <4> QED BY <4>1, <4>2
    <3> HIDE DEF Known, Covered, Later
    <3> QED BY <1>h, <3>1 DEF ClaimsKnown
  <2>2. HeldIsClaimed'
    <3>1. ASSUME NEW p \in Requests, NEW s \in ScopesIn(held'[p])
          PROVE  claim'[s][p] > 0 \/ <<"expired", s>> \in open' \/ p \in billed'
      <4>1. CASE p = q BY <3>1, <4>1
      <4>2. CASE p # q
        <5>1. s \in ScopesIn(held[p]) /\ s \in Scopes BY <1>f, <1>h, <3>1, <4>2
        <5> QED BY <1>0, <1>f, <1>h, <4>2, <5>1 DEF Inv, HeldIsClaimed
      <4> QED BY <4>1, <4>2
    <3> HIDE DEF Known, Covered, Later
    <3> QED BY <1>h, <3>1 DEF HeldIsClaimed
  <2>3. StreamsBillLater'
    <3>1. ASSUME NEW p \in Requests, todo'[p] \in {<<"release", "bill">>, <<"bill">>},
                 NEW s \in ScopesOf(p)
          PROVE  s \in ScopesIn(held'[p]) \/ <<"unbilled", s>> \in open'
      <4>1. CASE p = q BY <3>1, <4>1
      <4>2. CASE p # q BY <1>0, <1>f, <1>h, <3>1, <4>2 DEF Inv, StreamsBillLater
      <4> QED BY <4>1, <4>2
    <3> HIDE DEF Known, Covered, Later
    <3> QED BY <1>h, <3>1 DEF StreamsBillLater
  <2> QED BY <2>1, <2>2, <2>3 DEF Claims
<1>k. /\ \A s \in Scopes : claim[s][q] > 0 => <<q, s>> \in leaked \/ s \in ScopesIn(held[q])
      /\ \A s \in ScopesIn(held[q]) :
             claim[s][q] > 0 \/ <<"expired", s>> \in open \/ q \in billed
      /\ todo[q] \in {<<"release", "bill">>, <<"bill">>} =>
             \A s \in ScopesOf(q) : s \in ScopesIn(held[q]) \/ <<"unbilled", s>> \in open
  BY <1>h DEF Inv, ClaimsKnown, HeldIsClaimed, StreamsBillLater
\* The lists of tasks that are not a stream's settlement.
<1>l. /\ <<>> \notin {<<"release", "bill">>, <<"bill">>}
      /\ <<"release">> \notin {<<"release", "bill">>, <<"bill">>}
      /\ <<"bill_hit", "release">> \notin {<<"release", "bill">>, <<"bill">>}
      /\ <<"bill", "release">> \notin {<<"release", "bill">>, <<"bill">>}
  BY Pairs, Singles
\* The claims stay as they are.
<1>1. ASSUME UNCHANGED <<claim, leaked>>, held'[q] = held[q]
      PROVE  Known /\ Covered
  BY <1>0, <1>k, <1>1
\* A claim is taken and kept in the Admission.
<1>2. ASSUME NEW s \in Scopes, claim' = Reserved(q, s),
             ScopesIn(held'[q]) = ScopesIn(held[q]) \cup {s}
      PROVE  Known /\ Covered
  <2>1. \A u \in Scopes : u # s => claim'[u][q] = claim[u][q] BY <1>0, <1>2, StoreWrites
  <2>2. claim'[s][q] > 0 BY <1>0, <1>2, StoreWrites
  <2> QED BY <1>0, <1>h, <1>k, <1>2, <2>1, <2>2
\* A claim is taken and its id lost.
<1>3. ASSUME NEW s \in Scopes, claim' = Reserved(q, s), <<q, s>> \in leaked', held'[q] = held[q]
      PROVE  Known /\ Covered
  <2>1. \A u \in Scopes : u # s => claim'[u][q] = claim[u][q] BY <1>0, <1>3, StoreWrites
  <2>2. claim'[s][q] > 0 BY <1>0, <1>3, StoreWrites
  <2> QED BY <1>0, <1>h, <1>k, <1>3, <2>1, <2>2
\* The Admission is dropped with what it holds.
<1>4. ASSUME claim' = claim, leaked' = Leak(q, HeldScopes(q)), held'[q] = <<>>
      PROVE  Known /\ Covered
  <2>1. ScopesIn(held'[q]) = {} BY <1>4, NoScopes
  <2>2. \A s \in ScopesIn(held[q]) : claim[s][q] > 0 => <<q, s>> \in leaked'
    BY <1>h, <1>4 DEF Leak
  <2> QED BY <1>0, <1>k, <1>4, <2>1, <2>2
<1> HIDE DEF Known, Covered
<1>5. CASE ReadKeySpend(q) \/ ReadTeamSpend(q)
  <2>1. /\ UNCHANGED <<claim, leaked, held, todo>>
        /\ at[q] \in {"new", "team_spend"}
    BY <1>5 DEF ReadKeySpend, ReadTeamSpend
  <2>2. todo[q] = <<>> BY <1>0, <2>1 DEF Stage
  <2> QED BY <1>1, <1>l, <2>1, <2>2
<1>6. CASE ReserveKey(q)
  <2>1. at[q] = "key_gate" /\ todo' = todo BY <1>6 DEF ReserveKey
  <2>2. todo[q] = <<>> /\ held[q] = <<>> /\ KeyOf[q] \in Scopes
    BY <1>0, <2>1 DEF Stage, Scopes
  <2>3. Later BY <1>l, <2>1, <2>2
  <2>4. CASE claim' = Reserved(q, KeyOf[q]) /\ held' = [held EXCEPT ![q] = <<KeyOf[q]>>]
    <3>1. held'[q] = <<KeyOf[q]>> BY <1>0, <2>4 DEF Handlers
    <3>2. ScopesIn(held'[q]) = ScopesIn(held[q]) \cup {KeyOf[q]}
      BY <2>2, <3>1, Singles, NoScopes
    <3> QED BY <1>2, <2>2, <2>3, <2>4, <3>2
  <2>5. CASE UNCHANGED <<claim, held>> BY <1>1, <1>6, <2>3, <2>5 DEF ReserveKey
  <2> QED BY <1>6, <2>4, <2>5 DEF ReserveKey
<1>r. ASSUME Refuse(q), todo[q] = <<>> PROVE Later
  <2>1. todo'[q] \in {<<>>, <<"release">>} BY <1>0, <1>r DEF Refuse, Proceed, Handlers
  <2> QED BY <1>l, <2>1
<1>7. CASE ReserveTeam(q)
  <2>1. at[q] = "team_gate" /\ leaked' = leaked BY <1>7 DEF ReserveTeam
  <2>2. todo[q] = <<>> /\ held[q] = KeyHeld(q) BY <1>0, <2>1 DEF Stage
  <2>3. CASE Admits(q, Team)
    <3>1. /\ claim' = Reserved(q, Team) /\ todo' = todo
          /\ held' = [held EXCEPT ![q] = Append(held[q], Team)]
      BY <1>0, <1>7, <2>3 DEF ReserveTeam, Handlers
    <3>2. held'[q] = FullHeld(q) BY <1>0, <2>2, <3>1, HeldSets DEF Handlers
    <3>3. ScopesIn(held'[q]) = ScopesIn(held[q]) \cup {Team}
      <4>1. ScopesOf(q) = ({KeyOf[q]} \cap CappedKeys) \cup {Team}
        BY HeldSets DEF ScopesOf, Scopes
      <4> QED BY <2>2, <3>2, <4>1, HeldSets
    <3>4. Team \in Scopes BY DEF Scopes
    <3>5. Later BY <1>l, <2>2, <3>1
    <3> QED BY <1>2, <3>1, <3>3, <3>4, <3>5
  <2>4. CASE ~Admits(q, Team)
    <3>1. Refuse(q) /\ UNCHANGED <<claim, held>> BY <1>7, <2>4 DEF ReserveTeam
    <3> QED BY <1>1, <1>r, <2>1, <2>2, <3>1
  <2> QED BY <2>3, <2>4
<1>8. CASE GateFails(q)
  <2>1. held' = held BY <1>8 DEF GateFails
  <2>2. /\ at[q] \in {"new", "key_gate", "team_spend", "team_gate"}
        /\ todo' = todo \/ Refuse(q)
    BY <1>8 DEF GateFails
  <2>3. todo[q] = <<>> /\ (at[q] = "key_gate" => KeyOf[q] \in Scopes) /\ Team \in Scopes
    BY <1>0, <2>2 DEF Stage, Scopes
  <2>4. Later BY <1>r, <1>l, <2>2, <2>3
  <2>5. CASE UNCHANGED <<claim, leaked>> BY <1>1, <2>1, <2>4, <2>5
  <2>6. CASE \E s \in Scopes : claim' = Reserved(q, s) /\ leaked' = leaked \cup {<<q, s>>}
    BY <1>3, <2>1, <2>4, <2>6
  <2>7. \/ UNCHANGED <<claim, leaked>>
        \/ \E s \in Scopes : claim' = Reserved(q, s) /\ leaked' = leaked \cup {<<q, s>>}
    BY <1>8, <2>3 DEF GateFails
  <2> QED BY <2>5, <2>6, <2>7
<1>9. CASE CallEnds(q) \/ CacheHit(q) \/ CallFails(q)
  <2>1. at[q] = "calling" /\ UNCHANGED <<claim, leaked, held>>
    BY <1>9 DEF CallEnds, CacheHit, CallFails
  <2>2. ScopesIn(held'[q]) = ScopesOf(q) BY <1>0, <2>1, HeldSets DEF Stage
  <2> QED BY <1>1, <2>1, <2>2
<1>b. ASSUME todo[q] # <<>>, Head(todo[q]) \in {"bill", "bill_hit"}
      PROVE  Tail(todo[q]) \in {<<"release">>, <<>>}
  <2>1. \/ todo[q] = <<"bill", "release">> \/ todo[q] = <<"bill_hit", "release">>
        \/ todo[q] = <<"bill">>
    BY <1>0, <1>b, AtBill
  <2>2. CASE todo[q] = <<"bill", "release">> BY <2>2, Pairs
  <2>3. CASE todo[q] = <<"bill_hit", "release">> BY <2>3, Pairs
  <2>4. CASE todo[q] = <<"bill">> BY <2>4, Singles
  <2> QED BY <2>1, <2>2, <2>3, <2>4
<1>10. CASE Bill(q)
  <2>1. /\ todo[q] # <<>> /\ Head(todo[q]) \in {"bill", "bill_hit"}
        /\ UNCHANGED <<claim, leaked, held>> /\ Proceed(q, Tail(todo[q]))
    BY <1>10 DEF Bill, Finishing
  <2>2. todo'[q] = Tail(todo[q]) BY <1>0, <2>1 DEF Proceed, Handlers
  <2>3. todo'[q] \in {<<"release">>, <<>>} BY <1>b, <2>1, <2>2
  <2> QED BY <1>1, <1>l, <2>1, <2>3
<1>11. CASE BillLost(q)
  <2>1. CASE /\ todo[q] # <<>> /\ Head(todo[q]) = "bill" /\ Proceed(q, Tail(todo[q]))
             /\ UNCHANGED <<claim, leaked, held>>
    <3>1. todo'[q] = Tail(todo[q]) BY <1>0, <2>1 DEF Proceed, Handlers
    <3>2. todo'[q] \in {<<"release">>, <<>>} BY <1>b, <2>1, <3>1
    <3> QED BY <1>1, <1>l, <2>1, <3>2
  <2>2. CASE /\ Proceed(q, <<>>) /\ held' = [held EXCEPT ![q] = <<>>]
             /\ leaked' = Leak(q, HeldScopes(q)) /\ claim' = claim
    <3>1. todo'[q] = <<>> /\ held'[q] = <<>> BY <1>0, <2>2 DEF Proceed, Handlers
    <3> QED BY <1>4, <1>l, <2>2, <3>1
  <2> QED BY <1>11, <2>1, <2>2 DEF BillLost, Finishing
<1>12. CASE Crash(q)
  <2>1. /\ claim' = claim /\ leaked' = Leak(q, HeldScopes(q))
        /\ todo'[q] = <<>> /\ held'[q] = <<>>
    BY <1>0, <1>12 DEF Crash, Handlers
  <2> QED BY <1>4, <1>l, <2>1
<1>13. CASE Release(q)
  <2> DEFINE s == Head(held[q])
  <2>1. /\ held[q] # <<>> /\ held[q] \in {FullHeld(q), <<Team>>, KeyHeld(q)}
        /\ s \in Scopes /\ s \in ScopesOf(q)
    BY <1>0, <1>13, ReleaseScope DEF Release
  <2>2. /\ open' = IF Len(todo[q]) > 1 THEN open \cup {<<"unbilled", s>>} ELSE open
        /\ \/ claim' = Released(q, s) /\ leaked' = leaked
           \/ leaked' = Leak(q, {s}) /\ claim' = claim
        /\ todo[q] # <<>> /\ Head(todo[q]) = "release"
        /\ Proceed(q, IF Len(held[q]) = 1 THEN Tail(todo[q]) ELSE todo[q])
    BY <1>13 DEF Release, Finishing
  <2>3. held'[q] = Tail(held[q]) BY <1>0, <1>13 DEF Release, Handlers
  <2>4. ScopesIn(held'[q]) = ScopesIn(held[q]) \ {s} /\ s \in ScopesIn(held[q])
    BY <2>1, <2>3, ReleaseHeld
  <2>5. todo'[q] = IF Len(held[q]) = 1 THEN Tail(todo[q]) ELSE todo[q]
    BY <1>0, <2>2 DEF Proceed, Handlers
  <2>6. \/ todo[q] = <<"release">>
        \/ todo[q] = <<"release", "bill">>
    BY <1>0, <2>2, AtRelease
  <2> HIDE DEF s
  <2>7. Later
    <3>1. CASE todo[q] = <<"release">>
      <4>1. todo'[q] \in {<<>>, <<"release">>} BY <2>5, <3>1, Singles
      <4> QED BY <1>l, <4>1
    <3>2. CASE todo[q] = <<"release", "bill">>
      <4>1. Len(todo[q]) > 1 BY <3>2, Pairs
      <4>2. <<"unbilled", s>> \in open' BY <2>2, <4>1
      <4> QED BY <1>0, <1>k, <2>4, <3>2, <4>2
    <3> QED BY <2>6, <3>1, <3>2
  <2>8. CASE claim' = Released(q, s) /\ leaked' = leaked
    <3>1. \A u \in Scopes : u # s => claim'[u][q] = claim[u][q]
      BY <1>0, <2>1, <2>8, StoreWrites
    <3>2. claim'[s][q] = 0 BY <1>0, <2>1, <2>8, StoreWrites
    <3>3. Known BY <1>k, <2>4, <2>8, <3>1, <3>2 DEF Known
    <3>4. Covered BY <1>0, <1>h, <1>k, <2>4, <3>1 DEF Covered
    <3> QED BY <2>7, <3>3, <3>4
  <2>9. CASE leaked' = Leak(q, {s}) /\ claim' = claim
    <3>1. claim[s][q] > 0 => <<q, s>> \in leaked' BY <2>9 DEF Leak
    <3>2. Known BY <1>0, <1>k, <2>4, <2>9, <3>1 DEF Known
    <3>3. Covered BY <1>0, <1>k, <2>4, <2>9 DEF Covered
    <3> QED BY <2>7, <3>2, <3>3
  <2> QED BY <2>2, <2>8, <2>9
<1> QED BY <1>5, <1>6, <1>7, <1>8, <1>9, <1>10, <1>11, <1>12, <1>13 DEF Step

-----------------------------------------------------------------------------
(* The bounds.                                                             *)

\* What the two bounds say of one scope.
ReservedBelow(s) == LiveTotal(s) = 0 \/ LiveTotal(s) < Limit[s] + MaxAmount

Capped(s) == (\A w \in Windows : <<w, s>> \notin open) => Bounded(s)

\* The numbers compared.
LEMMA Numbers ==
  ASSUME Store, NEW s \in Scopes, NEW q \in Requests
  PROVE  /\ LiveTotal(s) \in Nat /\ Exposure(s) \in Nat /\ committed[s] \in Nat
         /\ Limit[s] \in Nat /\ MaxAmount \in Nat /\ Amount[q] \in Nat /\ Amount[q] <= MaxAmount
         /\ Total(Live(s) \ billed) \in Nat /\ Total(Live(s) \ billed) <= LiveTotal(s)
<1>1. Live(s) \in SUBSET Requests /\ Live(s) \ billed \in SUBSET Requests
      /\ Live(s) \ billed \in SUBSET Live(s)
  BY DEF Live
<1>2. LiveTotal(s) \in Nat /\ Total(Live(s) \ billed) \in Nat
  BY <1>1, UnitsFinite DEF LiveTotal
<1>3. Total(Live(s) \ billed) <= LiveTotal(s) BY <1>1, TotalGrows DEF LiveTotal
<1>4. committed[s] \in Nat /\ Limit[s] \in Nat BY GateConstants DEF Store
<1> QED BY <1>2, <1>3, <1>4, MaxAmountBounds DEF Exposure

\* Fewer claims, or the same, on a scope whose spend does not change.
LEMMA FewerClaims ==
  ASSUME Store, Store', NEW s \in Scopes, NEW q \in Requests, ReservedBelow(s), Capped(s),
         Live(s)' \subseteq Live(s), committed'[s] = committed[s],
         billed \subseteq billed', open \subseteq open'
  PROVE  ReservedBelow(s)' /\ Capped(s)'
<1>1. /\ LiveTotal(s) \in Nat /\ Exposure(s) \in Nat /\ committed[s] \in Nat
      /\ Limit[s] \in Nat /\ MaxAmount \in Nat /\ Total(Live(s) \ billed) \in Nat
  BY Numbers
<1>2. Live(s) \in SUBSET Requests /\ Live(s) \ billed \in SUBSET Requests BY DEF Live
<1>3. Total(Live(s)') <= Total(Live(s)) /\ Total(Live(s)') \in Nat
  BY <1>2, TotalGrows, UnitsFinite
<1>4. Live(s)' \ billed' \in SUBSET (Live(s) \ billed) /\ Live(s)' \ billed' \in SUBSET Requests
  BY <1>2
<1>5. Total(Live(s)' \ billed') <= Total(Live(s) \ billed) /\ Total(Live(s)' \ billed') \in Nat
  BY <1>2, <1>4, TotalGrows, UnitsFinite
<1>6. LiveTotal(s)' = Total(Live(s)') BY DEF LiveTotal
<1>7. Exposure(s)' = committed[s] + Total(Live(s)' \ billed') BY DEF Exposure
<1>8. ReservedBelow(s)' BY <1>1, <1>3, <1>6 DEF ReservedBelow, LiveTotal
<1>9. Capped(s)'
  <2>1. Exposure(s)' <= Exposure(s) /\ Exposure(s)' \in Nat
    BY <1>1, <1>5, <1>7 DEF Exposure
  <2> SUFFICES ASSUME \A w \in Windows : <<w, s>> \notin open' PROVE Bounded(s)'
    BY DEF Capped
  <2>2. Bounded(s) BY DEF Capped
  <2> QED BY <1>1, <2>1, <2>2 DEF Bounded
<1> QED BY <1>8, <1>9

\* An admission: the store let it in below the limit, whatever it had read,
\* and unless that was out of date, below the limit in earnest.
LEMMA OneMoreClaim ==
  ASSUME Store, Store', NEW s \in Scopes, NEW q \in Requests, spent[q] \in Nat, Admits(q, s),
         Live(s)' \subseteq Live(s) \cup {q}, committed' = committed, billed' = billed,
         open' = OpenIfStale(q, s)
  PROVE  ReservedBelow(s)' /\ Capped(s)'
<1>1. /\ LiveTotal(s) \in Nat /\ committed[s] \in Nat /\ Limit[s] \in Nat
      /\ MaxAmount \in Nat /\ Amount[q] \in Nat /\ Amount[q] <= MaxAmount
      /\ Total(Live(s) \ billed) \in Nat /\ Total(Live(s) \ billed) <= LiveTotal(s)
  BY Numbers
<1>2. spent[q] + LiveTotal(s) < Limit[s] BY DEF Admits
<1>3. Live(s) \in SUBSET Requests /\ Live(s) \cup {q} \in SUBSET Requests
      /\ Live(s)' \in SUBSET (Live(s) \cup {q}) /\ Live(s)' \in SUBSET Requests
  BY DEF Live
<1>4. /\ Total(Live(s)') <= Total(Live(s) \cup {q}) /\ Total(Live(s)') \in Nat
      /\ Total(Live(s) \cup {q}) <= Total(Live(s)) + Amount[q]
      /\ Total(Live(s) \cup {q}) \in Nat
  BY <1>3, TotalGrows, TotalAdds, UnitsFinite
<1>5. LiveTotal(s)' = Total(Live(s)') BY DEF LiveTotal
<1>6. LiveTotal(s)' <= LiveTotal(s) + Amount[q]
  BY <1>1, <1>4, <1>5 DEF LiveTotal
<1>7. ReservedBelow(s)'
  BY <1>1, <1>2, <1>4, <1>5, <1>6 DEF ReservedBelow
<1>8. Capped(s)'
  <2> SUFFICES ASSUME \A w \in Windows : <<w, s>> \notin open' PROVE Bounded(s)'
    BY DEF Capped
  <2>1. spent[q] = committed[s] BY DEF OpenIfStale, Windows
  <2>2. Live(s)' \ billed \in SUBSET Live(s)' BY <1>3
  <2>3. Total(Live(s)' \ billed) <= Total(Live(s)') /\ Total(Live(s)' \ billed) \in Nat
    BY <1>3, <2>2, TotalGrows, UnitsFinite
  <2>4. Exposure(s)' = committed[s] + Total(Live(s)' \ billed) BY DEF Exposure
  <2>5. Exposure(s)' < Limit[s] + MaxAmount
    BY <1>1, <1>2, <1>4, <1>5, <1>6, <2>1, <2>3, <2>4
  <2> QED BY <2>5 DEF Bounded
<1> QED BY <1>7, <1>8

\* A settlement: what it adds to the spend it takes from what was reserved,
\* unless the claim was gone or too small, which a window records.
LEMMA Billed ==
  ASSUME Inv, Store', NEW s \in Scopes, NEW q \in Requests, Bill(q), open \subseteq open'
  PROVE  ReservedBelow(s)' /\ Capped(s)'
<1>0. Handlers /\ Store /\ Stages /\ ReservedBelow(s) /\ Capped(s)
  BY DEF Inv, ReservedBounded, CapHolds, ReservedBelow, Capped
<1>1. /\ todo[q] # <<>> /\ Head(todo[q]) \in {"bill", "bill_hit"}
      /\ claim' = claim /\ billed' = billed \cup {q}
      /\ committed'[s] = committed[s] + IF s \in ScopesOf(q) THEN cost[q] ELSE 0
      /\ open' = IF cost[q] > Amount[q]
                 THEN open \cup ({"underestimated"} \X ScopesOf(q)) ELSE open
  BY DEF Bill, Finishing
<1>2. Live(s)' = Live(s) BY <1>1 DEF Live
<1>3. CASE s \notin ScopesOf(q) \/ cost[q] = 0
  <2>1. committed[s] \in Nat BY <1>0 DEF Store
  <2>2. committed'[s] = committed[s] BY <1>1, <1>3, <2>1
  <2> QED BY <1>0, <1>1, <1>2, <2>2, FewerClaims
<1>4. CASE s \in ScopesOf(q) /\ cost[q] # 0
  <2>1. /\ LiveTotal(s) \in Nat /\ committed[s] \in Nat /\ Limit[s] \in Nat
        /\ MaxAmount \in Nat /\ Amount[q] \in Nat
    BY <1>0, Numbers
  <2>2. ReservedBelow(s)' BY <1>0, <1>2 DEF ReservedBelow, LiveTotal
  <2> SUFFICES ASSUME \A w \in Windows : <<w, s>> \notin open' PROVE Bounded(s)'
    BY <2>2 DEF Capped
  <2>3. cost[q] \in Nat /\ cost[q] <= Amount[q]
    <3>1. cost[q] \in Nat BY <1>0, GateConstants DEF Handlers
    <3>2. <<"underestimated", s>> \notin open' BY DEF Windows
    <3> QED BY <1>1, <1>4, <2>1, <3>1, <3>2
  <2>4. q \notin billed /\ claim[s][q] > 0
    <3>1. Stage(q, at[q], todo[q], held[q], cost[q], billed) BY <1>0 DEF Stages
    <3>2. /\ q \notin billed
          /\ (todo[q] = <<"bill", "release">> /\ held[q] = FullHeld(q)) \/ todo[q] = <<"bill">>
      BY <1>1, <1>4, <3>1, AtBill
    <3>3. <<"expired", s>> \notin open /\ <<"unbilled", s>> \notin open
      BY <1>1 DEF Windows
    <3>4. s \in HeldScopes(q)
      <4>1. CASE held[q] = FullHeld(q)
        BY <1>0, <1>4, <4>1, HeldInScopes, HeldSets
      <4>2. CASE todo[q] = <<"bill">>
        BY <1>4, <3>3, <4>2 DEF Inv, StreamsBillLater
      <4> QED BY <3>2, <4>1, <4>2
    <3> QED BY <3>2, <3>3, <3>4 DEF Inv, HeldIsClaimed
  <2>5. q \in Live(s) \ billed /\ Live(s) \ billed \in SUBSET Requests BY <2>4 DEF Live
  <2>6. Live(s)' \ billed' = (Live(s) \ billed) \ {q} BY <1>1, <1>2
  <2>7. Total(Live(s) \ billed) = Total((Live(s) \ billed) \ {q}) + Amount[q]
    BY <2>5, TotalSplits
  <2>8. Total((Live(s) \ billed) \ {q}) \in Nat BY <2>5, UnitsFinite
  <2>9. Exposure(s)' = committed[s] + cost[q] + Total((Live(s) \ billed) \ {q})
    BY <1>1, <1>4, <2>6 DEF Exposure
  <2>10. Exposure(s)' <= Exposure(s) /\ Exposure(s)' \in Nat /\ Exposure(s) \in Nat
    BY <2>1, <2>3, <2>7, <2>8, <2>9 DEF Exposure
  <2>11. Bounded(s) BY <1>0, <1>1 DEF Capped
  <2> QED BY <2>1, <2>10, <2>11 DEF Bounded
<1> QED BY <1>3, <1>4

\* Every step of a request keeps both bounds on every scope.
LEMMA BoundsStep ==
  ASSUME Inv, NEW q \in Requests, Step(q)
  PROVE  ReservedBounded' /\ CapHolds'
<1>0. /\ Handlers /\ Stages /\ Store /\ Store'
      /\ open \subseteq open' /\ billed \subseteq billed'
      /\ Stage(q, at[q], todo[q], held[q], cost[q], billed)
      /\ spent[q] \in Nat /\ CappedKeys \subseteq Scopes /\ Team \in Scopes
  BY StoreStep DEF Inv, Stages, Handlers, Scopes
<1> SUFFICES ASSUME NEW s \in Scopes PROVE ReservedBelow(s)' /\ Capped(s)'
  BY DEF ReservedBounded, CapHolds, ReservedBelow, Capped
<1>1. ReservedBelow(s) /\ Capped(s)
  BY DEF Inv, ReservedBounded, CapHolds, ReservedBelow, Capped
<1>2. ASSUME Live(s)' \subseteq Live(s), committed' = committed
      PROVE  ReservedBelow(s)' /\ Capped(s)'
  BY <1>0, <1>1, <1>2, FewerClaims
<1>3. ASSUME claim' = claim, committed' = committed
      PROVE  ReservedBelow(s)' /\ Capped(s)'
  BY <1>2, <1>3 DEF Live
<1>4. ASSUME NEW u \in Scopes, claim' = Reserved(q, u), Admits(q, u),
             open' = OpenIfStale(q, u), UNCHANGED <<committed, billed>>
      PROVE  ReservedBelow(s)' /\ Capped(s)'
  <2>1. CASE u = s
    <3>1. Live(s)' \subseteq Live(s) \cup {q} BY <1>0, <1>4, StoreWrites DEF Live
    <3> QED BY <1>0, <1>4, <2>1, <3>1, OneMoreClaim
  <2>2. CASE u # s
    <3>1. Live(s)' \subseteq Live(s) BY <1>0, <1>4, <2>2, StoreWrites DEF Live
    <3> QED BY <1>2, <1>4, <3>1
  <2> QED BY <2>1, <2>2
<1>5. CASE ReserveKey(q)
  <2>1. KeyOf[q] \in Scopes BY <1>0, <1>5 DEF ReserveKey, Stage
  <2> QED BY <1>3, <1>4, <1>5, <2>1 DEF ReserveKey
<1>6. CASE ReserveTeam(q) BY <1>0, <1>3, <1>4, <1>6 DEF ReserveTeam
<1>7. CASE GateFails(q)
  <2>1. at[q] = "key_gate" => KeyOf[q] \in Scopes BY <1>0 DEF Stage
  <2> QED BY <1>0, <1>3, <1>4, <1>7, <2>1 DEF GateFails
<1>8. CASE Bill(q) BY <1>0, <1>8, Billed
<1>9. CASE Release(q)
  <2>1. Head(held[q]) \in Scopes BY <1>0, <1>9, ReleaseScope DEF Release
  <2>2. CASE claim' = Released(q, Head(held[q]))
    <3>1. Live(s)' \subseteq Live(s)
      <4>1. \A p \in Requests : claim'[s][p] > 0 => claim'[s][p] = claim[s][p]
        BY <1>0, <2>1, <2>2, StoreWrites
      <4> QED BY <4>1 DEF Live
    <3> QED BY <1>2, <1>9, <3>1 DEF Release
  <2>3. CASE claim' = claim BY <1>3, <1>9, <2>3 DEF Release
  <2> QED BY <1>9, <2>2, <2>3 DEF Release
<1> QED BY <1>3, <1>5, <1>6, <1>7, <1>8, <1>9
    DEF Step, ReadKeySpend, ReadTeamSpend, CallEnds, CacheHit, CallFails, BillLost, Crash

\* Time passes: claims run out, and one that runs out on a call not billed yet
\* opens its window.
LEMMA TickStep ==
  ASSUME Inv, Tick
  PROVE  Inv'
<1>0. Handlers /\ Stages /\ Store /\ UNCHANGED <<at, spent, todo, held, cost, committed, billed>>
  BY DEF Inv, Tick
<1>1. Handlers' /\ Stages' BY <1>0 DEF Handlers, Stages
<1>2. ASSUME NEW s \in Scopes, NEW q \in Requests
      PROVE  /\ claim[s][q] \in Nat /\ claim'[s][q] \in 0..TTL
             /\ claim'[s][q] > 0 <=> claim[s][q] > 1
  BY <1>0, GateConstants DEF Store, Tick, Minus1
<1>3. claim' \in [Scopes -> [Requests -> 0..TTL]]
  <2>1. claim' = [s \in Scopes |-> [q \in Requests |-> claim'[s][q]]] BY DEF Tick
  <2> QED BY <1>2, <2>1
<1>4. Store' /\ open \subseteq open'
  BY <1>0, <1>3 DEF Store, Tick, Windows
<1>5. \A q \in Requests : HeldScopes(q)' = HeldScopes(q) /\ HeldScopes(q) \subseteq Scopes
  <2>1. \A q \in Requests : HeldScopes(q)' = HeldScopes(q) BY <1>0 DEF HeldScopes
  <2>2. \A q \in Requests : HeldScopes(q) \subseteq Scopes BY <1>0, HeldInScopes, HeldSets
  <2> QED BY <2>1, <2>2
<1>6. ClaimsKnown'
  <2> SUFFICES ASSUME NEW q \in Requests, NEW s \in Scopes, claim'[s][q] > 0
               PROVE  <<q, s>> \in leaked' \/ s \in HeldScopes(q)'
    BY DEF ClaimsKnown
  <2>1. claim[s][q] > 1 /\ claim[s][q] \in Nat BY <1>2
  <2>2. <<q, s>> \in leaked \/ s \in HeldScopes(q) BY <2>1 DEF Inv, ClaimsKnown
  <2> QED BY <1>5, <2>1, <2>2 DEF Tick
<1>7. HeldIsClaimed'
  <2> SUFFICES ASSUME NEW q \in Requests, NEW s \in HeldScopes(q)
               PROVE  claim'[s][q] > 0 \/ <<"expired", s>> \in open' \/ q \in billed'
    BY <1>5 DEF HeldIsClaimed
  <2>1. claim[s][q] > 0 \/ <<"expired", s>> \in open \/ q \in billed
    BY DEF Inv, HeldIsClaimed
  <2>2. at[q] # "over"
    <3>1. held[q] # <<>> BY <1>0, HeldInScopes, NoScopes
    <3> QED BY <1>0, <3>1 DEF Stages, Stage
  <2>3. s \in Scopes BY <1>5
  <2>4. CASE claim[s][q] = 1 /\ q \notin billed
    BY <2>2, <2>3, <2>4 DEF Tick
  <2>5. claim[s][q] \in Nat BY <1>2, <2>3
  <2> QED BY <1>0, <1>2, <1>4, <2>1, <2>3, <2>4, <2>5
<1>8. StreamsBillLater' BY <1>0, <1>4, <1>5 DEF Inv, StreamsBillLater
<1>9. ASSUME NEW s \in Scopes PROVE ReservedBelow(s)' /\ Capped(s)'
  <2>1. PICK q \in Requests : TRUE BY DEF Tick, Live
  <2>2. Live(s)' \subseteq Live(s) BY <1>2 DEF Live
  <2>3. ReservedBelow(s) /\ Capped(s)
    BY DEF Inv, ReservedBounded, CapHolds, ReservedBelow, Capped
  <2> QED BY <1>0, <1>4, <2>1, <2>2, <2>3, FewerClaims
<1>10. ReservedBounded' /\ CapHolds'
  BY <1>9 DEF ReservedBounded, CapHolds, ReservedBelow, Capped
<1> QED BY <1>1, <1>4, <1>6, <1>7, <1>8, <1>10 DEF Inv

-----------------------------------------------------------------------------
(* The gate.                                                               *)

\* Nothing is reserved and nothing spent.
LEMMA InitInv == Init => Inv
<1> SUFFICES ASSUME Init PROVE Inv
  OBVIOUS
<1> USE DEF Init
<1>1. Handlers BY GateConstants DEF Handlers
<1>2. TTL \in Nat /\ 0 \in 0..TTL BY GateConstants
<1>3. Store BY <1>2 DEF Store
<1>4. Stages BY DEF Stages, Stage
<1>5. \A q \in Requests : HeldScopes(q) = {} BY DEF HeldScopes
<1>6. ClaimsKnown /\ HeldIsClaimed
  BY <1>5 DEF ClaimsKnown, HeldIsClaimed
<1>7. StreamsBillLater BY Pairs, Singles DEF StreamsBillLater
<1>8. \A s \in Scopes : Live(s) = {} BY DEF Live
<1>9. Total({}) = 0 BY FS_EmptySet DEF Total, Units
<1>10. ReservedBounded BY <1>8, <1>9 DEF ReservedBounded, LiveTotal
<1>11. ASSUME NEW s \in Scopes PROVE Exposure(s) = 0
  <2>1. Live(s) \ billed = {} BY <1>8
  <2>2. committed[s] = 0 OBVIOUS
  <2>3. Exposure(s) = 0 + Total({}) BY <2>1, <2>2 DEF Exposure
  <2> QED BY <1>9, <2>3
<1>12. CapHolds BY <1>11 DEF CapHolds, Bounded
<1> QED BY <1>1, <1>3, <1>4, <1>6, <1>7, <1>10, <1>12 DEF Inv

\* Every step keeps the invariant.
LEMMA InvStep == Inv /\ [Next]_vars => Inv'
<1> SUFFICES ASSUME Inv, [Next]_vars PROVE Inv'
  OBVIOUS
<1>1. ASSUME NEW q \in Requests, Step(q) PROVE Inv'
  <2>1. Handlers /\ Stages /\ Store BY DEF Inv
  <2>2. Handlers' /\ Stages' /\ Store' BY <1>1, <2>1, HandlersStep, StoreStep
  <2>3. Claims' BY <1>1, ClaimsStep
  <2>4. ReservedBounded' /\ CapHolds' BY <1>1, BoundsStep
  <2> QED BY <2>2, <2>3, <2>4 DEF Inv, Claims
<1>2. CASE Tick BY <1>2, TickStep
<1>3. CASE UNCHANGED vars
  <2> USE DEF vars
  <2>1. Handlers' /\ Store' /\ Stages' BY <1>3 DEF Inv, Handlers, Stages, Store
  <2>2. ClaimsKnown' /\ HeldIsClaimed' /\ StreamsBillLater'
    BY <1>3 DEF Inv, ClaimsKnown, HeldIsClaimed, HeldScopes, StreamsBillLater
  <2>3. ReservedBounded' BY <1>3 DEF Inv, ReservedBounded, LiveTotal, Live
  <2>4. CapHolds' BY <1>3 DEF Inv, CapHolds, Bounded, Exposure, Live
  <2> QED BY <2>1, <2>2, <2>3, <2>4 DEF Inv
<1> QED BY <1>1, <1>2, <1>3 DEF Next

\* The inductive invariant of the spend gate.
THEOREM Invariant == Spec => []Inv
  BY InitInv, InvStep, PTL DEF Spec

\* The types of the handlers' lists follow from their stages.
LEMMA Types == ASSUME Inv PROVE TypeOK
<1>1. Handlers /\ Store /\ Stages BY DEF Inv
<1>2. ASSUME NEW q \in Requests
      PROVE  /\ at[q] \in {"new", "key_gate", "team_spend", "team_gate", "calling",
                           "finishing", "over"}
             /\ todo[q] \in Seq({"bill", "bill_hit", "release"})
             /\ held[q] \in Seq(Scopes)
  <2>1. Stage(q, at[q], todo[q], held[q], cost[q], billed) BY <1>1 DEF Stages
  <2>2. todo[q] \in Seq({"bill", "bill_hit", "release"})
    <3>1. /\ <<>> \in Seq({"bill", "bill_hit", "release"})
          /\ <<"bill">> \in Seq({"bill", "bill_hit", "release"})
          /\ <<"release">> \in Seq({"bill", "bill_hit", "release"})
          /\ <<"bill", "release">> \in Seq({"bill", "bill_hit", "release"})
          /\ <<"release", "bill">> \in Seq({"bill", "bill_hit", "release"})
          /\ <<"bill_hit", "release">> \in Seq({"bill", "bill_hit", "release"})
      OBVIOUS
    <3> QED BY <2>1, <3>1 DEF Stage
  <2>3. held[q] \in {<<>>, FullHeld(q), KeyHeld(q), <<Team>>} BY <2>1 DEF Stage
  <2>4. held[q] \in Seq(Scopes)
    <3>1. <<>> \in Seq(Scopes) /\ \A s \in Scopes : <<s>> \in Seq(Scopes) OBVIOUS
    <3>2. \A s, u \in Scopes : <<s, u>> \in Seq(Scopes) OBVIOUS
    <3>3. Team \in Scopes /\ (KeyOf[q] \in CappedKeys => KeyOf[q] \in Scopes) BY DEF Scopes
    <3>4. FullHeld(q) \in Seq(Scopes) /\ KeyHeld(q) \in Seq(Scopes)
      BY <3>1, <3>2, <3>3 DEF FullHeld, KeyHeld
    <3> QED BY <2>3, <3>1, <3>3, <3>4
  <2> QED BY <2>1, <2>2, <2>4 DEF Stage
<1>3. /\ at \in [Requests -> {"new", "key_gate", "team_spend", "team_gate", "calling",
                              "finishing", "over"}]
      /\ todo \in [Requests -> Seq({"bill", "bill_hit", "release"})]
      /\ held \in [Requests -> Seq(Scopes)]
  BY <1>1, <1>2 DEF Handlers
<1> QED BY <1>1, <1>3 DEF Handlers, Store, TypeOK

\* The reservation store keeps its promises to every request at once
\* (usage_meter.py 409-560, budget_reservation.py): what is reserved stays
\* below the limit plus one request, a request that is over holds only claims
\* whose release failed, whose reply was lost or whose handler was killed, and a
\* plain call is covered until billed.
THEOREM ClaimsCoverHolds == Spec => []ClaimsCover
<1>1. ASSUME Inv PROVE ClaimsCover
  <2>1. Handlers /\ Store /\ Stages BY <1>1 DEF Inv
  <2>2. NothingHeldWhenOver
    <3> SUFFICES ASSUME NEW q \in Requests, at[q] = "over", NEW s \in Scopes, claim[s][q] > 0
                 PROVE  <<q, s>> \in leaked
      BY DEF NothingHeldWhenOver
    <3>1. held[q] = <<>> BY <2>1 DEF Stages, Stage
    <3>2. HeldScopes(q) = {} BY <2>1, <3>1, HeldInScopes, NoScopes
    <3> QED BY <1>1, <3>2 DEF Inv, ClaimsKnown
  <2>3. CoveredUntilBilled
    <3> SUFFICES ASSUME NEW q \in Requests \ Streams, NEW s \in ScopesOf(q),
                        at[q] = "calling" \/ Finishing(q, "bill"), <<"expired", s>> \notin open
                 PROVE  claim[s][q] > 0
      BY DEF CoveredUntilBilled
    <3>1. Stage(q, at[q], todo[q], held[q], cost[q], billed) BY <2>1 DEF Stages
    <3>2. held[q] = FullHeld(q) /\ q \notin billed
      <4>1. CASE at[q] = "calling" BY <3>1, <4>1 DEF Stage
      <4>2. CASE Finishing(q, "bill")
        <5>1. todo[q] # <<>> /\ Head(todo[q]) = "bill" BY <4>2 DEF Finishing
        <5> QED BY <3>1, <5>1, AtBill
      <4> QED BY <4>1, <4>2
    <3>3. s \in HeldScopes(q) BY <2>1, <3>2, HeldInScopes, HeldSets
    <3> QED BY <1>1, <3>2, <3>3 DEF Inv, HeldIsClaimed
  <2> QED BY <1>1, <2>2, <2>3, Types DEF ClaimsCover, Inv
<1> QED BY <1>1, Invariant, PTL

\* The cap (usage_meter.py 452-546): unless a window was open on a scope, its
\* committed spend and outstanding reservations never pass the limit by a
\* whole request, however many requests pass the gate at once.
THEOREM CapHoldsHolds == Spec => []CapHolds
<1>1. Inv => CapHolds BY DEF Inv
<1> QED BY <1>1, Invariant, PTL

===============================================================================
