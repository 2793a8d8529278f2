---------------------------- MODULE MCBudgetGate ----------------------------
(* Small instances of BudgetGate for TLC: two plain calls that share a     *)
(* capped key, and a stream on a key without a cap.                        *)
EXTENDS BudgetGate, TLC

CONSTANTS q1, q2, s1, k1, k2

MCKeyOf  == (q1 :> k1) @@ (q2 :> k1) @@ (s1 :> k2)
MCAmount == (q1 :> 1) @@ (q2 :> 2) @@ (s1 :> 2)
MCLimit  == (k1 :> 2) @@ (Team :> 3)

\* Counting units is summing amounts.
ASSUME TotalIsSum ==
    \A S \in SUBSET Requests : Total(S) = MapThenSumSet(LAMBDA q : Amount[q], S)
=============================================================================
