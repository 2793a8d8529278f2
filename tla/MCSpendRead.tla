----------------------------- MODULE MCSpendRead -----------------------------
(* A small instance of SpendRead for TLC.                                  *)
EXTENDS SpendRead, TLC

CONSTANTS e1, e2, t1, r1, r2

OneTeam == [e \in Events |-> t1]

Symmetry == Permutations(Reconcilers) \cup Permutations(Events)
=============================================================================
