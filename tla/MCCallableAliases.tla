------------------------- MODULE MCCallableAliases -------------------------
(* Two teams, a model and a router, two requests in flight, and names chosen
   so that a declared name is also the alias the resolver would derive for
   another.  MCBound: the registry holds at most three rows. *)
EXTENDS CallableAliases
CONSTANTS t1, t2, m1, r1, p1, p2

MCNames == {<<"foo">>, <<"foo", "global">>}
MCBound == Cardinality(slots) <= 3
MCSymmetry == Permutations(Teams) \cup Permutations(Procs)
=============================================================================
