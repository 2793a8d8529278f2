----------------------------- MODULE MCFailover -----------------------------
(* Two buffered requests and a stream over two candidates, each falling    *)
(* back on the other's first choice.                                       *)
EXTENDS Failover, TLC

CONSTANTS q1, q2, q3, m1, m2

MCRequests == {q1, q2, q3}
MCStreams == {q3}
MCTimed == {q1, q3}
MCCandidates == {m1, m2}
MCChain == q1 :> <<m1, m2>> @@ q2 :> <<m1, m2>> @@ q3 :> <<m2, m1>>
=============================================================================
