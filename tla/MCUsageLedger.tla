---------------------------- MODULE MCUsageLedger ----------------------------
(* Small instances of UsageLedger for TLC.                                 *)
EXTENDS UsageLedger

CONSTANTS e1, e2, t1, r1, r2

\* All events of one team: the reconcilers contend for all of them.
OneTeam  == [e \in Events |-> t1]
=============================================================================
