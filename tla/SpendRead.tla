------------------------------ MODULE SpendRead ------------------------------
(***************************************************************************)
(* The budget gate's read of the spend of a team (spend_since) or of a key *)
(* (key_spend_since) running beside UsageLedger: two SELECTs, the ledger's *)
(* sum first and the outbox's second, each with a snapshot of its own.     *)
(* The sums are kept as the sets of events they add up.                    *)
(***************************************************************************)
EXTENDS UsageLedger

VARIABLES
    gate,            \* per team: progress of the read
    owed,            \* history: spend on record when the read began
    readLedger,      \* events counted by the first SELECT
    readPending      \* events counted by the second SELECT

gateVars == <<gate, owed, readLedger, readPending>>
readVars == <<vars, gateVars>>

\* Mutant: the first SELECT already counts the outbox.
LedgerSum_WithOutbox(t) == Durable \cap EventsOf(t)

\* The rows each SELECT adds up: quarantined outbox rows are left out.
LedgerSum(t)  == ledger \cap EventsOf(t)
PendingSum(t) == Selectable \cap EventsOf(t)

ReadInit ==
    /\ Init
    /\ gate = [t \in Teams |-> "idle"]
    /\ owed = [t \in Teams |-> {}]
    /\ readLedger = [t \in Teams |-> {}]
    /\ readPending = [t \in Teams |-> {}]

SumLedger(t) ==
    /\ gate[t] = "idle"
    /\ gate' = [gate EXCEPT ![t] = "summing"]
    /\ owed' = [owed EXCEPT ![t] = (ledger \cup Selectable) \cap EventsOf(t)]
    /\ readLedger' = [readLedger EXCEPT ![t] = LedgerSum(t)]
    /\ UNCHANGED <<vars, readPending>>

SumPending(t) ==
    /\ gate[t] = "summing"
    /\ gate' = [gate EXCEPT ![t] = "read"]
    /\ readPending' = [readPending EXCEPT ![t] = PendingSum(t)]
    /\ UNCHANGED <<vars, owed, readLedger>>

\* The gate uses the sum (BudgetGate models how) and forgets it.
ReadDone(t) ==
    /\ gate[t] = "read"
    /\ gate' = [gate EXCEPT ![t] = "idle"]
    /\ owed' = [owed EXCEPT ![t] = {}]
    /\ readLedger' = [readLedger EXCEPT ![t] = {}]
    /\ readPending' = [readPending EXCEPT ![t] = {}]
    /\ UNCHANGED vars

ReadNext ==
    \/ Next /\ UNCHANGED gateVars
    \/ \E t \in Teams : SumLedger(t) \/ SumPending(t) \/ ReadDone(t)

ReadSpec == ReadInit /\ [][ReadNext]_readVars

-----------------------------------------------------------------------------
\* The ledger is summed before the outbox, so an event a reconciler moves
\* between the two SELECTs is not counted twice; only an event whose record()
\* commit was ambiguous is in both sums.
CountedTwiceOnlyIfAmbiguous ==
    \A t \in Teams : readLedger[t] \cap readPending[t] \subseteq ambiguous

\* An event the read misses although it was spent when the read began has
\* left the outbox meanwhile, or was quarantined there: the read never misses
\* what nobody touched.
MissedOnlyIfMoved ==
    \A t \in Teams : gate[t] = "read" =>
        \A e \in owed[t] \ (readLedger[t] \cup readPending[t]) :
            e \in ledger \/ e \notin pending \/ attempts[e] > 0

\* The sum a budget decision uses counts no charge twice and misses none, but for
\* an ambiguous commit and for rows the reconcilers touch between its SELECTs
\* (spend_since, usage_repository.py:246).
ReadsCountOnce == CountedTwiceOnlyIfAmbiguous /\ MissedOnlyIfMoved
=============================================================================
