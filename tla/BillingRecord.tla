---------------------------- MODULE BillingRecord ----------------------------
(***************************************************************************)
(* What the billing subsystem promises: a set of billing records that only *)
(* grows, except that erasing a team removes the team's records.  A call is*)
(* acknowledged as settled only in the step that puts it on record (or     *)
(* after it).                                                              *)
(***************************************************************************)
CONSTANTS Events, Teams, TeamOf

VARIABLES
    recorded,        \* events on record, wherever they are kept
    acknowledged,    \* events whose settlement returned normally
    erased           \* teams whose data was removed

vars == <<recorded, acknowledged, erased>>

Init == recorded = {} /\ acknowledged = {} /\ erased = {}

\* The settlement returns and the event is on record.
Settle(e) ==
    /\ e \notin acknowledged
    /\ recorded' = recorded \cup {e}
    /\ acknowledged' = acknowledged \cup {e}
    /\ UNCHANGED erased

\* The event gets on record although its writer was told otherwise.
RecordUnacknowledged(e) ==
    /\ e \notin acknowledged
    /\ recorded' = recorded \cup {e}
    /\ UNCHANGED <<acknowledged, erased>>

Erase(t) ==
    /\ t \notin erased
    /\ recorded' = {e \in recorded : TeamOf[e] # t}
    /\ erased' = erased \cup {t}
    /\ UNCHANGED acknowledged

Next ==
    \/ \E e \in Events : Settle(e) \/ RecordUnacknowledged(e)
    \/ \E t \in Teams : Erase(t)

Spec == Init /\ [][Next]_vars

=============================================================================
