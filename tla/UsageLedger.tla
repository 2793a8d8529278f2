----------------------------- MODULE UsageLedger -----------------------------
(***************************************************************************)
(* The billing ledger of the gateway: how one settled provider call becomes*)
(* a row of `usage_event`, directly or through the dead-letter outbox      *)
(* `pending_usage_event`, and how the reconcilers of several replicas and  *)
(* team deletion interleave with it (SpendRead adds the budget gate's read).*)
(*                                                                         *)
(* A database transaction is one step (READ COMMITTED: every statement of  *)
(* a multi-statement read is a step of its own).  A commit may fail, and   *)
(* may also take effect although the client sees an error.                 *)
(***************************************************************************)
EXTENDS Integers, FiniteSets

CONSTANTS
    Events,          \* billing events, one uuid4 per settled call
    Teams,           \* the teams the events are billed to
    TeamOf,          \* the team_id each event carries
    Reconcilers,     \* gateway replicas, each running the reconcile loop
    NoRow,           \* "no row in hand"
    MaxAttempts,     \* MAX_RECONCILE_ATTEMPTS
    BatchLimit       \* the `limit` of one reconcile_pending batch

ASSUME ConstantsOK ==
    /\ TeamOf \in [Events -> Teams]
    /\ NoRow \notin Events
    /\ MaxAttempts \in Nat \ {0}
    /\ BatchLimit \in Nat \ {0}

VARIABLES
    ledger,          \* usage_event: the ids that have a row
    pending,         \* pending_usage_event: the event_ids that have a row
    arrived,         \* created_at of each pending row (an arrival number)
    clock,           \* number of pending rows ever inserted
    attempts,        \* the attempts column of each pending row
    settle,          \* where UsageMeter._record_usage is, per event
    team,            \* lifecycle of each team row
    rpc,             \* where reconcile_pending is, per replica
    batch,           \* rows of the current batch not yet processed
    snap,            \* attempts of the batch rows as SELECTed
    row,             \* the row in hand
    found,           \* what session.get(UsageEventModel, event_id) said
    ambiguous        \* history: record() committed but raised

dbVars     == <<ledger, pending, arrived, clock, attempts>>
loopVars   == <<rpc, batch, snap, row, found>>
vars       == <<dbVars, settle, team, loopVars, ambiguous>>

EventsOf(t)  == {e \in Events : TeamOf[e] = t}
Exists(t)    == team[t] # "gone"
Durable      == ledger \cup pending
Quarantined(e) == attempts[e] >= MaxAttempts

-----------------------------------------------------------------------------
Init ==
    /\ ledger = {} /\ pending = {}
    /\ arrived = [e \in Events |-> 0] /\ clock = 0
    /\ attempts = [e \in Events |-> 0]
    /\ settle = [e \in Events |-> "calling"]
    /\ team = [t \in Teams |-> "live"]
    /\ rpc = [r \in Reconcilers |-> "idle"]
    /\ batch = [r \in Reconcilers |-> {}]
    /\ snap = [r \in Reconcilers |-> [e \in Events |-> 0]]
    /\ row = [r \in Reconcilers |-> NoRow]
    /\ found = [r \in Reconcilers |-> FALSE]
    /\ ambiguous = {}

-----------------------------------------------------------------------------
(* UsageMeter._record_usage.                                               *)

\* record() inserts the ledger row and commits.  usage_event.team_id is a
\* foreign key, so the insert fails once the team row is gone; it may also
\* fail for any transient reason, and a commit that reached the server may
\* still raise in the client.  Every failure goes on to the outbox.
Record(e) ==
    /\ settle[e] = "calling"
    /\ \/ /\ Exists(TeamOf[e])
          /\ ledger' = ledger \cup {e}
          /\ \/ /\ settle' = [settle EXCEPT ![e] = "settled"]
                /\ UNCHANGED ambiguous
             \/ /\ settle' = [settle EXCEPT ![e] = "record_failed"]
                /\ ambiguous' = ambiguous \cup {e}
       \/ /\ settle' = [settle EXCEPT ![e] = "record_failed"]
          /\ UNCHANGED <<ledger, ambiguous>>
    /\ UNCHANGED <<pending, arrived, clock, attempts, team, loopVars>>

\* Mutant: a failed outbox write is reported as settled.
EnqueuePending_Swallowed(e) ==
    /\ settle[e] = "record_failed"
    /\ \/ /\ pending' = pending \cup {e}
          /\ clock' = clock + 1
          /\ arrived' = [arrived EXCEPT ![e] = clock + 1]
          /\ attempts' = [attempts EXCEPT ![e] = 0]
       \/ UNCHANGED <<pending, clock, arrived, attempts>>
    /\ settle' = [settle EXCEPT ![e] = "settled"]
    /\ UNCHANGED <<ledger, team, loopVars, ambiguous>>

\* enqueue_pending(): rollback, insert the dead-letter row, commit.  The
\* outbox has no foreign key.  When it raises (even if the commit took effect)
\* the event is logged as dropped.
EnqueuePending(e) ==
    /\ settle[e] = "record_failed"
    /\ \/ /\ pending' = pending \cup {e}
          /\ clock' = clock + 1
          /\ arrived' = [arrived EXCEPT ![e] = clock + 1]
          /\ attempts' = [attempts EXCEPT ![e] = 0]
          /\ \/ settle' = [settle EXCEPT ![e] = "settled"]
             \/ settle' = [settle EXCEPT ![e] = "dropped"]
       \/ /\ settle' = [settle EXCEPT ![e] = "dropped"]
          /\ UNCHANGED <<pending, clock, arrived, attempts>>
    /\ UNCHANGED <<ledger, team, loopVars, ambiguous>>

\* A crash of the replica, or a cancellation (a BaseException, which neither
\* `except Exception` catches), before the settlement finished.
AbortSettlement(e) ==
    /\ settle[e] \in {"calling", "record_failed"}
    /\ settle' = [settle EXCEPT ![e] = "aborted"]
    /\ UNCHANGED <<dbVars, team, loopVars, ambiguous>>

-----------------------------------------------------------------------------
(* reconcile_pending, run by the loop of every replica with no lock.       *)

Selectable == {e \in pending : ~Quarantined(e)}

\* The oldest BatchLimit rows that are still selectable.
Oldest ==
    {e \in Selectable :
        Cardinality({f \in Selectable : arrived[f] < arrived[e]}) < BatchLimit}

SelectBatch(r) ==
    /\ rpc[r] = "idle"
    /\ Oldest # {}
    /\ batch' = [batch EXCEPT ![r] = Oldest]
    /\ snap' = [snap EXCEPT ![r] = [e \in Events |->
                                      IF e \in Oldest THEN attempts[e] ELSE 0]]
    /\ rpc' = [rpc EXCEPT ![r] = "row"]
    /\ UNCHANGED <<dbVars, settle, team, row, found, ambiguous>>

\* The next row of the batch, oldest first, and the idempotence check.
CheckRow(r) ==
    /\ rpc[r] = "row"
    /\ \E e \in batch[r] :
        /\ \A f \in batch[r] : arrived[e] <= arrived[f]
        /\ row' = [row EXCEPT ![r] = e]
        /\ found' = [found EXCEPT ![r] = e \in ledger]
        /\ batch' = [batch EXCEPT ![r] = @ \ {e}]
    /\ rpc' = [rpc EXCEPT ![r] = "commit"]
    /\ UNCHANGED <<dbVars, settle, team, snap, ambiguous>>

\* After a commit or a rollback the batch goes on with its next row, or ends:
\* it is exhausted, or reading the next (expired) ORM row raises outside the
\* `try`, which the loop logs and the next cycle picks up.
EndBatch(r) ==
    /\ rpc' = [rpc EXCEPT ![r] = "idle"]
    /\ batch' = [batch EXCEPT ![r] = {}]
    /\ snap' = [snap EXCEPT ![r] = [e \in Events |-> 0]]

NextRow(r) ==
    /\ \/ /\ batch[r] # {}
          /\ rpc' = [rpc EXCEPT ![r] = "row"]
          /\ UNCHANGED <<batch, snap>>
       \/ EndBatch(r)
    /\ row' = [row EXCEPT ![r] = NoRow]
    /\ found' = [found EXCEPT ![r] = FALSE]

\* The insert half of the transaction is valid: either it was skipped, or the
\* foreign key resolves and no other replica inserted the primary key since.
InsertValid(r) ==
    found[r] \/ (Exists(TeamOf[row[r]]) /\ row[r] \notin ledger)

\* insert-if-absent and delete, in one transaction.
MoveRow(r) ==
    /\ ledger' = IF found[r] THEN ledger ELSE ledger \cup {row[r]}
    /\ pending' = pending \ {row[r]}

CommitRow(r) ==
    /\ rpc[r] = "commit"
    /\ InsertValid(r)
    /\ MoveRow(r)
    /\ NextRow(r)
    /\ UNCHANGED <<arrived, clock, attempts, settle, team, ambiguous>>

\* Mutant: the failing row is dropped instead of rolled back.
FailRow_Drops(r) ==
    /\ rpc[r] = "commit"
    /\ pending' = pending \ {row[r]}
    /\ rpc' = [rpc EXCEPT ![r] = "mark"]
    /\ UNCHANGED <<ledger, arrived, clock, attempts, settle, team, batch, snap,
                   row, found, ambiguous>>

\* The transaction fails (conflict, foreign key or transient error), or takes
\* effect and the commit raises all the same.
FailRow(r) ==
    /\ rpc[r] = "commit"
    /\ \/ InsertValid(r) /\ MoveRow(r)
       \/ UNCHANGED <<ledger, pending>>
    /\ rpc' = [rpc EXCEPT ![r] = "mark"]
    /\ UNCHANGED <<arrived, clock, attempts, settle, team, batch, snap, row,
                   found, ambiguous>>

\* Mutant: the attempt is not counted.
MarkFailedAttempt_NoCount(r) ==
    /\ rpc[r] = "mark"
    /\ attempts' = IF row[r] \in pending
                      THEN [attempts EXCEPT ![row[r]] = snap[r][row[r]]]
                      ELSE attempts
    /\ NextRow(r)
    /\ UNCHANGED <<ledger, pending, arrived, clock, settle, team, ambiguous>>

\* _mark_failed_attempt: an unconditional UPDATE of the row's attempts to the
\* SELECTed value plus one.
MarkFailedAttempt(r) ==
    /\ rpc[r] = "mark"
    /\ attempts' = IF row[r] \in pending
                      THEN [attempts EXCEPT ![row[r]] = snap[r][row[r]] + 1]
                      ELSE attempts
    /\ NextRow(r)
    /\ UNCHANGED <<ledger, pending, arrived, clock, settle, team, ambiguous>>

\* The bookkeeping itself fails: logged, the row stays selectable.
MarkFails(r) ==
    /\ rpc[r] = "mark"
    /\ NextRow(r)
    /\ UNCHANGED <<dbVars, settle, team, ambiguous>>

\* The replica stops, or the SELECT or rollback raises; the loop (or the
\* restarted replica) begins a new cycle.
CycleAborts(r) ==
    /\ rpc[r] # "idle"
    /\ EndBatch(r)
    /\ row' = [row EXCEPT ![r] = NoRow]
    /\ found' = [found EXCEPT ![r] = FALSE]
    /\ UNCHANGED <<dbVars, settle, team, ambiguous>>

-----------------------------------------------------------------------------
(* TeamService.delete_team and purge_team.                                 *)

\* Mutant: the outbox, which has no foreign key, is forgotten.
EraseTeam_LeavesOutbox(t) ==
    /\ ledger' = ledger \ EventsOf(t)
    /\ team' = [team EXCEPT ![t] = "gone"]
    /\ UNCHANGED <<pending, arrived, clock, attempts, settle, loopVars,
                   ambiguous>>

\* SQLAlchemyTeamRepository.delete: every row of the team, then the team.
EraseTeam(t) ==
    /\ ledger' = ledger \ EventsOf(t)
    /\ pending' = pending \ EventsOf(t)
    /\ team' = [team EXCEPT ![t] = "gone"]
    /\ UNCHANGED <<arrived, clock, attempts, settle, loopVars, ambiguous>>

HasBilledHistory(t) == Durable \cap EventsOf(t) # {}

\* delete_team up to has_billed_history: a team with history is tombstoned.
\* lock_for_lifecycle serialises lifecycle operations of the team, but does
\* not conflict with the foreign-key lock of a usage_event insert.
DeleteTeam(t) ==
    /\ team[t] = "live"
    /\ team' = [team EXCEPT ![t] = IF HasBilledHistory(t) THEN "tombstoned"
                                                          ELSE "deleting"]
    /\ UNCHANGED <<dbVars, settle, loopVars, ambiguous>>

\* ... and from there on, for a team found without history.
HardDeleteTeam(t) ==
    /\ team[t] = "deleting"
    /\ EraseTeam(t)

\* The unit of work rolls back (TeamNotEmpty).
DeleteRollsBack(t) ==
    /\ team[t] = "deleting"
    /\ team' = [team EXCEPT ![t] = "live"]
    /\ UNCHANGED <<dbVars, settle, loopVars, ambiguous>>

PurgeTeam(t) ==
    /\ team[t] = "tombstoned"
    /\ EraseTeam(t)

-----------------------------------------------------------------------------
Settlement(e) == Record(e) \/ EnqueuePending(e) \/ AbortSettlement(e)

Reconcile(r) ==
    \/ SelectBatch(r) \/ CheckRow(r) \/ CommitRow(r) \/ FailRow(r)
    \/ MarkFailedAttempt(r) \/ MarkFails(r) \/ CycleAborts(r)

Lifecycle(t) ==
    \/ DeleteTeam(t) \/ HardDeleteTeam(t) \/ DeleteRollsBack(t) \/ PurgeTeam(t)

Next ==
    \/ \E e \in Events : Settlement(e)
    \/ \E r \in Reconcilers : Reconcile(r)
    \/ \E t \in Teams : Lifecycle(t)

Spec == Init /\ [][Next]_vars

\* Every replica's loop wakes up again after each cycle (a 60 s sleep), so its
\* steps are retried for ever.  Aborted cycles and failed bookkeeping may
\* recur, but not every single time: hence strong fairness.
Fairness ==
    \A r \in Reconcilers :
        /\ WF_vars(SelectBatch(r))
        /\ SF_vars(CheckRow(r))
        /\ SF_vars(CommitRow(r) \/ FailRow(r))
        /\ SF_vars(MarkFailedAttempt(r))

FairSpec == Spec /\ Fairness

-----------------------------------------------------------------------------
(* Properties.                                                             *)

DbTypeOK ==
    /\ ledger \subseteq Events
    /\ pending \subseteq Events
    /\ arrived \in [Events -> Nat]
    /\ clock \in Nat
    /\ attempts \in [Events -> 0..MaxAttempts]
    /\ ambiguous \subseteq Events

FlowTypeOK ==
    /\ settle \in [Events -> {"calling", "record_failed", "settled", "dropped",
                             "aborted"}]
    /\ team \in [Teams -> {"live", "deleting", "tombstoned", "gone"}]

LoopTypeOK ==
    /\ rpc \in [Reconcilers -> {"idle", "row", "commit", "mark"}]
    /\ batch \in [Reconcilers -> SUBSET Events]
    /\ snap \in [Reconcilers -> [Events -> 0..MaxAttempts]]
    /\ row \in [Reconcilers -> Events \cup {NoRow}]
    /\ found \in [Reconcilers -> BOOLEAN]

\* The attempts column stays within its bound, and every variable has its type.
TypeOK == DbTypeOK /\ FlowTypeOK /\ LoopTypeOK

\* A settlement that returned normally left a billing record behind, in the
\* ledger or in the outbox, whatever failed on the way and whatever the
\* reconcilers of all replicas have done since; only erasing the team takes
\* it away.  (_record_usage: "it must not vanish either".)
SettledIsDurable ==
    \A e \in Events :
        settle[e] = "settled" /\ Exists(TeamOf[e]) => e \in Durable

\* No step but the one that erases its team removes an event from both tables: a
\* lost reconcile race, a failed or ambiguous commit, a crash in mid-cycle or
\* a quarantine never drops a billing record.
NeverLost ==
    [][\A e \in Durable : \/ e \in Durable'
                          \/ Exists(TeamOf[e]) /\ ~Exists(TeamOf[e])']_vars

\* Only a commit that took effect although record() raised puts an event into
\* both tables; no reconciler race, retry or crash ever does.
TwiceOnlyIfAmbiguous == ledger \cap pending \subseteq ambiguous

\* A settled call is on record, and in one table only unless its commit was
\* ambiguous (_record_usage, usage_meter.py:843).
RecordedOnce == SettledIsDurable /\ TwiceOnlyIfAmbiguous

-----------------------------------------------------------------------------
(* The inductive invariant behind the properties above.                    *)

\* The rows a reconciler still has in its batch or in hand.
Held(r) == batch[r] \cup ({row[r]} \cap Events)

\* A held row was selected below the attempts bound.
HeldBelowBound ==
    \A r \in Reconcilers : \A e \in Held(r) : snap[r][e] < MaxAttempts

\* A reconciler past its idempotence check has a row in hand.
RowInHand ==
    \A r \in Reconcilers : rpc[r] \in {"commit", "mark"} => row[r] \in Events

\* A reconciler between cycles or between rows has none.
IdleHandsEmpty ==
    \A r \in Reconcilers : rpc[r] \in {"idle", "row"} => row[r] = NoRow

\* Only a settlement that is over has rows in the outbox or in a batch, so no
\* event is enqueued twice.
OutboxIsSettled ==
    \A e \in Events :
        e \in pending \/ (\E r \in Reconcilers : e \in Held(r))
            => settle[e] \in {"settled", "dropped"}

\* An event a reconciler holds is still on record, unless its team is gone: an
\* insert made from a stale row resurrects nothing.
HeldRowsAreDurable ==
    \A r \in Reconcilers : \A e \in Held(r) :
        Exists(TeamOf[e]) => e \in Durable

\* A row the idempotence check found in the ledger is still there, or its team
\* was erased and took the outbox row with it: deleting it loses nothing.
FoundIsRecorded ==
    \A r \in Reconcilers : found[r] =>
        /\ row[r] \in Events
        /\ \/ row[r] \in ledger
           \/ ~Exists(TeamOf[row[r]]) /\ row[r] \notin pending

\* The foreign key of usage_event.
LedgerHasTeam == \A e \in ledger : Exists(TeamOf[e])

\* An event in the ledger whose settlement does not know it yet.
UnknownIsAmbiguous ==
    \A e \in ledger : /\ settle[e] # "calling"
                      /\ settle[e] = "record_failed" => e \in ambiguous

\* No reconciler, at any point of its batch and whatever the others and the
\* lifecycle operations have done since its SELECT, holds a row that it could
\* use to lose, duplicate or resurrect a billing record.
LedgerInv ==
    /\ HeldBelowBound /\ RowInHand /\ IdleHandsEmpty
    /\ OutboxIsSettled /\ HeldRowsAreDurable
    /\ FoundIsRecorded /\ LedgerHasTeam /\ UnknownIsAmbiguous

-----------------------------------------------------------------------------
\* Convergence: the outbox is eventually drained, except for rows that stay
\* quarantined; a poison row (its team is gone) cannot starve the others.
OutboxConverges ==
    <>[](\A e \in pending : Quarantined(e))

\* The two tables together implement one abstract set of billing records.
Abstract == INSTANCE BillingRecord WITH
    recorded <- Durable,
    acknowledged <- {e \in Events : settle[e] = "settled"},
    erased <- {t \in Teams : team[t] = "gone"}

\* UsageLedger implements BillingRecord: outbox, reconcilers and retries are
\* invisible to a client that only asks whether a settled call is on record.
RefinesBillingRecord == Abstract!Spec

=============================================================================
