----------------------------- MODULE AlertOutbox -----------------------------
(***************************************************************************)
(* Delivery of budget alerts: settlements queue an alert in the outbox     *)
(* table pending_budget_alert, and the dispatcher loop of every replica    *)
(* drains it without a lock.  A dispatcher claims a row with a conditional *)
(* UPDATE before it sends; the claim is a lease that runs out.             *)
(*                                                                         *)
(* Alerts are numbered in the order of their created_at.  Times are        *)
(* relative to the present: a row has the time left to claimed_until, a    *)
(* dispatcher the age of the `now` it read when it selected its batch.     *)
(***************************************************************************)
EXTENDS Integers, FiniteSets, FiniteSetsExt

CONSTANTS
    Dispatchers,     \* the replicas' dispatcher loops
    MaxAlerts,       \* bound: alerts that are ever fired
    Unroutable,      \* alerts whose team resolves to no channel
    MaxAttempts,     \* MAX_DISPATCH_ATTEMPTS
    BatchLimit,      \* _DISPATCH_BATCH
    Lease,           \* DISPATCH_LEASE_SECONDS, in ticks
    MaxAge           \* bound: how long one batch may take

Alerts == 1..MaxAlerts

ASSUME OutboxConstants ==
    /\ MaxAlerts \in Nat
    /\ Unroutable \subseteq Alerts
    /\ MaxAttempts \in Nat \ {0}
    /\ BatchLimit \in Nat \ {0}
    /\ Lease \in Nat
    /\ MaxAge \in Nat /\ MaxAge > Lease

VARIABLES
    fired,           \* number of alerts recorded as fired so far
    pending,         \* rows of the outbox
    attempts,        \* their `attempts` column
    lease,           \* their claimed_until: time left, Free when none
    at,              \* the next step of each dispatcher
    batch,           \* rows its batch has left; the oldest is the current one
    snap,            \* the `attempts` it read with the batch
    age,             \* time since it read `now`
    sends,           \* history: complete deliveries of an alert (2 = several)
    disowned,        \* history: alerts whose owner lost the claim under way
    retried,         \* history: alerts sent without their row being deleted
    erased           \* history: alerts whose row went with its team

vars == <<fired, pending, attempts, lease, at, batch, snap, age,
          sends, disowned, retried, erased>>

\* No claim, or one that ran out before any batch under way began: the two
\* are the same to `claimed_until IS NULL OR claimed_until < now`.
Free == -(MaxAge + 1)

\* claimed_until < now, for a `now` read n ticks ago.
Claimable(a, n) == lease[a] + n < 0

Current(d) == Min(batch[d])

\* The rows a dispatcher works on: from its claim to the end of that row.
Owns(d, a) == at[d] \in {"send", "delete", "mark", "release"} /\ Current(d) = a

Owners(a) == {d \in Dispatchers : Owns(d, a)}

-----------------------------------------------------------------------------
Init ==
    /\ fired = 0
    /\ pending = {}
    /\ attempts = [a \in Alerts |-> 0]
    /\ lease = [a \in Alerts |-> Free]
    /\ at = [d \in Dispatchers |-> "idle"]
    /\ batch = [d \in Dispatchers |-> {}]
    /\ snap = [d \in Dispatchers |-> [a \in Alerts |-> 0]]
    /\ age = [d \in Dispatchers |-> 0]
    /\ sends = [a \in Alerts |-> 0]
    /\ disowned = {}
    /\ retried = {}
    /\ erased = {}

\* record_fired_and_enqueue: the dedup row and the outbox row in one commit.
\* (A conflict or an error leaves neither.)
RecordFiredAndEnqueue ==
    /\ fired < MaxAlerts
    /\ fired' = fired + 1
    /\ pending' = pending \cup {fired + 1}
    /\ UNCHANGED <<attempts, lease, at, batch, snap, age, sends, disowned, retried, erased>>

-----------------------------------------------------------------------------
(* dispatch_pending                                                        *)

\* Not quarantined, and not claimed at `now`.
Selectable == {a \in pending : attempts[a] < MaxAttempts /\ Claimable(a, 0)}

\* The oldest BatchLimit of them.
OldestFirst == {a \in Selectable : Cardinality({b \in Selectable : b < a}) < BatchLimit}

SelectBatch(d) ==
    /\ at[d] = "idle"
    /\ OldestFirst # {}
    /\ batch' = [batch EXCEPT ![d] = OldestFirst]
    /\ snap' = [snap EXCEPT ![d] =
                   [a \in Alerts |-> IF a \in OldestFirst THEN attempts[a] ELSE 0]]
    /\ at' = [at EXCEPT ![d] = "claim"]
    /\ UNCHANGED <<fired, pending, attempts, lease, age, sends, disowned, retried, erased>>

\* Dispatcher d is done with its current row; after the last one it sleeps.
NextRow(d) ==
    LET rest == batch[d] \ {Current(d)} IN
    /\ batch' = [batch EXCEPT ![d] = rest]
    /\ snap' = [snap EXCEPT ![d][Current(d)] = 0]
    /\ at' = [at EXCEPT ![d] = IF rest = {} THEN "idle" ELSE "claim"]
    /\ age' = [age EXCEPT ![d] = IF rest = {} THEN 0 ELSE @]

\* Mutant: the claim is not conditional on the row or its lease.
ClaimMatches_Always(d) == TRUE

\* The WHERE of _claim: the row is still there and nobody's claim is live.
ClaimMatches(d) == Current(d) \in pending /\ Claimable(Current(d), age[d])

\* The SET of _claim: the lease runs from the batch's `now`.
Claimed(d) == [lease EXCEPT ![Current(d)] = Lease - age[d]]

\* _claim: an atomic compare-and-swap; the loser goes on to its next row.  Late
\* in a long batch the lease is over when it is granted.
Claim(d) ==
    /\ at[d] = "claim"
    /\ IF ClaimMatches(d)
         THEN /\ lease' = Claimed(d)
              /\ at' = [at EXCEPT ![d] = "send"]
              /\ disowned' = IF age[d] > Lease THEN disowned \cup {Current(d)}
                                              ELSE disowned
              /\ UNCHANGED <<batch, snap, age>>
         ELSE NextRow(d) /\ UNCHANGED <<lease, disowned>>
    /\ UNCHANGED <<fired, pending, attempts, sends, retried, erased>>

\* The claim raises, its commit having taken effect or not; either way the
\* row is skipped.
ClaimFails(d) ==
    /\ at[d] = "claim"
    /\ \/ UNCHANGED lease
       \/ ClaimMatches(d) /\ lease' = Claimed(d)
    /\ NextRow(d)
    /\ UNCHANGED <<fired, pending, attempts, sends, disowned, retried, erased>>

Goto(d, l) == at' = [at EXCEPT ![d] = l]

\* Every resolved channel took the alert.
Send(d) ==
    /\ at[d] = "send" /\ Current(d) \notin Unroutable
    /\ sends' = [sends EXCEPT ![Current(d)] = IF @ < 2 THEN @ + 1 ELSE 2]
    /\ Goto(d, "delete")
    /\ UNCHANGED <<fired, pending, attempts, lease, batch, snap, age, disowned, retried, erased>>

\* Mutant: sending through no channel at all passes for a delivery.
NoChannels_Delivers(d) ==
    /\ at[d] = "send" /\ Current(d) \in Unroutable \cup erased
    /\ Goto(d, "delete")
    /\ UNCHANGED <<fired, pending, attempts, lease, batch, snap, age,
                   sends, disowned, retried, erased>>

\* The team resolves to no channel; or it is gone, and its budget with it.
NoChannels(d) ==
    /\ at[d] = "send" /\ Current(d) \in Unroutable \cup erased
    /\ Goto(d, "release")
    /\ UNCHANGED <<fired, pending, attempts, lease, batch, snap, age,
                   sends, disowned, retried, erased>>

\* Resolving raises, or a channel does (others may have delivered).
SendFails(d) ==
    /\ at[d] = "send"
    /\ Goto(d, "mark")
    /\ UNCHANGED <<fired, pending, attempts, lease, batch, snap, age,
                   sends, disowned, retried, erased>>

\* DELETE by id.
RowGone(a) ==
    /\ pending' = pending \ {a}
    /\ attempts' = [attempts EXCEPT ![a] = 0]
    /\ lease' = [lease EXCEPT ![a] = Free]

\* Mutant: the DELETE is not committed before the next row begins.
Delete_NoCommit(d) ==
    /\ at[d] = "delete"
    /\ NextRow(d)
    /\ UNCHANGED <<fired, pending, attempts, lease, sends, disowned, retried, erased>>

\* The alert was sent.
Delete(d) ==
    /\ at[d] = "delete"
    /\ RowGone(Current(d))
    /\ NextRow(d)
    /\ UNCHANGED <<fired, sends, disowned, retried, erased>>

\* The DELETE or its commit raises: the row stays although it was sent, or is
\* gone all the same.
DeleteFails(d) ==
    /\ at[d] = "delete"
    /\ Goto(d, "mark")
    /\ \/ retried' = retried \cup {Current(d)} /\ UNCHANGED <<pending, attempts, lease>>
       \/ RowGone(Current(d)) /\ UNCHANGED retried
    /\ UNCHANGED <<fired, batch, snap, age, sends, disowned, erased>>

\* UPDATE of a row that is still there.
Updated(f, a, v) == IF a \in pending THEN [f EXCEPT ![a] = v] ELSE f

\* Mutant: the attempt is not counted.
MarkFailedAttempt_NoCount(d) ==
    /\ at[d] = "mark"
    /\ lease' = Updated(lease, Current(d), Free)
    /\ NextRow(d)
    /\ UNCHANGED <<fired, pending, attempts, sends, disowned, retried, erased>>

\* _mark_failed_attempt: the count read with the batch, plus one; the claim is
\* cleared, whoever holds it by now.
MarkFailedAttempt(d) ==
    /\ at[d] = "mark"
    /\ attempts' = Updated(attempts, Current(d), snap[d][Current(d)] + 1)
    /\ lease' = Updated(lease, Current(d), Free)
    /\ NextRow(d)
    /\ UNCHANGED <<fired, pending, sends, disowned, retried, erased>>

\* _release_claim, without counting an attempt.
ReleaseClaim(d) ==
    /\ at[d] = "release"
    /\ lease' = Updated(lease, Current(d), Free)
    /\ NextRow(d)
    /\ UNCHANGED <<fired, pending, attempts, sends, disowned, retried, erased>>

\* The bookkeeping of either raises: logged, the row keeps its lease.
BookkeepingFails(d) ==
    /\ at[d] \in {"mark", "release"}
    /\ NextRow(d)
    /\ UNCHANGED <<fired, pending, attempts, lease, sends, disowned, retried, erased>>

\* The replica dies or shuts down, or the batch raises: its claim stays.
Stop(d) ==
    /\ at[d] # "idle"
    /\ batch' = [batch EXCEPT ![d] = {}]
    /\ snap' = [snap EXCEPT ![d] = [a \in Alerts |-> 0]]
    /\ at' = [at EXCEPT ![d] = "idle"]
    /\ age' = [age EXCEPT ![d] = 0]
    /\ retried' = IF at[d] = "delete" THEN retried \cup {Current(d)} ELSE retried
    /\ UNCHANGED <<fired, pending, attempts, lease, sends, disowned, erased>>

-----------------------------------------------------------------------------
Quarantined(a) == a \in pending /\ attempts[a] >= MaxAttempts

\* An operator replays a quarantined alert.
Requeue(a) ==
    /\ Quarantined(a)
    /\ attempts' = [attempts EXCEPT ![a] = 0]
    /\ lease' = [lease EXCEPT ![a] = Free]
    /\ disowned' = IF Owners(a) = {} THEN disowned ELSE disowned \cup {a}
    /\ UNCHANGED <<fired, pending, at, batch, snap, age, sends, retried, erased>>

\* Deleting a team deletes its rows, whoever works on them.
EraseTeam(a) ==
    /\ a \in pending
    /\ RowGone(a)
    /\ erased' = erased \cup {a}
    /\ UNCHANGED <<fired, at, batch, snap, age, sends, disowned, retried>>

\* Time passes; an owner that is still at work when its lease ends is not the
\* owner any more.
Tick ==
    /\ \A d \in Dispatchers : age[d] < MaxAge
    /\ \E a \in Alerts : lease[a] > Free
    /\ age' = [d \in Dispatchers |-> IF at[d] = "idle" THEN 0 ELSE age[d] + 1]
    /\ lease' = [a \in Alerts |-> IF lease[a] > Free THEN lease[a] - 1 ELSE Free]
    /\ disowned' = disowned \cup
           {a \in Alerts : \E d \in Dispatchers : Owns(d, a) /\ age[d] >= Lease}
    /\ UNCHANGED <<fired, pending, attempts, at, batch, snap, sends, retried, erased>>

Step(d) ==
    \/ SelectBatch(d) \/ Claim(d) \/ ClaimFails(d)
    \/ Send(d) \/ NoChannels(d) \/ SendFails(d)
    \/ Delete(d) \/ DeleteFails(d)
    \/ MarkFailedAttempt(d) \/ ReleaseClaim(d) \/ BookkeepingFails(d)
    \/ Stop(d)

Next ==
    \/ RecordFiredAndEnqueue
    \/ \E d \in Dispatchers : Step(d)
    \/ \E a \in Alerts : Requeue(a) \/ EraseTeam(a)
    \/ Tick

Spec == Init /\ [][Next]_vars

\* Time passes, the loops wake up, and what a dispatcher waits for (the
\* database, a channel with its timeout) comes to an end.
Fairness == WF_vars(Tick) /\ \A d \in Dispatchers : WF_vars(Step(d))

FairSpec == Spec /\ Fairness

-----------------------------------------------------------------------------
(* Properties.                                                             *)

TypeOK ==
    /\ fired \in 0..MaxAlerts
    /\ pending \subseteq 1..fired
    /\ attempts \in [Alerts -> 0..MaxAttempts]
    /\ lease \in [Alerts -> Free..Lease]
    /\ at \in [Dispatchers -> {"idle", "claim", "send", "delete", "mark", "release"}]
    /\ batch \in [Dispatchers -> SUBSET Alerts]
    /\ \A d \in Dispatchers : at[d] = "idle" <=> batch[d] = {}
    /\ snap \in [Dispatchers -> [Alerts -> 0..(MaxAttempts - 1)]]
    /\ age \in [Dispatchers -> 0..MaxAge]
    /\ sends \in [Alerts -> 0..2]
    /\ disowned \subseteq Alerts
    /\ retried \subseteq Alerts
    /\ erased \subseteq Alerts

\* "Of two replicas racing the same alert exactly one delivers it"
\* (budget_alert_reconciler.py 15-16): two dispatchers work on the same row
\* only after one of them outlived its lease, which counts from the start of
\* its batch, or an operator requeued the row in its hands.
OneOwner == \A a \in Alerts \ disowned : \A d, e \in Owners(a) : d = e

\* An alert is delivered again only if an earlier delivery could not delete
\* its row, or its owner lost the claim: a dispatcher with an old batch does
\* not send what another one has sent and deleted meanwhile.
DeliveredOnce == \A a \in Alerts : sends[a] > 1 => a \in retried \cup disowned

\* At least once: a fired alert leaves the outbox only when it has been
\* delivered to all its channels, or with its team.
GoneOnlyIfSent == \A a \in (1..fired) \ (pending \cup erased) : sends[a] > 0

\* A database error or a stopped replica; or an operator at work.
Disturbance ==
    \/ \E d \in Dispatchers :
          ClaimFails(d) \/ DeleteFails(d) \/ BookkeepingFails(d) \/ Stop(d)
    \/ \E a \in Alerts : Requeue(a)

\* Once the disturbances are over, every queued alert that can be delivered is
\* delivered or quarantined, whatever claims and stale counts were left
\* behind, and whatever the channels answer; alerts without a channel do not
\* block it while a batch has room for others.
OutboxDrains ==
    <>[][~Disturbance]_vars
    => <>[](\A a \in pending \ Unroutable : attempts[a] >= MaxAttempts)
=============================================================================
