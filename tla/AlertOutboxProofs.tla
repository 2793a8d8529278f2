------------------------- MODULE AlertOutboxProofs -------------------------
(***************************************************************************)
(* What AlertOutbox guarantees for any dispatchers, alerts, batch limit,   *)
(* lease and attempt bound.  That a row has one owner rests on the time    *)
(* the owner's lease has left (LeaseIsAge); that it is delivered once rests*)
(* on one owner.                                                           *)
(***************************************************************************)
EXTENDS AlertOutbox, TLAPS

Working == {"send", "delete", "mark", "release"}

\* A dispatcher works on a row that was fired.
CurrentIsFired ==
    \A d \in Dispatchers : at[d] \in Working => Current(d) \in 1..fired

\* The lease of a row in undisturbed hands ends when its owner's batch is
\* Lease old, and has not ended yet.
LeaseIsAge ==
    \A a \in pending \ disowned : \A d \in Owners(a) :
        age[d] <= Lease /\ lease[a] = Lease - age[d]

\* Only fired alerts are sent, and a row about to be deleted was sent.
SentBeforeDelete ==
    /\ \A a \in Alerts : a > fired => sends[a] = 0
    /\ \A d \in Dispatchers : at[d] = "delete" => sends[Current(d)] > 0

Undisturbed == Alerts \ (retried \cup disowned)

\* Nobody is about to send an undisturbed row that was sent before; once sent
\* it is queued only until its owner deletes it.
SentIsDeleted ==
    \A a \in Undisturbed :
        /\ \A d \in Owners(a) : at[d] = "send" => sends[a] = 0
        /\ a \in pending /\ sends[a] > 0 => \E d \in Owners(a) : at[d] = "delete"

Inv ==
    /\ TypeOK /\ CurrentIsFired
    /\ LeaseIsAge /\ OneOwner
    /\ SentBeforeDelete /\ GoneOnlyIfSent
    /\ SentIsDeleted /\ DeliveredOnce

-----------------------------------------------------------------------------
(* Facts about single steps.                                               *)

\* The arithmetic the constants give.
LEMMA Bounds ==
  /\ Free \in Int /\ Free < 0 /\ Lease \in Nat /\ Free \in Free..Lease
  /\ MaxAge \in Nat /\ MaxAlerts \in Nat /\ MaxAttempts \in Nat /\ MaxAttempts > 0
  /\ \A n \in 0..MaxAge : Lease - n \in Free..Lease
  BY OutboxConstants DEF Free

\* The outbox holds alerts.
LEMMA FiredAreAlerts ==
  ASSUME TypeOK PROVE (1..fired) \subseteq Alerts /\ pending \subseteq Alerts
<1>1. fired \in Int /\ fired <= MaxAlerts /\ pending \subseteq 1..fired
  BY Bounds DEF TypeOK
<1> QED BY <1>1, Bounds DEF Alerts

\* A step of one dispatcher leaves the others where they are.
LEMMA OthersStay ==
  ASSUME TypeOK, NEW d \in Dispatchers, Step(d), NEW e \in Dispatchers, e # d
  PROVE  /\ at'[e] = at[e] /\ batch'[e] = batch[e] /\ age'[e] = age[e]
         /\ Current(e)' = Current(e)
<1>1. at'[e] = at[e] /\ batch'[e] = batch[e] /\ age'[e] = age[e]
  <2>1. CASE SelectBatch(d) BY <2>1 DEF SelectBatch, TypeOK
  <2>2. CASE Claim(d) BY <2>2 DEF Claim, NextRow, TypeOK
  <2>3. CASE ClaimFails(d) BY <2>3 DEF ClaimFails, NextRow, TypeOK
  <2>4. CASE Send(d) BY <2>4 DEF Send, Goto, TypeOK
  <2>5. CASE NoChannels(d) BY <2>5 DEF NoChannels, Goto, TypeOK
  <2>6. CASE SendFails(d) BY <2>6 DEF SendFails, Goto, TypeOK
  <2>7. CASE Delete(d) BY <2>7 DEF Delete, NextRow, TypeOK
  <2>8. CASE DeleteFails(d) BY <2>8 DEF DeleteFails, Goto, TypeOK
  <2>9. CASE MarkFailedAttempt(d) BY <2>9 DEF MarkFailedAttempt, NextRow, TypeOK
  <2>10. CASE ReleaseClaim(d) BY <2>10 DEF ReleaseClaim, NextRow, TypeOK
  <2>11. CASE BookkeepingFails(d) BY <2>11 DEF BookkeepingFails, NextRow, TypeOK
  <2>12. CASE Stop(d) BY <2>12 DEF Stop, TypeOK
  <2> QED BY <2>1, <2>2, <2>3, <2>4, <2>5, <2>6, <2>7, <2>8, <2>9, <2>10, <2>11, <2>12
          DEF Step
<1> QED BY <1>1 DEF Current

\* After NextRow the dispatcher works on no row, and its data stay typed.
LEMMA NextRowEnds ==
  ASSUME TypeOK, NEW d \in Dispatchers, NextRow(d)
  PROVE  /\ at'[d] \notin Working
         /\ at' \in [Dispatchers -> {"idle", "claim", "send", "delete", "mark", "release"}]
         /\ batch' \in [Dispatchers -> SUBSET Alerts]
         /\ \A e \in Dispatchers : at'[e] = "idle" <=> batch'[e] = {}
         /\ snap' \in [Dispatchers -> [Alerts -> 0..(MaxAttempts - 1)]]
         /\ age' \in [Dispatchers -> 0..MaxAge]
<1>1. at'[d] \notin Working
  BY DEF TypeOK, NextRow, Working
<1>2. at' \in [Dispatchers -> {"idle", "claim", "send", "delete", "mark", "release"}]
  BY DEF TypeOK, NextRow
<1>3. batch' \in [Dispatchers -> SUBSET Alerts]
  BY DEF TypeOK, NextRow
<1>4. \A e \in Dispatchers : at'[e] = "idle" <=> batch'[e] = {}
  BY DEF TypeOK, NextRow
<1>5. snap' \in [Dispatchers -> [Alerts -> 0..(MaxAttempts - 1)]]
  <2> DEFINE s == [snap[d] EXCEPT ![Current(d)] = 0]
  <2>1. snap[d] \in [Alerts -> 0..(MaxAttempts - 1)] /\ 0 \in 0..(MaxAttempts - 1)
    BY Bounds DEF TypeOK
  <2>2. s \in [Alerts -> 0..(MaxAttempts - 1)]
    BY <2>1
  <2>3. snap' = [snap EXCEPT ![d] = s]
    BY DEF NextRow
  <2> HIDE DEF s
  <2> QED BY <2>2, <2>3 DEF TypeOK
<1>6. age' \in [Dispatchers -> 0..MaxAge]
  BY Bounds DEF TypeOK, NextRow
<1> QED BY <1>1, <1>2, <1>3, <1>4, <1>5, <1>6

\* A row that is claimed, or could have been, is in nobody's undisturbed
\* hands.
LEMMA ClaimedWasFree ==
  ASSUME TypeOK, LeaseIsAge, NEW d \in Dispatchers, ClaimMatches(d),
         Current(d) \notin disowned
  PROVE  Current(d) \in Alerts /\ Owners(Current(d)) = {}
<1>1. Current(d) \in Alerts
  BY FiredAreAlerts DEF ClaimMatches
<1>2. SUFFICES ASSUME NEW e \in Owners(Current(d)) PROVE FALSE
  BY <1>1
<1>3. age[e] <= Lease /\ lease[Current(d)] = Lease - age[e]
  BY <1>2 DEF ClaimMatches, LeaseIsAge
<1>4. age[e] \in Nat /\ age[d] \in Nat
  BY <1>2, Bounds DEF TypeOK, Owners
<1> QED BY <1>3, <1>4, Bounds DEF ClaimMatches, Claimable

\* Some dispatcher is in nobody's way: owners other than the one that moves
\* are owners before and after.
LEMMA OwnersStay ==
  ASSUME TypeOK, NEW d \in Dispatchers, Step(d), NEW e \in Dispatchers, e # d, NEW a
  PROVE  /\ Owns(e, a)' <=> Owns(e, a)
         /\ at'[e] = at[e] /\ age'[e] = age[e]
  BY OthersStay DEF Owns

\* What the end of a row's treatment does to the owners.
LEMMA NextRowLeaves ==
  ASSUME TypeOK, NEW d \in Dispatchers, NextRow(d), NEW a
  PROVE  ~Owns(d, a)'
  BY NextRowEnds DEF Owns, Working

-----------------------------------------------------------------------------
(* Type correctness.                                                       *)

\* Every step keeps the types, and a dispatcher on a row that was fired.
LEMMA TypeStep ==
  ASSUME TypeOK, CurrentIsFired, Next
  PROVE  TypeOK' /\ CurrentIsFired'
<1> USE Bounds
<1>0. (1..fired) \subseteq Alerts /\ pending \subseteq Alerts
  BY FiredAreAlerts
<1>5. ASSUME NEW a, RowGone(a)
      PROVE  /\ pending' \subseteq pending /\ attempts' \in [Alerts -> 0..MaxAttempts]
             /\ lease' \in [Alerts -> Free..Lease]
  <2>1. 0 \in 0..MaxAttempts
    OBVIOUS
  <2> QED BY <1>5, <2>1 DEF RowGone, TypeOK
<1>1. CASE RecordFiredAndEnqueue
  <2>1. fired' \in 0..MaxAlerts /\ pending' \subseteq 1..fired'
    BY <1>1 DEF RecordFiredAndEnqueue, TypeOK
  <2>2. TypeOK'
    BY <1>1, <2>1 DEF RecordFiredAndEnqueue, TypeOK
  <2>3. CurrentIsFired'
    BY <1>1 DEF RecordFiredAndEnqueue, TypeOK, CurrentIsFired, Current
  <2> QED BY <2>2, <2>3
<1>2. ASSUME NEW d \in Dispatchers, Step(d) PROVE TypeOK' /\ CurrentIsFired'
  <2>0. \A e \in Dispatchers : e # d => at'[e] = at[e] /\ Current(e)' = Current(e)
    BY <1>2, OthersStay
  <2>1. CASE SelectBatch(d)
    <3>0. \A a \in Alerts : attempts[a] \in 0..MaxAttempts
      BY DEF TypeOK
    <3>1. OldestFirst \subseteq Alerts /\ \A a \in OldestFirst : attempts[a] \in 0..(MaxAttempts - 1)
      <4>1. Selectable \subseteq Alerts /\ \A a \in Selectable : attempts[a] < MaxAttempts
        BY <1>0 DEF Selectable
      <4>2. OldestFirst \subseteq Selectable
        BY DEF OldestFirst
      <4> QED BY <3>0, <4>1, <4>2
    <3>2. [a \in Alerts |-> IF a \in OldestFirst THEN attempts[a] ELSE 0]
             \in [Alerts -> 0..(MaxAttempts - 1)]
      BY <3>1
    <3>3. snap' \in [Dispatchers -> [Alerts -> 0..(MaxAttempts - 1)]]
      BY <2>1, <3>2 DEF SelectBatch, TypeOK
    <3>4. /\ batch' \in [Dispatchers -> SUBSET Alerts]
          /\ \A e \in Dispatchers : at'[e] = "idle" <=> batch'[e] = {}
          /\ at' \in [Dispatchers -> {"idle", "claim", "send", "delete", "mark", "release"}]
      BY <2>1, <3>1 DEF SelectBatch, TypeOK
    <3>5. TypeOK'
      BY <2>1, <3>3, <3>4 DEF SelectBatch, TypeOK
    <3>6. CurrentIsFired'
      BY <2>0, <2>1 DEF SelectBatch, TypeOK, CurrentIsFired, Working
    <3> QED BY <3>5, <3>6
  <2>2. CASE Claim(d) /\ ClaimMatches(d)
    <3>1. Current(d) \in 1..fired
      BY <2>2 DEF ClaimMatches, TypeOK
    <3>2. Lease - age[d] \in Free..Lease
      BY DEF TypeOK
    <3>3. lease' \in [Alerts -> Free..Lease]
      BY <2>2, <3>2 DEF Claim, Claimed, TypeOK
    <3>4. /\ disowned' \subseteq Alerts
          /\ at' \in [Dispatchers -> {"idle", "claim", "send", "delete", "mark", "release"}]
          /\ \A e \in Dispatchers : at'[e] = "idle" <=> batch'[e] = {}
      <4>1. disowned' \subseteq disowned \cup {Current(d)}
        BY <2>2 DEF Claim
      <4>2. disowned' \subseteq Alerts
        BY <1>0, <3>1, <4>1 DEF TypeOK
      <4>3. at' = [at EXCEPT ![d] = "send"] /\ batch' = batch /\ at[d] = "claim"
        BY <2>2 DEF Claim
      <4>4. at' \in [Dispatchers -> {"idle", "claim", "send", "delete", "mark", "release"}]
        BY <4>3 DEF TypeOK
      <4>5. \A e \in Dispatchers : at'[e] = "idle" <=> batch'[e] = {}
        BY <4>3 DEF TypeOK
      <4> QED BY <4>2, <4>4, <4>5
    <3>5. TypeOK'
      BY <2>2, <3>3, <3>4 DEF Claim, TypeOK
    <3>6. Current(d)' = Current(d) /\ fired' = fired
      BY <2>2 DEF Claim, Current
    <3>7. CurrentIsFired'
      BY <2>0, <3>1, <3>6 DEF CurrentIsFired
    <3> QED BY <3>5, <3>7
  <2>3. ASSUME NextRow(d), fired' = fired, pending' \subseteq pending,
               attempts' \in [Alerts -> 0..MaxAttempts], lease' \in [Alerts -> Free..Lease],
               UNCHANGED <<sends, disowned, retried, erased>>
        PROVE  TypeOK' /\ CurrentIsFired'
    <3>1. TypeOK'
      BY <2>3, NextRowEnds DEF TypeOK
    <3>2. CurrentIsFired'
      BY <2>0, <2>3, NextRowEnds DEF CurrentIsFired
    <3> QED BY <3>1, <3>2
  <2>4. CASE Claim(d) /\ ~ClaimMatches(d)
    BY <2>3, <2>4 DEF Claim, TypeOK
  <2>5. CASE ClaimFails(d)
    <3>1. Lease - age[d] \in Free..Lease
      BY DEF TypeOK
    <3>2. lease' \in [Alerts -> Free..Lease]
      BY <2>5, <3>1 DEF ClaimFails, Claimed, TypeOK
    <3> QED BY <2>3, <2>5, <3>2 DEF ClaimFails, TypeOK
  <2>6. ASSUME at[d] \in Working, NEW l \in Working, Goto(d, l),
               UNCHANGED <<fired, batch, snap, age, disowned, erased>>,
               pending' \subseteq pending, attempts' \in [Alerts -> 0..MaxAttempts],
               lease' \in [Alerts -> Free..Lease],
               sends' \in [Alerts -> 0..2], retried' \subseteq Alerts
        PROVE  TypeOK' /\ CurrentIsFired'
    <3>1. /\ at' \in [Dispatchers -> {"idle", "claim", "send", "delete", "mark", "release"}]
          /\ \A e \in Dispatchers : at'[e] = "idle" <=> batch'[e] = {}
      BY <2>6 DEF Goto, TypeOK, Working
    <3>2. TypeOK'
      BY <2>6, <3>1 DEF TypeOK
    <3>3. Current(d)' = Current(d)
      BY <2>6 DEF Current
    <3>4. CurrentIsFired'
      BY <2>0, <2>6, <3>3 DEF CurrentIsFired
    <3> QED BY <3>2, <3>4
  <2>7. CASE Send(d)
    <3>0. Current(d) \in Alerts
      BY <1>0, <2>7 DEF Send, CurrentIsFired, Working
    <3>1. sends' \in [Alerts -> 0..2]
      <4> DEFINE n == IF sends[Current(d)] < 2 THEN sends[Current(d)] + 1 ELSE 2
      <4>1. n \in 0..2
        BY <3>0 DEF TypeOK
      <4>2. sends' = [sends EXCEPT ![Current(d)] = n]
        BY <2>7 DEF Send
      <4> HIDE DEF n
      <4> QED BY <4>1, <4>2 DEF TypeOK
    <3> QED BY <2>6, <2>7, <3>1 DEF Send, TypeOK, Working
  <2>8. CASE NoChannels(d) \/ SendFails(d)
    BY <2>6, <2>8 DEF NoChannels, SendFails, TypeOK, Working
  <2>9. CASE Delete(d)
    BY <1>5, <2>3, <2>9 DEF Delete
  <2>10. CASE DeleteFails(d)
    <3>1. retried' \subseteq Alerts
      <4>1. Current(d) \in Alerts
        BY <1>0, <2>10 DEF DeleteFails, CurrentIsFired, Working
      <4>2. retried' \subseteq retried \cup {Current(d)}
        BY <2>10 DEF DeleteFails
      <4> QED BY <4>1, <4>2 DEF TypeOK
    <3>2. /\ pending' \subseteq pending /\ attempts' \in [Alerts -> 0..MaxAttempts]
          /\ lease' \in [Alerts -> Free..Lease]
      BY <1>5, <2>10 DEF DeleteFails, TypeOK
    <3>3. sends' \in [Alerts -> 0..2]
      BY <2>10 DEF DeleteFails, TypeOK
    <3> QED BY <2>6, <2>10, <3>1, <3>2, <3>3 DEF DeleteFails, Working
  <2>11. lease \in [Alerts -> Free..Lease] /\ Updated(lease, Current(d), Free) \in [Alerts -> Free..Lease]
    BY DEF Updated, TypeOK
  <2>12. CASE MarkFailedAttempt(d)
    <3>1. Current(d) \in Alerts
      BY <1>0, <2>12 DEF MarkFailedAttempt, CurrentIsFired, Working
    <3>2. snap[d][Current(d)] + 1 \in 0..MaxAttempts
      BY <3>1 DEF TypeOK
    <3>3. attempts' \in [Alerts -> 0..MaxAttempts]
      BY <2>12, <3>2 DEF MarkFailedAttempt, Updated, TypeOK
    <3> QED BY <2>3, <2>11, <2>12, <3>3 DEF MarkFailedAttempt
  <2>13. CASE ReleaseClaim(d)
    BY <2>3, <2>11, <2>13 DEF ReleaseClaim, TypeOK
  <2>14. CASE BookkeepingFails(d)
    BY <2>3, <2>14 DEF BookkeepingFails, TypeOK
  <2>15. CASE Stop(d)
    <3>1. retried' \subseteq Alerts
      BY <1>0, <2>15 DEF Stop, TypeOK, CurrentIsFired, Working
    <3>2. snap' \in [Dispatchers -> [Alerts -> 0..(MaxAttempts - 1)]]
      <4>1. [a \in Alerts |-> 0] \in [Alerts -> 0..(MaxAttempts - 1)]
        OBVIOUS
      <4> QED BY <2>15, <4>1 DEF Stop, TypeOK
    <3>3. /\ batch' \in [Dispatchers -> SUBSET Alerts]
          /\ at' \in [Dispatchers -> {"idle", "claim", "send", "delete", "mark", "release"}]
          /\ \A e \in Dispatchers : at'[e] = "idle" <=> batch'[e] = {}
          /\ age' \in [Dispatchers -> 0..MaxAge]
      BY <2>15 DEF Stop, TypeOK
    <3>4. TypeOK'
      BY <2>15, <3>1, <3>2, <3>3 DEF Stop, TypeOK
    <3>5. CurrentIsFired'
      BY <2>0, <2>15 DEF Stop, TypeOK, CurrentIsFired, Working
    <3> QED BY <3>4, <3>5
  <2> QED BY <1>2, <2>1, <2>2, <2>4, <2>5, <2>7, <2>8, <2>9, <2>10, <2>12, <2>13, <2>14,
             <2>15 DEF Step
<1>3. ASSUME NEW a \in Alerts, Requeue(a) PROVE TypeOK' /\ CurrentIsFired'
  <2>1. TypeOK'
    BY <1>3 DEF Requeue, TypeOK
  <2>2. CurrentIsFired'
    BY <1>3 DEF Requeue, CurrentIsFired, Current
  <2> QED BY <2>1, <2>2
<1>6. ASSUME NEW a \in Alerts, EraseTeam(a) PROVE TypeOK' /\ CurrentIsFired'
  <2>1. TypeOK'
    BY <1>5, <1>6 DEF EraseTeam, TypeOK
  <2>2. CurrentIsFired'
    BY <1>6 DEF EraseTeam, CurrentIsFired, Current
  <2> QED BY <2>1, <2>2
<1>4. CASE Tick
  <2>1. age' \in [Dispatchers -> 0..MaxAge]
    BY <1>4 DEF Tick, TypeOK
  <2>2. lease' \in [Alerts -> Free..Lease]
    BY <1>4 DEF Tick, TypeOK
  <2>3. TypeOK'
    BY <1>4, <2>1, <2>2 DEF Tick, TypeOK
  <2>4. CurrentIsFired'
    BY <1>4 DEF Tick, CurrentIsFired, Current
  <2> QED BY <2>3, <2>4
<1> QED BY <1>1, <1>2, <1>3, <1>4, <1>6 DEF Next

-----------------------------------------------------------------------------
(* One owner.                                                              *)

\* If nobody new owns an undisturbed row, and neither its lease nor its
\* owner's age moves, nothing changes.
LEMMA OwnersKept ==
  ASSUME LeaseIsAge, OneOwner, disowned \subseteq disowned',
         \A a \in Alerts \ disowned' : Owners(a)' \subseteq Owners(a),
         \A a \in pending' \ disowned' : \A e \in Owners(a)' :
            a \in pending /\ e \in Owners(a) /\ age'[e] = age[e] /\ lease'[a] = lease[a]
  PROVE  LeaseIsAge' /\ OneOwner'
<1>1. LeaseIsAge'
  BY DEF LeaseIsAge
<1>2. OneOwner'
  BY DEF OneOwner
<1> QED BY <1>1, <1>2

\* No step of anybody gives an undisturbed row two owners.
LEMMA OwnerStep ==
  ASSUME TypeOK, CurrentIsFired, LeaseIsAge, OneOwner, Next
  PROVE  LeaseIsAge' /\ OneOwner'
<1>1. CASE RecordFiredAndEnqueue
  <2>1. \A a \in Alerts : Owners(a)' = Owners(a)
    BY <1>1 DEF RecordFiredAndEnqueue, Owners, Owns, Current
  <2>2. fired \in Nat /\ fired + 1 \in Alerts /\ pending' = pending \cup {fired + 1}
    BY <1>1, Bounds DEF RecordFiredAndEnqueue, TypeOK, Alerts
  <2>3. Owners(fired + 1) = {}
    BY <2>2 DEF CurrentIsFired, Owners, Owns, Working
  <2>4. pending \subseteq Alerts
    BY FiredAreAlerts
  <2>5. UNCHANGED <<lease, age, disowned>>
    BY <1>1 DEF RecordFiredAndEnqueue
  <2> QED BY <2>1, <2>2, <2>3, <2>4, <2>5, OwnersKept
<1>2. ASSUME NEW d \in Dispatchers, Step(d) PROVE LeaseIsAge' /\ OneOwner'
  <2>0. \A e \in Dispatchers : e # d =>
          /\ \A a \in Alerts : Owns(e, a)' <=> Owns(e, a)
          /\ age'[e] = age[e]
    BY <1>2, OwnersStay
  <2>1. ASSUME \A a \in Alerts : ~Owns(d, a)', disowned' = disowned, pending' \subseteq pending,
               \A a \in Alerts \ disowned : \A e \in Owners(a) :
                  e # d => lease'[a] = lease[a]
        PROVE  LeaseIsAge' /\ OneOwner'
    <3>1. ASSUME NEW a \in Alerts \ disowned, NEW e \in Owners(a)'
          PROVE  e \in Owners(a) /\ age'[e] = age[e] /\ lease'[a] = lease[a]
      <4>1. e \in Dispatchers /\ Owns(e, a)'
        BY <3>1 DEF Owners
      <4>2. e # d
        BY <2>1, <4>1
      <4>3. e \in Owners(a)
        BY <2>0, <4>1, <4>2 DEF Owners
      <4> QED BY <2>0, <2>1, <4>1, <4>2, <4>3
    <3>2. pending' \subseteq Alerts
      BY <2>1, FiredAreAlerts
    <3> QED BY <2>1, <3>1, <3>2, OwnersKept
  <2>2. ASSUME at[d] \in Working, UNCHANGED <<batch, age, disowned>>, pending' \subseteq pending,
               \A a \in pending' : lease'[a] = lease[a]
        PROVE  LeaseIsAge' /\ OneOwner'
    <3>1. \A a \in Alerts : Owns(d, a)' => Owns(d, a)
      BY <2>2 DEF Owns, Working, Current
    <3>2. \A a \in Alerts : Owners(a)' \subseteq Owners(a)
      BY <2>0, <3>1 DEF Owners
    <3>3. pending' \subseteq Alerts
      BY <2>2, FiredAreAlerts
    <3> QED BY <2>2, <3>2, <3>3, OwnersKept
  <2>3. CASE SelectBatch(d)
    <3>1. \A a \in Alerts : ~Owns(d, a)'
      BY <2>3 DEF SelectBatch, Owns, TypeOK
    <3> QED BY <2>1, <2>3, <3>1 DEF SelectBatch
  <2>4. CASE Claim(d) /\ ClaimMatches(d)
    <3>0. PICK c \in Alerts : c = Current(d)
      BY <2>4, FiredAreAlerts DEF ClaimMatches
    <3>1. Current(d)' = c
      BY <2>4, <3>0 DEF Claim, Current
    <3>2. lease' = [lease EXCEPT ![c] = Lease - age[d]] /\ age' = age
      BY <2>4, <3>0 DEF Claim, Claimed
    <3>3. disowned \subseteq disowned' /\ (c \notin disowned' => age[d] <= Lease)
      BY <2>4, <3>0, Bounds DEF Claim, TypeOK
    <3>4. \A a \in Alerts : a # c => Owners(a)' \subseteq Owners(a)
      BY <2>0, <3>1 DEF Owners, Owns
    <3>5. c \notin disowned' => Owners(c)' \subseteq {d}
      <4> HAVE c \notin disowned'
      <4>1. c \notin disowned
        BY <3>3
      <4>2. Owners(c) = {}
        BY <2>4, <3>0, <4>1, ClaimedWasFree
      <4>3. ASSUME NEW e \in Dispatchers, e # d PROVE ~Owns(e, c)'
        <5>1. ~Owns(e, c)
          BY <4>2 DEF Owners
        <5> QED BY <2>0, <3>1, <4>3, <5>1
      <4> QED BY <4>3 DEF Owners
    <3>6. \A a \in Alerts : lease'[a] = IF a = c THEN Lease - age[d] ELSE lease[a]
      BY <3>2 DEF TypeOK
    <3>7. LeaseIsAge'
      <4> SUFFICES ASSUME NEW a \in pending' \ disowned', NEW e \in Owners(a)'
                   PROVE  age'[e] <= Lease /\ lease'[a] = Lease - age'[e]
        BY DEF LeaseIsAge
      <4>0. a \in pending /\ a \in Alerts
        BY <2>4, FiredAreAlerts DEF Claim
      <4>1. CASE a = c BY <3>1, <3>2, <3>3, <3>5, <3>6, <4>1
      <4>2. CASE a # c
        <5>1. a \in pending \ disowned /\ e \in Owners(a)
          BY <3>3, <3>4, <4>0, <4>2
        <5>2. age[e] <= Lease /\ lease[a] = Lease - age[e]
          BY <5>1 DEF LeaseIsAge
        <5> QED BY <3>2, <3>6, <4>0, <4>2, <5>2
      <4> QED BY <4>1, <4>2
    <3>8. OneOwner'
      <4> SUFFICES ASSUME NEW a \in Alerts \ disowned', NEW e \in Owners(a)', NEW g \in Owners(a)'
                   PROVE  e = g
        BY DEF OneOwner
      <4>1. CASE a = c BY <3>5, <4>1
      <4>2. CASE a # c
        <5>1. a \in Alerts \ disowned /\ e \in Owners(a) /\ g \in Owners(a)
          BY <3>3, <3>4, <4>2
        <5> QED BY <5>1 DEF OneOwner
      <4> QED BY <4>1, <4>2
    <3> QED BY <3>7, <3>8
  <2>5. CASE Claim(d) /\ ~ClaimMatches(d)
    BY <2>1, <2>5, NextRowLeaves DEF Claim
  <2>6. CASE ClaimFails(d)
    <3>1. ASSUME NEW a \in Alerts \ disowned, NEW e \in Owners(a), e # d
          PROVE  lease'[a] = lease[a]
      <4>1. CASE UNCHANGED lease BY <4>1
      <4>2. CASE ClaimMatches(d) /\ lease' = Claimed(d)
        <5>1. a # Current(d)
          BY <3>1, <4>2, ClaimedWasFree
        <5> QED BY <4>2, <5>1 DEF Claimed, TypeOK
      <4> QED BY <2>6, <4>1, <4>2 DEF ClaimFails
    <3> QED BY <2>1, <2>6, <3>1, NextRowLeaves DEF ClaimFails
  <2>7. CASE Send(d) \/ NoChannels(d) \/ SendFails(d)
    BY <2>2, <2>7 DEF Send, NoChannels, SendFails, Working
  <2>13. CASE DeleteFails(d)
    <3>1. pending' \subseteq pending /\ \A a \in pending' : lease'[a] = lease[a]
      BY <2>13, FiredAreAlerts DEF DeleteFails, RowGone, TypeOK
    <3> QED BY <2>2, <2>13, <3>1 DEF DeleteFails, Working
  <2>8. ASSUME at[d] \in Working, NextRow(d), disowned' = disowned, pending' \subseteq pending,
               \A a \in Alerts : a # Current(d) => lease'[a] = lease[a]
        PROVE  LeaseIsAge' /\ OneOwner'
    <3>1. \A a \in Alerts \ disowned : \A e \in Owners(a) : e # d => a # Current(d)
      BY <2>8 DEF OneOwner, Owners, Owns, Working
    <3> QED BY <2>1, <2>8, <3>1, NextRowLeaves
  <2>9. CASE Delete(d)
    BY <2>8, <2>9 DEF Delete, RowGone, TypeOK, Working
  <2>10. CASE MarkFailedAttempt(d) \/ ReleaseClaim(d)
    BY <2>8, <2>10 DEF MarkFailedAttempt, ReleaseClaim, Updated, TypeOK, Working
  <2>11. CASE BookkeepingFails(d)
    BY <2>8, <2>11 DEF BookkeepingFails, Working
  <2>12. CASE Stop(d)
    <3>1. \A a \in Alerts : ~Owns(d, a)'
      BY <2>12 DEF Stop, Owns, TypeOK
    <3> QED BY <2>1, <2>12, <3>1 DEF Stop
  <2> QED BY <1>2, <2>3, <2>4, <2>5, <2>6, <2>7, <2>9, <2>10, <2>11, <2>12,
             <2>13 DEF Step
<1>3. ASSUME NEW b \in Alerts, Requeue(b) PROVE LeaseIsAge' /\ OneOwner'
  <2>1. \A a \in Alerts : Owners(a)' = Owners(a)
    BY <1>3 DEF Requeue, Owners, Owns, Current
  <2>2. disowned \subseteq disowned' /\ (b \notin disowned' => Owners(b) = {})
    BY <1>3 DEF Requeue
  <2>3. age' = age /\ \A a \in Alerts : a # b => lease'[a] = lease[a]
    BY <1>3 DEF Requeue, TypeOK
  <2>4. pending' = pending /\ pending \subseteq Alerts
    BY <1>3, FiredAreAlerts DEF Requeue
  <2> QED BY <2>1, <2>2, <2>3, <2>4, OwnersKept
<1>5. ASSUME NEW b \in Alerts, EraseTeam(b) PROVE LeaseIsAge' /\ OneOwner'
  <2>1. \A a \in Alerts : Owners(a)' = Owners(a)
    BY <1>5 DEF EraseTeam, Owners, Owns, Current
  <2>2. UNCHANGED <<age, disowned>> /\ pending' = pending \ {b} /\ pending \subseteq Alerts
    BY <1>5, FiredAreAlerts DEF EraseTeam, RowGone
  <2>3. \A a \in Alerts : a # b => lease'[a] = lease[a]
    BY <1>5 DEF EraseTeam, RowGone, TypeOK
  <2> QED BY <2>1, <2>2, <2>3, OwnersKept
<1>4. CASE Tick
  <2>1. \A a \in Alerts : Owners(a)' = Owners(a)
    BY <1>4 DEF Tick, Owners, Owns, Current
  <2>2. disowned \subseteq disowned'
    BY <1>4 DEF Tick
  <2>3. OneOwner'
    BY <2>1, <2>2 DEF OneOwner
  <2>4. LeaseIsAge'
    <3>0. pending' = pending /\ pending \subseteq Alerts
      BY <1>4, FiredAreAlerts DEF Tick
    <3> SUFFICES ASSUME NEW a \in pending \ disowned', NEW d \in Owners(a)
                 PROVE  age'[d] <= Lease /\ lease'[a] = Lease - age'[d]
      BY <2>1, <3>0 DEF LeaseIsAge
    <3>1. age[d] <= Lease /\ lease[a] = Lease - age[d]
      BY <2>2 DEF LeaseIsAge
    <3>2. d \in Dispatchers /\ Owns(d, a) /\ at[d] # "idle"
      BY DEF Owners, Owns
    <3>3. age'[d] = age[d] + 1 /\ age[d] \in Nat
      BY <1>4, <3>2, Bounds DEF Tick, TypeOK
    <3>4. ~(age[d] >= Lease)
      BY <1>4, <3>0, <3>2 DEF Tick
    <3>5. lease'[a] = lease[a] - 1
      BY <1>4, <3>0, <3>1, <3>3, Bounds DEF Tick
    <3> QED BY <3>1, <3>3, <3>4, <3>5, Bounds
  <2> QED BY <2>3, <2>4
<1> QED BY <1>1, <1>2, <1>3, <1>4, <1>5 DEF Next
-----------------------------------------------------------------------------
(* At least once.                                                          *)

\* Every step that takes a row away deletes one that was sent.
LEMMA GoneStep ==
  ASSUME TypeOK, CurrentIsFired, SentBeforeDelete, GoneOnlyIfSent, Next
  PROVE  SentBeforeDelete' /\ GoneOnlyIfSent'
<1>0. (1..fired) \subseteq Alerts /\ fired \in Nat
  BY FiredAreAlerts, Bounds DEF TypeOK
<1>1. CASE RecordFiredAndEnqueue
  <2>1. SentBeforeDelete'
    BY <1>0, <1>1 DEF RecordFiredAndEnqueue, SentBeforeDelete, Current, Alerts
  <2>2. GoneOnlyIfSent'
    BY <1>0, <1>1 DEF RecordFiredAndEnqueue, GoneOnlyIfSent
  <2> QED BY <2>1, <2>2
<1>2. ASSUME NEW d \in Dispatchers, Step(d) PROVE SentBeforeDelete' /\ GoneOnlyIfSent'
  <2>0. \A e \in Dispatchers : e # d => at'[e] = at[e] /\ Current(e)' = Current(e)
    BY <1>2, OthersStay
  <2>1. ASSUME at'[d] # "delete", UNCHANGED <<fired, sends, erased>>,
               \A a \in pending \ pending' : at[d] = "delete" /\ a = Current(d)
        PROVE  SentBeforeDelete' /\ GoneOnlyIfSent'
    BY <2>0, <2>1 DEF SentBeforeDelete, GoneOnlyIfSent
  <2>2. ASSUME NextRow(d) PROVE at'[d] # "delete"
    BY <2>2, NextRowEnds DEF Working
  <2>3. CASE SelectBatch(d)
    BY <2>1, <2>3 DEF SelectBatch, TypeOK
  <2>4. CASE Claim(d) \/ ClaimFails(d)
    BY <2>1, <2>2, <2>4 DEF Claim, ClaimFails, TypeOK
  <2>5. CASE NoChannels(d) \/ SendFails(d) \/ DeleteFails(d)
    <3>1. at'[d] # "delete"
      BY <2>5 DEF NoChannels, SendFails, DeleteFails, Goto, TypeOK
    <3> QED BY <2>1, <2>5, <3>1 DEF NoChannels, SendFails, DeleteFails, RowGone
  <2>6. CASE MarkFailedAttempt(d) \/ ReleaseClaim(d) \/ BookkeepingFails(d)
    BY <2>1, <2>2, <2>6 DEF MarkFailedAttempt, ReleaseClaim, BookkeepingFails
  <2>7. CASE Stop(d)
    BY <2>1, <2>7 DEF Stop, TypeOK
  <2>8. CASE Send(d)
    <3>0. PICK c \in 1..fired : c = Current(d) /\ Current(d)' = c
      BY <2>8 DEF Send, CurrentIsFired, Working, Current
    <3>1. \A a \in Alerts : sends[a] \in 0..2
      BY DEF TypeOK
    <3>2. \A a \in Alerts : sends'[a] = IF a = c THEN IF sends[a] < 2 THEN sends[a] + 1 ELSE 2
                                                 ELSE sends[a]
      BY <2>8, <3>0 DEF Send, TypeOK
    <3>3. sends'[c] > 0 /\ \A a \in Alerts : sends[a] > 0 => sends'[a] > 0
      BY <1>0, <3>1, <3>2
    <3>4. \A a \in Alerts : a > fired => sends'[a] = 0
      BY <1>0, <3>0, <3>2 DEF SentBeforeDelete, Alerts
    <3>5. \A e \in Dispatchers : at'[e] = "delete" => sends'[Current(e)'] > 0
      <4> SUFFICES ASSUME NEW e \in Dispatchers, at'[e] = "delete"
                   PROVE  sends'[Current(e)'] > 0
        OBVIOUS
      <4>1. CASE e = d
        BY <3>0, <3>3, <4>1
      <4>2. CASE e # d
        <5>1. at[e] = "delete" /\ Current(e)' = Current(e)
          BY <2>0, <4>2
        <5>2. Current(e) \in Alerts
          BY <1>0, <5>1 DEF CurrentIsFired, Working
        <5> QED BY <3>3, <5>1, <5>2 DEF SentBeforeDelete
      <4> QED BY <4>1, <4>2
    <3>6. fired' = fired /\ pending' = pending /\ erased' = erased
      BY <2>8 DEF Send
    <3>7. SentBeforeDelete'
      BY <3>4, <3>5, <3>6 DEF SentBeforeDelete
    <3>8. GoneOnlyIfSent'
      BY <1>0, <3>3, <3>6 DEF GoneOnlyIfSent
    <3> QED BY <3>7, <3>8
  <2>9. CASE Delete(d)
    BY <2>1, <2>2, <2>9 DEF Delete, RowGone
  <2> QED BY <1>2, <2>3, <2>4, <2>5, <2>6, <2>7, <2>8, <2>9 DEF Step
<1>3. ASSUME UNCHANGED <<fired, at, batch, sends>>,
             pending \cup erased \subseteq pending' \cup erased'
      PROVE  SentBeforeDelete' /\ GoneOnlyIfSent'
  BY <1>3 DEF SentBeforeDelete, GoneOnlyIfSent, Current
<1>4. CASE \E a \in Alerts : Requeue(a) \/ EraseTeam(a)
  BY <1>3, <1>4 DEF Requeue, EraseTeam, RowGone
<1>5. CASE Tick
  BY <1>3, <1>5 DEF Tick
<1> QED BY <1>1, <1>2, <1>4, <1>5 DEF Next
-----------------------------------------------------------------------------
(* Delivered once.                                                         *)

\* An undisturbed row is sent by its only owner, which then deletes it.
LEMMA OnceStep ==
  ASSUME TypeOK, CurrentIsFired, LeaseIsAge, OneOwner, SentBeforeDelete,
         SentIsDeleted, DeliveredOnce, Next
  PROVE  SentIsDeleted' /\ DeliveredOnce'
<1>0. (1..fired) \subseteq Alerts /\ fired \in Nat /\ pending \subseteq 1..fired
  BY FiredAreAlerts, Bounds DEF TypeOK
<1>1. CASE RecordFiredAndEnqueue
  <2>1. \A a \in Alerts : Owners(a)' = Owners(a)
    BY <1>1 DEF RecordFiredAndEnqueue, Owners, Owns, Current
  <2>2. UNCHANGED <<at, sends, retried, disowned>> /\ pending' = pending \cup {fired + 1}
    BY <1>1 DEF RecordFiredAndEnqueue
  <2>3. \A a \in Alerts : a \in pending' /\ sends[a] > 0 => a \in pending
    BY <1>0, <2>2 DEF SentBeforeDelete
  <2>4. SentIsDeleted'
    <3> SUFFICES ASSUME NEW a \in Undisturbed
                 PROVE  /\ \A d \in Owners(a) : at[d] = "send" => sends[a] = 0
                        /\ a \in pending' /\ sends[a] > 0 => \E d \in Owners(a) : at[d] = "delete"
      BY <2>1, <2>2 DEF SentIsDeleted, Undisturbed
    <3> QED BY <2>2, <2>3 DEF SentIsDeleted, Undisturbed
  <2>5. DeliveredOnce'
    BY <2>2 DEF DeliveredOnce
  <2> QED BY <2>4, <2>5
<1>2. ASSUME NEW d \in Dispatchers, Step(d) PROVE SentIsDeleted' /\ DeliveredOnce'
  <2>0. \A e \in Dispatchers : e # d =>
          /\ \A a \in Alerts : e \in Owners(a)' <=> e \in Owners(a)
          /\ at'[e] = at[e]
    BY <1>2, OwnersStay DEF Owners
  <2>1. ASSUME at'[d] \notin {"send", "delete"},
               \A a \in Alerts : d \in Owners(a)' => d \in Owners(a),
               pending' \subseteq pending, sends' = sends,
               disowned \subseteq disowned', retried \subseteq retried',
               at[d] = "delete" => Current(d) \in retried' \/ Current(d) \notin pending'
        PROVE  SentIsDeleted' /\ DeliveredOnce'
    <3>1. Undisturbed' \subseteq Undisturbed
      BY <2>1 DEF Undisturbed
    <3>2. ASSUME NEW a \in Undisturbed', NEW e \in Owners(a)', at'[e] = "send"
          PROVE  sends[a] = 0
      <4>1. a \in Undisturbed /\ e \in Dispatchers /\ a \in Alerts /\ e # d
        BY <2>1, <3>1, <3>2 DEF Owners, Undisturbed
      <4> QED BY <2>0, <3>2, <4>1 DEF SentIsDeleted
    <3>4. ASSUME NEW a \in Undisturbed', a \in pending', sends[a] > 0
          PROVE  \E e \in Owners(a)' : at'[e] = "delete"
      <4>1. a \in Undisturbed /\ a \in Alerts /\ a \notin retried' /\ a \in pending
        BY <2>1, <3>1, <3>4 DEF Undisturbed
      <4>2. PICK e \in Owners(a) : at[e] = "delete"
        BY <3>4, <4>1 DEF SentIsDeleted
      <4>3. e # d /\ e \in Dispatchers
        BY <2>1, <3>4, <4>1, <4>2 DEF Owners, Owns
      <4> QED BY <2>0, <4>1, <4>2, <4>3
    <3>5. SentIsDeleted'
      BY <2>1, <3>2, <3>4 DEF SentIsDeleted
    <3>6. DeliveredOnce'
      BY <2>1 DEF DeliveredOnce
    <3> QED BY <3>5, <3>6
  <2>2. ASSUME NextRow(d) PROVE at'[d] \notin {"send", "delete"} /\ \A a \in Alerts : d \notin Owners(a)'
    BY <2>2, NextRowEnds, NextRowLeaves DEF Working, Owners
  <2>3. CASE SelectBatch(d)
    <3>1. at'[d] = "claim" /\ at[d] = "idle"
      BY <2>3 DEF SelectBatch, TypeOK
    <3> QED BY <2>1, <2>3, <3>1 DEF SelectBatch, Owners, Owns
  <2>4. CASE Claim(d) /\ ~ClaimMatches(d)
    BY <2>1, <2>2, <2>4 DEF Claim
  <2>5. CASE ClaimFails(d)
    BY <2>1, <2>2, <2>5 DEF ClaimFails
  <2>6. ASSUME at[d] \in Working, batch' = batch PROVE \A a \in Alerts : d \in Owners(a)' => d \in Owners(a)
    BY <2>6 DEF Owners, Owns, Current, Working
  <2>7. CASE NoChannels(d) \/ SendFails(d) \/ DeleteFails(d)
    <3>1. at'[d] \notin {"send", "delete"}
      BY <2>7 DEF NoChannels, SendFails, DeleteFails, Goto, TypeOK
    <3> QED BY <2>1, <2>6, <2>7, <3>1 DEF NoChannels, SendFails, DeleteFails, RowGone, Working
  <2>8. CASE MarkFailedAttempt(d) \/ ReleaseClaim(d) \/ BookkeepingFails(d)
    BY <2>1, <2>2, <2>8 DEF MarkFailedAttempt, ReleaseClaim, BookkeepingFails
  <2>9. CASE Stop(d)
    <3>1. at'[d] = "idle"
      BY <2>9 DEF Stop, TypeOK
    <3> QED BY <2>1, <2>9, <3>1 DEF Stop, Owners, Owns
  <2>10. CASE Claim(d) /\ ClaimMatches(d)
    <3>0. PICK c \in Alerts : c = Current(d) /\ c \in pending
      BY <2>10, FiredAreAlerts DEF ClaimMatches
    <3>1. /\ Current(d)' = c /\ at'[d] = "send" /\ at[d] = "claim"
          /\ UNCHANGED <<pending, sends, retried>> /\ disowned \subseteq disowned'
      BY <2>10, <3>0 DEF Claim, Current, TypeOK
    <3>2. \A a \in Alerts : (d \in Owners(a)' => a = c) /\ d \notin Owners(a)
      BY <3>1 DEF Owners, Owns
    <3>3. Undisturbed' \subseteq Undisturbed
      BY <3>1 DEF Undisturbed
    <3>4. c \in Undisturbed' => sends[c] = 0
      <4> HAVE c \in Undisturbed'
      <4>1. c \in Undisturbed /\ c \notin disowned
        BY <3>3 DEF Undisturbed
      <4>2. Owners(c) = {}
        BY <2>10, <3>0, <4>1, ClaimedWasFree
      <4>3. sends[c] \in Nat
        BY DEF TypeOK
      <4> QED BY <3>0, <4>1, <4>2, <4>3 DEF SentIsDeleted
    <3>5. ASSUME NEW a \in Undisturbed', NEW e \in Owners(a)'
          PROVE  at'[e] = "send" => sends[a] = 0
      <4>1. e \in Dispatchers /\ a \in Alerts /\ a \in Undisturbed
        BY <3>3, <3>5 DEF Owners, Undisturbed
      <4>2. CASE e = d
        BY <3>0, <3>2, <3>4, <3>5, <4>1, <4>2
      <4>3. CASE e # d
        BY <2>0, <3>5, <4>1, <4>3 DEF SentIsDeleted
      <4> QED BY <4>2, <4>3
    <3>6. ASSUME NEW a \in Undisturbed', a \in pending, sends[a] > 0
          PROVE  \E e \in Owners(a)' : at'[e] = "delete"
      <4>1. a \in Undisturbed /\ a \in Alerts
        BY <3>3, <3>6 DEF Undisturbed
      <4>2. PICK e \in Owners(a) : at[e] = "delete"
        BY <3>6, <4>1 DEF SentIsDeleted
      <4>3. e # d /\ e \in Dispatchers
        BY <3>1, <4>2 DEF Owners
      <4> QED BY <2>0, <4>1, <4>2, <4>3
    <3>7. SentIsDeleted'
      BY <3>1, <3>5, <3>6 DEF SentIsDeleted
    <3>8. DeliveredOnce'
      BY <3>1 DEF DeliveredOnce
    <3> QED BY <3>7, <3>8
  <2>11. ASSUME at[d] \in Working, NEW c \in Alerts, c = Current(d), c \in Undisturbed
         PROVE  \A e \in Owners(c) : e = d
    BY <2>11 DEF OneOwner, Owners, Owns, Undisturbed, Working
  <2>12. CASE Send(d)
    <3>0. PICK c \in Alerts : c = Current(d) /\ Current(d)' = c
      BY <1>0, <2>12 DEF Send, CurrentIsFired, Working, Current
    <3>1. /\ at'[d] = "delete" /\ at[d] = "send"
          /\ UNCHANGED <<pending, retried, disowned>>
          /\ \A a \in Alerts : a # c => sends'[a] = sends[a]
          /\ sends[c] = 0 => sends'[c] = 1
      BY <2>12, <3>0 DEF Send, Goto, TypeOK
    <3>2. \A a \in Alerts : (d \in Owners(a)' => a = c) /\ (d \in Owners(a) => a = c)
      BY <3>0 DEF Owners, Owns
    <3>3. Undisturbed' = Undisturbed
      BY <3>1 DEF Undisturbed
    <3>4. d \in Owners(c) /\ d \in Owners(c)'
      BY <3>0, <3>1 DEF Owners, Owns
    <3>5. c \in Undisturbed => sends'[c] = 1 /\ \A e \in Owners(c)' : e = d
      <4> HAVE c \in Undisturbed
      <4>1. sends'[c] = 1
        BY <3>1, <3>4 DEF SentIsDeleted
      <4>2. ASSUME NEW e \in Owners(c)' PROVE e = d
        BY <2>0, <2>11, <3>0, <3>1, <4>2 DEF Owners, Working
      <4> QED BY <4>1, <4>2
    <3>6. ASSUME NEW a \in Undisturbed, NEW e \in Owners(a)'
          PROVE  at'[e] = "send" => sends'[a] = 0
      <4>1. e \in Dispatchers /\ a \in Alerts
        BY <3>6 DEF Owners, Undisturbed
      <4>2. CASE a = c
        BY <3>1, <3>5, <3>6, <4>2
      <4>3. CASE a # c
        <5>1. e # d /\ e \in Owners(a) /\ at'[e] = at[e]
          BY <2>0, <3>2, <3>6, <4>1, <4>3
        <5> QED BY <3>1, <3>6, <4>1, <4>3, <5>1 DEF SentIsDeleted
      <4> QED BY <4>2, <4>3
    <3>7. ASSUME NEW a \in Undisturbed, a \in pending, sends'[a] > 0
          PROVE  \E e \in Owners(a)' : at'[e] = "delete"
      <4>1. CASE a = c
        BY <3>1, <3>4, <4>1
      <4>2. CASE a # c
        <5>1. a \in Alerts /\ sends[a] > 0
          BY <3>1, <3>7, <4>2 DEF Undisturbed
        <5>2. PICK e \in Owners(a) : at[e] = "delete"
          BY <3>7, <5>1 DEF SentIsDeleted
        <5>3. e # d /\ e \in Dispatchers
          BY <3>1, <5>2 DEF Owners
        <5> QED BY <2>0, <5>1, <5>2, <5>3
      <4> QED BY <4>1, <4>2
    <3>8. SentIsDeleted'
      BY <3>1, <3>3, <3>6, <3>7 DEF SentIsDeleted
    <3>9. DeliveredOnce'
      <4> SUFFICES ASSUME NEW a \in Alerts, sends'[a] > 1 PROVE a \in retried \cup disowned
        BY <3>1 DEF DeliveredOnce
      <4>1. CASE a = c
        BY <3>5, <4>1 DEF Undisturbed
      <4>2. CASE a # c
        BY <3>1, <4>2 DEF DeliveredOnce
      <4> QED BY <4>1, <4>2
    <3> QED BY <3>8, <3>9
  <2>13. CASE Delete(d)
    BY <2>1, <2>2, <2>13 DEF Delete, RowGone
  <2> QED BY <1>2, <2>3, <2>4, <2>5, <2>7, <2>8, <2>9, <2>10, <2>12, <2>13 DEF Step
<1>3. ASSUME UNCHANGED <<at, batch, sends, retried>>, disowned \subseteq disowned',
             pending' \subseteq pending
      PROVE  SentIsDeleted' /\ DeliveredOnce'
  <2>1. \A a \in Alerts : Owners(a)' = Owners(a)
    BY <1>3 DEF Owners, Owns, Current
  <2>2. Undisturbed' \subseteq Undisturbed /\ Undisturbed' \subseteq Alerts
    BY <1>3 DEF Undisturbed
  <2>3. SentIsDeleted'
    BY <1>3, <2>1, <2>2 DEF SentIsDeleted
  <2>4. DeliveredOnce'
    BY <1>3 DEF DeliveredOnce
  <2> QED BY <2>3, <2>4
<1>4. CASE \E a \in Alerts : Requeue(a) \/ EraseTeam(a)
  BY <1>3, <1>4 DEF Requeue, EraseTeam, RowGone
<1>5. CASE Tick
  BY <1>3, <1>5 DEF Tick
<1> QED BY <1>1, <1>2, <1>4, <1>5 DEF Next

-----------------------------------------------------------------------------
(* The theorems.                                                           *)

\* The empty outbox satisfies the invariant.
LEMMA InitInv == ASSUME Init PROVE Inv
<1>1. TypeOK
  <2>1. [a \in Alerts |-> 0] \in [Alerts -> 0..(MaxAttempts - 1)]
    BY Bounds
  <2> QED BY <2>1, Bounds DEF Init, TypeOK
<1>2. \A a \in Alerts : Owners(a) = {}
  BY DEF Init, Owners, Owns
<1>3. CurrentIsFired /\ SentBeforeDelete
  BY Bounds DEF Init, CurrentIsFired, SentBeforeDelete, Working, Alerts
<1>4. LeaseIsAge /\ OneOwner
  BY <1>2 DEF Init, LeaseIsAge, OneOwner
<1>5. GoneOnlyIfSent /\ DeliveredOnce
  BY DEF Init, GoneOnlyIfSent, DeliveredOnce
<1>6. SentIsDeleted
  BY <1>2 DEF Init, SentIsDeleted, Undisturbed
<1> QED BY <1>1, <1>3, <1>4, <1>5, <1>6 DEF Inv

\* A step that changes nothing keeps the invariant.
LEMMA StutterInv == ASSUME Inv, UNCHANGED vars PROVE Inv'
<1>1. \A a \in Alerts : Owners(a)' = Owners(a)
  BY DEF vars, Owners, Owns, Current
<1>2. TypeOK' /\ CurrentIsFired'
  BY DEF Inv, vars, TypeOK, CurrentIsFired, Current
<1>3. LeaseIsAge' /\ OneOwner'
  <2>1. pending \subseteq Alerts
    BY FiredAreAlerts DEF Inv
  <2>2. LeaseIsAge'
    BY <1>1, <2>1 DEF Inv, vars, LeaseIsAge
  <2>3. OneOwner'
    BY <1>1 DEF Inv, vars, OneOwner
  <2> QED BY <2>2, <2>3
<1>4. SentBeforeDelete' /\ GoneOnlyIfSent' /\ DeliveredOnce'
  BY DEF Inv, vars, SentBeforeDelete, GoneOnlyIfSent, DeliveredOnce, Current
<1>5. SentIsDeleted'
  BY <1>1 DEF Inv, vars, SentIsDeleted, Undisturbed
<1> QED BY <1>2, <1>3, <1>4, <1>5 DEF Inv

\* Every reachable state satisfies the invariant.
LEMMA Invariance == Spec => []Inv
<1>1. Init => Inv
  BY InitInv
<1>2. Inv /\ [Next]_vars => Inv'
  <2>1. ASSUME Inv, Next PROVE Inv'
    BY <2>1, TypeStep, OwnerStep, GoneStep, OnceStep DEF Inv
  <2> QED BY <2>1, StutterInv
<1> QED BY <1>1, <1>2, PTL DEF Spec

\* The outbox and its dispatchers keep their types: no stale count written
\* back by a dispatcher takes an alert past MAX_DISPATCH_ATTEMPTS.
THEOREM OutboxTypeCorrect == Spec => []TypeOK
<1>1. Inv => TypeOK
  BY DEF Inv
<1> QED BY <1>1, Invariance, PTL

\* However many dispatchers race for the outbox, a row has one owner until
\* that owner outlives its lease or an operator requeues the row.
THEOREM RowHasOneOwner == Spec => []OneOwner
<1>1. Inv => OneOwner
  BY DEF Inv
<1> QED BY <1>1, Invariance, PTL

\* No crash, error, requeue or race makes a fired alert leave the outbox
\* undelivered.
THEOREM SentBeforeGone == Spec => []GoneOnlyIfSent
<1>1. Inv => GoneOnlyIfSent
  BY DEF Inv
<1> QED BY <1>1, Invariance, PTL

\* A second delivery has one of two causes: a delivered row that could not be
\* deleted, or a claim lost under way.
THEOREM NotDeliveredTwice == Spec => []DeliveredOnce
<1>1. Inv => DeliveredOnce
  BY DEF Inv
<1> QED BY <1>1, Invariance, PTL
=============================================================================
