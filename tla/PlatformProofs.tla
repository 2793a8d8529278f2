---------------------------- MODULE PlatformProofs ----------------------------
(***************************************************************************)
(* Proofs about the services whose state the replicas share.  The vault:   *)
(* rotation loses no credential, no session and no key, for any number of  *)
(* replicas, admins and credentials, any lifetime of tokens and any        *)
(* history of overlapping, late, failed or crashed rotations.  The rate    *)
(* limiter: no window admits more than its limit or refuses before it is   *)
(* spent, for any windows and limits, in memory and in Redis.  The Redis   *)
(* breaker: its markers settle, for any requests, threshold and cooldown.  *)
(* The management API: a request that commits still has the authority it   *)
(* was let in on, for any users, teams, keys and overlapping requests.     *)
(***************************************************************************)
EXTENDS Vault, RateWindow, RedisCircuitBreaker, TeamAccess, FiniteSetTheorems, WellFoundedInduction, TLAPS

-----------------------------------------------------------------------------
(* The largest element of a set of numbers.                                *)

\* A non-empty set of naturals with an upper bound has a largest element, and
\* Max is it.
LEMMA MaxOfBounded ==
  ASSUME NEW n \in Nat, NEW S \in SUBSET (0..n), S # {}
  PROVE  Max(S) \in S /\ \A y \in S : Max(S) >= y
<1> DEFINE T == {n - y : y \in S}
<1>1. T \subseteq Nat /\ T # {}
  <2>1. ASSUME NEW y \in S PROVE n - y \in Nat
    <3>1. y \in 0..n OBVIOUS
    <3> QED BY ONLY <3>1, n \in Nat
  <2>2. PICK y \in S : TRUE OBVIOUS
  <2>3. n - y \in T BY <2>2
  <2>4. T \subseteq Nat BY <2>1
  <2> QED BY <2>3, <2>4
<1>2. PICK m \in T : \A z \in T : ~(<<z, m>> \in OpToRel(<, Nat))
  <2> HIDE DEF T
  <2> QED BY <1>1, WFMin, NatLessThanWellFounded
<1>3. PICK x \in S : m = n - x BY <1>2
<1>4. ASSUME NEW y \in S PROVE x >= y
  <2>1. n - y \in T /\ n - y \in Nat /\ m \in Nat BY <1>1, <1>2
  <2>2. ~(n - y < m) BY <1>2, <2>1 DEF OpToRel
  <2> QED BY <1>3, <2>1, <2>2
<1>5. \E z \in S : \A y \in S : z >= y BY <1>4
<1> QED BY <1>5 DEF Max

\* The newest of the keys 1..n, while n is one of them.
LEMMA MaxIsNewest ==
  ASSUME NEW n \in Nat, NEW S \in SUBSET (1..n), n \in S
  PROVE  Max(S) = n
<1>1. S \in SUBSET (0..n) /\ S # {} OBVIOUS
<1>2. Max(S) \in S /\ \A y \in S : Max(S) >= y BY <1>1, MaxOfBounded
<1>3. Max(S) \in 1..n /\ Max(S) >= n BY <1>2
<1> QED BY <1>3

-----------------------------------------------------------------------------
(* The invariant.                                                          *)

Rows == [key : Nat, enc : Nat, val : SecretValues] \cup {NoRow}

RotationPlaces == {"asleep", "new", "choose", "load", "write", "list", "retire", "jwt", "prune"}

\* Keys are numbered in order of creation, and the newest is never retired.
KeysOK ==
    /\ nkeys \in Nat /\ usable \subseteq 1..nkeys
    /\ NewestUsable

RowsOK ==
    /\ rows \in [Secrets -> Rows]
    /\ saved \in [Secrets -> SecretValues \cup {NoRow}]
    /\ clash \subseteq Secrets

LockOK == lock \in Replicas \cup {Nobody} /\ lapsed \subseteq Replicas

Rotations ==
    [pc : RotationPlaces, day : Nat, key : Nat, seen : [Secrets -> Rows],
     todo : SUBSET Nat]

\* A rotation works with the newest key there was before it read the rows, and
\* retires only keys that had a successor when it listed them: a rotation
\* that runs beside it, or after it lost its lease, creates newer ones only.
RotationOK(w, n) ==
    /\ w.pc \in {"choose", "list"} => n > 0
    /\ w.pc \in {"load", "write"} => w.key \in 1..n
    /\ \A k \in w.todo : k < n

RotationsOK ==
    /\ rot \in [Replicas -> Rotations]
    /\ \A r \in Replicas : RotationOK(rot[r], nkeys)

Edits ==
    [pc : {"none", "add", "change", "answered"}, sec : Secrets \cup {NoRow},
     val : SecretValues \cup {NoRow}, was : Nat, key : Nat]

\* An edit under way is of a credential, and encrypts with a key that exists.
EditOK(x, n) ==
    /\ x.key <= n
    /\ x.pc \in {"add", "change"} => x.sec \in Secrets /\ x.val \in SecretValues

EditsOK ==
    /\ edit \in [Editors -> Edits]
    /\ \A e \in Editors : EditOK(edit[e], nkeys)

\* Whoever rotates without having lost its lease holds the lock.
LeaseHolds ==
    \A r \in Replicas : rot[r].pc # "asleep" /\ r \notin lapsed => lock = r

\* The tokens whose signing key is still there on day d.
Vouched(t, d) ==
    \/ t.day <= t.key + 1 /\ d < t.day + TokenTTL
    \/ t.day = t.key /\ d <= t.day + TokenTTL

SessionsOK ==
    /\ day \in Nat /\ jwtKeys \subseteq 0..day
    /\ tokens \subseteq [key : Nat, day : Nat]

VaultInv ==
    /\ KeysOK /\ RowsOK /\ LockOK /\ RotationsOK /\ EditsOK /\ LeaseHolds
    /\ SessionsOK /\ CredentialsReadable /\ TokensVerify

\* An empty vault.
LEMMA VaultInitInv == VaultInit => VaultInv
<1> SUFFICES ASSUME VaultInit PROVE VaultInv
  OBVIOUS
<1> USE DEF VaultInit
<1>1. KeysOK /\ RowsOK /\ LockOK /\ SessionsOK
  BY DEF KeysOK, NewestUsable, RowsOK, Rows, LockOK, SessionsOK
<1>2. Resting \in Rotations /\ RotationOK(Resting, nkeys) /\ Resting.pc = "asleep"
  BY DEF Resting, Rotations, RotationPlaces, Rows, RotationOK
<1>3. RotationsOK /\ LeaseHolds
  BY <1>2 DEF RotationsOK, LeaseHolds
<1>4. Unasked \in Edits /\ EditOK(Unasked, nkeys)
  BY DEF Unasked, Edits, EditOK
<1>5. EditsOK BY <1>4 DEF EditsOK
<1>6. CredentialsReadable /\ TokensVerify
  BY DEF CredentialsReadable, TokensVerify
<1> QED BY <1>1, <1>3, <1>5, <1>6 DEF VaultInv

-----------------------------------------------------------------------------
(* The keyring.                                                            *)

\* While there is a key the newest one is usable, so it is what Max finds.
LEMMA NewestIsMax ==
  ASSUME KeysOK, usable # {} \/ nkeys > 0
  PROVE  Max(usable) = nkeys /\ nkeys > 0
<1>1. nkeys \in Nat /\ usable \in SUBSET (1..nkeys) /\ (nkeys > 0 => nkeys \in usable)
  BY DEF KeysOK, NewestUsable
<1>2. nkeys > 0
  <2>1. CASE usable # {}
    <3>1. PICK k \in usable : TRUE BY <2>1
    <3>2. k \in 1..nkeys BY <1>1
    <3> QED BY <1>1, <3>2
  <2> QED BY <2>1
<1>3. Max(usable) = nkeys BY <1>1, <1>2, MaxIsNewest
<1> QED BY <1>2, <1>3

\* An edit gets the newest key there is after ensure_active.
LEMMA EnsuredIsNewest ==
  ASSUME KeysOK, ensure_active
  PROVE  EnsuredKey = nkeys' /\ nkeys' \in Nat \ {0} /\ nkeys <= nkeys' /\ KeysOK'
<1>1. CASE usable = {}
  <2>1. nkeys' = nkeys + 1 /\ usable' = {nkeys + 1} /\ EnsuredKey = nkeys + 1
    BY <1>1 DEF EnsuredKey, ensure_active, Created
  <2>2. nkeys \in Nat BY DEF KeysOK
  <2> QED BY <2>1, <2>2 DEF KeysOK, NewestUsable
<1>2. CASE usable # {}
  <2>1. Max(usable) = nkeys /\ nkeys > 0 BY <1>2, NewestIsMax
  <2>2. nkeys' = nkeys /\ usable' = usable /\ EnsuredKey = nkeys
    BY <1>2, <2>1 DEF EnsuredKey, ensure_active, keyVars
  <2>3. KeysOK' BY <2>2 DEF KeysOK, NewestUsable
  <2>4. nkeys \in Nat BY DEF KeysOK
  <2> QED BY <2>1, <2>2, <2>3, <2>4
<1> QED BY <1>1, <1>2

\* The newest key survives every step, although rotations that overlap retire
\* what they listed before newer keys were made.
LEMMA KeysStep ==
  ASSUME VaultInv, VaultNext
  PROVE  KeysOK' /\ nkeys' \in Nat /\ nkeys <= nkeys'
<1> USE DEF VaultInv
<1>1. ASSUME NEW e \in Editors, choose_key(e)
      PROVE  KeysOK' /\ nkeys' \in Nat /\ nkeys <= nkeys'
  BY <1>1, EnsuredIsNewest DEF choose_key
<1>2. ASSUME NEW r \in Replicas, new_credential_key(r)
      PROVE  KeysOK' /\ nkeys' \in Nat /\ nkeys <= nkeys'
  <2>1. nkeys' = nkeys + 1 /\ usable' = usable \cup {nkeys + 1}
    BY <1>2 DEF new_credential_key, Created
  <2>2. nkeys \in Nat /\ usable \subseteq 1..nkeys BY DEF KeysOK
  <2>3. nkeys' \in Nat /\ nkeys <= nkeys' BY <2>1, <2>2
  <2>4. usable' \subseteq 1..nkeys' BY <2>1, <2>2
  <2>5. nkeys' \in usable' BY <2>1
  <2> QED BY <2>3, <2>4, <2>5 DEF KeysOK, NewestUsable
<1>3. ASSUME NEW r \in Replicas, retire_old_credential_keys(r)
      PROVE  KeysOK' /\ nkeys' \in Nat /\ nkeys <= nkeys'
  <2>1. usable' = usable \ rot[r].todo /\ nkeys' = nkeys
    BY <1>3 DEF retire_old_credential_keys
  <2>2. nkeys \in Nat /\ usable \subseteq 1..nkeys /\ (nkeys > 0 => nkeys \in usable)
    BY DEF KeysOK, NewestUsable
  <2>3. nkeys \notin rot[r].todo
    <3>1. \A k \in rot[r].todo : k < nkeys BY DEF RotationsOK, RotationOK
    <3> QED BY <2>2, <3>1
  <2>4. usable' \subseteq 1..nkeys' /\ (nkeys' > 0 => nkeys' \in usable')
    BY <2>1, <2>2, <2>3
  <2> QED BY <2>1, <2>2, <2>4 DEF KeysOK, NewestUsable
<1>4. CASE UNCHANGED keyVars
  BY <1>4 DEF keyVars, KeysOK, NewestUsable
<1> QED BY <1>1, <1>2, <1>3, <1>4
    DEF VaultNext, Rotation, Editing, hold, choose_new_key, load_rows, reencrypt_all, list_old_keys,
        new_jwt_key, delete_jwt_key, end_rotation, VaultCrash, Lapse, begin_edit, add, update,
        remove, sign, NextDay

-----------------------------------------------------------------------------
(* The credentials.                                                        *)

\* What one row must be, unless an edit straddled its re-encryption.
RowReadable(row, val, n) ==
    /\ (row = NoRow) = (val = NoRow)
    /\ row # NoRow => Readable(row) /\ row.val = val /\ row.key \in 1..n

LEMMA ReadableRows ==
  CredentialsReadable <=> \A s \in Secrets \ clash : RowReadable(rows[s], saved[s], nkeys)
  BY DEF CredentialsReadable, RowReadable

\* A row written with a key that exists, for the value the admin was told.
LEMMA WrittenIsReadable ==
  ASSUME NEW k \in Nat, NEW n \in Nat, 0 < k, k <= n, NEW v \in SecretValues
  PROVE  /\ [key |-> k, enc |-> k, val |-> v] \in Rows
         /\ RowReadable([key |-> k, enc |-> k, val |-> v], v, n)
  BY NothingAssumption DEF Rows, RowReadable, Readable

\* Every step keeps the rows readable that no edit straddled.
LEMMA RowsStep ==
  ASSUME VaultInv, VaultNext
  PROVE  RowsOK' /\ \A s \in Secrets \ clash' : RowReadable(rows'[s], saved'[s], nkeys')
<1>0. /\ nkeys \in Nat /\ nkeys' \in Nat /\ nkeys <= nkeys'
      /\ \A s \in Secrets \ clash : RowReadable(rows[s], saved[s], nkeys)
      /\ RowsOK
  BY KeysStep, ReadableRows DEF VaultInv, KeysOK
<1>1. \A s \in Secrets \ clash : RowReadable(rows[s], saved[s], nkeys')
  BY <1>0 DEF RowReadable, RowsOK, Rows
<1>2. ASSUME NEW e \in Editors, add(e)
      PROVE  RowsOK' /\ \A s \in Secrets \ clash' : RowReadable(rows'[s], saved'[s], nkeys')
  <2> DEFINE s == edit[e].sec
             new == [key |-> edit[e].key, enc |-> edit[e].key, val |-> edit[e].val]
  <2>1. /\ s \in Secrets /\ edit[e].val \in SecretValues /\ edit[e].key \in Nat
        /\ 0 < edit[e].key /\ edit[e].key <= nkeys'
    BY <1>0, <1>2 DEF add, VaultInv, EditsOK, EditOK, Edits
  <2>2. new \in Rows /\ RowReadable(new, edit[e].val, nkeys')
    BY <1>0, <2>1, WrittenIsReadable
  <2>3. clash' = clash BY <1>2 DEF add
  <2>4. CASE UNCHANGED <<rows, saved>> BY <1>0, <1>1, <2>3, <2>4 DEF RowsOK
  <2>5. CASE /\ rows' = [rows EXCEPT ![s] = new]
             /\ saved' = [saved EXCEPT ![s] = edit[e].val]
    <3> HIDE DEF new, s
    <3> QED BY <1>0, <1>1, <2>1, <2>2, <2>3, <2>5 DEF RowsOK
  <2> QED BY <1>2, <2>4, <2>5 DEF add
<1>3. ASSUME NEW e \in Editors, update(e)
      PROVE  RowsOK' /\ \A s \in Secrets \ clash' : RowReadable(rows'[s], saved'[s], nkeys')
  <2> DEFINE s == edit[e].sec
             k == IF edit[e].key = edit[e].was THEN rows[s].key ELSE edit[e].key
             new == [key |-> k, enc |-> edit[e].key, val |-> edit[e].val]
  <2>1. /\ s \in Secrets /\ edit[e].val \in SecretValues /\ edit[e].key \in Nat
        /\ 0 < edit[e].key /\ edit[e].key <= nkeys'
    BY <1>0, <1>3 DEF update, VaultInv, EditsOK, EditOK, Edits
  <2>2. CASE rows[s] = NoRow
    <3>1. UNCHANGED rowVars BY <1>3, <2>2 DEF update
    <3> QED BY <1>0, <1>1, <3>1 DEF rowVars, RowsOK
  <2>3. CASE rows[s] # NoRow
    <3>1. /\ rows' = [rows EXCEPT ![s] = new]
          /\ saved' = [saved EXCEPT ![s] = edit[e].val]
          /\ clash' = IF k # edit[e].key THEN clash \cup {s} ELSE clash \ {s}
      BY <1>3, <2>3 DEF update
    <3>2. new \in Rows
      BY <1>0, <2>1, <2>3 DEF RowsOK, Rows
    <3>3. k = edit[e].key => RowReadable(new, edit[e].val, nkeys')
      BY <1>0, <2>1, WrittenIsReadable
    <3> HIDE DEF new, s, k
    <3>4. RowsOK' BY <1>0, <2>1, <3>1, <3>2 DEF RowsOK
    <3>5. ASSUME NEW u \in Secrets \ clash' PROVE RowReadable(rows'[u], saved'[u], nkeys')
      <4>1. CASE u = s BY <1>0, <2>1, <3>1, <3>3, <3>5, <4>1 DEF RowsOK
      <4>2. CASE u # s BY <1>0, <1>1, <3>1, <3>5, <4>2 DEF RowsOK
      <4> QED BY <4>1, <4>2
    <3> QED BY <3>4, <3>5
  <2> QED BY <2>2, <2>3
<1>4. ASSUME NEW s \in Secrets, remove(s)
      PROVE  RowsOK' /\ \A u \in Secrets \ clash' : RowReadable(rows'[u], saved'[u], nkeys')
  BY <1>0, <1>1, <1>4 DEF remove, RowsOK, Rows, RowReadable
<1>5. ASSUME NEW r \in Replicas, reencrypt_all(r)
      PROVE  RowsOK' /\ \A s \in Secrets \ clash' : RowReadable(rows'[s], saved'[s], nkeys')
  <2>1. CASE UNCHANGED <<rows, saved, clash>> BY <1>0, <1>1, <2>1 DEF RowsOK
  <2>2. CASE /\ rows' = [s \in Secrets |-> IF s \in Changed(r) THEN Reencrypted(r, s)
                                           ELSE rows[s]]
             /\ clash' = clash \cup {s \in Changed(r) : rot[r].seen[s].val # saved[s]}
             /\ saved' = saved
    <3>1. rot[r].key \in Nat /\ 0 < rot[r].key /\ rot[r].key <= nkeys'
      BY <1>0, <1>5 DEF reencrypt_all, VaultInv, RotationsOK, RotationOK
    <3>2. \A s \in Changed(r) : s \in Secrets /\ rot[r].seen[s].val \in SecretValues
      BY DEF Changed, VaultInv, RotationsOK, Rotations, Rows
    <3>3. \A s \in Changed(r) : /\ Reencrypted(r, s) \in Rows
                                /\ RowReadable(Reencrypted(r, s), rot[r].seen[s].val, nkeys')
      BY <1>0, <3>1, <3>2, WrittenIsReadable DEF Reencrypted
    <3>4. RowsOK' BY <1>0, <2>2, <3>2, <3>3 DEF RowsOK
    <3>5. ASSUME NEW s \in Secrets \ clash'
          PROVE  RowReadable(rows'[s], saved'[s], nkeys')
      <4>1. CASE s \in Changed(r)
        <5>1. rot[r].seen[s].val = saved[s] BY <2>2, <3>5, <4>1
        <5> QED BY <2>2, <3>3, <4>1, <5>1
      <4>2. CASE s \notin Changed(r) BY <1>1, <2>2, <3>5, <4>2
      <4> QED BY <4>1, <4>2
    <3> QED BY <3>4, <3>5
  <2> QED BY <1>5, <2>1, <2>2 DEF reencrypt_all
<1>6. CASE UNCHANGED rowVars BY <1>0, <1>1, <1>6 DEF rowVars, RowsOK
<1> QED BY <1>2, <1>3, <1>4, <1>5, <1>6
    DEF VaultNext, Rotation, Editing, hold, new_credential_key, choose_new_key, load_rows,
        list_old_keys, retire_old_credential_keys, new_jwt_key, delete_jwt_key, end_rotation,
        VaultCrash, Lapse, begin_edit, choose_key, sign, NextDay

-----------------------------------------------------------------------------
(* The rotations and their lock.                                           *)

\* What a step of replica r's rotation may do to the lock, when r is at w
\* afterwards: nothing, if it was at work or stays asleep; give back its own,
\* when it ends; or take a free one.
LockMove(r, w) ==
    \/ (rot[r].pc # "asleep" \/ w.pc = "asleep") /\ UNCHANGED lockVars
    \/ w.pc = "asleep" /\ release(r) /\ lapsed' = lapsed
    \/ lock = Nobody /\ lock' = r /\ lapsed' = lapsed \ {r}

\* A rotation that has forgotten what it read.
LEMMA ForgetsTo ==
  ASSUME VaultInv, NEW r \in Replicas, NEW pc \in RotationPlaces, Forgets(r, pc)
  PROVE  \E w \in Rotations : rot' = [rot EXCEPT ![r] = w] /\ w.pc = pc /\ w.todo = {}
<1> DEFINE w == [Resting EXCEPT !.day = rot[r].day, !.pc = pc]
<1>1. rot[r].day \in Nat BY DEF VaultInv, RotationsOK, Rotations
<1>2. w = [pc |-> pc, day |-> rot[r].day, key |-> 0,
           seen |-> [s \in Secrets |-> NoRow], todo |-> {}]
  <2> DEFINE v == [Resting EXCEPT !.day = rot[r].day]
  <2>1. v = [pc |-> "asleep", day |-> rot[r].day, key |-> 0,
             seen |-> [s \in Secrets |-> NoRow], todo |-> {}]
    BY DEF Resting
  <2>2. w = [v EXCEPT !.pc = pc] BY DEF Resting
  <2> HIDE DEF v, w
  <2> QED BY <2>1, <2>2
<1>3. w \in Rotations
  <2> HIDE DEF w
  <2> QED BY <1>1, <1>2 DEF Rotations, Rows
<1>4. rot' = [rot EXCEPT ![r] = w] BY DEF Forgets
<1>5. w.pc = pc /\ w.todo = {} BY <1>2
<1> HIDE DEF w
<1> QED BY <1>3, <1>4, <1>5

\* A rotation that ends, crashes or gives up.
LEMMA SleepMoves ==
  ASSUME VaultInv, NEW r \in Replicas, Sleeps(r), nkeys' \in Nat,
         (release(r) /\ lapsed' = lapsed) \/ (rot[r].pc # "asleep" /\ UNCHANGED lockVars)
  PROVE  \E w \in Rotations : /\ rot' = [rot EXCEPT ![r] = w]
                              /\ RotationOK(w, nkeys') /\ LockMove(r, w)
<1>1. "asleep" \in RotationPlaces /\ Forgets(r, "asleep") BY DEF RotationPlaces, Sleeps
<1>2. PICK w \in Rotations : rot' = [rot EXCEPT ![r] = w] /\ w.pc = "asleep" /\ w.todo = {}
  BY <1>1, ForgetsTo
<1>3. RotationOK(w, nkeys') BY <1>2 DEF RotationOK
<1>4. LockMove(r, w) BY <1>2 DEF LockMove
<1> QED BY <1>2, <1>3, <1>4

\* A step to another place that touches neither the keys nor the lock.
LEMMA PlaceMoves ==
  ASSUME VaultInv, NEW r \in Replicas, NEW w \in Rotations, rot' = [rot EXCEPT ![r] = w],
         w.todo = rot[r].todo, w.pc \in {"jwt", "prune"} \/ (w.pc = "load" /\ w.key \in 1..nkeys),
         nkeys' = nkeys, rot[r].pc # "asleep", UNCHANGED lockVars
  PROVE  RotationOK(w, nkeys') /\ LockMove(r, w)
<1>1. RotationOK(rot[r], nkeys) BY DEF VaultInv, RotationsOK
<1>2. RotationOK(w, nkeys)
  <2>1. \A k \in w.todo : k < nkeys BY <1>1 DEF RotationOK
  <2> QED BY <2>1 DEF RotationOK
<1>3. RotationOK(w, nkeys') BY <1>2
<1>4. LockMove(r, w) BY DEF LockMove
<1> QED BY <1>3, <1>4

\* Every step of a rotation: it moves to a place it may be at, and touches the
\* lock only to take a free one or to give back its own.
LEMMA RotationMoves ==
  ASSUME VaultInv, NEW r \in Replicas, Rotation(r),
         nkeys' \in Nat, nkeys <= nkeys'
  PROVE  \E w \in Rotations : /\ rot' = [rot EXCEPT ![r] = w]
                              /\ RotationOK(w, nkeys') /\ LockMove(r, w)
<1>0. /\ rot \in [Replicas -> Rotations] /\ rot[r] \in Rotations
      /\ RotationOK(rot[r], nkeys)
      /\ nkeys \in Nat /\ day \in Nat /\ KeysOK /\ RowsOK
      /\ usable \subseteq 1..nkeys
  BY DEF VaultInv, RotationsOK, KeysOK, SessionsOK
<1>1. CASE hold(r)
  <2> DEFINE w == [rot[r] EXCEPT !.day = day, !.pc = IF lock = Nobody THEN "new" ELSE "asleep"]
  <2>1. /\ w \in Rotations /\ w.key = rot[r].key /\ w.todo = rot[r].todo
        /\ w.pc = IF lock = Nobody THEN "new" ELSE "asleep"
    BY <1>0 DEF Rotations, RotationPlaces
  <2>2. rot' = [rot EXCEPT ![r] = w] BY <1>0, <1>1 DEF hold
  <2>3. RotationOK(w, nkeys')
    <3>1. \A k \in w.todo : k \in Nat /\ k < nkeys BY <1>0, <2>1 DEF RotationOK, Rotations
    <3>2. \A k \in w.todo : k < nkeys' BY <1>0, <3>1
    <3> HIDE DEF w
    <3> QED BY <2>1, <3>2 DEF RotationOK
  <2>4. LockMove(r, w)
    <3> HIDE DEF w
    <3> QED BY <1>1, <2>1 DEF hold, LockMove, lockVars
  <2> HIDE DEF w
  <2> QED BY <2>1, <2>2, <2>3, <2>4
<1>2. CASE new_credential_key(r)
  <2> DEFINE w == [rot[r] EXCEPT !.pc = "choose"]
  <2>1. w \in Rotations /\ w.todo = rot[r].todo /\ w.pc = "choose"
    BY <1>0 DEF Rotations, RotationPlaces
  <2>2. rot' = [rot EXCEPT ![r] = w] BY <1>0, <1>2 DEF new_credential_key, Goes
  <2>3. nkeys' = nkeys + 1 BY <1>2 DEF new_credential_key, Created
  <2>4. RotationOK(w, nkeys')
    <3>1. \A k \in w.todo : k \in Nat /\ k < nkeys BY <1>0, <2>1 DEF RotationOK, Rotations
    <3>2. \A k \in w.todo : k < nkeys' BY <1>0, <3>1
    <3> HIDE DEF w
    <3> QED BY <1>0, <2>1, <2>3, <3>2 DEF RotationOK
  <2>5. LockMove(r, w)
    BY <1>2 DEF new_credential_key, LockMove
  <2> HIDE DEF w
  <2> QED BY <2>1, <2>2, <2>4, <2>5
<1>3. CASE load_rows(r)
  <2>1. CASE Sleeps(r) /\ release(r)
    BY <1>3, <2>1, SleepMoves DEF load_rows
  <2>2. CASE rot' = [rot EXCEPT ![r].pc = "write", ![r].seen = rows] /\ UNCHANGED lock
    <3>1. rot[r].key \in 1..nkeys /\ nkeys' = nkeys
      BY <1>0, <1>3 DEF load_rows, keyVars, RotationOK
    <3> DEFINE w == [rot[r] EXCEPT !.pc = "write", !.seen = rows]
    <3>2. /\ w \in Rotations /\ w.pc = "write" /\ w.key = rot[r].key /\ w.todo = rot[r].todo
      BY <1>0 DEF Rotations, RotationPlaces, RowsOK
    <3>3. rot' = [rot EXCEPT ![r] = w] BY <1>0, <2>2
    <3> HIDE DEF w
    <3>4. RotationOK(w, nkeys') BY <1>0, <3>1, <3>2 DEF RotationOK
    <3>5. LockMove(r, w) BY <1>3, <2>2 DEF load_rows, LockMove, lockVars
    <3> QED BY <3>2, <3>3, <3>4, <3>5
  <2> QED BY <1>3, <2>1, <2>2 DEF load_rows
<1>4. CASE reencrypt_all(r)
  <2>1. CASE Sleeps(r) /\ release(r)
    BY <1>4, <2>1, SleepMoves DEF reencrypt_all
  <2>2. CASE Forgets(r, "list") /\ UNCHANGED lock
    <3>1. "list" \in RotationPlaces BY DEF RotationPlaces
    <3>2. PICK w \in Rotations : rot' = [rot EXCEPT ![r] = w] /\ w.pc = "list" /\ w.todo = {}
      BY <2>2, <3>1, ForgetsTo
    <3>3. nkeys' = nkeys /\ rot[r].key \in 1..nkeys BY <1>0, <1>4 DEF reencrypt_all, keyVars, RotationOK
    <3>4. nkeys' > 0 BY <1>0, <3>3
    <3>5. RotationOK(w, nkeys') BY <3>2, <3>4 DEF RotationOK
    <3>6. LockMove(r, w) BY <1>4, <2>2 DEF reencrypt_all, LockMove, lockVars
    <3> QED BY <3>2, <3>5, <3>6
  <2> QED BY <1>4, <2>1, <2>2 DEF reencrypt_all
<1>5. CASE list_old_keys(r)
  <2> DEFINE w == [rot[r] EXCEPT !.pc = "retire", !.todo = usable \ {Max(usable)}]
  <2>1. nkeys' = nkeys /\ nkeys > 0
    BY <1>0, <1>5 DEF list_old_keys, keyVars, RotationOK
  <2>2. Max(usable) = nkeys BY <1>0, <2>1, NewestIsMax
  <2>3. \A k \in usable \ {Max(usable)} : k \in Nat /\ k < nkeys BY <1>0, <2>2
  <2>4. w \in Rotations /\ w.pc = "retire" /\ w.todo = usable \ {Max(usable)}
    BY <1>0, <2>3 DEF Rotations, RotationPlaces
  <2>5. rot' = [rot EXCEPT ![r] = w] BY <1>0, <1>5 DEF list_old_keys
  <2> HIDE DEF w
  <2>6. RotationOK(w, nkeys') BY <2>1, <2>3, <2>4 DEF RotationOK
  <2>7. LockMove(r, w) BY <1>5 DEF list_old_keys, LockMove
  <2> QED BY <2>4, <2>5, <2>6, <2>7
<1>6. CASE retire_old_credential_keys(r)
  <2> DEFINE w == [rot[r] EXCEPT !.pc = "jwt", !.todo = {}]
  <2>1. w \in Rotations /\ w.pc = "jwt" /\ w.todo = {}
    BY <1>0 DEF Rotations, RotationPlaces
  <2>2. rot' = [rot EXCEPT ![r] = w] BY <1>0, <1>6 DEF retire_old_credential_keys
  <2>3. nkeys' = nkeys BY <1>6 DEF retire_old_credential_keys
  <2> HIDE DEF w
  <2>4. RotationOK(w, nkeys')
    BY <1>0, <1>6, <2>1, <2>3 DEF RotationOK, retire_old_credential_keys
  <2>5. LockMove(r, w) BY <1>6 DEF retire_old_credential_keys, LockMove
  <2> QED BY <2>1, <2>2, <2>4, <2>5
<1>7. CASE end_rotation(r)
  BY <1>7, SleepMoves DEF end_rotation
<1>8. CASE VaultCrash(r)
  BY <1>8, SleepMoves DEF VaultCrash
<1>9. CASE choose_new_key(r)
  <2> DEFINE w == [rot[r] EXCEPT !.pc = "load", !.key = Max(usable)]
  <2>1. Max(usable) = nkeys /\ nkeys > 0 /\ nkeys' = nkeys /\ rot[r].pc # "asleep" /\ UNCHANGED lockVars
    BY <1>0, <1>9, NewestIsMax DEF choose_new_key, keyVars, RotationOK
  <2>2. w \in Rotations /\ w.pc = "load" /\ w.key = nkeys /\ w.todo = rot[r].todo
    BY <1>0, <2>1 DEF Rotations, RotationPlaces
  <2>3. rot' = [rot EXCEPT ![r] = w] BY <1>0, <1>9 DEF choose_new_key
  <2>4. nkeys \in 1..nkeys BY <1>0, <2>1
  <2> HIDE DEF w
  <2>5. RotationOK(w, nkeys') /\ LockMove(r, w) BY <2>1, <2>2, <2>3, <2>4, PlaceMoves
  <2> QED BY <2>2, <2>3, <2>5
<1>10. CASE new_jwt_key(r)
  <2> DEFINE w == [rot[r] EXCEPT !.pc = "prune"]
  <2>1. w \in Rotations /\ w.pc = "prune" /\ w.todo = rot[r].todo
    BY <1>0 DEF Rotations, RotationPlaces
  <2>2. rot' = [rot EXCEPT ![r] = w] BY <1>0, <1>10 DEF new_jwt_key, Goes
  <2>3. nkeys' = nkeys /\ rot[r].pc # "asleep" /\ UNCHANGED lockVars BY <1>10 DEF new_jwt_key, keyVars
  <2> HIDE DEF w
  <2>4. RotationOK(w, nkeys') /\ LockMove(r, w) BY <2>1, <2>2, <2>3, PlaceMoves
  <2> QED BY <2>1, <2>2, <2>4
<1>11. CASE delete_jwt_key(r)
  <2>1. rot' = [rot EXCEPT ![r] = rot[r]] BY <1>0, <1>11 DEF delete_jwt_key
  <2>2. nkeys' = nkeys /\ rot[r].pc = "prune" /\ UNCHANGED lockVars BY <1>11 DEF delete_jwt_key, keyVars
  <2>3. RotationOK(rot[r], nkeys') /\ LockMove(r, rot[r]) BY <1>0, <2>1, <2>2, PlaceMoves
  <2> QED BY <1>0, <2>1, <2>3
<1> QED BY <1>1, <1>2, <1>3, <1>4, <1>5, <1>6, <1>7, <1>8, <1>9, <1>10, <1>11 DEF Rotation

\* A rotation's place stays allowed as keys are created.
LEMMA RotationOKStays ==
  ASSUME NEW w \in Rotations, NEW n \in Nat, NEW m \in Nat, n <= m, RotationOK(w, n)
  PROVE  RotationOK(w, m)
<1>1. \A k \in w.todo : k \in Nat BY DEF Rotations
<1>2. \A k \in w.todo : k < m BY <1>1 DEF RotationOK
<1> QED BY <1>2 DEF RotationOK

\* Rotations stay at allowed places, and whoever rotates without having lost
\* its lease holds the lock: a late release takes it from nobody else.
LEMMA RotationsStep ==
  ASSUME VaultInv, VaultNext
  PROVE  RotationsOK' /\ LockOK' /\ LeaseHolds'
<1>0. /\ nkeys \in Nat /\ nkeys' \in Nat /\ nkeys <= nkeys'
      /\ RotationsOK /\ rot \in [Replicas -> Rotations]
      /\ LockOK /\ LeaseHolds /\ Nobody \notin Replicas
  BY KeysStep, NothingAssumption DEF VaultInv, KeysOK, RotationsOK
<1>1. \A r \in Replicas : RotationOK(rot[r], nkeys')
  BY <1>0, RotationOKStays DEF RotationsOK
<1>2. ASSUME NEW r \in Replicas, Rotation(r)
      PROVE  RotationsOK' /\ LockOK' /\ LeaseHolds'
  <2>1. PICK w \in Rotations : /\ rot' = [rot EXCEPT ![r] = w]
                               /\ RotationOK(w, nkeys') /\ LockMove(r, w)
    BY <1>0, <1>2, RotationMoves
  <2>2. /\ rot'[r] = w
        /\ \A q \in Replicas : q # r => rot'[q] = rot[q]
    BY <1>0, <2>1
  <2>3. RotationsOK'
    <3>1. rot' \in [Replicas -> Rotations] BY <1>0, <2>1
    <3>2. \A q \in Replicas : RotationOK(rot'[q], nkeys') BY <1>1, <2>1, <2>2
    <3> QED BY <3>1, <3>2 DEF RotationsOK
  <2>4. CASE (rot[r].pc # "asleep" \/ w.pc = "asleep") /\ UNCHANGED lockVars
    BY <1>0, <2>2, <2>3, <2>4 DEF LockOK, LeaseHolds, lockVars
  <2>5. CASE w.pc = "asleep" /\ release(r) /\ lapsed' = lapsed
    BY <1>0, <2>2, <2>3, <2>5 DEF LockOK, LeaseHolds, release
  <2>6. CASE lock = Nobody /\ lock' = r /\ lapsed' = lapsed \ {r}
    BY <1>0, <2>2, <2>3, <2>6 DEF LockOK, LeaseHolds
  <2> QED BY <2>1, <2>4, <2>5, <2>6 DEF LockMove
<1>3. CASE Lapse
  BY <1>0, <1>1, <1>3 DEF Lapse, RotationsOK, LockOK, LeaseHolds
<1>4. CASE UNCHANGED <<lockVars, rot>>
  BY <1>0, <1>1, <1>4 DEF lockVars, RotationsOK, LockOK, LeaseHolds
<1> QED BY <1>2, <1>3, <1>4
    DEF VaultNext, Editing, begin_edit, choose_key, add, update, remove, sign, NextDay

-----------------------------------------------------------------------------
(* The edits and the sessions.                                             *)

\* An edit under way encrypts with the newest key there was when it asked.
LEMMA EditsStep ==
  ASSUME VaultInv, VaultNext
  PROVE  EditsOK'
<1>0. /\ nkeys \in Nat /\ nkeys' \in Nat /\ nkeys <= nkeys'
      /\ edit \in [Editors -> Edits] /\ KeysOK /\ RowsOK
  BY KeysStep DEF VaultInv, KeysOK, EditsOK
<1>1. \A e \in Editors : EditOK(edit[e], nkeys')
  BY <1>0 DEF EditOK, VaultInv, EditsOK, Edits
<1>2. ASSUME NEW e \in Editors, NEW x \in Edits, EditOK(x, nkeys'),
             edit' = [edit EXCEPT ![e] = x]
      PROVE  EditsOK'
  BY <1>0, <1>1, <1>2 DEF EditsOK
<1>3. ASSUME NEW e \in Editors, NEW s \in Secrets, NEW v \in SecretValues,
             begin_edit(e, s, v)
      PROVE  EditsOK'
  <2> DEFINE x == IF rows[s] = NoRow
                  THEN [pc |-> "add", sec |-> s, val |-> v, was |-> 0, key |-> 0]
                  ELSE [pc |-> "change", sec |-> s, val |-> v, was |-> rows[s].key, key |-> 0]
  <2>1. rows[s] # NoRow => rows[s].key \in Nat BY <1>0 DEF RowsOK, Rows
  <2>2. x \in Edits /\ EditOK(x, nkeys') BY <1>0, <2>1 DEF Edits, EditOK
  <2>3. edit' = [edit EXCEPT ![e] = x] BY <1>3 DEF begin_edit
  <2> HIDE DEF x
  <2> QED BY <1>2, <2>2, <2>3
<1>4. ASSUME NEW e \in Editors, choose_key(e)
      PROVE  EditsOK'
  <2> DEFINE x == [edit[e] EXCEPT !.key = EnsuredKey]
  <2>1. EnsuredKey = nkeys' BY <1>0, <1>4, EnsuredIsNewest DEF choose_key
  <2>2. x \in Edits /\ x.key = nkeys' /\ x.sec = edit[e].sec /\ x.val = edit[e].val
        /\ x.pc = edit[e].pc
    BY <1>0, <2>1 DEF Edits
  <2>3. edit' = [edit EXCEPT ![e] = x] BY <1>0, <1>4 DEF choose_key
  <2> HIDE DEF x
  <2>4. EditOK(x, nkeys') BY <1>0, <1>1, <2>2 DEF EditOK
  <2> QED BY <1>2, <2>2, <2>3, <2>4
<1>5. ASSUME NEW e \in Editors, Answered(e)
      PROVE  EditsOK'
  <2> DEFINE x == [Unasked EXCEPT !.pc = "answered"]
  <2>1. x = [pc |-> "answered", sec |-> NoRow, val |-> NoRow, was |-> 0, key |-> 0]
    BY DEF Unasked
  <2>2. x \in Edits /\ EditOK(x, nkeys') BY <1>0, <2>1 DEF Edits, EditOK
  <2>3. edit' = [edit EXCEPT ![e] = x] BY <1>5 DEF Answered
  <2> HIDE DEF x
  <2> QED BY <1>2, <2>2, <2>3
<1>6. CASE UNCHANGED edit BY <1>0, <1>1, <1>6 DEF EditsOK
<1> QED BY <1>3, <1>4, <1>5, <1>6
    DEF VaultNext, Rotation, Editing, hold, new_credential_key, choose_new_key, load_rows,
        reencrypt_all, list_old_keys, retire_old_credential_keys, new_jwt_key, delete_jwt_key,
        end_rotation, VaultCrash, Lapse, add, update, remove, sign, NextDay

\* No signing key goes that is not older than the TTL and a day: every token
\* that needs it is in its last day by then, or was signed late.
LEMMA SessionsStep ==
  ASSUME VaultInv, VaultNext
  PROVE  SessionsOK' /\ TokensVerify'
<1>0. /\ day \in Nat /\ jwtKeys \subseteq 0..day /\ TokenTTL \in Nat
      /\ tokens \subseteq [key : Nat, day : Nat] /\ TokensVerify
      /\ \A t \in tokens : Vouched(t, day) => t.key \in jwtKeys
  BY TokenAssumption DEF VaultInv, SessionsOK, TokensVerify, Vouched
<1>1. CASE sign
  <2> DEFINE k == IF jwtKeys = {} THEN day ELSE Max(jwtKeys)
  <2>1. k \in 0..day
    <3>1. CASE jwtKeys = {} BY <1>0, <3>1
    <3>2. CASE jwtKeys # {}
      <4>1. Max(jwtKeys) \in jwtKeys BY <1>0, <3>2, MaxOfBounded
      <4> QED BY <1>0, <3>2, <4>1
    <3> QED BY <3>1, <3>2
  <2>2. /\ jwtKeys' = jwtKeys \cup {k}
        /\ tokens' = tokens \cup {[key |-> k, day |-> day]}
        /\ day' = day
    BY <1>1 DEF sign
  <2> HIDE DEF k
  <2>3. SessionsOK' BY <1>0, <2>1, <2>2 DEF SessionsOK
  <2>4. ASSUME NEW t \in tokens', Vouched(t, day')
        PROVE  t.key \in jwtKeys'
    <3>1. CASE t \in tokens BY <1>0, <2>2, <2>4, <3>1
    <3>2. CASE t = [key |-> k, day |-> day] BY <2>2, <3>2
    <3> QED BY <2>2, <3>1, <3>2
  <2> QED BY <2>3, <2>4 DEF TokensVerify, Vouched
<1>2. ASSUME NEW r \in Replicas, new_jwt_key(r)
      PROVE  SessionsOK' /\ TokensVerify'
  <2>1. jwtKeys' = jwtKeys \cup {day} /\ tokens' = tokens /\ day' = day
    BY <1>2 DEF new_jwt_key
  <2>2. SessionsOK'
    <3>1. day \in 0..day BY <1>0
    <3>2. jwtKeys' \subseteq 0..day BY <1>0, <2>1, <3>1, Zenon
    <3> QED BY <1>0, <2>1, <3>2 DEF SessionsOK
  <2> QED BY <1>0, <2>1, <2>2 DEF TokensVerify
<1>5. ASSUME NEW r \in Replicas, delete_jwt_key(r)
      PROVE  SessionsOK' /\ TokensVerify'
  <2>1. PICK j \in jwtKeys : /\ j + TokenTTL + 1 <= day /\ jwtKeys' = jwtKeys \ {j}
                             /\ tokens' = tokens /\ day' = day
    BY <1>5 DEF delete_jwt_key, MayExpire
  <2>2. SessionsOK' BY <1>0, <2>1 DEF SessionsOK
  <2>3. ASSUME NEW t \in tokens, Vouched(t, day)
        PROVE  t.key \in jwtKeys'
    <3>1. t.key \in Nat /\ t.day \in Nat BY <1>0
    <3>2. t.key \in jwtKeys BY <1>0, <2>3
    <3>3. t.key + TokenTTL >= day BY <1>0, <2>3, <3>1 DEF Vouched
    <3>4. t.key # j BY <1>0, <2>1, <3>1, <3>3
    <3> QED BY <2>1, <3>2, <3>4
  <2> QED BY <2>1, <2>2, <2>3 DEF TokensVerify, Vouched
<1>3. CASE NextDay
  <2>1. jwtKeys' = jwtKeys /\ tokens' = tokens /\ day' = day + 1
    BY <1>3 DEF NextDay, jwtVars
  <2>2. SessionsOK'
    <3>1. day' \in Nat /\ 0..day \subseteq 0..day' BY <1>0, <2>1
    <3>2. jwtKeys' \subseteq 0..day' BY <1>0, <2>1, <3>1
    <3> QED BY <1>0, <2>1, <3>1, <3>2 DEF SessionsOK
  <2>3. ASSUME NEW t \in tokens', Vouched(t, day')
        PROVE  t.key \in jwtKeys'
    <3>1. t \in tokens /\ t.day \in Nat BY <1>0, <2>1
    <3>2. Vouched(t, day) BY <1>0, <2>1, <2>3, <3>1 DEF Vouched
    <3> QED BY <1>0, <2>1, <3>1, <3>2
  <2> QED BY <2>2, <2>3 DEF TokensVerify, Vouched
<1>4. CASE UNCHANGED <<jwtVars, day>>
  BY <1>0, <1>4 DEF jwtVars, SessionsOK, TokensVerify
<1> QED BY <1>1, <1>2, <1>3, <1>4, <1>5
    DEF VaultNext, Rotation, Editing, hold, new_credential_key, choose_new_key, load_rows,
        reencrypt_all, list_old_keys, retire_old_credential_keys, end_rotation, VaultCrash,
        Lapse, begin_edit, choose_key, add, update, remove

-----------------------------------------------------------------------------
(* The vault.                                                              *)

\* At most one element, for a set inside a singleton.
LEMMA AtMostOne ==
  ASSUME NEW x, NEW S, S \subseteq {x}
  PROVE  Cardinality(S) <= 1
<1>1. Cardinality({x}) = 1 /\ IsFiniteSet({x}) BY FS_Singleton, Zenon
<1>2. Cardinality(S) <= Cardinality({x}) BY <1>1, FS_Subset
<1> QED BY <1>1, <1>2

\* Every step of every replica and admin keeps the vault's invariant.
LEMMA VaultStep ==
  ASSUME VaultInv, [VaultNext]_vaultVars
  PROVE  VaultInv'
<1>1. CASE VaultNext
  <2>1. KeysOK' BY <1>1, KeysStep
  <2>2. RowsOK' /\ CredentialsReadable'
    BY <1>1, RowsStep DEF CredentialsReadable, RowReadable
  <2>3. RotationsOK' /\ LockOK' /\ LeaseHolds' BY <1>1, RotationsStep
  <2>4. EditsOK' BY <1>1, EditsStep
  <2>5. SessionsOK' /\ TokensVerify' BY <1>1, SessionsStep
  <2> QED BY <2>1, <2>2, <2>3, <2>4, <2>5 DEF VaultInv
<1>2. CASE UNCHANGED vaultVars
  BY <1>2 DEF vaultVars, VaultInv, KeysOK, NewestUsable, RowsOK, LockOK, RotationsOK, EditsOK,
       LeaseHolds, SessionsOK, CredentialsReadable, TokensVerify
<1> QED BY <1>1, <1>2

\* The inductive invariant of the vault: rotations stay at places where they
\* can do no harm, and work without a lapsed lease only under the lock.
THEOREM VaultInvariant == VaultSpec => []VaultInv
<1>1. VaultInit => VaultInv BY VaultInitInv
<1>2. VaultInv /\ [VaultNext]_vaultVars => VaultInv' BY VaultStep
<1> QED BY <1>1, <1>2, PTL DEF VaultSpec

\* Rotation loses no credential, no session and no key (rotation.py 46-125,
\* keyring.py 90-108): stored credentials decrypt to what was saved, one
\* replica rotates at a time unless a lease ran out, live tokens verify, and
\* the newest data key is usable.
THEOREM VaultSoundHolds == VaultSpec => []VaultSound
<1>1. ASSUME VaultInv PROVE VaultSound
  <2>1. {r \in Replicas : rot[r].pc # "asleep"} \ lapsed \subseteq {lock}
    BY <1>1 DEF VaultInv, LeaseHolds
  <2>2. RotatesAlone BY <2>1, AtMostOne DEF RotatesAlone
  <2> QED BY <1>1, <2>2 DEF VaultInv, VaultSound, KeysOK
<1> QED BY <1>1, VaultInvariant, PTL

-----------------------------------------------------------------------------
(* The rate limiter: the invariant.                                        *)

CountedPlaces == {"expire", "crashed", "allowed", "refused"}

Counted(h) == hit[h].pc \in CountedPlaces

\* The first second after a window.
WindowEnd(k, b) == (b + 1) * WindowOf[k]

HitType ==
    [pc : {"new", "incr"} \cup CountedPlaces, key : RateKeys, now : Nat,
     bucket : Nat, count : Nat, retry : Nat]

\* Counters of the memory always end; one of Redis may have no TTL.
RateTypes ==
    /\ backend \in {"memory", "redis"}
    /\ second \in Nat /\ lastHit \in Nat
    /\ nextPrune \in Nat \cup {Never}
    /\ counts \subseteq [key : RateKeys, bucket : Nat, count : Nat \ {0}, expires : Nat]
    /\ window \subseteq [key : RateKeys, bucket : Nat, count : Nat \ {0}, expires : Nat \cup {Never}]
    /\ hit \in [Hits -> HitType]
    /\ made \in [Hits -> SUBSET (RateKeys \X Nat)]

\* What a call knows: the window and the wait of the second it read, which an
\* INCR under way trails by MaxDelay at most; the number it was given.
HitOK(x, m, s, be) ==
    /\ x.pc # "new" =>
        /\ x.now <= s /\ x.bucket = Bucket(x.key, x.now)
        /\ x.retry = _retry_after(x.key, x.now)
    /\ x.pc \in {"incr", "expire", "crashed"} => be = "redis"
    /\ x.pc = "incr" => s <= x.now + MaxDelay
    /\ x.pc \in {"new", "incr"} => m = {}
    /\ x.pc \in CountedPlaces => m = {<<x.key, x.bucket>>} /\ x.count > 0
    /\ x.pc = "allowed" => x.count <= LimitOf[x.key]
    /\ x.pc = "refused" => x.count > LimitOf[x.key]

HitsOK == \A h \in Hits : HitOK(hit[h], made[h], second, backend)

\* The calls counted in one window are numbered 1, 2, 3, ...
InWindow(h, k, b) == Counted(h) /\ hit[h].key = k /\ hit[h].bucket = b

NumbersDiffer ==
    \A g, h \in Hits :
        g # h /\ InWindow(g, hit[h].key, hit[h].bucket) /\ Counted(h) => hit[g].count # hit[h].count

NumbersFollow ==
    \A h \in Hits : Counted(h) =>
        \A i \in 1 .. hit[h].count : \E g \in Hits : InWindow(g, hit[h].key, hit[h].bucket) /\ hit[g].count = i

\* No call can be counted in the window any more: Redis may still meet an
\* INCR in the first second after it.
Over(k, b) ==
    IF backend = "redis" THEN second > WindowEnd(k, b) ELSE second >= WindowEnd(k, b)

Store == counts \cup window

\* A window has one counter, which stands at the number of a call counted in
\* it, and is dropped no earlier than the window is over.
StoreOK ==
    /\ backend = "memory" => window = {}
    /\ backend = "redis" => counts = {}
    /\ \A c, d \in Store : c.key = d.key /\ c.bucket = d.bucket => c = d
    /\ \A c \in Store : \E h \in Hits : InWindow(h, c.key, c.bucket) /\ hit[h].count = c.count
    /\ \A c \in counts : c.expires = WindowEnd(c.key, c.bucket)
    /\ \A c \in window : c.expires = Never \/ c.expires > WindowEnd(c.key, c.bucket)

\* Until then the counter has counted every call of the window.
CountersReach ==
    \A h \in Hits : Counted(h) =>
        \/ Over(hit[h].key, hit[h].bucket)
        \/ \E c \in Store : c.key = hit[h].key /\ c.bucket = hit[h].bucket /\ hit[h].count <= c.count

\* The next sweep is due before any counter of the memory ends.
PruneOK ==
    /\ nextPrune = Never => counts = {}
    /\ nextPrune # Never => \A c \in counts : nextPrune <= c.expires
    /\ StoresActiveWindows

RateInv ==
    /\ RateTypes /\ HitsOK /\ NumbersDiffer /\ NumbersFollow
    /\ StoreOK /\ CountersReach /\ PruneOK

-----------------------------------------------------------------------------
(* Seconds and windows.                                                    *)

\* A second lies in its bucket's window, and in no other.
LEMMA BucketBounds ==
  ASSUME NEW k \in RateKeys, NEW n \in Nat
  PROVE  /\ Bucket(k, n) \in Nat /\ Bucket(k, n) * WindowOf[k] <= n
         /\ n < WindowEnd(k, Bucket(k, n)) /\ WindowEnd(k, Bucket(k, n)) \in Nat
<1> DEFINE w == WindowOf[k]
<1>1. w \in Nat \ {0} BY WindowAssumption
<1> HIDE DEF w
<1>2. n \div w \in Nat BY <1>1
<1>3. n = w * (n \div w) + (n % w) /\ n % w \in 0 .. (w - 1) BY <1>1
<1>4. w * (n \div w) = (n \div w) * w /\ (n \div w + 1) * w = (n \div w) * w + w /\ (n \div w) * w \in Nat BY <1>1, <1>2
<1>5. (n \div w) * w <= n /\ n < (n \div w + 1) * w /\ (n \div w + 1) * w \in Nat BY <1>1, <1>2, <1>3, <1>4
<1> QED BY <1>2, <1>5 DEF Bucket, WindowEnd, w

\* An earlier window has ended when a later one begins.
LEMMA EarlierEnds ==
  ASSUME NEW k \in RateKeys, NEW b \in Nat, NEW d \in Nat, b < d
  PROVE  WindowEnd(k, b) <= d * WindowOf[k] /\ WindowEnd(k, b) \in Nat
<1> DEFINE w == WindowOf[k]
<1>1. w \in Nat \ {0} BY WindowAssumption
<1> HIDE DEF w
<1>2. (b + 1) * w <= d * w /\ (b + 1) * w \in Nat BY <1>1
<1> QED BY <1>2 DEF WindowEnd, w

\* The wait a call is told ends with its window.
LEMMA RetryEndsWindow ==
  ASSUME NEW k \in RateKeys, NEW n \in Nat
  PROVE  /\ _retry_after(k, n) \in Nat \ {0}
         /\ Bucket(k, n + _retry_after(k, n)) = Bucket(k, n) + 1
         /\ Bucket(k, n + _retry_after(k, n) - 1) = Bucket(k, n)
<1> DEFINE w == WindowOf[k]  b == n \div w  r == n % w
<1>1. w \in Nat \ {0} BY WindowAssumption
<1> HIDE DEF w
<1>2. b \in Nat /\ r \in 0 .. (w - 1) /\ n = w * b + r BY <1>1
<1> HIDE DEF b, r
<1>3. w * (b + 1) = w * b + w /\ w * b \in Nat /\ w * (b + 1) \in Nat BY <1>1, <1>2
<1>4. n + (w - r) = w * (b + 1) + 0 /\ n + (w - r) - 1 = w * b + (w - 1) BY <1>1, <1>2, <1>3
<1>5. w - 1 \in 0 .. (w - 1) /\ 0 \in 0 .. (w - 1) /\ b + 1 \in Nat BY <1>1, <1>2
<1>6. ASSUME NEW m \in Nat, NEW c \in Nat, NEW q \in 0 .. (w - 1), m = w * c + q PROVE m \div w = c BY <1>1, <1>6
<1>7. n + (w - r) \in Nat /\ n + (w - r) - 1 \in Nat BY <1>1, <1>2
<1>8. (n + (w - r)) \div w = b + 1 BY <1>4, <1>5, <1>6, <1>7
<1>9. (n + (w - r) - 1) \div w = b BY <1>2, <1>4, <1>5, <1>6, <1>7
<1>10. w - r \in Nat \ {0} BY <1>1, <1>2
<1> QED BY <1>8, <1>9, <1>10 DEF Bucket, _retry_after, w, b, r

\* A non-empty set of naturals has a least element, and Min is it.
LEMMA MinIsLeast ==
  ASSUME NEW S \in SUBSET Nat, S # {}
  PROVE  Min(S) \in S /\ \A y \in S : Min(S) <= y
<1>1. PICK m \in S : \A z \in S : ~(<<z, m>> \in OpToRel(<, Nat))
  BY WFMin, NatLessThanWellFounded
<1>2. ASSUME NEW y \in S PROVE m <= y
  <2>1. ~(y < m) BY <1>1 DEF OpToRel
  <2> QED BY <2>1
<1>3. \E z \in S : \A y \in S : z =< y BY <1>2
<1> QED BY <1>3 DEF Min

-----------------------------------------------------------------------------
(* Counting a call.                                                        *)

\* n is the number that comes next in a window.
NextIs(k, b, n) ==
    /\ n \in Nat \ {0}
    /\ \A g \in Hits : InWindow(g, k, b) => hit[g].count < n
    /\ \A i \in 1 .. (n - 1) : \E g \in Hits : InWindow(g, k, b) /\ hit[g].count = i

\* While a window is not over its counter, or its absence, tells the number.
LEMMA CounterTellsNext ==
  ASSUME RateInv, NEW k \in RateKeys, NEW b \in Nat, ~Over(k, b),
         NEW cells, cells = {c \in Store : c.key = k /\ c.bucket = b}
  PROVE  /\ cells = {} => NextIs(k, b, 1)
         /\ cells # {} => \E c \in cells : (CHOOSE z \in cells : TRUE) = c /\ cells = {c} /\ NextIs(k, b, c.count + 1)
<1>1. \A g \in Hits : InWindow(g, k, b) => \E c \in cells : hit[g].count <= c.count
  BY DEF RateInv, CountersReach, InWindow
<1>2. CASE cells = {} BY <1>1, <1>2 DEF NextIs
<1>3. CASE cells # {}
  <2>1. PICK c \in cells : c = CHOOSE z \in cells : TRUE BY <1>3
  <2>2. cells = {c} BY <2>1 DEF RateInv, StoreOK
  <2>3. c \in Store /\ c.count \in Nat \ {0} BY <2>1 DEF RateInv, RateTypes, Store
  <2>4. \A g \in Hits : hit[g].count \in Nat BY DEF RateInv, RateTypes, HitType
  <2>5. \A g \in Hits : InWindow(g, k, b) => hit[g].count < c.count + 1 BY <1>1, <2>2, <2>3, <2>4
  <2>6. PICK h \in Hits : InWindow(h, k, b) /\ hit[h].count = c.count BY <2>1, <2>3 DEF RateInv, StoreOK
  <2>7. \A i \in 1 .. c.count : \E g \in Hits : InWindow(g, k, b) /\ hit[g].count = i
    BY <2>6 DEF RateInv, NumbersFollow, InWindow
  <2>8. NextIs(k, b, c.count + 1) BY <2>3, <2>5, <2>7 DEF NextIs
  <2> QED BY <1>3, <2>1, <2>2, <2>8
<1> QED BY <1>2, <1>3

\* The counters of other windows of the store, and the one of a window.
Besides(S, k, b) == {c \in S : ~(c.key = k /\ c.bucket = b)}

\* The counters that the sweep of a hit leaves.
Unswept == IF nextPrune # Never /\ second >= nextPrune THEN {c \in counts : c.expires > second} ELSE counts

\* What a hit does to the memory.
MemoryCounts(h, k, b, n) ==
    /\ backend = "memory" /\ hit[h].pc = "new" /\ k = hit[h].key /\ b = Bucket(k, second)
    /\ counts' = {c \in Unswept : c.key # k} \cup {[key |-> k, bucket |-> b, count |-> n, expires |-> WindowEnd(k, b)]}
    /\ nextPrune' = NextPrune(Unswept, nextPrune # Never /\ second >= nextPrune, WindowEnd(k, b))
    /\ lastHit' = second /\ CountedAt(h, k, b)
    /\ hit' = [hit EXCEPT ![h] = [@ EXCEPT !.pc = Answer(k, n), !.now = second, !.bucket = b, !.count = n,
                                        !.retry = _retry_after(k, second)]]
    /\ UNCHANGED <<backend, second, window>>

\* A hit of the memory is counted in a window that is not over, as its next.
LEMMA MemoryHit ==
  ASSUME RateInv, NEW h \in Hits, memory_hit(h)
  PROVE  LET k == hit[h].key
             b == Bucket(k, second)
         IN  k \in RateKeys /\ b \in Nat /\ ~Over(k, b) /\ \E n \in Nat : NextIs(k, b, n) /\ MemoryCounts(h, k, b, n)
<1> DEFINE k == hit[h].key
           b == Bucket(k, second)
           cells == {c \in Store : c.key = k /\ c.bucket = b}
           mine == {c \in Unswept : c.key = k /\ c.bucket = b}
           n == IF mine = {} THEN 1 ELSE (CHOOSE c \in mine : TRUE).count + 1
<1>1. k \in RateKeys /\ second \in Nat /\ backend = "memory" BY DEF RateInv, RateTypes, HitType, memory_hit
<1>2. b \in Nat /\ second < WindowEnd(k, b) /\ WindowEnd(k, b) \in Nat BY <1>1, BucketBounds
<1>3. ~Over(k, b) BY <1>1, <1>2 DEF Over
<1>4. mine = cells
  <2>1. window = {} /\ Store = counts BY <1>1 DEF RateInv, StoreOK, Store
  <2>2. \A c \in counts : c.key = k /\ c.bucket = b => c.expires > second BY <1>1, <1>2 DEF RateInv, StoreOK
  <2> QED BY <2>1, <2>2 DEF Unswept
<1> HIDE DEF cells
<1>5. NextIs(k, b, n)
  <2> HIDE DEF k, b, mine
  <2>1. cells = {c \in Store : c.key = k /\ c.bucket = b} BY DEF cells
  <2>2. CASE cells = {} BY <1>1, <1>2, <1>3, <1>4, <2>1, <2>2, CounterTellsNext
  <2>3. CASE cells # {}
    <3>1. PICK c \in cells : (CHOOSE z \in cells : TRUE) = c /\ NextIs(k, b, c.count + 1)
      BY <1>1, <1>2, <1>3, <2>1, <2>3, CounterTellsNext
    <3>2. n = c.count + 1 BY <1>4, <2>3, <3>1
    <3> QED BY <3>1, <3>2
  <2> QED BY <2>2, <2>3
<1>6. MemoryCounts(h, k, b, n) BY DEF memory_hit, MemoryCounts, Unswept, WindowEnd
<1>7. n \in Nat BY <1>5 DEF NextIs
<1> QED BY <1>1, <1>2, <1>3, <1>5, <1>6, <1>7

\* What an INCR does to Redis: a counter it makes has no TTL, one that was
\* there keeps its own.
RedisCounts(h, k, b, n, e) ==
    /\ backend = "redis" /\ hit[h].pc = "incr" /\ k = hit[h].key /\ b = hit[h].bucket
    /\ e = Never \/ \E c \in window : c.key = k /\ c.bucket = b /\ c.expires = e
    /\ window' = Besides(window, k, b) \cup {[key |-> k, bucket |-> b, count |-> n, expires |-> e]}
    /\ CountedAt(h, k, b)
    /\ hit' = [hit EXCEPT ![h].count = n, ![h].pc = IF n = 1 THEN "expire" ELSE Answer(k, n)]
    /\ UNCHANGED <<backend, second, counts, nextPrune, lastHit>>

\* So is an INCR of Redis, as late as it may arrive.
LEMMA RedisHit ==
  ASSUME RateInv, NEW h \in Hits, incr(h)
  PROVE  LET k == hit[h].key
             b == hit[h].bucket
         IN  k \in RateKeys /\ b \in Nat /\ ~Over(k, b)
             /\ \E n \in Nat, e \in Nat \cup {Never} : NextIs(k, b, n) /\ RedisCounts(h, k, b, n, e)
<1> DEFINE k == hit[h].key
           b == hit[h].bucket
           cells == redis_key(h)
<1>1. k \in RateKeys /\ b \in Nat /\ second \in Nat /\ hit[h].now \in Nat
  BY DEF RateInv, RateTypes, HitType
<1>2. hit[h].pc = "incr" BY DEF incr
<1>3. backend = "redis" /\ b = Bucket(k, hit[h].now) /\ second <= hit[h].now + MaxDelay
  BY <1>2 DEF RateInv, HitsOK, HitOK
<1>4. hit[h].now < WindowEnd(k, b) /\ WindowEnd(k, b) \in Nat BY <1>1, <1>3, BucketBounds
<1>5. second <= WindowEnd(k, b) BY <1>1, <1>3, <1>4, DelayAssumption
<1>6. ~Over(k, b) BY <1>1, <1>3, <1>4, <1>5 DEF Over
<1>7. Store = window /\ cells = {c \in Store : c.key = k /\ c.bucket = b}
  BY <1>3 DEF RateInv, StoreOK, Store, redis_key
<1>8. CASE cells = {}
  <2>1. NextIs(k, b, 1) BY <1>1, <1>6, <1>7, <1>8, CounterTellsNext
  <2>2. window = Besides(window, k, b) BY <1>7, <1>8 DEF Besides
  <2>3. RedisCounts(h, k, b, 1, Never) BY <1>2, <1>3, <1>8, <2>2 DEF incr, RedisCounts
  <2> QED BY <1>1, <1>6, <2>1, <2>3
<1>9. CASE cells # {}
  <2> HIDE DEF cells
  <2>1. PICK c \in cells : (CHOOSE z \in cells : TRUE) = c /\ cells = {c} /\ NextIs(k, b, c.count + 1)
    BY <1>1, <1>6, <1>7, <1>9, CounterTellsNext
  <2>2. c \in window /\ c.key = k /\ c.bucket = b BY <1>7, <2>1
  <2>3. c \in [key : RateKeys, bucket : Nat, count : Nat \ {0}, expires : Nat \cup {Never}]
    BY <2>2 DEF RateInv, RateTypes
  <2>4. [c EXCEPT !.count = c.count + 1] = [key |-> k, bucket |-> b, count |-> c.count + 1, expires |-> c.expires]
    BY <2>2, <2>3
  <2>5. window \ {c} = Besides(window, k, b) BY <1>7, <2>1 DEF Besides
  <2>6. c.count + 1 \in Nat /\ c.expires \in Nat \cup {Never} BY <2>3
  <2>7. /\ window' = (window \ {c}) \cup {[c EXCEPT !.count = c.count + 1]}
        /\ CountedAt(h, k, b)
        /\ hit' = [hit EXCEPT ![h].count = c.count + 1, ![h].pc = IF c.count + 1 = 1 THEN "expire" ELSE Answer(k, c.count + 1)]
        /\ UNCHANGED <<backend, second, counts, nextPrune, lastHit>>
    BY <1>9, <2>1 DEF incr, cells
  <2>8. RedisCounts(h, k, b, c.count + 1, c.expires) BY <1>2, <1>3, <2>2, <2>4, <2>5, <2>7 DEF RedisCounts
  <2> QED BY <1>1, <1>6, <2>1, <2>6, <2>8
<1> QED BY <1>8, <1>9

-----------------------------------------------------------------------------
(* The steps.                                                              *)

\* The limiter starts with nothing counted.
LEMMA RateInitInv == RateInit => RateInv
<1> SUFFICES ASSUME RateInit PROVE RateInv OBVIOUS
<1>1. \A h \in Hits : hit[h].pc = "new" /\ hit[h] \in HitType BY DEF RateInit, HitType
<1>2. RateTypes BY <1>1, WindowAssumption DEF RateInit, RateTypes
<1>3. \A h \in Hits : made[h] = {} BY DEF RateInit
<1>4. HitsOK BY <1>1, <1>3 DEF HitsOK, HitOK, CountedPlaces
<1>5. NumbersDiffer /\ NumbersFollow /\ CountersReach
  BY <1>1 DEF NumbersDiffer, NumbersFollow, CountersReach, Counted, CountedPlaces
<1>6. StoreOK /\ PruneOK BY DEF RateInit, StoreOK, PruneOK, Store, StoresActiveWindows
<1> QED BY <1>2, <1>4, <1>5, <1>6 DEF RateInv

\* A limit decides between the two answers.
LEMMA AnswerDecides ==
  ASSUME NEW k \in RateKeys, NEW n \in Nat
  PROVE  /\ Answer(k, n) \in {"allowed", "refused"}
         /\ Answer(k, n) = "allowed" => n <= LimitOf[k]
         /\ Answer(k, n) = "refused" => n > LimitOf[k]
BY WindowAssumption DEF Answer

\* Every action keeps the types.
LEMMA RateTypesStep ==
  ASSUME RateInv, [RateNext]_rateVars
  PROVE  RateTypes'
<1> USE DEF RateInv
<1>1. ASSUME NEW h \in Hits, memory_hit(h) PROVE RateTypes'
  <2> DEFINE k == hit[h].key  b == Bucket(k, second)
  <2>1. PICK n \in Nat : NextIs(k, b, n) /\ MemoryCounts(h, k, b, n) BY <1>1, MemoryHit
  <2>2. k \in RateKeys /\ b \in Nat BY <1>1, MemoryHit
  <2> HIDE DEF k, b
  <2>3. n \in Nat \ {0} /\ second \in Nat BY <2>1 DEF NextIs, RateTypes
  <2>4. WindowEnd(k, b) \in Nat /\ _retry_after(k, second) \in Nat
    BY <2>1, <2>2, <2>3, BucketBounds, RetryEndsWindow DEF MemoryCounts
  <2>5. Unswept \subseteq counts BY DEF Unswept
  <2>6. counts' \subseteq [key : RateKeys, bucket : Nat, count : Nat \ {0}, expires : Nat]
    BY <2>1, <2>2, <2>3, <2>4, <2>5 DEF MemoryCounts, RateTypes
  <2>7. nextPrune' \in Nat
    <3> DEFINE S == (IF nextPrune # Never /\ second >= nextPrune THEN {c.expires : c \in Unswept} ELSE {nextPrune} \ {Never})
                        \cup {WindowEnd(k, b)}
    <3>1. S \in SUBSET Nat /\ S # {} BY <2>4, <2>5 DEF RateTypes
    <3>2. nextPrune' = Min(S) BY <2>1 DEF MemoryCounts, NextPrune
    <3> HIDE DEF S
    <3> QED BY <3>1, <3>2, MinIsLeast
  <2>8. hit' \in [Hits -> HitType]
    <3>1. Answer(k, n) \in {"allowed", "refused"} BY <2>2, AnswerDecides
    <3>2. hit[h] \in HitType /\ hit \in [Hits -> HitType] BY DEF RateTypes
    <3>3. [hit[h] EXCEPT !.pc = Answer(k, n), !.now = second, !.bucket = b, !.count = n, !.retry = _retry_after(k, second)] \in HitType
      BY <2>2, <2>3, <2>4, <3>1, <3>2 DEF HitType, CountedPlaces
    <3> QED BY <2>1, <3>2, <3>3 DEF MemoryCounts
  <2>9. made' \in [Hits -> SUBSET (RateKeys \X Nat)] BY <2>1, <2>2 DEF MemoryCounts, CountedAt, RateTypes
  <2> QED BY <2>1, <2>6, <2>7, <2>8, <2>9 DEF MemoryCounts, RateTypes
<1>2. ASSUME NEW h \in Hits, redis_hit(h) PROVE RateTypes'
  <2>1. hit[h] \in HitType /\ hit[h].key \in RateKeys /\ second \in Nat BY DEF RateTypes, HitType
  <2>2. Bucket(hit[h].key, second) \in Nat /\ _retry_after(hit[h].key, second) \in Nat BY <2>1, BucketBounds, RetryEndsWindow
  <2>3. hit' \in [Hits -> HitType] BY <1>2, <2>1, <2>2 DEF redis_hit, RateTypes, HitType
  <2> QED BY <1>2, <2>3 DEF redis_hit, RateTypes
<1>3. ASSUME NEW h \in Hits, incr(h) PROVE RateTypes'
  <2> DEFINE k == hit[h].key  b == hit[h].bucket
  <2>1. PICK n \in Nat, e \in Nat \cup {Never} : NextIs(k, b, n) /\ RedisCounts(h, k, b, n, e) BY <1>3, RedisHit
  <2>2. k \in RateKeys /\ b \in Nat BY <1>3, RedisHit
  <2> HIDE DEF k, b
  <2>3. n \in Nat \ {0} BY <2>1 DEF NextIs
  <2>4. Answer(k, n) \in {"allowed", "refused"} BY <2>2, AnswerDecides
  <2>5. hit' \in [Hits -> HitType] BY <2>1, <2>2, <2>3, <2>4 DEF RedisCounts, RateTypes, HitType, CountedPlaces
  <2>6. window' \subseteq [key : RateKeys, bucket : Nat, count : Nat \ {0}, expires : Nat \cup {Never}]
    BY <2>1, <2>2, <2>3 DEF RedisCounts, RateTypes, Besides
  <2>7. made' \in [Hits -> SUBSET (RateKeys \X Nat)] BY <2>1, <2>2 DEF RedisCounts, CountedAt, RateTypes
  <2> QED BY <2>1, <2>5, <2>6, <2>7 DEF RedisCounts, RateTypes
<1>4. ASSUME NEW h \in Hits, expire(h) PROVE RateTypes'
  <2>1. hit[h] \in HitType /\ hit[h].key \in RateKeys /\ second \in Nat /\ hit[h].count \in Nat BY DEF RateTypes, HitType
  <2>2. Answer(hit[h].key, hit[h].count) \in {"allowed", "refused"} BY <2>1, AnswerDecides
  <2>3. hit' \in [Hits -> HitType] BY <1>4, <2>1, <2>2 DEF expire, RateTypes, HitType, CountedPlaces
  <2>4. ExpireAt(h) \in Nat BY <2>1, WindowAssumption DEF ExpireAt
  <2>5. window' \subseteq [key : RateKeys, bucket : Nat, count : Nat \ {0}, expires : Nat \cup {Never}]
    <3> SUFFICES ASSUME NEW c \in window
                 PROVE  (IF c \in redis_key(h) THEN [c EXCEPT !.expires = ExpireAt(h)] ELSE c)
                           \in [key : RateKeys, bucket : Nat, count : Nat \ {0}, expires : Nat \cup {Never}]
      BY <1>4 DEF expire
    <3>1. c \in [key : RateKeys, bucket : Nat, count : Nat \ {0}, expires : Nat \cup {Never}] BY DEF RateTypes
    <3> QED BY <2>4, <3>1
  <2> QED BY <1>4, <2>3, <2>5 DEF expire, RateTypes
<1>5. ASSUME NEW h \in Hits, RateCrash(h) PROVE RateTypes' BY <1>5 DEF RateCrash, RateTypes, HitType, CountedPlaces
<1>6. CASE Second BY <1>6 DEF Second, RateTypes
<1>7. CASE UNCHANGED rateVars BY <1>7 DEF rateVars, RateTypes
<1> QED BY <1>1, <1>2, <1>3, <1>4, <1>5, <1>6, <1>7 DEF RateNext

\* Who is counted, and in which window with which number, stays; only a call
\* not counted yet can become so.
LEMMA CountedStay ==
  ASSUME RateInv, [RateNext]_rateVars, NEW g \in Hits, Counted(g)
  PROVE  Counted(g)' /\ hit'[g].key = hit[g].key /\ hit'[g].bucket = hit[g].bucket /\ hit'[g].count = hit[g].count
<1> USE DEF RateInv, Counted, CountedPlaces
<1>0. hit \in [Hits -> HitType] /\ hit[g] \in HitType /\ hit[g].key \in RateKeys /\ hit[g].count \in Nat BY DEF RateTypes, HitType
<1>1. ASSUME NEW h \in Hits, memory_hit(h) \/ redis_hit(h) \/ incr(h) PROVE g # h /\ hit'[g] = hit[g]
  BY <1>0, <1>1 DEF memory_hit, redis_hit, incr
<1>2. ASSUME NEW h \in Hits, expire(h) PROVE Counted(g)' /\ hit'[g].key = hit[g].key /\ hit'[g].bucket = hit[g].bucket /\ hit'[g].count = hit[g].count
  <2>1. Answer(hit[g].key, hit[g].count) \in {"allowed", "refused"} BY <1>0, AnswerDecides
  <2> QED BY <1>0, <1>2, <2>1 DEF expire, HitType
<1>3. ASSUME NEW h \in Hits, RateCrash(h) PROVE Counted(g)' /\ hit'[g].key = hit[g].key /\ hit'[g].bucket = hit[g].bucket /\ hit'[g].count = hit[g].count
  BY <1>0, <1>3 DEF RateCrash, HitType
<1>4. CASE Second \/ UNCHANGED rateVars BY <1>4 DEF Second, rateVars
<1> QED BY <1>1, <1>2, <1>3, <1>4 DEF RateNext

\* Each call keeps what it knows, as the others step and time passes.
LEMMA HitsStep ==
  ASSUME RateInv, [RateNext]_rateVars
  PROVE  HitsOK'
<1> USE DEF RateInv, CountedPlaces
<1>0. hit \in [Hits -> HitType] /\ made \in [Hits -> SUBSET (RateKeys \X Nat)] /\ second \in Nat BY DEF RateTypes
<1>1. ASSUME NEW h \in Hits, NEW x, NEW m, UNCHANGED <<second, backend>>, hit' = [hit EXCEPT ![h] = x],
             made' = [made EXCEPT ![h] = m], HitOK(x, m, second, backend)
      PROVE  HitsOK'
  BY <1>0, <1>1 DEF HitsOK
<1>2. ASSUME NEW h \in Hits, memory_hit(h) PROVE HitsOK'
  <2> DEFINE k == hit[h].key  b == Bucket(k, second)
  <2>1. PICK n \in Nat : NextIs(k, b, n) /\ MemoryCounts(h, k, b, n) BY <1>2, MemoryHit
  <2>2. k \in RateKeys /\ b \in Nat BY <1>2, MemoryHit
  <2> DEFINE x == [hit[h] EXCEPT !.pc = Answer(k, n), !.now = second, !.bucket = b, !.count = n, !.retry = _retry_after(k, second)]
  <2>3. hit[h] \in HitType BY <1>0
  <2>4. /\ x.pc = Answer(k, n) /\ x.now = second /\ x.bucket = b /\ x.count = n
        /\ x.retry = _retry_after(k, second) /\ x.key = k BY <2>3 DEF HitType
  <2>5. n > 0 BY <2>1 DEF NextIs
  <2>6. hit' = [hit EXCEPT ![h] = x] /\ made' = [made EXCEPT ![h] = {<<k, b>>}] /\ UNCHANGED <<second, backend>>
    BY <2>1 DEF MemoryCounts, CountedAt
  <2> HIDE DEF x, k
  <2>7. HitOK(x, {<<k, b>>}, second, backend) BY <1>0, <2>2, <2>4, <2>5, AnswerDecides DEF HitOK
  <2> QED BY <1>1, <2>6, <2>7
<1>3. ASSUME NEW h \in Hits, redis_hit(h) PROVE HitsOK'
  <2> DEFINE k == hit[h].key
             x == [hit[h] EXCEPT !.pc = "incr", !.now = second, !.bucket = Bucket(k, second), !.retry = _retry_after(k, second)]
  <2>1. hit[h] \in HitType BY <1>0
  <2>2. /\ x.pc = "incr" /\ x.now = second /\ x.bucket = Bucket(k, second)
        /\ x.retry = _retry_after(k, second) /\ x.key = k BY <2>1 DEF HitType
  <2>3. made[h] = {} BY <1>3 DEF redis_hit, HitsOK, HitOK
  <2>4. hit' = [hit EXCEPT ![h] = x] /\ made' = [made EXCEPT ![h] = made[h]] /\ UNCHANGED <<second, backend>> /\ backend = "redis"
    BY <1>0, <1>3 DEF redis_hit
  <2> HIDE DEF x, k
  <2>5. HitOK(x, made[h], second, backend) BY <1>0, <2>2, <2>3, <2>4, DelayAssumption DEF HitOK
  <2> QED BY <1>1, <2>4, <2>5
<1>4. ASSUME NEW h \in Hits, incr(h) PROVE HitsOK'
  <2> DEFINE k == hit[h].key  b == hit[h].bucket
  <2>1. PICK n \in Nat, e \in Nat \cup {Never} : NextIs(k, b, n) /\ RedisCounts(h, k, b, n, e) BY <1>4, RedisHit
  <2>2. k \in RateKeys /\ b \in Nat BY <1>4, RedisHit
  <2> DEFINE p == IF n = 1 THEN "expire" ELSE Answer(k, n)
             x == [hit[h] EXCEPT !.count = n, !.pc = p]
  <2>3. hit[h] \in HitType BY <1>0
  <2>4. x.pc = p /\ x.now = hit[h].now /\ x.bucket = b /\ x.count = n /\ x.retry = hit[h].retry /\ x.key = k
    BY <2>3 DEF HitType
  <2>5. n > 0 BY <2>1 DEF NextIs
  <2>6. hit' = [hit EXCEPT ![h] = x] /\ made' = [made EXCEPT ![h] = {<<k, b>>}] /\ UNCHANGED <<second, backend>> /\ backend = "redis"
    BY <1>0, <2>1 DEF RedisCounts, CountedAt
  <2>7. HitOK(hit[h], made[h], second, backend) /\ hit[h].pc = "incr" BY <2>1 DEF HitsOK, RedisCounts
  <2>8. p \in {"expire", "allowed", "refused"} /\ (p = "allowed" => n <= LimitOf[k]) /\ (p = "refused" => n > LimitOf[k])
    BY <2>2, AnswerDecides
  <2>9. b = Bucket(k, hit[h].now) /\ hit[h].now <= second /\ hit[h].retry = _retry_after(k, hit[h].now) BY <2>7 DEF HitOK
  <2> HIDE DEF x, k, b, p
  <2>10. HitOK(x, {<<k, b>>}, second, backend) BY <2>4, <2>5, <2>6, <2>8, <2>9 DEF HitOK
  <2> QED BY <1>1, <2>6, <2>10
<1>5. ASSUME NEW h \in Hits, expire(h) \/ RateCrash(h) PROVE HitsOK'
  <2> DEFINE k == hit[h].key
             p == IF expire(h) THEN Answer(k, hit[h].count) ELSE "crashed"
             x == [hit[h] EXCEPT !.pc = p]
  <2>1. hit[h] \in HitType /\ k \in RateKeys /\ hit[h].count \in Nat BY <1>0 DEF HitType
  <2>2. x.pc = p /\ x.now = hit[h].now /\ x.bucket = hit[h].bucket /\ x.count = hit[h].count /\ x.retry = hit[h].retry /\ x.key = k
    BY <2>1 DEF HitType
  <2>3. hit' = [hit EXCEPT ![h] = x] /\ made' = [made EXCEPT ![h] = made[h]] /\ UNCHANGED <<second, backend>>
    BY <1>0, <1>5 DEF expire, RateCrash
  <2>4. HitOK(hit[h], made[h], second, backend) /\ hit[h].pc = "expire" BY <1>5 DEF HitsOK, expire, RateCrash
  <2>5. p \in {"crashed", "allowed", "refused"} /\ (p = "allowed" => hit[h].count <= LimitOf[k]) /\ (p = "refused" => hit[h].count > LimitOf[k])
    BY <2>1, AnswerDecides
  <2> HIDE DEF x, p
  <2>6. HitOK(x, made[h], second, backend) BY <2>2, <2>4, <2>5 DEF HitOK
  <2> QED BY <1>1, <2>3, <2>6
<1>6. CASE Second
  <2> SUFFICES ASSUME NEW h \in Hits PROVE HitOK(hit[h], made[h], second + 1, backend) BY <1>6 DEF Second, HitsOK
  <2>1. HitOK(hit[h], made[h], second, backend) BY DEF HitsOK
  <2>2. hit[h].pc = "incr" => second < hit[h].now + MaxDelay BY <1>6 DEF Second
  <2>3. hit[h].now \in Nat /\ MaxDelay \in Nat BY <1>0, DelayAssumption DEF HitType
  <2>4. hit[h].pc # "new" => hit[h].now <= second + 1 BY <1>0, <2>1, <2>3 DEF HitOK
  <2>5. hit[h].pc = "incr" => second + 1 <= hit[h].now + MaxDelay BY <1>0, <2>2, <2>3
  <2> QED BY <2>1, <2>4, <2>5 DEF HitOK
<1>7. CASE UNCHANGED rateVars BY <1>7 DEF rateVars, HitsOK
<1> QED BY <1>2, <1>3, <1>4, <1>5, <1>6, <1>7 DEF RateNext

\* A step counts at most one call, and gives it the next number of its window.
LEMMA NewlyCounted ==
  ASSUME RateInv, [RateNext]_rateVars
  PROVE  \/ \A g \in Hits : Counted(g)' => Counted(g)
         \/ \E h \in Hits :
               /\ ~Counted(h) /\ Counted(h)'
               /\ \A g \in Hits : Counted(g)' => g = h \/ Counted(g)
               /\ NextIs(hit'[h].key, hit'[h].bucket, hit'[h].count)
<1> USE DEF Counted, CountedPlaces
<1>0. hit \in [Hits -> HitType] BY DEF RateInv, RateTypes
<1>1. ASSUME NEW h \in Hits, memory_hit(h)
      PROVE  ~Counted(h) /\ Counted(h)' /\ (\A g \in Hits : Counted(g)' => g = h \/ Counted(g))
             /\ NextIs(hit'[h].key, hit'[h].bucket, hit'[h].count)
  <2> DEFINE k == hit[h].key  b == Bucket(k, second)
  <2>1. PICK n \in Nat : NextIs(k, b, n) /\ MemoryCounts(h, k, b, n) BY <1>1, MemoryHit
  <2>2. Answer(k, n) \in {"allowed", "refused"} BY <1>1, MemoryHit, AnswerDecides
  <2>3. hit[h] \in HitType BY <1>0
  <2>4. hit'[h].pc = Answer(k, n) /\ hit'[h].key = k /\ hit'[h].bucket = b /\ hit'[h].count = n
    BY <1>0, <2>1, <2>3 DEF MemoryCounts, HitType
  <2>5. \A g \in Hits : g # h => hit'[g] = hit[g] BY <1>0, <2>1 DEF MemoryCounts
  <2>6. hit[h].pc = "new" BY <2>1 DEF MemoryCounts
  <2> QED BY <2>1, <2>2, <2>4, <2>5, <2>6
<1>2. ASSUME NEW h \in Hits, incr(h)
      PROVE  ~Counted(h) /\ Counted(h)' /\ (\A g \in Hits : Counted(g)' => g = h \/ Counted(g))
             /\ NextIs(hit'[h].key, hit'[h].bucket, hit'[h].count)
  <2> DEFINE k == hit[h].key  b == hit[h].bucket
  <2>1. PICK n \in Nat, e \in Nat \cup {Never} : NextIs(k, b, n) /\ RedisCounts(h, k, b, n, e) BY <1>2, RedisHit
  <2>2. Answer(k, n) \in {"allowed", "refused"} BY <1>2, RedisHit, AnswerDecides
  <2>3. hit[h] \in HitType BY <1>0
  <2>4. hit'[h].pc \in {"expire", "allowed", "refused"} /\ hit'[h].key = k /\ hit'[h].bucket = b /\ hit'[h].count = n
    BY <1>0, <2>1, <2>2, <2>3 DEF RedisCounts, HitType
  <2>5. \A g \in Hits : g # h => hit'[g] = hit[g] BY <1>0, <2>1 DEF RedisCounts
  <2>6. hit[h].pc = "incr" BY <2>1 DEF RedisCounts
  <2> QED BY <2>1, <2>4, <2>5, <2>6
<1>3. ASSUME NEW h \in Hits, redis_hit(h) \/ expire(h) \/ RateCrash(h) PROVE \A g \in Hits : Counted(g)' => Counted(g)
  BY <1>0, <1>3 DEF redis_hit, expire, RateCrash, HitType
<1>4. CASE Second \/ UNCHANGED rateVars BY <1>4 DEF Second, rateVars
<1> QED BY <1>1, <1>2, <1>3, <1>4 DEF RateNext

\* The numbers of a window stay distinct and without a gap.
LEMMA NumbersStep ==
  ASSUME RateInv, [RateNext]_rateVars
  PROVE  NumbersDiffer' /\ NumbersFollow'
<1>1. \A g \in Hits : Counted(g) =>
          Counted(g)' /\ hit'[g].key = hit[g].key /\ hit'[g].bucket = hit[g].bucket /\ hit'[g].count = hit[g].count
  BY CountedStay
<1>2. \A g \in Hits : hit[g].count \in Nat BY DEF RateInv, RateTypes, HitType
<1>3. CASE \A g \in Hits : Counted(g)' => Counted(g)
  <2>1. NumbersDiffer' BY <1>1, <1>3 DEF RateInv, NumbersDiffer, InWindow
  <2>2. NumbersFollow' BY <1>1, <1>3 DEF RateInv, NumbersFollow, InWindow
  <2> QED BY <2>1, <2>2
<1>4. ASSUME NEW h \in Hits, ~Counted(h), Counted(h)', \A g \in Hits : Counted(g)' => g = h \/ Counted(g),
             NextIs(hit'[h].key, hit'[h].bucket, hit'[h].count)
      PROVE  NumbersDiffer' /\ NumbersFollow'
  <2> DEFINE k == hit'[h].key  b == hit'[h].bucket  n == hit'[h].count
  <2>1. n \in Nat \ {0} /\ \A g \in Hits : InWindow(g, k, b) => hit[g].count < n BY <1>4 DEF NextIs
  <2>2. \A i \in 1 .. (n - 1) : \E g \in Hits : InWindow(g, k, b) /\ hit[g].count = i BY <1>4 DEF NextIs
  <2>3. ASSUME NEW g \in Hits, g # h, Counted(g)'
        PROVE  Counted(g) /\ hit'[g].key = hit[g].key /\ hit'[g].bucket = hit[g].bucket /\ hit'[g].count = hit[g].count
    BY <1>1, <1>4, <2>3
  <2>4. NumbersDiffer'
    <3> SUFFICES ASSUME NEW g \in Hits, NEW f \in Hits, g # f, Counted(g)', Counted(f)', hit'[g].key = hit'[f].key, hit'[g].bucket = hit'[f].bucket
                 PROVE  hit'[g].count # hit'[f].count
      BY DEF NumbersDiffer, InWindow
    <3>1. CASE g # h /\ f # h BY <2>3, <3>1 DEF RateInv, NumbersDiffer, InWindow
    <3>2. CASE f = h
      <4>1. InWindow(g, k, b) /\ hit'[g].count = hit[g].count BY <2>3, <3>2 DEF InWindow
      <4> QED BY <1>2, <2>1, <3>2, <4>1
    <3>3. CASE g = h
      <4>1. InWindow(f, k, b) /\ hit'[f].count = hit[f].count BY <2>3, <3>3 DEF InWindow
      <4> QED BY <1>2, <2>1, <3>3, <4>1
    <3> QED BY <3>1, <3>2, <3>3
  <2>5. NumbersFollow'
    <3> SUFFICES ASSUME NEW g \in Hits, Counted(g)', NEW i \in 1 .. hit'[g].count
                 PROVE  \E f \in Hits : InWindow(f, hit[g].key, hit[g].bucket)' /\ hit'[f].count = i
      BY DEF NumbersFollow
    <3>1. CASE g # h
      <4>1. PICK f \in Hits : InWindow(f, hit[g].key, hit[g].bucket) /\ hit[f].count = i
        BY <2>3, <3>1 DEF RateInv, NumbersFollow
      <4>2. InWindow(f, hit[g].key, hit[g].bucket)' /\ hit'[f].count = i BY <1>1, <2>3, <3>1, <4>1 DEF InWindow
      <4> QED BY <4>2
    <3>2. CASE g = h /\ i = n BY <1>4, <3>2 DEF InWindow
    <3>3. CASE g = h /\ i # n
      <4>1. i \in 1 .. (n - 1) BY <2>1, <3>3
      <4>2. PICK f \in Hits : InWindow(f, k, b) /\ hit[f].count = i BY <2>2, <4>1
      <4> QED BY <1>1, <3>3, <4>2 DEF InWindow
    <3> QED BY <3>1, <3>2, <3>3
  <2> QED BY <2>4, <2>5
<1> QED BY <1>3, <1>4, NewlyCounted

\* Counters stay one to a window, at the number of one of its calls, and end
\* no earlier than it.
LEMMA CountersStep ==
  ASSUME RateInv, [RateNext]_rateVars
  PROVE  StoreOK'
<1> USE DEF RateInv
<1>0. /\ hit \in [Hits -> HitType] /\ second \in Nat
      /\ \A c, d \in Store : c.key = d.key /\ c.bucket = d.bucket => c = d
      /\ \A c \in counts : c.expires = WindowEnd(c.key, c.bucket)
      /\ \A c \in window : c.expires = Never \/ c.expires > WindowEnd(c.key, c.bucket)
  BY DEF RateTypes, StoreOK
<1>1. \A c \in Store : \E g \in Hits : InWindow(g, c.key, c.bucket)' /\ hit'[g].count = c.count
  BY CountedStay DEF StoreOK, InWindow
<1>2. ASSUME NEW h \in Hits, memory_hit(h) PROVE StoreOK'
  <2> DEFINE k == hit[h].key  b == Bucket(k, second)
  <2>1. PICK n \in Nat : NextIs(k, b, n) /\ MemoryCounts(h, k, b, n) BY <1>2, MemoryHit
  <2>2. Answer(k, n) \in {"allowed", "refused"} BY <1>2, MemoryHit, AnswerDecides
  <2>3. hit[h] \in HitType BY <1>0
  <2> DEFINE new == [key |-> k, bucket |-> b, count |-> n, expires |-> WindowEnd(k, b)]
  <2>4. Counted(h)' /\ hit'[h].key = new.key /\ hit'[h].bucket = new.bucket /\ hit'[h].count = new.count
    BY <1>0, <2>1, <2>2, <2>3 DEF MemoryCounts, HitType, Counted, CountedPlaces
  <2>5. new.key = k /\ new.bucket = b /\ new.expires = WindowEnd(k, b) OBVIOUS
  <2>6. counts' = {c \in Unswept : c.key # k} \cup {new} /\ window' = {} /\ backend' = "memory"
    BY <2>1 DEF MemoryCounts, StoreOK
  <2> HIDE DEF new, k, b
  <2>7. Unswept \subseteq counts /\ Store' = counts' BY <2>6 DEF Unswept, Store
  <2>8. Unswept \subseteq Store BY <2>7 DEF Store
  <2>9. \A c, d \in Store' : c.key = d.key /\ c.bucket = d.bucket => c = d BY <1>0, <2>5, <2>6, <2>7, <2>8
  <2>10. \A c \in Store' : \E g \in Hits : InWindow(g, c.key, c.bucket)' /\ hit'[g].count = c.count
    BY <1>1, <2>4, <2>6, <2>7, <2>8 DEF InWindow
  <2>11. \A c \in counts' : c.expires = WindowEnd(c.key, c.bucket) BY <1>0, <2>5, <2>6, <2>7
  <2> QED BY <2>6, <2>9, <2>10, <2>11 DEF StoreOK, WindowEnd
<1>3. ASSUME NEW h \in Hits, incr(h) PROVE StoreOK'
  <2> DEFINE k == hit[h].key  b == hit[h].bucket
  <2>1. PICK n \in Nat, e \in Nat \cup {Never} : NextIs(k, b, n) /\ RedisCounts(h, k, b, n, e) BY <1>3, RedisHit
  <2>2. Answer(k, n) \in {"allowed", "refused"} BY <1>3, RedisHit, AnswerDecides
  <2>3. hit[h] \in HitType BY <1>0
  <2> DEFINE new == [key |-> k, bucket |-> b, count |-> n, expires |-> e]
  <2>4. Counted(h)' /\ hit'[h].key = new.key /\ hit'[h].bucket = new.bucket /\ hit'[h].count = new.count
    BY <1>0, <2>1, <2>2, <2>3 DEF RedisCounts, HitType, Counted, CountedPlaces
  <2>5. new.key = k /\ new.bucket = b /\ new.expires = e OBVIOUS
  <2>6. window' = Besides(window, k, b) \cup {new} /\ counts' = {} /\ backend' = "redis"
    BY <2>1 DEF RedisCounts, StoreOK
  <2>7. e = Never \/ e > WindowEnd(k, b) BY <1>0, <2>1 DEF RedisCounts
  <2> HIDE DEF new, k, b
  <2>8. Store' = window' /\ window \subseteq Store BY <2>6 DEF Store
  <2>9. \A c, d \in Store' : c.key = d.key /\ c.bucket = d.bucket => c = d BY <1>0, <2>5, <2>6, <2>8 DEF Besides
  <2>10. \A c \in Store' : \E g \in Hits : InWindow(g, c.key, c.bucket)' /\ hit'[g].count = c.count
    BY <1>1, <2>4, <2>6, <2>8 DEF Besides, InWindow
  <2>11. \A c \in window' : c.expires = Never \/ c.expires > WindowEnd(c.key, c.bucket) BY <1>0, <2>5, <2>6, <2>7 DEF Besides
  <2> QED BY <2>6, <2>9, <2>10, <2>11 DEF StoreOK, WindowEnd
<1>4. ASSUME NEW h \in Hits, expire(h) PROVE StoreOK'
  <2> DEFINE k == hit[h].key  b == hit[h].bucket
             Image(c) == IF c \in redis_key(h) THEN [c EXCEPT !.expires = ExpireAt(h)] ELSE c
  <2>1. hit[h].pc = "expire" /\ window' = {Image(c) : c \in window} /\ UNCHANGED <<backend, counts>> BY <1>4 DEF expire
  <2>2. backend = "redis" /\ counts = {} /\ b = Bucket(k, hit[h].now) /\ hit[h].now <= second
    BY <2>1 DEF HitsOK, HitOK, StoreOK, CountedPlaces
  <2>3. k \in RateKeys /\ hit[h].now \in Nat BY <1>0 DEF HitType
  <2>4. b \in Nat /\ b * WindowOf[k] <= hit[h].now BY <2>2, <2>3, BucketBounds
  <2>5. ExpireAt(h) > WindowEnd(k, b)
    <3>1. WindowOf[k] \in Nat BY <2>3, WindowAssumption
    <3>2. (b + 1) * WindowOf[k] = b * WindowOf[k] + WindowOf[k] /\ b * WindowOf[k] \in Nat BY <2>4, <3>1
    <3> QED BY <1>0, <2>2, <2>3, <2>4, <3>1, <3>2 DEF ExpireAt, WindowEnd
  <2>6. ASSUME NEW c \in window
        PROVE  /\ Image(c).key = c.key /\ Image(c).bucket = c.bucket /\ Image(c).count = c.count
               /\ Image(c).expires = Never \/ Image(c).expires > WindowEnd(c.key, c.bucket)
    <3>1. c \in [key : RateKeys, bucket : Nat, count : Nat \ {0}, expires : Nat \cup {Never}] BY DEF RateTypes
    <3>2. CASE c \in redis_key(h)
      <4>1. c.key = k /\ c.bucket = b BY <3>2 DEF redis_key
      <4> QED BY <2>5, <3>1, <3>2, <4>1
    <3>3. CASE c \notin redis_key(h) BY <1>0, <3>3
    <3> QED BY <3>2, <3>3
  <2> HIDE DEF Image
  <2>7. Store' = window' /\ Store = window /\ counts' = {} BY <2>1, <2>2 DEF Store
  <2>8. \A c, d \in Store' : c.key = d.key /\ c.bucket = d.bucket => c = d BY <1>0, <2>1, <2>6, <2>7
  <2>9. \A c \in Store' : \E g \in Hits : InWindow(g, c.key, c.bucket)' /\ hit'[g].count = c.count
    BY <1>1, <2>1, <2>6, <2>7
  <2>10. \A c \in window' : c.expires = Never \/ c.expires > WindowEnd(c.key, c.bucket) BY <2>1, <2>6
  <2> QED BY <2>1, <2>2, <2>7, <2>8, <2>9, <2>10 DEF StoreOK, WindowEnd
<1>5. ASSUME UNCHANGED <<backend, counts>>, window' \subseteq window PROVE StoreOK'
  <2>1. Store' \subseteq Store BY <1>5 DEF Store
  <2>2. \A c \in Store' : \E g \in Hits : InWindow(g, c.key, c.bucket)' /\ hit'[g].count = c.count BY <1>1, <2>1
  <2> QED BY <1>0, <1>5, <2>1, <2>2 DEF StoreOK, WindowEnd
<1>6. ASSUME NEW h \in Hits, redis_hit(h) \/ RateCrash(h) PROVE StoreOK' BY <1>5, <1>6 DEF redis_hit, RateCrash
<1>7. CASE Second BY <1>5, <1>7 DEF Second
<1>8. CASE UNCHANGED rateVars BY <1>5, <1>8 DEF rateVars
<1> QED BY <1>2, <1>3, <1>4, <1>6, <1>7, <1>8 DEF RateNext

\* Until a window is over its counter has counted all its calls: the memory
\* drops a counter, and Redis expires one, only when no call of the window can
\* still be counted.
LEMMA ReachStep ==
  ASSUME RateInv, [RateNext]_rateVars
  PROVE  CountersReach'
<1> USE DEF RateInv
<1>0. hit \in [Hits -> HitType] /\ second \in Nat BY DEF RateTypes
<1>1. ASSUME NEW k \in RateKeys, NEW b \in Nat, Over(k, b), second' \in Nat, second' >= second, backend' = backend PROVE Over(k, b)'
  <2>1. WindowEnd(k, b) \in Nat BY WindowAssumption DEF WindowEnd
  <2>2. WindowEnd(k, b)' = WindowEnd(k, b) BY DEF WindowEnd
  <2> QED BY <1>0, <1>1, <2>1, <2>2 DEF Over
<1>2. \A g \in Hits : Counted(g) =>
          Counted(g)' /\ hit'[g].key = hit[g].key /\ hit'[g].bucket = hit[g].bucket /\ hit'[g].count = hit[g].count
  BY CountedStay
<1>3. \A g \in Hits : hit[g].key \in RateKeys /\ hit[g].bucket \in Nat /\ hit[g].count \in Nat /\ hit[g].now \in Nat BY <1>0 DEF HitType
<1>4. ASSUME NEW h \in Hits, memory_hit(h) PROVE CountersReach'
  <2> DEFINE k == hit[h].key  b == Bucket(k, second)
  <2>1. PICK n \in Nat : NextIs(k, b, n) /\ MemoryCounts(h, k, b, n) BY <1>4, MemoryHit
  <2>2. k \in RateKeys /\ b \in Nat BY <1>4, MemoryHit
  <2>3. hit[h] \in HitType BY <1>0
  <2> DEFINE new == [key |-> k, bucket |-> b, count |-> n, expires |-> WindowEnd(k, b)]
  <2>4. new.key = k /\ new.bucket = b /\ new.count = n OBVIOUS
  <2>5. hit'[h].key = k /\ hit'[h].bucket = b /\ hit'[h].count = n BY <1>0, <2>1, <2>3 DEF MemoryCounts, HitType
  <2>6. counts' = {c \in Unswept : c.key # k} \cup {new} /\ backend = "memory" /\ UNCHANGED <<backend, second>> /\ counts' \subseteq Store'
    BY <2>1 DEF MemoryCounts, Store
  <2>7. b * WindowOf[k] <= second /\ second < WindowEnd(k, b) /\ WindowEnd(k, b) \in Nat BY <1>0, <2>2, BucketBounds
  <2>8. new \in Store' BY <2>6
  <2>9. \A g \in Hits : g # h => hit'[g] = hit[g] BY <1>0, <2>1 DEF MemoryCounts
  <2>10. \A g \in Hits : InWindow(g, k, b) => hit[g].count < n BY <2>1 DEF NextIs
  <2> HIDE DEF k, b, new
  <2> SUFFICES ASSUME NEW g \in Hits, Counted(g)'
               PROVE  \/ Over(hit[g].key, hit[g].bucket)'
                      \/ \E c \in Store' : c.key = hit'[g].key /\ c.bucket = hit'[g].bucket /\ hit'[g].count <= c.count
    BY DEF CountersReach
  <2>11. CASE g = h BY <2>4, <2>5, <2>8, <2>11
  <2>12. CASE g # h
    <3>1. Counted(g) /\ hit'[g] = hit[g] BY <2>9, <2>12 DEF Counted
    <3>2. CASE Over(hit[g].key, hit[g].bucket)
      <4>1. Over(hit[g].key, hit[g].bucket)' BY <1>0, <2>6, <3>1, <3>2 DEF Over, WindowEnd
      <4> QED BY <4>1
    <3>3. ASSUME NEW c \in Store, c.key = hit[g].key, c.bucket = hit[g].bucket, hit[g].count <= c.count
          PROVE  \/ Over(hit[g].key, hit[g].bucket)
                 \/ \E d \in Store' : d.key = hit[g].key /\ d.bucket = hit[g].bucket /\ hit[g].count <= d.count
      <4>1. c \in counts /\ c.expires = WindowEnd(c.key, c.bucket) BY <2>6 DEF StoreOK, Store
      <4>2. CASE c.key # k /\ c \in Unswept BY <2>6, <3>3, <4>2
      <4>3. CASE c \notin Unswept
        <5>1. c.expires \in Nat /\ ~(c.expires > second) BY <4>1, <4>3 DEF Unswept, RateTypes
        <5> QED BY <1>0, <2>6, <3>3, <4>1, <5>1 DEF Over
      <4>4. CASE c.key = k /\ c.bucket = b
        <5>1. hit[g].count < n BY <2>10, <3>1, <3>3, <4>4 DEF InWindow
        <5> QED BY <1>3, <2>4, <2>8, <3>3, <4>4, <5>1
      <4>5. CASE c.key = k /\ c.bucket # b
        <5>1. hit[g].now <= second /\ hit[g].bucket = Bucket(k, hit[g].now)
          BY <3>1, <3>3, <4>5 DEF HitsOK, HitOK, Counted, CountedPlaces
        <5>2. hit[g].bucket * WindowOf[k] <= hit[g].now /\ hit[g].bucket \in Nat BY <1>3, <2>2, <5>1, BucketBounds
        <5>3. hit[g].bucket * WindowOf[k] \in Nat /\ b * WindowOf[k] \in Nat BY <2>2, <5>2, WindowAssumption
        <5>4. ~(b < hit[g].bucket)
          <6> SUFFICES ASSUME b < hit[g].bucket PROVE FALSE OBVIOUS
          <6>1. WindowEnd(k, b) <= hit[g].bucket * WindowOf[k] BY <2>2, <5>2, EarlierEnds
          <6> QED BY <1>0, <1>3, <2>7, <5>1, <5>2, <5>3, <6>1
        <5>5. hit[g].bucket < b BY <2>2, <3>3, <4>5, <5>2, <5>4
        <5>6. WindowEnd(k, hit[g].bucket) <= b * WindowOf[k] /\ WindowEnd(k, hit[g].bucket) \in Nat BY <2>2, <5>2, <5>5, EarlierEnds
        <5>7. second >= WindowEnd(k, hit[g].bucket) BY <1>0, <2>7, <5>3, <5>6
        <5> QED BY <2>6, <3>3, <4>5, <5>7 DEF Over
      <4> QED BY <4>2, <4>3, <4>4, <4>5
    <3>4. \/ Over(hit[g].key, hit[g].bucket)
          \/ \E d \in Store' : d.key = hit[g].key /\ d.bucket = hit[g].bucket /\ hit[g].count <= d.count
      BY <3>1, <3>3 DEF CountersReach
    <3> QED BY <3>1, <3>2, <3>4
  <2> QED BY <2>11, <2>12
<1>5. ASSUME NEW h \in Hits, incr(h) PROVE CountersReach'
  <2> DEFINE k == hit[h].key  b == hit[h].bucket
  <2>1. PICK n \in Nat, e \in Nat \cup {Never} : NextIs(k, b, n) /\ RedisCounts(h, k, b, n, e) BY <1>5, RedisHit
  <2>2. k \in RateKeys /\ b \in Nat BY <1>5, RedisHit
  <2>3. hit[h] \in HitType BY <1>0
  <2> DEFINE new == [key |-> k, bucket |-> b, count |-> n, expires |-> e]
  <2>4. new.key = k /\ new.bucket = b /\ new.count = n OBVIOUS
  <2>5. hit'[h].key = k /\ hit'[h].bucket = b /\ hit'[h].count = n BY <1>0, <2>1, <2>3 DEF RedisCounts, HitType
  <2>6. window' = Besides(window, k, b) \cup {new} /\ UNCHANGED <<backend, second, counts>> /\ Store' = counts \cup window'
    BY <2>1 DEF RedisCounts, Store
  <2>7. counts = {} BY <2>1 DEF RedisCounts, StoreOK
  <2>8. new \in Store' BY <2>6
  <2>9. \A g \in Hits : g # h => hit'[g] = hit[g] BY <1>0, <2>1 DEF RedisCounts
  <2>10. \A g \in Hits : InWindow(g, k, b) => hit[g].count < n BY <2>1 DEF NextIs
  <2> HIDE DEF k, b, new
  <2> SUFFICES ASSUME NEW g \in Hits, Counted(g)'
               PROVE  \/ Over(hit[g].key, hit[g].bucket)'
                      \/ \E c \in Store' : c.key = hit'[g].key /\ c.bucket = hit'[g].bucket /\ hit'[g].count <= c.count
    BY DEF CountersReach
  <2>11. CASE g = h BY <2>4, <2>5, <2>8, <2>11
  <2>12. CASE g # h
    <3>1. Counted(g) /\ hit'[g] = hit[g] BY <2>9, <2>12 DEF Counted
    <3>2. CASE Over(hit[g].key, hit[g].bucket)
      <4>1. Over(hit[g].key, hit[g].bucket)' BY <1>0, <2>6, <3>1, <3>2 DEF Over, WindowEnd
      <4> QED BY <4>1
    <3>3. ASSUME NEW c \in Store, c.key = hit[g].key, c.bucket = hit[g].bucket, hit[g].count <= c.count
          PROVE  \E d \in Store' : d.key = hit[g].key /\ d.bucket = hit[g].bucket /\ hit[g].count <= d.count
      <4>1. CASE c.key = k /\ c.bucket = b
        <5>1. hit[g].count < n BY <2>10, <3>1, <3>3, <4>1 DEF InWindow
        <5> QED BY <1>3, <2>4, <2>8, <3>3, <4>1, <5>1
      <4>2. CASE ~(c.key = k /\ c.bucket = b) BY <2>6, <2>7, <3>3, <4>2 DEF Store, Besides
      <4> QED BY <4>1, <4>2
    <3> QED BY <3>1, <3>2, <3>3 DEF CountersReach
  <2> QED BY <2>11, <2>12
<1>6. ASSUME UNCHANGED backend, second' \in Nat, second' >= second, \A g \in Hits : Counted(g)' => Counted(g),
             \A c \in Store : \/ \E d \in Store' : d.key = c.key /\ d.bucket = c.bucket /\ d.count = c.count
                              \/ Over(c.key, c.bucket)'
      PROVE  CountersReach'
  <2> SUFFICES ASSUME NEW g \in Hits, Counted(g)'
               PROVE  \/ Over(hit[g].key, hit[g].bucket)'
                      \/ \E c \in Store' : c.key = hit'[g].key /\ c.bucket = hit'[g].bucket /\ hit'[g].count <= c.count
    BY DEF CountersReach
  <2>1. Counted(g) /\ hit'[g].key = hit[g].key /\ hit'[g].bucket = hit[g].bucket /\ hit'[g].count = hit[g].count BY <1>2, <1>6
  <2> DEFINE k == hit[g].key  b == hit[g].bucket
  <2>2. ASSUME NEW q, NEW d, q = k, d = b, Over(q, d)' PROVE Over(hit[g].key, hit[g].bucket)' BY <2>1, <2>2 DEF Over, WindowEnd
  <2>3. CASE Over(k, b)
    <3>1. PICK q \in RateKeys, d \in Nat : q = k /\ d = b BY <1>3
    <3>2. Over(q, d) BY <2>3, <3>1
    <3>3. Over(q, d)' BY <1>1, <1>6, <3>2
    <3> QED BY <2>2, <3>1, <3>3
  <2>4. ASSUME NEW c \in Store, c.key = k, c.bucket = b, hit[g].count <= c.count
        PROVE  \/ Over(hit[g].key, hit[g].bucket)'
               \/ \E d \in Store' : d.key = hit'[g].key /\ d.bucket = hit'[g].bucket /\ hit'[g].count <= d.count
    <3>1. CASE Over(c.key, c.bucket)' BY <2>2, <2>4, <3>1
    <3>2. CASE \E d \in Store' : d.key = c.key /\ d.bucket = c.bucket /\ d.count = c.count BY <2>1, <2>4, <3>2
    <3> QED BY <1>6, <3>1, <3>2
  <2> QED BY <2>1, <2>3, <2>4 DEF CountersReach
<1>7. ASSUME NEW h \in Hits, redis_hit(h) \/ RateCrash(h) PROVE CountersReach'
  <2>1. \A g \in Hits : Counted(g)' => Counted(g) BY <1>0, <1>7 DEF redis_hit, RateCrash, Counted, CountedPlaces, HitType
  <2>2. UNCHANGED <<backend, second>> /\ Store' = Store BY <1>7 DEF redis_hit, RateCrash, Store
  <2> QED BY <1>0, <1>6, <2>1, <2>2
<1>8. ASSUME NEW h \in Hits, expire(h) PROVE CountersReach'
  <2>1. \A g \in Hits : Counted(g)' => Counted(g) BY <1>0, <1>8 DEF expire, Counted, CountedPlaces, HitType
  <2>2. UNCHANGED <<backend, second, counts>> BY <1>8 DEF expire
  <2>3. ASSUME NEW c \in Store PROVE \E d \in Store' : d.key = c.key /\ d.bucket = c.bucket /\ d.count = c.count
    <3>1. CASE c \in counts BY <2>2, <3>1 DEF Store
    <3>2. CASE c \in window
      <4>1. c \in [key : RateKeys, bucket : Nat, count : Nat \ {0}, expires : Nat \cup {Never}] BY <3>2 DEF RateTypes
      <4> DEFINE d == IF c \in redis_key(h) THEN [c EXCEPT !.expires = ExpireAt(h)] ELSE c
      <4>2. d \in window' BY <1>8, <3>2 DEF expire
      <4>3. d.key = c.key /\ d.bucket = c.bucket /\ d.count = c.count BY <4>1
      <4> HIDE DEF d
      <4> QED BY <4>2, <4>3 DEF Store
    <3> QED BY <3>1, <3>2 DEF Store
  <2> QED BY <1>0, <1>6, <2>1, <2>2, <2>3
<1>9. CASE Second
  <2>1. \A g \in Hits : Counted(g)' => Counted(g) BY <1>9 DEF Second, Counted
  <2>2. UNCHANGED <<backend, counts>> /\ second' = second + 1 BY <1>9 DEF Second
  <2>3. ASSUME NEW c \in Store
        PROVE  \/ \E d \in Store' : d.key = c.key /\ d.bucket = c.bucket /\ d.count = c.count
               \/ Over(c.key, c.bucket)'
    <3>1. CASE c \in counts \/ c \in window' BY <2>2, <3>1 DEF Store
    <3>2. CASE c \in window /\ c \notin window'
      <4>1. c.key \in RateKeys /\ c.bucket \in Nat /\ c.expires \in Nat /\ ~(c.expires > second + 1) /\ c.expires # Never
        BY <1>9, <3>2 DEF Second, RateTypes
      <4>2. backend = "redis" /\ c.expires > WindowEnd(c.key, c.bucket) BY <3>2, <4>1 DEF StoreOK, RateTypes
      <4>3. WindowEnd(c.key, c.bucket) \in Nat BY <4>1, WindowAssumption DEF WindowEnd
      <4>4. WindowEnd(c.key, c.bucket)' = WindowEnd(c.key, c.bucket) BY DEF WindowEnd
      <4>5. second' > WindowEnd(c.key, c.bucket) BY <1>0, <2>2, <4>1, <4>2, <4>3
      <4> QED BY <2>2, <4>2, <4>4, <4>5 DEF Over
    <3> QED BY <3>1, <3>2 DEF Store
  <2> QED BY <1>0, <1>6, <2>1, <2>2, <2>3
<1>10. CASE UNCHANGED rateVars
  <2>1. UNCHANGED <<backend, second, hit>> /\ Store' = Store BY <1>10 DEF rateVars, Store
  <2> QED BY <1>0, <1>6, <2>1 DEF Counted
<1> QED BY <1>4, <1>5, <1>7, <1>8, <1>9, <1>10 DEF RateNext

\* A hit sweeps the memory when a counter may have ended, so that it leaves
\* none that has.
LEMMA PruneStep ==
  ASSUME RateInv, [RateNext]_rateVars
  PROVE  PruneOK'
<1> USE DEF RateInv
<1>1. ASSUME NEW h \in Hits, memory_hit(h) PROVE PruneOK'
  <2> DEFINE k == hit[h].key  b == Bucket(k, second)  e == WindowEnd(k, b)
             swept == nextPrune # Never /\ second >= nextPrune
             S == (IF swept THEN {c.expires : c \in Unswept} ELSE {nextPrune} \ {Never}) \cup {e}
  <2>1. PICK n \in Nat : NextIs(k, b, n) /\ MemoryCounts(h, k, b, n) BY <1>1, MemoryHit
  <2>2. k \in RateKeys /\ second \in Nat BY <1>1, MemoryHit DEF RateTypes
  <2>3. second < e /\ e \in Nat BY <2>2, BucketBounds
  <2> DEFINE new == [key |-> k, bucket |-> b, count |-> n, expires |-> e]
  <2>4. counts' \subseteq Unswept \cup {new} /\ nextPrune' = Min(S) /\ lastHit' = second
    BY <2>1 DEF MemoryCounts, NextPrune
  <2>5. new.expires = e OBVIOUS
  <2>6. \A c \in counts : c.expires \in Nat BY DEF RateTypes
  <2> HIDE DEF k, b, e, new
  <2>7. \A c \in Unswept : c.expires > second /\ c.expires \in Nat
    <3>1. CASE swept BY <2>6, <3>1 DEF Unswept
    <3>2. CASE ~swept
      <4>1. Unswept = counts BY <3>2 DEF Unswept
      <4>2. CASE nextPrune = Never BY <4>1, <4>2 DEF PruneOK
      <4>3. CASE nextPrune # Never
        <5>1. nextPrune \in Nat /\ second < nextPrune BY <2>2, <3>2, <4>3 DEF RateTypes
        <5>2. \A c \in counts : nextPrune <= c.expires BY <4>3 DEF PruneOK
        <5> QED BY <2>2, <2>6, <4>1, <5>1, <5>2
      <4> QED BY <4>2, <4>3
    <3> QED BY <3>1, <3>2
  <2>8. S \in SUBSET Nat /\ S # {} BY <2>3, <2>7 DEF RateTypes
  <2>9. e \in S OBVIOUS
  <2>10. ASSUME NEW c \in Unswept PROVE \E y \in S : y <= c.expires
    <3>1. CASE swept BY <2>7, <3>1
    <3>2. CASE ~swept
      <4>1. c \in counts /\ nextPrune # Never BY <3>2 DEF Unswept, PruneOK
      <4> QED BY <3>2, <4>1 DEF PruneOK
    <3> QED BY <3>1, <3>2
  <2> HIDE DEF S, swept
  <2>11. Min(S) \in Nat /\ \A y \in S : Min(S) <= y BY <2>8, MinIsLeast
  <2>12. \A c \in Unswept : Min(S) <= c.expires
    <3> SUFFICES ASSUME NEW c \in Unswept PROVE Min(S) <= c.expires OBVIOUS
    <3>1. PICK y \in S : y <= c.expires BY <2>10
    <3>2. y \in Nat /\ c.expires \in Nat BY <2>7, <2>8
    <3> QED BY <2>11, <3>1, <3>2
  <2>13. nextPrune' # Never BY <2>4, <2>11, WindowAssumption
  <2>14. \A c \in counts' : nextPrune' <= c.expires BY <2>4, <2>5, <2>9, <2>11, <2>12
  <2>15. \A c \in counts' : c.expires > lastHit' BY <2>3, <2>4, <2>5, <2>7
  <2> QED BY <2>13, <2>14, <2>15 DEF PruneOK, StoresActiveWindows
<1>2. ASSUME UNCHANGED <<counts, nextPrune, lastHit>> PROVE PruneOK' BY <1>2 DEF PruneOK, StoresActiveWindows
<1>3. ASSUME NEW h \in Hits, redis_hit(h) \/ incr(h) \/ expire(h) \/ RateCrash(h) PROVE PruneOK'
  BY <1>2, <1>3 DEF redis_hit, incr, expire, RateCrash
<1>4. CASE Second \/ UNCHANGED rateVars BY <1>2, <1>4 DEF Second, rateVars
<1> QED BY <1>1, <1>3, <1>4 DEF RateNext

\* The invariant of the limiter, in memory and in Redis, for any keys, windows
\* and limits, any number of concurrent calls and crashes between INCR and
\* EXPIRE, and an INCR that trails the clock read by at most a second.
THEOREM RateInvariant == RateSpec => []RateInv
<1>1. RateInv /\ [RateNext]_rateVars => RateInv'
  <2> SUFFICES ASSUME RateInv, [RateNext]_rateVars PROVE RateInv' OBVIOUS
  <2>1. RateTypes' /\ HitsOK' BY RateTypesStep, HitsStep
  <2>2. NumbersDiffer' /\ NumbersFollow' BY NumbersStep
  <2>3. StoreOK' /\ CountersReach' /\ PruneOK' BY CountersStep, ReachStep, PruneStep
  <2> QED BY <2>1, <2>2, <2>3 DEF RateInv
<1> QED BY <1>1, RateInitInv, PTL DEF RateSpec

\* There are n numbers from 1 to n.
LEMMA OneToN ==
  ASSUME NEW n \in Nat
  PROVE  IsFiniteSet(1 .. n) /\ Cardinality(1 .. n) = n
<1>1. 1 \in Int /\ n \in Int OBVIOUS
<1>2. IsFiniteSet(1 .. n) /\ Cardinality(1 .. n) = IF 1 > n THEN 0 ELSE n - 1 + 1 BY <1>1, FS_Interval
<1>3. (IF 1 > n THEN 0 ELSE n - 1 + 1) = n OBVIOUS
<1> QED BY <1>2, <1>3

\* Distinct numbers up to the limit: no more calls than the limit have them.
LEMMA LimitKept ==
  ASSUME RateInv
  PROVE  WithinLimit
<1> SUFFICES ASSUME NEW k \in RateKeys, NEW b \in 0 .. MaxSecond
             PROVE  Cardinality({h \in Hits : hit[h].key = k /\ hit[h].bucket = b /\ hit[h].pc = "allowed"}) <= LimitOf[k]
  BY DEF WithinLimit
<1> DEFINE S == {h \in Hits : hit[h].key = k /\ hit[h].bucket = b /\ hit[h].pc = "allowed"}
           f == [h \in S |-> hit[h].count]
<1>1. LimitOf[k] \in Nat BY WindowAssumption
<1>2. \A h \in S : hit[h].count \in 1 .. LimitOf[k]
  <2> SUFFICES ASSUME NEW h \in S PROVE hit[h].count \in 1 .. LimitOf[k] OBVIOUS
  <2>1. hit[h].count \in Nat BY DEF RateInv, RateTypes, HitType
  <2>2. hit[h].count > 0 /\ hit[h].count <= LimitOf[k] BY DEF RateInv, HitsOK, HitOK, CountedPlaces
  <2> QED BY <1>1, <2>1, <2>2
<1>3. \A g, h \in S : hit[g].count = hit[h].count => g = h
  BY DEF RateInv, NumbersDiffer, InWindow, Counted, CountedPlaces
<1> HIDE DEF S
<1>4. f \in Injection(S, 1 .. LimitOf[k]) BY <1>2, <1>3 DEF Injection, IsInjective
<1>5. IsFiniteSet(1 .. LimitOf[k]) /\ Cardinality(1 .. LimitOf[k]) = LimitOf[k] BY <1>1, OneToN
<1> HIDE DEF f
<1>6. Cardinality(S) <= Cardinality(1 .. LimitOf[k]) BY <1>4, <1>5, FS_Injection
<1> QED BY <1>5, <1>6 DEF S

\* Numbers without a gap: whoever is over the limit has `limit' calls before.
LEMMA RefusedWhenSpent ==
  ASSUME RateInv
  PROVE  RefusedOnlyIfSpent
<1> SUFFICES ASSUME NEW h \in Hits, hit[h].pc = "refused"
             PROVE  Cardinality({g \in Hits \ {h} : <<hit[h].key, hit[h].bucket>> \in made[g]}) >= LimitOf[hit[h].key]
  BY DEF RefusedOnlyIfSpent
<1> DEFINE k == hit[h].key  b == hit[h].bucket  L == LimitOf[k]
           S == {g \in Hits \ {h} : <<k, b>> \in made[g]}
           P(i) == {g \in S : hit[g].count = i}
           f == [i \in 1 .. L |-> CHOOSE g \in P(i) : TRUE]
<1>1. k \in RateKeys /\ hit[h].count \in Nat BY DEF RateInv, RateTypes, HitType
<1>2. L \in Nat BY <1>1, WindowAssumption
<1>3. hit[h].count > L BY DEF RateInv, HitsOK, HitOK
<1>4. \A i \in 1 .. L : P(i) # {}
  <2> SUFFICES ASSUME NEW i \in 1 .. L PROVE \E g \in S : hit[g].count = i OBVIOUS
  <2>1. i \in 1 .. hit[h].count /\ i # hit[h].count BY <1>1, <1>2, <1>3
  <2>2. PICK g \in Hits : InWindow(g, k, b) /\ hit[g].count = i BY <2>1 DEF RateInv, NumbersFollow, Counted, CountedPlaces
  <2>3. g # h BY <2>1, <2>2
  <2>4. made[g] = {<<k, b>>} BY <2>2 DEF RateInv, HitsOK, HitOK, InWindow, Counted
  <2> QED BY <2>2, <2>3, <2>4
<1>5. IsFiniteSet(S)
  <2>1. S \in SUBSET Hits OBVIOUS
  <2> QED BY <2>1, WindowAssumption, FS_Subset
<1> HIDE DEF S, L
<1>6. \A i \in 1 .. L : f[i] \in P(i) BY <1>4
<1> HIDE DEF f
<1>7. \A i \in 1 .. L : f[i] \in S /\ hit[f[i]].count = i BY <1>6
<1>8. f \in [1 .. L -> S]
  <2>1. f = [i \in 1 .. L |-> f[i]] BY DEF f
  <2> QED BY <1>7, <2>1
<1>9. f \in Injection(1 .. L, S) BY <1>7, <1>8 DEF Injection, IsInjective
<1>10. Cardinality(1 .. L) <= Cardinality(S) BY <1>5, <1>9, FS_Injection
<1>11. Cardinality(1 .. L) = L /\ Cardinality(S) \in Nat BY <1>2, <1>5, OneToN, FS_CardinalityType
<1>12. Cardinality(S) >= L BY <1>2, <1>10, <1>11
<1> QED BY <1>12 DEF S, L

\* Both limiters admit no more calls of a window than the limit, refuse none
\* before it is spent, say exactly when the next window opens, and keep only
\* windows that were open at the last hit.
THEOREM WindowsSoundHolds == RateSpec => []WindowsSound
<1>1. RateInv => WindowsSound
  <2> SUFFICES ASSUME RateInv PROVE WindowsSound OBVIOUS
  <2>1. RetryOpensWindow
    <3>1. ASSUME NEW h \in Hits, hit[h].pc = "refused"
          PROVE  LET k == hit[h].key
                     back == hit[h].now + hit[h].retry
                 IN Bucket(k, back) = hit[h].bucket + 1 /\ Bucket(k, back - 1) = hit[h].bucket
      <4>1. hit[h].key \in RateKeys /\ hit[h].now \in Nat BY DEF RateInv, RateTypes, HitType
      <4>2. hit[h].bucket = Bucket(hit[h].key, hit[h].now) /\ hit[h].retry = _retry_after(hit[h].key, hit[h].now)
        BY <3>1 DEF RateInv, HitsOK, HitOK
      <4> QED BY <4>1, <4>2, RetryEndsWindow
    <3> QED BY <3>1, Zenon DEF RetryOpensWindow
  <2>2. StoresActiveWindows BY DEF RateInv, PruneOK
  <2> QED BY <2>1, <2>2, LimitKept, RefusedWhenSpent DEF WindowsSound
<1> QED BY <1>1, RateInvariant, PTL

-----------------------------------------------------------------------------
(* The lock-free Redis breaker, however the single commands of the replicas *)
(* interleave.  CounterSettles is not inductive: "somebody is at f_expire or *)
(* f_clear" does not say that this somebody clears the counter.  WillClear   *)
(* names the requests whose remaining commands include the DEL, and the      *)
(* invariant speaks of those.                                                *)

Places == {"idle", "calling", "claim", "f_opened", "f_untrial", "f_incr",
           "f_expire", "f_clear", "f_open", "s_trial", "s_del"}

\* Requests that still have the DEL of the counter before them.
WillClear(r) == at[r] = "f_clear" \/ (Threshold = 1 /\ at[r] = "f_expire")

FullIsCleared == failures.n >= Threshold => \E r \in Requests : WillClear(r)
ForeverIsSet  == failures.ttl = Forever => \E r \in Requests : at[r] = "f_expire"

\* A trial key always carries a time to live that runs out: SET NX EX.
TrialExpires ==
    trial = NoTrial \/ (trial.by \in Requests /\ trial.ttl \in 1..Cooldown)

BreakerInv == TypeOK /\ TrialExpires /\ (cut \/ (FullIsCleared /\ ForeverIsSet))

-----------------------------------------------------------------------------
(* The type of the three keys and of the requests, in parts.               *)

OpenedOK   == opened \in {Absent} \cup 0..(OpenMarkerTTL - 1)
TrialOK    == trial \in [by : Requests \cup {NoToken}, ttl : 0..Forever]
FailuresOK == failures \in [n : 0..MaxCount, ttl : 0..Forever]
PlacesOK   == at \in [Requests -> Places]
FlagsOK    == /\ holds \in [Requests -> BOOLEAN] /\ seen \in [Requests -> BOOLEAN]
              /\ cut \in BOOLEAN

\* The type invariant is the conjunction of its parts.
LEMMA TypeParts ==
  TypeOK <=> OpenedOK /\ TrialOK /\ FailuresOK /\ PlacesOK /\ FlagsOK
  BY DEF TypeOK, OpenedOK, TrialOK, FailuresOK, PlacesOK, FlagsOK, Places

\* A key nobody has used yet: no marker, no trial, no failure counted.
LEMMA BreakerInitInv == Init => BreakerInv
<1> SUFFICES ASSUME Init PROVE BreakerInv
  OBVIOUS
<1>1. TypeOK
  <2>1. OpenedOK BY DEF Init, OpenedOK
  <2>2. TrialOK /\ FailuresOK
    BY RedisBreakerConstants DEF Init, TrialOK, FailuresOK, NoTrial, NoCount, Forever
  <2>3. PlacesOK /\ FlagsOK BY DEF Init, PlacesOK, FlagsOK, Places
  <2> QED BY <2>1, <2>2, <2>3, TypeParts
<1>2. FullIsCleared /\ ForeverIsSet
  BY RedisBreakerConstants DEF Init, FullIsCleared, ForeverIsSet, NoCount, Forever
<1> QED BY <1>1, <1>2 DEF BreakerInv, TrialExpires, Init

\* The places of the requests keep their type, step by step.
LEMMA GotoType ==
  ASSUME at \in [Requests -> Places], NEW r \in Requests, NEW l \in Places, Goto(r, l)
  PROVE  /\ at' \in [Requests -> Places]
         /\ at'[r] = l
         /\ \A q \in Requests : q # r => at'[q] = at[q]
  BY DEF Goto

\* What every command does to the place of the request that sends it, and to
\* the places of the others.
LEMMA StepGoto ==
  ASSUME NEW r \in Requests, Step(r)
  PROVE  \E l \in Places : Goto(r, l)
<1> USE DEF Places
<1>1. CASE CallFirst(r) BY <1>1 DEF CallFirst
<1>2. CASE AllowGetOpened(r) BY <1>2 DEF AllowGetOpened
<1>3. CASE AllowClaim(r) BY <1>3 DEF AllowClaim
<1>4. CASE FailureGetTrial(r) BY <1>4 DEF FailureGetTrial
<1>5. CASE FailureDelTrial(r) BY <1>5 DEF FailureDelTrial
<1>6. CASE FailureGetOpened(r) BY <1>6 DEF FailureGetOpened
<1>7. CASE FailureIncr(r) BY <1>7 DEF FailureIncr
<1>8. CASE FailureExpire(r) BY <1>8 DEF FailureExpire
<1>9. CASE FailureClear(r) BY <1>9 DEF FailureClear
<1>10. CASE FailureOpen(r) BY <1>10 DEF FailureOpen
<1>11. CASE SuccessGetOpened(r) BY <1>11 DEF SuccessGetOpened
<1>12. CASE SuccessGetTrial(r) BY <1>12 DEF SuccessGetTrial
<1>13. CASE SuccessDel(r) BY <1>13 DEF SuccessDel
<1>14. CASE Stop(r) BY <1>14 DEF Stop
<1> QED BY <1>1, <1>2, <1>3, <1>4, <1>5, <1>6, <1>7, <1>8, <1>9, <1>10, <1>11,
           <1>12, <1>13, <1>14 DEF Step

-----------------------------------------------------------------------------
(* Each part of the type is kept by every command and by the clock.        *)

\* The opened marker is written by f_open, s_del and the clock only.
LEMMA OpenedStep == OpenedOK /\ Next => OpenedOK'
<1> SUFFICES ASSUME OpenedOK, Next PROVE OpenedOK'
  OBVIOUS
<1> USE RedisBreakerConstants DEF OpenedOK, Absent, OpenMarkerTTL
<1>1. CASE Tick BY <1>1 DEF Tick, Open
<1>2. ASSUME NEW r \in Requests, Step(r) PROVE OpenedOK'
  <2>1. CASE FailureOpen(r) BY <2>1 DEF FailureOpen
  <2>2. CASE SuccessDel(r) BY <2>2 DEF SuccessDel
  <2>3. CASE UNCHANGED opened BY <2>3
  <2> QED BY <1>2, <2>1, <2>2, <2>3
      DEF Step, CallFirst, AllowGetOpened, AllowClaim, FailureGetTrial,
          FailureDelTrial, FailureGetOpened, FailureIncr, FailureExpire,
          FailureClear, SuccessGetOpened, SuccessGetTrial, Stop
<1> QED BY <1>1, <1>2 DEF Next

\* The trial key is written by the claim, f_untrial, s_del and the clock, and
\* whoever sets it sets its expiry in the same command.
LEMMA TrialStep ==
  TrialOK /\ TrialExpires /\ Next => TrialOK' /\ TrialExpires'
<1> SUFFICES ASSUME TrialOK, TrialExpires, Next PROVE TrialOK' /\ TrialExpires'
  OBVIOUS
<1> USE RedisBreakerConstants DEF TrialOK, TrialExpires, NoTrial, Forever
<1>1. CASE Tick
  <2>1. CASE trial = NoTrial BY <1>1, <2>1 DEF Tick
  <2>2. CASE trial # NoTrial /\ trial.ttl <= 1 BY <1>1, <2>2 DEF Tick
  <2>3. CASE trial # NoTrial /\ trial.ttl > 1
    <3>1. trial' = [trial EXCEPT !.ttl = @ - 1] /\ trial.ttl - 1 \in 1..Cooldown
      BY <1>1, <2>3 DEF Tick
    <3> QED BY <2>3, <3>1
  <2> QED BY <2>1, <2>2, <2>3
<1>2. ASSUME NEW r \in Requests, Step(r) PROVE TrialOK' /\ TrialExpires'
  <2>1. CASE AllowClaim(r) BY <2>1 DEF AllowClaim
  <2>2. CASE FailureDelTrial(r) BY <2>2 DEF FailureDelTrial
  <2>3. CASE SuccessDel(r) BY <2>3 DEF SuccessDel
  <2>4. CASE UNCHANGED trial BY <2>4
  <2> QED BY <1>2, <2>1, <2>2, <2>3, <2>4
      DEF Step, CallFirst, AllowGetOpened, FailureGetTrial,
          FailureGetOpened, FailureIncr, FailureExpire, FailureOpen,
          FailureClear, SuccessGetOpened, SuccessGetTrial, Stop
<1> QED BY <1>1, <1>2 DEF Next

\* The counter is written by INCR, EXPIRE, the two DELs and the clock.
LEMMA FailuresStep == FailuresOK /\ Next => FailuresOK'
<1> SUFFICES ASSUME FailuresOK, Next PROVE FailuresOK'
  OBVIOUS
<1> USE RedisBreakerConstants DEF FailuresOK, NoCount, Forever
<1>1. CASE Tick BY <1>1 DEF Tick
<1>2. ASSUME NEW r \in Requests, Step(r) PROVE FailuresOK'
  <2>1. CASE FailureIncr(r) BY <2>1 DEF FailureIncr
  <2>2. CASE FailureExpire(r) BY <2>2 DEF FailureExpire
  <2>3. CASE FailureClear(r) BY <2>3 DEF FailureClear
  <2>4. CASE SuccessDel(r) BY <2>4 DEF SuccessDel
  <2>5. CASE UNCHANGED failures BY <2>5
  <2> QED BY <1>2, <2>1, <2>2, <2>3, <2>4, <2>5
      DEF Step, CallFirst, AllowGetOpened, AllowClaim, FailureGetTrial,
          FailureDelTrial, FailureGetOpened, FailureOpen,
          SuccessGetOpened, SuccessGetTrial, Stop
<1> QED BY <1>1, <1>2 DEF Next

\* Every command leads to one of the places.
LEMMA PlacesStep == PlacesOK /\ Next => PlacesOK'
<1> SUFFICES ASSUME PlacesOK, Next PROVE PlacesOK'
  OBVIOUS
<1>1. CASE Tick BY <1>1 DEF Tick, PlacesOK
<1>2. ASSUME NEW r \in Requests, Step(r) PROVE PlacesOK'
  BY <1>2, StepGoto, GotoType DEF PlacesOK
<1> QED BY <1>1, <1>2 DEF Next

\* The tokens, the markers seen and the history flag stay Boolean.
LEMMA FlagsStep == FlagsOK /\ Next => FlagsOK'
<1> SUFFICES ASSUME FlagsOK, Next PROVE FlagsOK'
  OBVIOUS
<1>1. CASE Tick BY <1>1 DEF Tick, FlagsOK
<1>2. ASSUME NEW r \in Requests, Step(r) PROVE FlagsOK'
  <2>1. holds' \in [Requests -> BOOLEAN]
    BY <1>2
    DEF FlagsOK, Step, CallFirst, AllowGetOpened, AllowClaim, FailureGetTrial,
        FailureDelTrial, FailureGetOpened, FailureIncr, FailureExpire,
        FailureClear, FailureOpen, SuccessGetOpened, SuccessGetTrial,
        SuccessDel, Stop
  <2>2. seen' \in [Requests -> BOOLEAN]
    BY <1>2
    DEF FlagsOK, Step, CallFirst, AllowGetOpened, AllowClaim, FailureGetTrial,
        FailureDelTrial, FailureGetOpened, FailureIncr, FailureExpire,
        FailureClear, FailureOpen, SuccessGetOpened, SuccessGetTrial,
        SuccessDel, Stop, Open
  <2>3. cut' \in BOOLEAN
    BY <1>2
    DEF FlagsOK, Step, CallFirst, AllowGetOpened, AllowClaim, FailureGetTrial,
        FailureDelTrial, FailureGetOpened, FailureIncr, FailureExpire,
        FailureClear, FailureOpen, SuccessGetOpened, SuccessGetTrial,
        SuccessDel, Stop
  <2> QED BY <2>1, <2>2, <2>3 DEF FlagsOK
<1> QED BY <1>1, <1>2 DEF Next

-----------------------------------------------------------------------------
(* The counter.                                                            *)

CounterKept == cut \/ (FullIsCleared /\ ForeverIsSet)

\* A step that leaves the counter alone, or only brings its expiry nearer,
\* and lets every request that owes it an EXPIRE or a DEL where it is.
LEMMA OwedKept ==
  ASSUME FailuresOK, CounterKept, UNCHANGED <<failures, cut>>,
         NEW r \in Requests, at[r] \notin {"f_expire", "f_clear"},
         \A q \in Requests : q # r => at'[q] = at[q]
  PROVE  CounterKept'
<1> SUFFICES ASSUME ~cut PROVE FullIsCleared' /\ ForeverIsSet'
  BY DEF CounterKept
<1>1. FullIsCleared'
  <2> SUFFICES ASSUME failures.n >= Threshold
               PROVE  \E q \in Requests : WillClear(q)'
    BY DEF FullIsCleared
  <2>1. PICK q \in Requests : WillClear(q)
    BY DEF CounterKept, FullIsCleared
  <2>2. WillClear(q)' BY <2>1 DEF WillClear
  <2> QED BY <2>2
<1>2. ForeverIsSet'
  <2> SUFFICES ASSUME failures.ttl = Forever
               PROVE  \E q \in Requests : at'[q] = "f_expire"
    BY DEF ForeverIsSet, Forever
  <2>1. PICK q \in Requests : at[q] = "f_expire"
    BY DEF CounterKept, ForeverIsSet
  <2> QED BY <2>1
<1> QED BY <1>1, <1>2

\* A deleted counter owes nothing.
LEMMA DeletedOwesNothing ==
  ASSUME failures' = NoCount PROVE CounterKept'
  BY RedisBreakerConstants
  DEF CounterKept, FullIsCleared, ForeverIsSet, NoCount, Forever

\* INCR: the request that reaches the threshold is the one that clears, the
\* request that counts 1 is the one that sets the expiry.
LEMMA IncrKept ==
  ASSUME FailuresOK, PlacesOK, CounterKept, NEW r \in Requests, FailureIncr(r)
  PROVE  CounterKept'
<1> DEFINE count == failures.n + 1
<1>1. /\ at[r] = "f_incr" /\ UNCHANGED cut
      /\ failures'.n = count
      /\ failures'.ttl = IF count = 1 THEN Forever ELSE failures.ttl
      /\ at'[r] = IF count = 1 THEN "f_expire"
                  ELSE IF count >= Threshold THEN "f_clear" ELSE "idle"
      /\ \A q \in Requests : q # r => at'[q] = at[q]
  BY DEF FailureIncr, Goto, PlacesOK
<1>2. count \in Nat BY DEF FailuresOK
<1> HIDE DEF count
<1> SUFFICES ASSUME ~cut PROVE FullIsCleared' /\ ForeverIsSet'
  BY <1>1 DEF CounterKept
<1>3. FullIsCleared'
  <2> SUFFICES ASSUME count >= Threshold PROVE WillClear(r)'
    BY <1>1 DEF FullIsCleared
  <2> QED BY <1>1, <1>2, RedisBreakerConstants DEF WillClear
<1>4. ForeverIsSet'
  <2>1. CASE count = 1 BY <2>1, <1>1 DEF ForeverIsSet
  <2>2. CASE count # 1
    <3> SUFFICES ASSUME failures.ttl = Forever
                 PROVE  \E q \in Requests : at'[q] = "f_expire"
      BY <1>1, <2>2 DEF ForeverIsSet, Forever
    <3>1. PICK q \in Requests : at[q] = "f_expire"
      BY DEF CounterKept, ForeverIsSet
    <3> QED BY <3>1, <1>1
  <2> QED BY <2>1, <2>2
<1> QED BY <1>3, <1>4

\* EXPIRE: from here on the counter runs out, and with a threshold of 1 the
\* same request goes on to clear it.
LEMMA ExpireKept ==
  ASSUME FailuresOK, PlacesOK, CounterKept, NEW r \in Requests, FailureExpire(r)
  PROVE  CounterKept'
<1>1. CASE failures = NoCount
  BY <1>1, DeletedOwesNothing DEF FailureExpire
<1>2. CASE failures # NoCount
  <2>1. /\ at[r] = "f_expire" /\ UNCHANGED cut
        /\ failures'.n = failures.n /\ failures'.ttl = Cooldown
        /\ at'[r] = IF Threshold = 1 THEN "f_clear" ELSE "idle"
        /\ \A q \in Requests : q # r => at'[q] = at[q]
    BY <1>2 DEF FailureExpire, Goto, PlacesOK, FailuresOK
  <2> SUFFICES ASSUME ~cut PROVE FullIsCleared' /\ ForeverIsSet'
    BY <2>1 DEF CounterKept
  <2>2. ForeverIsSet' BY <2>1, RedisBreakerConstants DEF ForeverIsSet, Forever
  <2>3. FullIsCleared'
    <3> SUFFICES ASSUME failures.n >= Threshold
                 PROVE  \E q \in Requests : WillClear(q)'
      BY <2>1 DEF FullIsCleared
    <3>1. PICK q \in Requests : WillClear(q)
      BY DEF CounterKept, FullIsCleared
    <3>2. WillClear(q)' BY <2>1, <3>1 DEF WillClear
    <3> QED BY <3>2
  <2> QED BY <2>2, <2>3
<1> QED BY <1>1, <1>2

\* A request that stops where it owes something is what the flag remembers.
LEMMA StopKept ==
  ASSUME FailuresOK, PlacesOK, FlagsOK, CounterKept, NEW r \in Requests, Stop(r)
  PROVE  CounterKept'
<1>1. CASE at[r] = "calling"
  <2>1. /\ UNCHANGED <<failures, cut>>
        /\ \A q \in Requests : q # r => at'[q] = at[q]
    BY <1>1 DEF Stop, Goto, PlacesOK, FlagsOK
  <2> QED BY <1>1, <2>1, OwedKept
<1>2. CASE at[r] # "calling"
  BY <1>2 DEF Stop, CounterKept, FlagsOK
<1> QED BY <1>1, <1>2

\* Any command of any request leaves the counter owed or settled.
LEMMA StepCounter ==
  ASSUME FailuresOK, PlacesOK, FlagsOK, CounterKept, NEW r \in Requests, Step(r)
  PROVE  CounterKept'
<1>1. CASE FailureIncr(r) BY <1>1, IncrKept
<1>2. CASE FailureExpire(r) BY <1>2, ExpireKept
<1>3. CASE FailureClear(r) BY <1>3, DeletedOwesNothing DEF FailureClear
<1>4. CASE SuccessDel(r) BY <1>4, DeletedOwesNothing DEF SuccessDel
<1>5. CASE Stop(r) BY <1>5, StopKept
<1>6. CASE /\ UNCHANGED <<failures, cut>>
           /\ at[r] \notin {"f_expire", "f_clear"}
  <2>1. \A q \in Requests : q # r => at'[q] = at[q]
    BY StepGoto, GotoType DEF PlacesOK
  <2> QED BY <1>6, <2>1, OwedKept
<1> QED
  BY <1>1, <1>2, <1>3, <1>4, <1>5, <1>6
  DEF Step, CallFirst, AllowGetOpened, AllowClaim, FailureGetTrial,
      FailureDelTrial, FailureGetOpened, FailureOpen,
      SuccessGetOpened, SuccessGetTrial

\* The clock: a counter with an expiry only comes nearer to it.
LEMMA TickCounter ==
  ASSUME FailuresOK, CounterKept, Tick
  PROVE  CounterKept'
<1>1. CASE failures' = NoCount BY <1>1, DeletedOwesNothing
<1>2. CASE failures' # NoCount
  <2>1. /\ failures'.n = failures.n
        /\ failures'.ttl = Forever => failures.ttl = Forever
        /\ UNCHANGED <<at, cut>>
    BY <1>2, RedisBreakerConstants DEF Tick, FailuresOK, Forever
  <2> QED BY <2>1 DEF CounterKept, FullIsCleared, ForeverIsSet, WillClear, Forever
<1> QED BY <1>1, <1>2

\* The invariant is inductive.
LEMMA NextInv == BreakerInv /\ [Next]_vars => BreakerInv'
<1> SUFFICES ASSUME BreakerInv, [Next]_vars PROVE BreakerInv'
  OBVIOUS
<1>1. OpenedOK /\ TrialOK /\ FailuresOK /\ PlacesOK /\ FlagsOK
      /\ TrialExpires /\ CounterKept
  BY TypeParts DEF BreakerInv, CounterKept
<1>2. CASE Next
  <2>1. CounterKept' BY <1>1, <1>2, StepCounter, TickCounter DEF Next
  <2>2. TypeOK'
    <3>1. OpenedOK' /\ TrialOK' /\ FailuresOK' /\ PlacesOK' /\ FlagsOK'
      BY <1>1, <1>2, OpenedStep, TrialStep, FailuresStep, PlacesStep, FlagsStep
    <3> QED BY <3>1 DEF TypeOK, OpenedOK, TrialOK, FailuresOK, PlacesOK, FlagsOK, Places
  <2> QED BY <1>1, <1>2, <2>1, <2>2, TrialStep DEF BreakerInv, CounterKept
<1>3. CASE UNCHANGED vars
  BY <1>3 DEF vars, BreakerInv, TypeOK, TrialExpires, FullIsCleared, ForeverIsSet,
     WillClear, NoTrial, Forever, OpenMarkerTTL, Absent
<1> QED BY <1>2, <1>3

-----------------------------------------------------------------------------
\* The inductive invariant holds in every reachable state.
THEOREM BreakerInvariant == Spec => []BreakerInv
<1> QED BY BreakerInitInv, NextInv, PTL DEF Spec

\* The three keys are well formed between any two commands of any replicas, and
\* a counter at the threshold or without expiry is about to be cleared or given
\* one by the request that put it there, unless a request was cut short (INCR,
\* EXPIRE and DEL of record_failure, for any number of replicas and requests).
THEOREM MarkersSettleHolds == Spec => []MarkersSettle
<1>1. BreakerInv => MarkersSettle
  <2> SUFFICES ASSUME BreakerInv PROVE CounterSettles
    BY DEF MarkersSettle, BreakerInv
  <2>1. CASE cut BY <2>1 DEF CounterSettles
  <2>2. CASE ~cut
    <3>1. failures.n >= Threshold
            => \E r \in Requests : at[r] \in {"f_expire", "f_clear"}
      BY <2>2 DEF BreakerInv, FullIsCleared, WillClear
    <3>2. failures.ttl = Forever => \E r \in Requests : at[r] = "f_expire"
      BY <2>2 DEF BreakerInv, ForeverIsSet
    <3> QED BY <3>1, <3>2 DEF CounterSettles
  <2> QED BY <2>1, <2>2
<1> QED BY <1>1, BreakerInvariant, PTL

\* The opened marker that no success deletes is past its cooldown when it goes:
\* _open_marker_ttl leaves a half-open window behind every cooldown, whatever
\* the cooldown (ISSUE-029).
THEOREM TrialWindowHolds == Spec => TrialWindow
<1>1. BreakerInv /\ [Next]_vars =>
        [Open /\ opened' = Absent /\ UNCHANGED at => opened >= Cooldown]_vars
  <2> SUFFICES ASSUME BreakerInv, Next, Open, opened' = Absent, UNCHANGED at
               PROVE  opened >= Cooldown
    OBVIOUS
  <2>1. OpenedOK /\ PlacesOK BY TypeParts DEF BreakerInv
  <2>2. CASE Tick
    BY <2>1, <2>2, RedisBreakerConstants DEF Tick, OpenedOK, Open, OpenMarkerTTL, Absent
  <2>3. ASSUME NEW r \in Requests, Step(r) PROVE FALSE
    <3>1. CASE UNCHANGED opened BY <3>1 DEF Open
    <3>2. CASE FailureOpen(r) BY <3>2 DEF FailureOpen, Absent
    <3>3. CASE SuccessDel(r) BY <2>1, <3>3 DEF SuccessDel, Goto, PlacesOK
    <3> QED BY <2>3, <3>1, <3>2, <3>3
        DEF Step, CallFirst, AllowGetOpened, AllowClaim, FailureGetTrial,
            FailureDelTrial, FailureGetOpened, FailureIncr, FailureExpire,
            FailureClear, SuccessGetOpened, SuccessGetTrial, Stop
  <2> QED BY <2>2, <2>3 DEF Next
<1> QED BY <1>1, BreakerInvariant, PTL DEF Spec, TrialWindow

\* Every tick brings each marker nearer to its end, whoever stopped at which
\* command: the ranking that NeverWedged rests on.  A trial whose holder never
\* reports has one tick less to live, an open marker is one tick older.
MarkersAge ==
    [][Tick => /\ trial = NoTrial \/ trial' = NoTrial \/ trial'.ttl < trial.ttl
               /\ ~Open \/ opened' = Absent
                        \/ (opened' = opened + 1 /\ opened' < OpenMarkerTTL)]_vars

\* No marker of the shared breaker stands still while time passes: SET ... EX
\* gives each one its expiry in the command that writes it.
THEOREM MarkersAgeHolds == Spec => MarkersAge
<1>1. BreakerInv /\ [Next]_vars =>
        [Tick => /\ trial = NoTrial \/ trial' = NoTrial \/ trial'.ttl < trial.ttl
                 /\ ~Open \/ opened' = Absent
                          \/ (opened' = opened + 1 /\ opened' < OpenMarkerTTL)]_vars
  <2> SUFFICES ASSUME BreakerInv, Tick
               PROVE  /\ trial = NoTrial \/ trial' = NoTrial \/ trial'.ttl < trial.ttl
                      /\ ~Open \/ opened' = Absent
                               \/ (opened' = opened + 1 /\ opened' < OpenMarkerTTL)
    OBVIOUS
  <2>1. OpenedOK /\ TrialOK /\ TrialExpires BY TypeParts DEF BreakerInv
  <2>2. ~Open \/ opened' = Absent \/ (opened' = opened + 1 /\ opened' < OpenMarkerTTL)
    BY DEF Tick
  <2>3. CASE trial # NoTrial /\ trial' # NoTrial
    <3>1. trial' = [trial EXCEPT !.ttl = @ - 1] /\ trial.ttl \in 1..Cooldown
      BY <2>1, <2>3, RedisBreakerConstants DEF Tick, TrialExpires, Forever
    <3> QED BY <2>1, <2>2, <3>1 DEF TrialOK
  <2> QED BY <2>2, <2>3
<1> QED BY <1>1, BreakerInvariant, PTL DEF Spec, MarkersAge

-----------------------------------------------------------------------------
(* The management API: the inductive invariant of TeamAccess.              *)

\* Every handler there is, the two that are no endpoint of the API included.
Endpoints ==
    Plain \cup {delete_organization, create_team, delete_team, add_member, set_member_role,
                remove_member, revoke_key, rotate_key, set_key_budget, delete_key_budget,
                set_sp_enabled, delete_sp, set_user_auditor, delete_user,
                SsoEndpoint, SignupEndpoint}

Grants == {"none", "admin", "auditor", "role", "self", "key"}

Membership == [role: Roles \cup {"none"}, gen: 0..MaxRejoin]

\* What an SSO login plans to do to one membership.
Change == [do: {"add", "update", "remove"}, team: Teams, role: Roles \cup {"none"}, gen: 0..MaxRejoin]

Request ==
    [at: {"idle", "act", "audit"}, by: Callers \cup {NoOne}, ep: Endpoints, team: Teams \cup {NoOne},
     ground: Grants, user: Users \cup {NoOne}, role: Roles \cup {"none"}, was: Membership,
     key: Orgs \cup Keys \cup SPs \cup Invites \cup {NoOne}, plan: SUBSET Change]

AccessTypes == AccessTypeOK /\ req \in [Procs -> Request] /\ joined \in [Invites -> Nat]

\* M stands for managers, K for keys and T for teams: what a request relies on
\* of them is never taken back, so that it survives the steps of the others.
Manages(u, t, M) == u \in Users /\ (u \in Admins \/ <<u, t>> \in M)

ManagesByKey(k, t, K) == k \in Keys \ Users /\ K[k].row # "absent" /\ K[k].mgmt /\ K[k].team = t

TeamGone == {"tombstoned", "gone", "purged"}

\* What a request that was authorized may still rely on when it commits.
MayAct(r, M, K, T) ==
    /\ r.ground = "auditor" => r.ep.op = "read"
    /\ r.at = "act" =>
         /\ r.ep.op # "sso" => r.team \in Teams
         /\ r.ep.op = "create_team" => r.by \in Admins /\ r.user \in Users /\ r.key \in Orgs
         /\ r.ep.op = "delete_org" => r.key \in Orgs
         /\ r.ep.op = "guardrails" => Manages(r.by, r.team, M) \/ ManagesByKey(r.by, r.team, K)
         /\ r.ep.op = "sp_issue" => Manages(r.by, r.team, M)
         /\ r.ep.op \in {"add_member", "set_role"} =>
              Manages(r.by, r.team, M) /\ r.user \in Users /\ r.role \in Roles
         /\ r.ep.op = "remove_member" => r.user \in Users
         /\ r.ep.op \in {"set_role", "remove_member"} => T[r.team].row # "absent"
         /\ r.ep.op \in {"sp_enable", "sp_delete"} => r.key \in SPs
         /\ r.ep.op \in {"revoke", "rotate"} => r.key \in Keys /\ K[r.key].row # "absent"
         /\ r.ep.op = "rotate" =>
              /\ r.by \in Users /\ K[r.key].team = r.team
              /\ K[r.key].sp # NoOne => Manages(r.by, r.team, M)
         /\ r.ep.op \in {"set_auditor", "delete_user"} => r.user \in Users
         /\ r.ep.op = "signup" => r.key \in Invites
         /\ r.ep.op = "sso" =>
              r.user \in Users /\ \A x \in r.plan : x.team \in Governed /\ T[x.team].row # "absent"

RequestsOK == \A p \in Procs : MayAct(req[p], managers, keys, teams)

\* The flag is not something an account acquires.
AdminFlagsOK == \A u \in Users : users[u].admin => u \in Admins

\* Memberships are of accounts and teams that exist, or did.
StrangersOK ==
    \A t \in Teams, u \in Users :
        teams[t].row = "absent" \/ users[u].row = "absent" => members[t][u] = NoMember

ManagersOK == \A t \in Teams, u \in Users : members[t][u].role = "admin" => <<u, t>> \in managers

\* A key that was not issued has no owner and no scope.
KeysOwned == \A k \in Keys : keys[k].row = "absent" => ~keys[k].mgmt /\ keys[k].sp = NoOne

\* What is said of keys is said of keys that were issued.
AuthorityOK ==
    /\ \A h \in holders : keys[h[2]].row # "absent"
    /\ \A e \in editors : Manages(e[1], e[2], managers) \/ ManagesByKey(e[1], e[2], keys)

\* A team's lock is held by the delete that runs, and by no other request.
LocksOK ==
    /\ \A t \in Teams : lifecycle[t] # NoOne =>
          Acting(lifecycle[t], "delete_team") /\ req[lifecycle[t]].team = t
    /\ \A p \in Procs : Acting(p, "delete_team") => lifecycle[req[p].team] = p

LateOK == \A t \in Teams : lifecycle[t] # NoOne \/ teams[t].row \in TeamGone => TeamKeys(t) \subseteq late

InvitesOK ==
    \A i \in Invites : /\ joined[i] \in {0, 1}
                       /\ joined[i] = 1 => invites[i].state \in {"used", "gone"}
                       /\ invites[i].state = "open" => invites[i].team \in Teams /\ invites[i].role \in Roles

\* Request r is about to change roles of team t.
TouchesBy(r, t) ==
    /\ r.at = "act"
    /\ \/ r.ep.op \in {"set_role", "remove_member"} /\ r.team = t
       \/ r.ep.op = "sso" /\ t \in Governed

Touches(p, t) == TouchesBy(req[p], t)

AloneOK ==
    \A p, q \in Procs, t \in Teams \ raced : Touches(p, t) /\ Touches(q, t) => p = q

OtherAdmin(t, u) == \E v \in Users \ {u} : members[t][v].role = "admin"

\* The role change r is about to make takes the role of admin from its user in t.
TakesBy(r, t) ==
    /\ r.at = "act"
    /\ \/ r.ep.op = "set_role" /\ r.team = t /\ r.role # "admin"
       \/ r.ep.op = "remove_member" /\ r.team = t
       \/ r.ep.op = "sso" /\ \E x \in r.plan : x.team = t /\ x.role # "admin" /\ x.do # "add"

TakesAdmin(p, t) == TakesBy(req[p], t)

AdminsOK ==
    \A t \in Teams \ raced : Live(t) =>
        /\ \E u \in Users : members[t][u].role = "admin"
        /\ \A p \in Procs : TakesAdmin(p, t) => OtherAdmin(t, req[p].user)

AccessInv ==
    /\ AccessTypes /\ RequestsOK /\ AdminFlagsOK /\ StrangersOK /\ ManagersOK /\ KeysOwned /\ AuthorityOK
    /\ LocksOK /\ LateOK /\ InvitesOK /\ AloneOK /\ AdminsOK /\ NoEscalation /\ ChangesAudited

-----------------------------------------------------------------------------
(* The endpoints.                                                          *)

\* What the auditor flag lets through is a read, and the operations that need
\* a manager ask for a permission that only the role of admin has.
EndpointOK(e) ==
    /\ e.who = "reader" => e.op = "read"
    /\ e.who \in {"user", "principal"} /\ e.perm \in AUDITOR_TEAM_PERMISSIONS => e.op = "read"
    /\ e.op = "guardrails" => e.who = "principal" /\ e.perm = "guardrails:manage"
    /\ e.op = "sp_issue" => e.who = "user" /\ e.perm = "service-principals:manage"
    /\ e.op \in {"read", "configure", "create_org", "purge_team", "sp_create", "invite",
                 "execute", "issue", "sp_issue", "guardrails"}

\* An endpoint that reads.
LEMMA ReadsOK == ASSUME NEW w, NEW perm PROVE EndpointOK(Read(w, perm))
  BY DEF EndpointOK, Read, E

\* An endpoint of the platform admins.
LEMMA AdminsOnly ==
    ASSUME NEW perm, NEW audit,
           NEW op \in {"configure", "create_org", "purge_team", "invite"}
    PROVE  EndpointOK(E("admin", perm, op, audit))
  BY DEF EndpointOK, E

\* Every endpoint that is served from its authorization alone.
LEMMA PlainEndpoints == \A e \in Plain : EndpointOK(e)
  <1>1. \A e \in {list_organizations, get_organization, organization_spend,
                    list_teams, get_team, export_team, list_members, list_keys,
                    keys_spending, get_key_budget, get_budget, budget_alerts, usage,
                    usage_timeseries, team_cache_savings, platform_cache_savings,
                    quarantined_budget_alerts, list_sps, list_model_credentials,
                    list_models, list_callable, get_price, list_global_models,
                    list_model_grants, list_routers, list_callable_routers,
                    list_decisions, router_stats, router_reliability,
                    router_savings, team_savings, export_decisions,
                    platform_routing_savings, list_global_routers, list_revisions,
                    list_router_grants, list_rules, get_rule, list_credentials,
                    get_sso_settings, list_scim_tokens, list_users, list_audit, me,
                    my_teams} : EndpointOK(e)
    BY ReadsOK
       DEF list_organizations, get_organization, organization_spend, list_teams,
           get_team, export_team, list_members, list_keys, keys_spending,
           get_key_budget, get_budget, budget_alerts, usage, usage_timeseries,
           team_cache_savings, platform_cache_savings, quarantined_budget_alerts,
           list_sps, list_model_credentials, list_models, list_callable, get_price,
           list_global_models, list_model_grants, list_routers,
           list_callable_routers, list_decisions, router_stats, router_reliability,
           router_savings, team_savings, export_decisions, platform_routing_savings,
           list_global_routers, list_revisions, list_router_grants, list_rules,
           get_rule, list_credentials, get_sso_settings, list_scim_tokens,
           list_users, list_audit, me, my_teams
  <1>2. \A e \in {create_organization, purge_team, create_invite,
                    update_organization, update_team, set_budget, delete_budget,
                    requeue_budget_alert, create_global_model, update_global_model,
                    delete_global_model, make_model_global, extend_model,
                    unextend_model, create_global_router, update_global_router,
                    delete_global_router, make_router_global, extend_router,
                    unextend_router, upgrade_grant, create_credential,
                    update_credential, delete_credential, upsert_sso_settings,
                    create_scim_token, revoke_scim_token} : EndpointOK(e)
    BY AdminsOnly
       DEF create_organization, purge_team, create_invite, update_organization,
           update_team, set_budget, delete_budget, requeue_budget_alert,
           create_global_model, update_global_model, delete_global_model,
           make_model_global, extend_model, unextend_model, create_global_router,
           update_global_router, delete_global_router, make_router_global,
           extend_router, unextend_router, upgrade_grant, create_credential,
           update_credential, delete_credential, upsert_sso_settings,
           create_scim_token, revoke_scim_token
  <1>3. \A e \in {create_sp, compare, create_key, issue_sp_key, create_model,
                    update_model, delete_model, create_router, update_router,
                    delete_router, create_rule, update_rule, delete_rule} : EndpointOK(e)
    BY DEF EndpointOK, E, AUDITOR_TEAM_PERMISSIONS,
           create_sp, compare, create_key, issue_sp_key, create_model, update_model,
           delete_model, create_router, update_router, delete_router, create_rule,
           update_rule, delete_rule
  <1>q. QED BY <1>1, <1>2, <1>3 DEF Plain

-----------------------------------------------------------------------------
(* Authorization.                                                          *)

ManagerPermissions == {"members:manage", "service-principals:manage", "guardrails:manage"}

\* Only the role of admin has these permissions.
LEMMA AdminRole ==
    ASSUME NEW role, NEW perm \in ManagerPermissions, role_grants(role, perm)
    PROVE  role = "admin"
  BY DEF role_grants, ManagerPermissions, ROLE_PERMISSIONS, Roles

\* Who has them managed the team.
LEMMA PermittedManages ==
    ASSUME AdminFlagsOK, ManagersOK, NEW u \in Users, NEW t \in Teams, NEW perm \in ManagerPermissions,
           ensure_team_permission(u, t, perm) # {}
    PROVE  Manages(u, t, managers)
  <1>1. perm \notin AUDITOR_TEAM_PERMISSIONS
    BY DEF ManagerPermissions, AUDITOR_TEAM_PERMISSIONS
  <1>2. users[u].admin \/ role_grants(members[t][u].role, perm)
    BY <1>1 DEF ensure_team_permission
  <1>q. QED BY <1>2, AdminRole DEF AdminFlagsOK, ManagersOK, Manages

LEMMA GroundsTyped ==
    ASSUME NEW c, NEW e, NEW t
    PROVE  Grounds(c, e, t) \subseteq Grants
  <1>1. \A perm : ensure_team_permission(c, t, perm) \subseteq Grants
    BY DEF ensure_team_permission, Grants
  <1>q. QED BY <1>1 DEF Grounds, Grants

\* An endpoint for platform admins is served to platform admins.
LEMMA AdminGrounds ==
    ASSUME AdminFlagsOK, NEW c, NEW e, NEW t, e.who = "admin", Grounds(c, e, t) # {}
    PROVE  c \in Admins
  BY DEF Grounds, Person, AdminFlagsOK

\* A team's endpoint is for a live team, and one for managers is served to them.
LEMMA TeamGrounds ==
    ASSUME NEW c, NEW e, NEW t \in Teams, e.who \in {"user", "principal"}, Grounds(c, e, t) # {}
    PROVE  /\ Live(t)
           /\ c \in Users \/ e.who = "principal"
  BY DEF Grounds, Person

LEMMA ManagerGrounds ==
    ASSUME AdminFlagsOK, ManagersOK, NEW c \in Callers, NEW e, NEW t \in Teams,
           e.who \in {"user", "principal"}, e.perm \in ManagerPermissions, Grounds(c, e, t) # {}
    PROVE  Manages(c, t, managers) \/ (e.who = "principal" /\ ManagesByKey(c, t, keys))
  <1>1. CASE Person(c)
    <2>0. c \notin Keys BY <1>1, TeamAccessAssumption DEF Person
    <2>1. ensure_team_permission(c, t, e.perm) # {} BY <1>1, <2>0 DEF Grounds
    <2>q. QED BY <1>1, <2>1, PermittedManages DEF Person
  <1>2. CASE ~Person(c)
    <2>1. c \in Keys /\ e.who = "principal" /\ KeyManages(c, t) BY <1>2 DEF Grounds
    <2>2. c \notin Users BY <2>1, TeamAccessAssumption
    <2>q. QED BY <2>1, <2>2 DEF KeyManages, Usable, ManagesByKey
  <1>q. QED BY <1>1, <1>2

\* The auditor flag opens what EndpointOK is about.
LEMMA AuditorGrounds ==
    ASSUME NEW c, NEW e, NEW t, "auditor" \in Grounds(c, e, t)
    PROVE  \/ e.who = "reader"
           \/ e.who \in {"user", "principal"} /\ e.perm \in AUDITOR_TEAM_PERMISSIONS
  BY DEF Grounds, ensure_team_permission

-----------------------------------------------------------------------------
(* Requests.                                                               *)

LEMMA IdleTyped == Idle \in Request
  <1>1. me \in Endpoints BY DEF Endpoints, Plain
  <1>2. [role |-> "none", gen |-> 0] \in Membership
    BY TeamAccessAssumption DEF Membership
  <1>q. QED BY <1>1, <1>2 DEF Idle, Request, Grants

\* The request x becomes when it is authorized.
Granted(x, c, e, t, g) == [x EXCEPT !.at = "act", !.by = c, !.ep = e, !.team = t, !.ground = g]

LEMMA GrantedFields ==
    ASSUME NEW x \in Request, NEW c \in Callers, NEW e \in Endpoints, NEW t \in Teams,
           NEW g \in Grounds(c, e, t)
    PROVE  LET r == Granted(x, c, e, t, g) IN
           /\ r \in Request
           /\ r.at = "act" /\ r.by = c /\ r.ep = e /\ r.team = t /\ r.ground = g
           /\ r.user = x.user /\ r.role = x.role /\ r.was = x.was /\ r.key = x.key /\ r.plan = x.plan
  <1>1. g \in Grants BY GroundsTyped
  <1>q. QED BY <1>1 DEF Granted, Request

\* What is taken for granted of other requests' steps.
RequestsKept ==
    /\ managers \subseteq managers'
    /\ \A k \in Keys : keys[k].row # "absent" =>
          /\ keys'[k].row # "absent" /\ keys'[k].mgmt = keys[k].mgmt /\ keys'[k].team = keys[k].team
          /\ keys'[k].sp \in {keys[k].sp, NoOne}
    /\ \A t \in Teams : teams[t].row # "absent" => teams'[t].row # "absent"

LEMMA GovernedTeams == Governed \subseteq Teams
  BY TeamAccessAssumption DEF Governed

LEMMA MayActKept ==
    ASSUME RequestsKept, NEW r \in Request, MayAct(r, managers, keys, teams)
    PROVE  MayAct(r, managers', keys', teams')
  <1>1. \A u, t : Manages(u, t, managers) => Manages(u, t, managers')
    BY DEF RequestsKept, Manages
  <1>2. \A k, t : ManagesByKey(k, t, keys) => ManagesByKey(k, t, keys')
    BY DEF RequestsKept, ManagesByKey
  <1>3. r.ep.op = "rotate" /\ r.at = "act" =>
          /\ keys'[r.key].row # "absent" /\ keys'[r.key].team = r.team
          /\ keys'[r.key].sp # NoOne => Manages(r.by, r.team, managers')
    BY <1>1 DEF MayAct, RequestsKept
  <1>4. r.ep.op = "revoke" /\ r.at = "act" => keys'[r.key].row # "absent"
    BY DEF MayAct, RequestsKept
  <1>5. r.ep.op \in {"set_role", "remove_member"} /\ r.at = "act" => teams'[r.team].row # "absent"
    BY DEF MayAct, RequestsKept
  <1>6. r.ep.op = "sso" /\ r.at = "act" =>
          \A x \in r.plan : x.team \in Governed /\ teams'[x.team].row # "absent"
    BY GovernedTeams DEF MayAct, RequestsKept
  <1>q. QED BY <1>1, <1>2, <1>3, <1>4, <1>5, <1>6 DEF MayAct

\* One request moves, and what it becomes may act.
LEMMA OneMoves ==
    ASSUME req \in [Procs -> Request], RequestsOK, RequestsKept, NEW p \in Procs, NEW r \in Request,
           MayAct(r, managers', keys', teams'), req' = [req EXCEPT ![p] = r]
    PROVE  RequestsOK' /\ req' \in [Procs -> Request]
  <1>1. ASSUME NEW q \in Procs PROVE MayAct(req'[q], managers', keys', teams')
    <2>1. CASE q = p BY <2>1
    <2>2. CASE q # p
      <3>1. req'[q] = req[q] BY <2>2
      <3>2. MayAct(req[q], managers, keys, teams) BY DEF RequestsOK
      <3>3. req[q] \in Request OBVIOUS
      <3>4. MayAct(req[q], managers', keys', teams') BY <3>2, <3>3, MayActKept
      <3>q. QED BY <3>1, <3>4
    <2>q. QED BY <2>1, <2>2
  <1>q. QED BY <1>1 DEF RequestsOK

\* A request that has committed has nothing more to rely on.
LEMMA Finishes ==
    ASSUME req \in [Procs -> Request], RequestsOK, NEW p \in Procs, Done(p) \/ Ended(p)
    PROVE  \E r \in Request : /\ req' = [req EXCEPT ![p] = r] /\ r.at # "act"
                              /\ \A M, K, T : MayAct(r, M, K, T)
  <1>1. /\ Idle.at # "act"
        /\ \A M, K, T : MayAct(Idle, M, K, T)
    BY DEF Idle, MayAct
  <1>2. CASE req' = [req EXCEPT ![p] = Idle]
    BY <1>1, <1>2, IdleTyped
  <1>3. CASE req' = [req EXCEPT ![p] = [req[p] EXCEPT !.at = "audit"]]
    <2> DEFINE r == [req[p] EXCEPT !.at = "audit"]
    <2>1. r \in Request /\ r.at = "audit" /\ r.ground = req[p].ground /\ r.ep = req[p].ep
      BY DEF Request
    <2>2. req[p].ground = "auditor" => req[p].ep.op = "read"
      BY DEF RequestsOK, MayAct
    <2>3. \A M, K, T : MayAct(r, M, K, T)
      BY <2>1, <2>2 DEF MayAct
    <2>4. r.at # "act" BY <2>1
    <2>q. QED BY <2>1, <2>3, <2>4, <1>3
  <1>q. QED BY <1>2, <1>3 DEF Done, Ended

-----------------------------------------------------------------------------
(* The requests that begin.                                                *)

\* The rows and the histories, without requests and locks.
AccessRows == <<orgs, teams, members, users, invites, sps, keys, log, managers, holders, editors, late, joined>>

\* The requests that begin and neither change roles nor lock a team.
Calls(p) ==
    \/ call(p) \/ delete_org_check(p) \/ create_team_check(p) \/ add_member_check(p)
    \/ signup(p) \/ change_sp_check(p) \/ key_check(p) \/ user_check(p)

\* Process p begins request r.
Begins(p, r) ==
    /\ Free(p) /\ req' = [req EXCEPT ![p] = r]
    /\ r.at = "act" /\ MayAct(r, managers, keys, teams)

Exclusive == {"delete_team", "set_role", "remove_member", "sso"}

\* What the authorization of a request establishes.
LEMMA Authorized ==
    ASSUME AdminFlagsOK, ManagersOK, NEW p \in Procs, NEW c \in Callers, NEW e \in Endpoints,
           NEW t \in Teams, NEW x \in Request, Authorize(p, c, e, t, x)
    PROVE  \E r \in Request :
              /\ req' = [req EXCEPT ![p] = r]
              /\ r.at = "act" /\ r.by = c /\ r.ep = e /\ r.team = t
              /\ r.user = x.user /\ r.role = x.role /\ r.was = x.was /\ r.key = x.key /\ r.plan = x.plan
              /\ r.ground = "auditor" =>
                    \/ e.who = "reader"
                    \/ e.who \in {"user", "principal"} /\ e.perm \in AUDITOR_TEAM_PERMISSIONS
              /\ e.who = "admin" => c \in Admins
              /\ e.who \in {"user", "principal"} => Live(t)
              /\ e.who \in {"user", "principal"} /\ e.perm \in ManagerPermissions =>
                    Manages(c, t, managers) \/ (e.who = "principal" /\ ManagesByKey(c, t, keys))
  <1>1. PICK g \in Grounds(c, e, t) : req' = [req EXCEPT ![p] = Granted(x, c, e, t, g)]
    BY DEF Authorize, Granted
  <1> DEFINE r == Granted(x, c, e, t, g)
  <1>2. /\ r \in Request
        /\ r.at = "act" /\ r.by = c /\ r.ep = e /\ r.team = t /\ r.ground = g
        /\ r.user = x.user /\ r.role = x.role /\ r.was = x.was /\ r.key = x.key /\ r.plan = x.plan
    BY <1>1, GrantedFields
  <1>3. req' = [req EXCEPT ![p] = r] BY <1>1
  <1> HIDE DEF r
  <1>4. Grounds(c, e, t) # {} BY <1>1
  <1>5. r.ground = "auditor" =>
           \/ e.who = "reader"
           \/ e.who \in {"user", "principal"} /\ e.perm \in AUDITOR_TEAM_PERMISSIONS
    BY <1>2, <1>1, AuditorGrounds
  <1>6. e.who = "admin" => c \in Admins BY <1>4, AdminGrounds
  <1>7. e.who \in {"user", "principal"} => Live(t) BY <1>4, TeamGrounds
  <1>8. e.who \in {"user", "principal"} /\ e.perm \in ManagerPermissions =>
           Manages(c, t, managers) \/ (e.who = "principal" /\ ManagesByKey(c, t, keys))
    BY <1>4, ManagerGrounds
  <1>q. QED BY <1>2, <1>3, <1>5, <1>6, <1>7, <1>8

LEMMA call_Begins ==
    ASSUME AdminFlagsOK, ManagersOK, NEW p \in Procs, call(p)
    PROVE  \E r \in Request : Begins(p, r) /\ r.ep.op \notin Exclusive
  <1>1. PICK e \in Plain, c \in Callers, t \in Teams : Authorize(p, c, e, t, Idle)
    BY DEF call
  <1>2. e \in Endpoints /\ EndpointOK(e) BY PlainEndpoints DEF Endpoints
  <1>3. PICK r \in Request :
              /\ req' = [req EXCEPT ![p] = r]
              /\ r.at = "act" /\ r.by = c /\ r.ep = e /\ r.team = t
              /\ r.ground = "auditor" =>
                    \/ e.who = "reader"
                    \/ e.who \in {"user", "principal"} /\ e.perm \in AUDITOR_TEAM_PERMISSIONS
              /\ e.who \in {"user", "principal"} /\ e.perm \in ManagerPermissions =>
                    Manages(c, t, managers) \/ (e.who = "principal" /\ ManagesByKey(c, t, keys))
    BY <1>1, <1>2, IdleTyped, Authorized
  <1>4. MayAct(r, managers, keys, teams)
    BY <1>2, <1>3 DEF MayAct, EndpointOK, ManagerPermissions
  <1>q. QED BY <1>2, <1>3, <1>4 DEF Begins, EndpointOK, Exclusive, call

LEMMA delete_org_check_Begins ==
    ASSUME AdminFlagsOK, ManagersOK, NEW p \in Procs, delete_org_check(p)
    PROVE  \E r \in Request : Begins(p, r) /\ r.ep.op \notin Exclusive
  <1>1. PICK c \in Users, o \in Orgs, t \in OneOf(Teams) :
            /\ Authorize(p, c, delete_organization, t, [Idle EXCEPT !.key = o])
    BY DEF delete_org_check
  <1> DEFINE x == [Idle EXCEPT !.key = o]
             e == delete_organization
  <1>2. x \in Request /\ x.key = o BY IdleTyped DEF Request
  <1>3. c \in Callers /\ t \in Teams /\ e \in Endpoints BY DEF Callers, Endpoints, OneOf
  <1>4. e.who = "admin" /\ e.op = "delete_org"
    BY DEF delete_organization, E, AUDITOR_TEAM_PERMISSIONS
  <1>a. Authorize(p, c, e, t, x) BY <1>1
  <1> HIDE DEF x, e
  <1>5. PICK r \in Request :
           /\ req' = [req EXCEPT ![p] = r]
           /\ r.at = "act" /\ r.by = c /\ r.ep = e /\ r.team = t
           /\ r.user = x.user /\ r.role = x.role /\ r.was = x.was /\ r.key = x.key /\ r.plan = x.plan
           /\ r.ground # "auditor"
           /\ c \in Admins
    BY <1>a, <1>2, <1>3, <1>4, Authorized DEF ManagerPermissions
  <1>6. MayAct(r, managers, keys, teams)
    BY <1>1, <1>2, <1>3, <1>4, <1>5 DEF MayAct, Live, Usable
  <1>q. QED BY <1>1, <1>4, <1>2, <1>5, <1>6 DEF Begins, delete_org_check, Exclusive

LEMMA create_team_check_Begins ==
    ASSUME AdminFlagsOK, ManagersOK, NEW p \in Procs, create_team_check(p)
    PROVE  \E r \in Request : Begins(p, r) /\ r.ep.op \notin Exclusive
  <1>1. PICK c \in Users, lead \in Users, o \in Orgs,
           t \in OneOf({y \in Teams : teams[y].row = "absent"}) :
            /\ Authorize(p, c, create_team, t, [Idle EXCEPT !.user = lead, !.key = o])
    BY DEF create_team_check
  <1> DEFINE x == [Idle EXCEPT !.user = lead, !.key = o]
             e == create_team
  <1>2. x \in Request /\ x.user = lead /\ x.key = o BY IdleTyped DEF Request
  <1>3. c \in Callers /\ t \in Teams /\ e \in Endpoints BY DEF Callers, Endpoints, OneOf
  <1>4. e.who = "admin" /\ e.op = "create_team"
    BY DEF create_team, E, AUDITOR_TEAM_PERMISSIONS
  <1>a. Authorize(p, c, e, t, x) BY <1>1
  <1> HIDE DEF x, e
  <1>5. PICK r \in Request :
           /\ req' = [req EXCEPT ![p] = r]
           /\ r.at = "act" /\ r.by = c /\ r.ep = e /\ r.team = t
           /\ r.user = x.user /\ r.role = x.role /\ r.was = x.was /\ r.key = x.key /\ r.plan = x.plan
           /\ r.ground # "auditor"
           /\ c \in Admins
    BY <1>a, <1>2, <1>3, <1>4, Authorized DEF ManagerPermissions
  <1>6. MayAct(r, managers, keys, teams)
    BY <1>1, <1>2, <1>3, <1>4, <1>5 DEF MayAct, Live, Usable
  <1>q. QED BY <1>1, <1>4, <1>2, <1>5, <1>6 DEF Begins, create_team_check, Exclusive

LEMMA add_member_check_Begins ==
    ASSUME AdminFlagsOK, ManagersOK, NEW p \in Procs, add_member_check(p)
    PROVE  \E r \in Request : Begins(p, r) /\ r.ep.op \notin Exclusive
  <1>1. PICK c \in Users, t \in Teams, u \in Users, role \in Roles :
            /\ Authorize(p, c, add_member, t, [Idle EXCEPT !.user = u, !.role = role])
    BY DEF add_member_check
  <1> DEFINE x == [Idle EXCEPT !.user = u, !.role = role]
             e == add_member
  <1>2. x \in Request /\ x.user = u /\ x.role = role BY IdleTyped DEF Request
  <1>3. c \in Callers /\ t \in Teams /\ e \in Endpoints BY DEF Callers, Endpoints, OneOf
  <1>4. e.who = "user" /\ e.perm = "members:manage" /\ e.op = "add_member" /\ e.perm \notin AUDITOR_TEAM_PERMISSIONS
    BY DEF add_member, E, AUDITOR_TEAM_PERMISSIONS
  <1>a. Authorize(p, c, e, t, x) BY <1>1
  <1> HIDE DEF x, e
  <1>5. PICK r \in Request :
           /\ req' = [req EXCEPT ![p] = r]
           /\ r.at = "act" /\ r.by = c /\ r.ep = e /\ r.team = t
           /\ r.user = x.user /\ r.role = x.role /\ r.was = x.was /\ r.key = x.key /\ r.plan = x.plan
           /\ r.ground # "auditor"
           /\ Manages(c, t, managers) /\ Live(t)
    BY <1>a, <1>2, <1>3, <1>4, Authorized DEF ManagerPermissions
  <1>6. MayAct(r, managers, keys, teams)
    BY <1>1, <1>2, <1>3, <1>4, <1>5 DEF MayAct, Live, Usable
  <1>q. QED BY <1>1, <1>4, <1>2, <1>5, <1>6 DEF Begins, add_member_check, Exclusive

LEMMA change_sp_check_Begins ==
    ASSUME AdminFlagsOK, ManagersOK, NEW p \in Procs, change_sp_check(p)
    PROVE  \E r \in Request : Begins(p, r) /\ r.ep.op \notin Exclusive
  <1>1. PICK c \in Users, t \in Teams, s \in SPs, e \in {set_sp_enabled, delete_sp} :
            /\ Authorize(p, c, e, t, [Idle EXCEPT !.key = s])
    BY DEF change_sp_check
  <1> DEFINE x == [Idle EXCEPT !.key = s]
  <1>2. x \in Request /\ x.key = s BY IdleTyped DEF Request
  <1>3. c \in Callers /\ t \in Teams /\ e \in Endpoints BY DEF Callers, Endpoints, OneOf
  <1>4. e.who = "user" /\ e.perm = "service-principals:manage" /\ e.op \in {"sp_enable", "sp_delete"} /\ e.perm \notin AUDITOR_TEAM_PERMISSIONS
    BY DEF set_sp_enabled, delete_sp, E, AUDITOR_TEAM_PERMISSIONS
  <1>a. Authorize(p, c, e, t, x) BY <1>1
  <1> HIDE DEF x
  <1>5. PICK r \in Request :
           /\ req' = [req EXCEPT ![p] = r]
           /\ r.at = "act" /\ r.by = c /\ r.ep = e /\ r.team = t
           /\ r.user = x.user /\ r.role = x.role /\ r.was = x.was /\ r.key = x.key /\ r.plan = x.plan
           /\ r.ground # "auditor"
    BY <1>a, <1>2, <1>3, <1>4, Authorized DEF ManagerPermissions
  <1>6. MayAct(r, managers, keys, teams)
    BY <1>1, <1>2, <1>3, <1>4, <1>5 DEF MayAct, Live, Usable
  <1>q. QED BY <1>1, <1>4, <1>2, <1>5, <1>6 DEF Begins, change_sp_check, Exclusive

LEMMA user_check_Begins ==
    ASSUME AdminFlagsOK, ManagersOK, NEW p \in Procs, user_check(p)
    PROVE  \E r \in Request : Begins(p, r) /\ r.ep.op \notin Exclusive
  <1>1. PICK c \in Users, u \in Users, e \in {set_user_auditor, delete_user},
           t \in OneOf(Teams) :
            /\ Authorize(p, c, e, t, [Idle EXCEPT !.user = u])
    BY DEF user_check
  <1> DEFINE x == [Idle EXCEPT !.user = u]
  <1>2. x \in Request /\ x.user = u BY IdleTyped DEF Request
  <1>3. c \in Callers /\ t \in Teams /\ e \in Endpoints BY DEF Callers, Endpoints, OneOf
  <1>4. e.who = "admin" /\ e.op \in {"set_auditor", "delete_user"} /\ e.perm \notin AUDITOR_TEAM_PERMISSIONS
    BY DEF set_user_auditor, delete_user, E, AUDITOR_TEAM_PERMISSIONS
  <1>a. Authorize(p, c, e, t, x) BY <1>1
  <1> HIDE DEF x
  <1>5. PICK r \in Request :
           /\ req' = [req EXCEPT ![p] = r]
           /\ r.at = "act" /\ r.by = c /\ r.ep = e /\ r.team = t
           /\ r.user = x.user /\ r.role = x.role /\ r.was = x.was /\ r.key = x.key /\ r.plan = x.plan
           /\ r.ground # "auditor"
           /\ c \in Admins
    BY <1>a, <1>2, <1>3, <1>4, Authorized DEF ManagerPermissions
  <1>6. MayAct(r, managers, keys, teams)
    BY <1>1, <1>2, <1>3, <1>4, <1>5 DEF MayAct, Live, Usable
  <1>q. QED BY <1>1, <1>4, <1>2, <1>5, <1>6 DEF Begins, user_check, Exclusive

LEMMA key_check_Begins ==
    ASSUME AdminFlagsOK, ManagersOK, NEW p \in Procs, key_check(p)
    PROVE  \E r \in Request : Begins(p, r) /\ r.ep.op \notin Exclusive
  <1>1. PICK c \in Callers, t \in Teams, k \in Keys,
           e \in {revoke_key, rotate_key, set_key_budget, delete_key_budget} :
            /\ Usable(k) /\ keys[k].team = t
            /\ e = rotate_key => c \in Users /\ Live(t) /\ MayRotate(c, t, k)
            /\ Authorize(p, c, e, t, [Idle EXCEPT !.key = k])
    BY DEF key_check
  <1> DEFINE x == [Idle EXCEPT !.key = k]
  <1>2. x \in Request /\ x.key = k BY IdleTyped DEF Request
  <1>3. c \in Callers /\ t \in Teams /\ e \in Endpoints BY DEF Callers, Endpoints, OneOf
  <1>4. /\ e.who \in {"user", "principal"} /\ e.perm = "keys:issue" /\ e.op \in {"revoke", "rotate", "key_budget"}
        /\ e.op = "rotate" => e = rotate_key
        /\ e.perm \notin AUDITOR_TEAM_PERMISSIONS
    BY DEF revoke_key, rotate_key, set_key_budget, delete_key_budget, E, AUDITOR_TEAM_PERMISSIONS
  <1>b. e = rotate_key => c \in Users /\ (keys[k].sp # NoOne => Manages(c, t, managers))
    BY <1>1, PermittedManages DEF MayRotate, ManagerPermissions
  <1>a. Authorize(p, c, e, t, x) BY <1>1
  <1> HIDE DEF x
  <1>5. PICK r \in Request :
           /\ req' = [req EXCEPT ![p] = r]
           /\ r.at = "act" /\ r.by = c /\ r.ep = e /\ r.team = t
           /\ r.user = x.user /\ r.role = x.role /\ r.was = x.was /\ r.key = x.key /\ r.plan = x.plan
           /\ r.ground # "auditor"
    BY <1>a, <1>2, <1>3, <1>4, Authorized DEF ManagerPermissions
  <1>6. MayAct(r, managers, keys, teams)
    BY <1>1, <1>b, <1>2, <1>3, <1>4, <1>5 DEF MayAct, Usable
  <1>q. QED BY <1>1, <1>b, <1>4, <1>2, <1>5, <1>6 DEF Begins, key_check, Exclusive

LEMMA signup_Begins ==
    ASSUME InvitesOK, NEW p \in Procs, signup(p)
    PROVE  \E r \in Request : Begins(p, r) /\ r.ep.op \notin Exclusive
  <1>1. PICK i \in Invites :
            /\ invites[i].state = "open"
            /\ req' = [req EXCEPT ![p] = [Idle EXCEPT !.at = "act", !.ep = SignupEndpoint, !.key = i,
                                                      !.team = invites[i].team]]
    BY DEF signup
  <1> DEFINE r == [Idle EXCEPT !.at = "act", !.ep = SignupEndpoint, !.key = i, !.team = invites[i].team]
  <1>2. SignupEndpoint \in Endpoints /\ invites[i].team \in Teams
    BY <1>1 DEF Endpoints, InvitesOK
  <1>3. /\ r \in Request /\ r.at = "act" /\ r.ep = SignupEndpoint /\ r.key = i
        /\ r.team \in Teams /\ r.ground = "none"
    BY <1>2, IdleTyped DEF Request, Idle
  <1>4. req' = [req EXCEPT ![p] = r] BY <1>1
  <1> HIDE DEF r
  <1>5. SignupEndpoint.op = "signup" BY DEF SignupEndpoint, E
  <1>6. MayAct(r, managers, keys, teams) BY <1>3, <1>5 DEF MayAct
  <1>q. QED BY <1>3, <1>4, <1>5, <1>6 DEF Begins, Exclusive, signup

\* The requests that read nothing else than a request of their own.
LEMMA CallsBegin ==
    ASSUME AdminFlagsOK, ManagersOK, InvitesOK, NEW p \in Procs, Calls(p)
    PROVE  \E r \in Request : Begins(p, r) /\ r.ep.op \notin Exclusive
  BY call_Begins, delete_org_check_Begins, create_team_check_Begins, add_member_check_Begins,
     signup_Begins, change_sp_check_Begins, key_check_Begins, user_check_Begins DEF Calls

LEMMA delete_team_check_Begins ==
    ASSUME AdminFlagsOK, ManagersOK, NEW p \in Procs, delete_team_check(p)
    PROVE  \E r \in Request : Begins(p, r) /\ r.ep.op = "delete_team" /\ r.team \in Teams
              /\ Live(r.team) /\ lifecycle[r.team] = NoOne /\ TeamEmpty(r.team)
              /\ lifecycle' = [lifecycle EXCEPT ![r.team] = p]
  <1>1. PICK c \in Users, t \in Teams :
            /\ Live(t) /\ lifecycle[t] = NoOne /\ TeamEmpty(t)
            /\ lifecycle' = [lifecycle EXCEPT ![t] = p]
            /\ Authorize(p, c, delete_team, t, Idle)
    BY DEF delete_team_check
  <1> DEFINE x == Idle
             e == delete_team
  <1>2. x \in Request BY IdleTyped DEF Request
  <1>3. c \in Callers /\ t \in Teams /\ e \in Endpoints BY DEF Callers, Endpoints, OneOf
  <1>4. e.who = "admin" /\ e.op = "delete_team"
    BY DEF delete_team, E, AUDITOR_TEAM_PERMISSIONS
  <1>a. Authorize(p, c, e, t, x) BY <1>1
  <1> HIDE DEF x, e
  <1>5. PICK r \in Request :
           /\ req' = [req EXCEPT ![p] = r]
           /\ r.at = "act" /\ r.by = c /\ r.ep = e /\ r.team = t
           /\ r.user = x.user /\ r.role = x.role /\ r.was = x.was /\ r.key = x.key /\ r.plan = x.plan
           /\ r.ground # "auditor"
           /\ c \in Admins
    BY <1>a, <1>2, <1>3, <1>4, Authorized DEF ManagerPermissions
  <1>6. MayAct(r, managers, keys, teams)
    BY <1>1, <1>2, <1>3, <1>4, <1>5 DEF MayAct, Live, Usable
  <1>q. QED BY <1>1, <1>4, <1>2, <1>5, <1>6 DEF Begins, delete_team_check, TeamEmpty

LEMMA set_role_check_Begins ==
    ASSUME AccessTypes, AdminFlagsOK, ManagersOK, NEW p \in Procs, set_role_check(p)
    PROVE  \E r \in Request :
              /\ Begins(p, r) /\ r.ep.op = "set_role" /\ r.team \in Teams /\ r.user \in Users
              /\ Live(r.team) /\ Overlaps(p, {r.team})
              /\ r.role # "admin" => ~_is_last_admin(r.team, r.user)
  <1>1. PICK c \in Users, t \in Teams, u \in Users, role \in Roles :
            /\ role # "admin" => ~_is_last_admin(t, u)
            /\ Overlaps(p, {t})
            /\ Authorize(p, c, set_member_role, t, [Idle EXCEPT !.user = u, !.role = role, !.was = members[t][u]])
    BY DEF set_role_check
  <1> DEFINE x == [Idle EXCEPT !.user = u, !.role = role, !.was = members[t][u]]
             e == set_member_role
  <1>m. members[t][u] \in Membership BY DEF AccessTypes, AccessTypeOK, Membership
  <1>2. x \in Request /\ x.user = u /\ x.role = role BY <1>m, IdleTyped DEF Request
  <1>3. c \in Callers /\ t \in Teams /\ e \in Endpoints BY DEF Callers, Endpoints, OneOf
  <1>4. e.who = "user" /\ e.perm = "members:manage" /\ e.op = "set_role" /\ e.perm \notin AUDITOR_TEAM_PERMISSIONS
    BY DEF set_member_role, E, AUDITOR_TEAM_PERMISSIONS
  <1>a. Authorize(p, c, e, t, x) BY <1>1
  <1> HIDE DEF x, e
  <1>5. PICK r \in Request :
           /\ req' = [req EXCEPT ![p] = r]
           /\ r.at = "act" /\ r.by = c /\ r.ep = e /\ r.team = t
           /\ r.user = x.user /\ r.role = x.role /\ r.was = x.was /\ r.key = x.key /\ r.plan = x.plan
           /\ r.ground # "auditor"
           /\ Manages(c, t, managers) /\ Live(t)
    BY <1>a, <1>2, <1>3, <1>4, Authorized DEF ManagerPermissions
  <1>6. MayAct(r, managers, keys, teams)
    BY <1>1, <1>2, <1>3, <1>4, <1>5 DEF MayAct, Live, Usable
  <1>q. QED BY <1>1, <1>4, <1>2, <1>5, <1>6 DEF Begins, set_role_check, Live

LEMMA remove_member_check_Begins ==
    ASSUME AdminFlagsOK, ManagersOK, NEW p \in Procs, remove_member_check(p)
    PROVE  \E r \in Request : Begins(p, r) /\ r.ep.op = "remove_member" /\ r.team \in Teams /\ r.user \in Users
              /\ Live(r.team) /\ Overlaps(p, {r.team}) /\ ~_is_last_admin(r.team, r.user)
  <1>1. PICK c \in Users, t \in Teams, u \in Users :
            /\ ~_is_last_admin(t, u) /\ Overlaps(p, {t})
            /\ Authorize(p, c, remove_member, t, [Idle EXCEPT !.user = u])
    BY DEF remove_member_check
  <1> DEFINE x == [Idle EXCEPT !.user = u]
             e == remove_member
  <1>2. x \in Request /\ x.user = u BY IdleTyped DEF Request
  <1>3. c \in Callers /\ t \in Teams /\ e \in Endpoints BY DEF Callers, Endpoints, OneOf
  <1>4. e.who = "user" /\ e.perm = "members:manage" /\ e.op = "remove_member" /\ e.perm \notin AUDITOR_TEAM_PERMISSIONS
    BY DEF remove_member, E, AUDITOR_TEAM_PERMISSIONS
  <1>a. Authorize(p, c, e, t, x) BY <1>1
  <1> HIDE DEF x, e
  <1>5. PICK r \in Request :
           /\ req' = [req EXCEPT ![p] = r]
           /\ r.at = "act" /\ r.by = c /\ r.ep = e /\ r.team = t
           /\ r.user = x.user /\ r.role = x.role /\ r.was = x.was /\ r.key = x.key /\ r.plan = x.plan
           /\ r.ground # "auditor"
           /\ Manages(c, t, managers) /\ Live(t)
    BY <1>a, <1>2, <1>3, <1>4, Authorized DEF ManagerPermissions
  <1>6. MayAct(r, managers, keys, teams)
    BY <1>1, <1>2, <1>3, <1>4, <1>5 DEF MayAct, Live, Usable
  <1>q. QED BY <1>1, <1>4, <1>2, <1>5, <1>6 DEF Begins, remove_member_check, Live

\* What a login plans for a team it governs.
LEMMA PlannedOK ==
    ASSUME AccessTypes, NEW t \in Teams, NEW u \in Users, NEW role \in Roles \cup {"none"},
           NEW x \in Planned(t, u, role)
    PROVE  /\ x \in Change /\ x.team = t /\ Live(t)
           /\ x.role # "admin" /\ x.do # "add" => ~_is_last_admin(t, u)
  <1> DEFINE row == members[t][u]
  <1>1. row.gen \in 0..MaxRejoin /\ 0 \in 0..MaxRejoin
    BY TeamAccessAssumption DEF AccessTypes, AccessTypeOK
  <1>2. Live(t) BY DEF Planned
  <1>3. CASE role = "none"
    <2>1. x = [do |-> "remove", team |-> t, role |-> "none", gen |-> row.gen] /\ ~_is_last_admin(t, u)
      BY <1>2, <1>3 DEF Planned
    <2>q. QED BY <1>1, <1>2, <2>1 DEF Change
  <1>4. CASE role # "none" /\ row.role = "none"
    <2>1. x = [do |-> "add", team |-> t, role |-> role, gen |-> 0]
      BY <1>2, <1>4 DEF Planned
    <2>q. QED BY <1>1, <1>2, <2>1 DEF Change
  <1>5. CASE role # "none" /\ row.role # "none"
    <2>1. /\ x = [do |-> "update", team |-> t, role |-> role, gen |-> row.gen]
          /\ role = "admin" \/ ~_is_last_admin(t, u)
      BY <1>2, <1>5 DEF Planned
    <2>q. QED BY <1>1, <1>2, <2>1 DEF Change
  <1>q. QED BY <1>3, <1>4, <1>5

LEMMA reconcile_sso_read_Begins ==
    ASSUME AccessTypes, NEW p \in Procs, reconcile_sso_read(p)
    PROVE  \E r \in Request :
              /\ Begins(p, r) /\ r.ep.op = "sso" /\ r.user \in Users
              /\ Overlaps(p, Governed)
              /\ \A x \in r.plan : /\ x.team \in Governed /\ Live(x.team)
                                   /\ x.role # "admin" /\ x.do # "add" => ~_is_last_admin(x.team, r.user)
  <1>1. PICK u \in Users, groups \in SUBSET {g.group : g \in TeamMapping},
             desired \in [Governed -> Roles \cup {"none"}] :
            req' = [req EXCEPT ![p] = [Idle EXCEPT !.at = "act", !.ep = SsoEndpoint, !.user = u,
                             !.plan = UNION {Planned(t, u, desired[t]) : t \in Governed}]]
    BY DEF reconcile_sso_read
  <1> DEFINE plan == UNION {Planned(t, u, desired[t]) : t \in Governed}
             r == [Idle EXCEPT !.at = "act", !.ep = SsoEndpoint, !.user = u, !.plan = plan]
  <1>2. ASSUME NEW x \in plan
        PROVE  /\ x \in Change /\ x.team \in Governed /\ Live(x.team)
               /\ x.role # "admin" /\ x.do # "add" => ~_is_last_admin(x.team, u)
    <2>1. PICK t \in Governed : x \in Planned(t, u, desired[t]) OBVIOUS
    <2>2. t \in Teams /\ desired[t] \in Roles \cup {"none"} BY GovernedTeams
    <2>q. QED BY <2>1, <2>2, PlannedOK
  <1> HIDE DEF plan
  <1>3. SsoEndpoint \in Endpoints BY DEF Endpoints
  <1>4. plan \in SUBSET Change BY <1>2
  <1>5. /\ r \in Request /\ r.at = "act" /\ r.ep = SsoEndpoint /\ r.user = u /\ r.plan = plan
        /\ r.ground = "none"
    BY <1>3, <1>4, IdleTyped DEF Request, Idle
  <1>6. req' = [req EXCEPT ![p] = r] BY <1>1 DEF plan
  <1> HIDE DEF r
  <1>7. SsoEndpoint.op = "sso" BY DEF SsoEndpoint, E
  <1>8. MayAct(r, managers, keys, teams) BY <1>2, <1>5, <1>7 DEF MayAct, Live
  <1>q. QED BY <1>2, <1>5, <1>6, <1>7, <1>8 DEF Begins, reconcile_sso_read

-----------------------------------------------------------------------------
(* The memberships a step writes.                                          *)

Table == [Teams -> [Users -> Membership]]

LEMMA JoinedTable ==
    ASSUME NEW m \in Table, NEW t \in Teams, NEW u \in Users, NEW role \in Roles,
           m[t][u].gen < MaxRejoin
    PROVE  /\ Joined(m, t, u, role) \in Table
           /\ \A a \in Teams, b \in Users :
                 Joined(m, t, u, role)[a][b] =
                    IF a = t /\ b = u THEN [role |-> role, gen |-> m[t][u].gen + 1] ELSE m[a][b]
  <1> DEFINE row == [role |-> role, gen |-> m[t][u].gen + 1]
  <1>1. row \in Membership BY TeamAccessAssumption DEF Table, Membership
  <1>2. Joined(m, t, u, role) = [m EXCEPT ![t] = [m[t] EXCEPT ![u] = row]]
    BY DEF Joined, Table
  <1> HIDE DEF row
  <1>3. [m[t] EXCEPT ![u] = row] \in [Users -> Membership] BY <1>1 DEF Table
  <1>4. [m EXCEPT ![t] = [m[t] EXCEPT ![u] = row]] \in Table BY <1>3 DEF Table
  <1>5. \A a \in Teams, b \in Users :
           [m EXCEPT ![t] = [m[t] EXCEPT ![u] = row]][a][b] = IF a = t /\ b = u THEN row ELSE m[a][b]
    BY DEF Table
  <1>q. QED BY <1>2, <1>4, <1>5 DEF row

LEMMA RoleTable ==
    ASSUME NEW m \in Table, NEW t \in Teams, NEW u \in Users, NEW role \in Roles \cup {"none"}
    PROVE  /\ [m EXCEPT ![t][u].role = role] \in Table
           /\ \A a \in Teams, b \in Users :
                 [m EXCEPT ![t][u].role = role][a][b] =
                    IF a = t /\ b = u THEN [m[t][u] EXCEPT !.role = role] ELSE m[a][b]
  <1> DEFINE row == [m[t][u] EXCEPT !.role = role]
  <1>1. row \in Membership BY DEF Table, Membership
  <1>2. [m EXCEPT ![t][u].role = role] = [m EXCEPT ![t] = [m[t] EXCEPT ![u] = row]]
    BY DEF Table
  <1> HIDE DEF row
  <1>3. [m[t] EXCEPT ![u] = row] \in [Users -> Membership] BY <1>1 DEF Table
  <1>4. [m EXCEPT ![t] = [m[t] EXCEPT ![u] = row]] \in Table BY <1>3 DEF Table
  <1>5. \A a \in Teams, b \in Users :
           [m EXCEPT ![t] = [m[t] EXCEPT ![u] = row]][a][b] = IF a = t /\ b = u THEN row ELSE m[a][b]
    BY DEF Table
  <1>q. QED BY <1>2, <1>4, <1>5 DEF row

LEMMA LeftTable ==
    ASSUME NEW m \in Table, NEW t \in Teams, NEW u \in Users
    PROVE  /\ Left(m, t, u) \in Table
           /\ \A a \in Teams, b \in Users :
                 Left(m, t, u)[a][b] =
                    IF a = t /\ b = u THEN [m[t][u] EXCEPT !.role = "none"] ELSE m[a][b]
  BY RoleTable DEF Left

\* Someone with the authority to make an admin of team t is behind request p.
Promoted(p, t) == req[p].ep.op \in {"sso", "signup"} \/ Manages(req[p].by, t, managers)

\* What process p may do to the memberships: people become admins on someone's
\* authority, and are no more only as p's request says, or with their team.
Written(p) ==
    /\ members' \in Table
    /\ \/ members' = members /\ managers' = managers
       \/ managers' = managers \cup {x \in Users \X Teams : members'[x[2]][x[1]].role = "admin"}
    /\ \A t \in Teams, u \in Users :
          /\ teams'[t].row = "absent" \/ users'[u].row = "absent" => members'[t][u] = NoMember
          /\ members'[t][u].role = "admin" /\ members[t][u].role # "admin" => Promoted(p, t)
          /\ members[t][u].role = "admin" /\ members'[t][u].role # "admin" =>
                teams'[t].row # "live" \/ (TakesAdmin(p, t) /\ u = req[p].user)

LEMMA TypedRows ==
    ASSUME AccessTypes
    PROVE  /\ members \in Table /\ req \in [Procs -> Request]
           /\ teams \in [Teams -> [row: {"absent", "live", "tombstoned", "gone", "purged"},
                                   org: Orgs \cup {NoOne}, billed: BOOLEAN]]
           /\ users \in [Users -> [row: {"absent", "live", "deleted"}, admin: BOOLEAN, auditor: BOOLEAN]]
  BY DEF AccessTypes, AccessTypeOK, Table, Membership

LEMMA NothingWritten ==
    ASSUME AccessTypes, StrangersOK, NEW p \in Procs, members' = members, managers' = managers,
           \A t \in Teams : teams'[t].row = "absent" => teams[t].row = "absent",
           \A u \in Users : users'[u].row = "absent" => users[u].row = "absent"
    PROVE  Written(p)
  BY TypedRows DEF Written, StrangersOK

\* Once a request is served, its fields are those it was authorized with.
LEMMA ActingFields ==
    ASSUME RequestsOK, NEW p \in Procs, req[p].at = "act"
    PROVE  /\ req[p].ep.op # "sso" => req[p].team \in Teams
           /\ req[p].ep.op = "create_team" =>
                 req[p].by \in Admins /\ req[p].user \in Users /\ req[p].key \in Orgs
           /\ req[p].ep.op \in {"add_member", "set_role"} =>
                 /\ Manages(req[p].by, req[p].team, managers)
                 /\ req[p].user \in Users /\ req[p].role \in Roles
           /\ req[p].ep.op = "remove_member" => req[p].user \in Users
           /\ req[p].ep.op = "signup" => req[p].key \in Invites
           /\ req[p].ep.op = "sso" =>
                 /\ req[p].user \in Users
                 /\ \A x \in req[p].plan : x.team \in Teams /\ x.team \in Governed
  BY GovernedTeams DEF RequestsOK, MayAct

LEMMA join_Writes ==
    ASSUME AccessTypes, RequestsOK, StrangersOK, NEW p \in Procs, join(p)
    PROVE  Written(p)
  <1> DEFINE t == req[p].team
             u == req[p].user
             role == req[p].role
             ok == members[t][u].role = "none" /\ Person(u) /\ teams[t].row \in {"live", "tombstoned"}
  <1>1. /\ Acting(p, "add_member") /\ UNCHANGED <<teams, users>>
        /\ IF ok THEN CanJoin(t, u) /\ SetMembers(Joined(members, t, u, role))
                 ELSE UNCHANGED <<members, managers>>
    BY DEF join
  <1>2. t \in Teams /\ u \in Users /\ role \in Roles /\ Manages(req[p].by, t, managers)
    BY <1>1, ActingFields DEF Acting
  <1>3. CASE ok
    <2>1. members[t][u].gen < MaxRejoin /\ members[t][u].role = "none"
          /\ members' = Joined(members, t, u, role)
          /\ managers' = managers \cup {x \in Users \X Teams : members'[x[2]][x[1]].role = "admin"}
      BY <1>1, <1>3 DEF CanJoin, SetMembers
    <2>2. /\ members' \in Table
          /\ \A a \in Teams, b \in Users :
                members'[a][b] = IF a = t /\ b = u THEN [role |-> role, gen |-> members[t][u].gen + 1]
                                                   ELSE members[a][b]
      BY <1>2, <2>1, TypedRows, JoinedTable
    <2>3. teams[t].row # "absent" /\ users[u].row # "absent" BY <1>3 DEF Person
    <2> HIDE DEF t, u, role, ok
    <2>4. \A a \in Teams, b \in Users :
            teams'[a].row = "absent" \/ users'[b].row = "absent" => members'[a][b] = NoMember
      BY <1>1, <2>2, <2>3 DEF StrangersOK
    <2>5. \A a \in Teams, b \in Users :
            members'[a][b].role = "admin" /\ members[a][b].role # "admin" => Promoted(p, a)
      BY <1>2, <2>2 DEF Promoted
    <2>6. \A a \in Teams, b \in Users :
            members[a][b].role = "admin" => members'[a][b].role = "admin"
      BY <2>1, <2>2
    <2>q. QED BY <2>1, <2>2, <2>4, <2>5, <2>6 DEF Written
  <1>4. CASE ~ok
    BY <1>1, <1>4, NothingWritten
  <1>q. QED BY <1>3, <1>4

LEMMA update_role_Writes ==
    ASSUME AccessTypes, RequestsOK, StrangersOK, NEW p \in Procs, update_role(p)
    PROVE  Written(p)
  <1> DEFINE t == req[p].team
             u == req[p].user
             role == req[p].role
             same == role = req[p].was.role
             ok == members[t][u].role # "none" /\ members[t][u].gen = req[p].was.gen
  <1>1. /\ Acting(p, "set_role") /\ UNCHANGED <<teams, users>>
        /\ IF ok THEN SetMembers(IF same THEN members ELSE [members EXCEPT ![t][u].role = role])
                 ELSE UNCHANGED <<members, managers>>
    BY DEF update_role
  <1>2. t \in Teams /\ u \in Users /\ role \in Roles /\ Manages(req[p].by, t, managers)
    BY <1>1, ActingFields DEF Acting
  <1>3. CASE ok
    <2>1. /\ members[t][u].role # "none"
          /\ members' = IF same THEN members ELSE [members EXCEPT ![t][u].role = role]
          /\ managers' = managers \cup {x \in Users \X Teams : members'[x[2]][x[1]].role = "admin"}
      BY <1>1, <1>3 DEF SetMembers
    <2>2. /\ members' \in Table
          /\ \A a \in Teams, b \in Users :
                members'[a][b] = IF ~same /\ a = t /\ b = u THEN [members[t][u] EXCEPT !.role = role]
                                                            ELSE members[a][b]
      <3>1. members \in Table BY TypedRows
      <3> HIDE DEF t, u, role, same
      <3>2. CASE same BY <2>1, <3>1, <3>2
      <3>3. CASE ~same
        <4> DEFINE new == [members EXCEPT ![t][u].role = role]
        <4>1. role \in Roles \cup {"none"} BY <1>2
        <4>2. /\ new \in Table
              /\ \A a \in Teams, b \in Users :
                    new[a][b] = IF a = t /\ b = u THEN [members[t][u] EXCEPT !.role = role]
                                                  ELSE members[a][b]
          BY <1>2, <3>1, <4>1, RoleTable
        <4>3. members' = new BY <2>1, <3>3
        <4> HIDE DEF new
        <4>q. QED BY <3>3, <4>2, <4>3
      <3>q. QED BY <3>2, <3>3
    <2>3. [members[t][u] EXCEPT !.role = role].role = role
      BY <1>2, TypedRows DEF Table, Membership
    <2>4. members[t][u] # NoMember BY <2>1 DEF NoMember
    <2>5. role # "admin" => TakesAdmin(p, t) BY <1>1 DEF TakesAdmin, TakesBy, Acting
    <2> HIDE DEF t, u, role, same, ok
    <2>6. \A a \in Teams, b \in Users :
            teams'[a].row = "absent" \/ users'[b].row = "absent" => members'[a][b] = NoMember
      BY <1>1, <1>2, <2>2, <2>4 DEF StrangersOK
    <2>7. \A a \in Teams, b \in Users :
            members'[a][b].role = "admin" /\ members[a][b].role # "admin" => Promoted(p, a)
      BY <1>2, <2>2 DEF Promoted
    <2>8. \A a \in Teams, b \in Users :
            members[a][b].role = "admin" /\ members'[a][b].role # "admin" => TakesAdmin(p, a) /\ b = u
      BY <2>2, <2>3, <2>5
    <2>9. u = req[p].user BY DEF u
    <2>q. QED BY <2>1, <2>2, <2>6, <2>7, <2>8, <2>9 DEF Written
  <1>4. CASE ~ok
    BY <1>1, <1>4, NothingWritten
  <1>q. QED BY <1>3, <1>4

LEMMA leave_Writes ==
    ASSUME AccessTypes, RequestsOK, StrangersOK, NEW p \in Procs, leave(p)
    PROVE  Written(p)
  <1> DEFINE t == req[p].team
             u == req[p].user
  <1>1. /\ Acting(p, "remove_member") /\ UNCHANGED <<teams, users>>
        /\ members' = Left(members, t, u)
        /\ managers' = managers \cup {x \in Users \X Teams : members'[x[2]][x[1]].role = "admin"}
    BY DEF leave, SetMembers
  <1>2. t \in Teams /\ u \in Users BY <1>1, ActingFields DEF Acting
  <1>3. /\ members' \in Table
        /\ \A a \in Teams, b \in Users :
              members'[a][b] = IF a = t /\ b = u THEN [members[t][u] EXCEPT !.role = "none"]
                                                 ELSE members[a][b]
    BY <1>1, <1>2, TypedRows, LeftTable
  <1>4. /\ [members[t][u] EXCEPT !.role = "none"].role = "none"
        /\ members[t][u] = NoMember => [members[t][u] EXCEPT !.role = "none"] = NoMember
    BY <1>2, TypedRows DEF Table, Membership, NoMember
  <1>5. TakesAdmin(p, t) BY <1>1 DEF TakesAdmin, TakesBy, Acting
  <1>6. u = req[p].user OBVIOUS
  <1> HIDE DEF t, u
  <1>7. \A a \in Teams, b \in Users :
          teams'[a].row = "absent" \/ users'[b].row = "absent" => members'[a][b] = NoMember
    BY <1>1, <1>3, <1>4 DEF StrangersOK
  <1>8. \A a \in Teams, b \in Users : members'[a][b].role = "admin" => members[a][b].role = "admin"
    BY <1>3, <1>4
  <1>9. \A a \in Teams, b \in Users :
          members[a][b].role = "admin" /\ members'[a][b].role # "admin" => TakesAdmin(p, a) /\ b = u
    BY <1>3, <1>5
  <1>q. QED BY <1>1, <1>3, <1>6, <1>7, <1>8, <1>9 DEF Written

LEMMA add_team_Writes ==
    ASSUME AccessTypes, RequestsOK, StrangersOK, NEW p \in Procs, add_team(p)
    PROVE  /\ Written(p)
           /\ teams' # teams => \E b \in Users : members'[req[p].team][b].role = "admin"
  <1> DEFINE t == req[p].team
             c == req[p].by
             u == req[p].user
             ok == /\ orgs[req[p].key] = "live" /\ Person(c) /\ Person(u)
                   /\ teams[t].row = "absent"
             one == Joined(members, t, c, "admin")
             two == IF u = c THEN one ELSE Joined(one, t, u, "admin")
  <1>1. /\ Acting(p, "create_team") /\ UNCHANGED users
        /\ IF ok THEN /\ teams' = [teams EXCEPT ![t] = [row |-> "live", org |-> req[p].key, billed |-> FALSE]]
                      /\ SetMembers(two)
                 ELSE UNCHANGED <<teams, members, managers>>
    BY DEF add_team
  <1>2. t \in Teams /\ u \in Users /\ c \in Users /\ Manages(c, t, managers)
    BY <1>1, ActingFields, TeamAccessAssumption DEF Acting, Manages
  <1>3. CASE ok
    <2>1. "admin" \in Roles /\ 0 < MaxRejoin BY TeamAccessAssumption DEF Roles
    <2>2. \A b \in Users : members[t][b] = NoMember BY <1>2, <1>3 DEF StrangersOK
    <2>3. members[t][c].gen = 0 /\ members[t][u].gen = 0 BY <1>2, <2>2 DEF NoMember
    <2>4. /\ one \in Table
          /\ \A a \in Teams, b \in Users :
                one[a][b] = IF a = t /\ b = c THEN [role |-> "admin", gen |-> 0 + 1] ELSE members[a][b]
      BY <1>2, <2>1, <2>3, TypedRows, JoinedTable
    <2>5. /\ two \in Table
          /\ \A a \in Teams, b \in Users :
                two[a][b] = IF a = t /\ b \in {c, u} THEN [role |-> "admin", gen |-> 0 + 1] ELSE members[a][b]
      <3> HIDE DEF one, t, c, u, ok
      <3>1. CASE u = c BY <2>4, <3>1
      <3>2. CASE u # c
        <4>1. one[t][u].gen = 0 BY <1>2, <2>3, <2>4, <3>2
        <4>2. /\ Joined(one, t, u, "admin") \in Table
              /\ \A a \in Teams, b \in Users :
                    Joined(one, t, u, "admin")[a][b] =
                        IF a = t /\ b = u THEN [role |-> "admin", gen |-> 0 + 1] ELSE one[a][b]
          BY <1>2, <2>1, <2>4, <4>1, JoinedTable
        <4>q. QED BY <2>4, <3>2, <4>2
      <3>q. QED BY <3>1, <3>2
    <2>6. /\ members' = two
          /\ managers' = managers \cup {x \in Users \X Teams : members'[x[2]][x[1]].role = "admin"}
      BY <1>1, <1>3 DEF SetMembers
    <2>7. /\ \A a \in Teams \ {t} : teams'[a] = teams[a]
          /\ teams'[t].row = "live" /\ users' = users
          /\ users[u].row # "absent" /\ users[c].row # "absent"
      BY <1>1, <1>2, <1>3, TypedRows DEF Person
    <2> HIDE DEF t, c, u, ok, one, two
    <2>8. \A a \in Teams, b \in Users :
            teams'[a].row = "absent" \/ users'[b].row = "absent" => members'[a][b] = NoMember
      BY <1>2, <2>5, <2>6, <2>7 DEF StrangersOK
    <2>9. \A a \in Teams, b \in Users :
            members'[a][b].role = "admin" /\ members[a][b].role # "admin" => Promoted(p, a)
      <3>1. Manages(req[p].by, t, managers) BY <1>2 DEF c
      <3>q. QED BY <3>1, <2>5, <2>6 DEF Promoted
    <2>10. \A a \in Teams, b \in Users : members[a][b].role = "admin" => members'[a][b].role = "admin"
      BY <2>5, <2>6
    <2>11. members'[t][c].role = "admin" BY <1>2, <2>5, <2>6
    <2>12. \E b \in Users : members'[req[p].team][b].role = "admin" BY <1>2, <2>11 DEF t
    <2>q. QED BY <2>5, <2>6, <2>8, <2>9, <2>10, <2>12 DEF Written
  <1>4. CASE ~ok
    BY <1>1, <1>4, NothingWritten
  <1>q. QED BY <1>3, <1>4

LEMMA register_Writes ==
    ASSUME AccessTypes, RequestsOK, StrangersOK, InvitesOK, NEW p \in Procs, register(p)
    PROVE  Written(p)
  <1> DEFINE i == req[p].key
             t == req[p].team
  <1>1. Acting(p, "signup") /\ UNCHANGED teams BY DEF register
  <1>2. t \in Teams /\ i \in Invites BY <1>1, ActingFields DEF Acting
  <1>3. CASE UNCHANGED <<users, members, managers>>
    BY <1>1, <1>3, NothingWritten
  <1>4. ASSUME NEW u \in Users, users[u].row = "absent", Live(t), invites[i].state = "open",
               users' = [users EXCEPT ![u].row = "live"],
               SetMembers(Joined(members, t, u, invites[i].role))
        PROVE  Written(p)
    <2> DEFINE role == invites[i].role
    <2>1. role \in Roles BY <1>2, <1>4 DEF InvitesOK
    <2>2. members[t][u] = NoMember /\ 0 < MaxRejoin
      BY <1>2, <1>4, TeamAccessAssumption DEF StrangersOK
    <2>3. members[t][u].gen < MaxRejoin /\ members[t][u].role = "none" BY <2>2 DEF NoMember
    <2> DEFINE new == Joined(members, t, u, role)
    <2>4. /\ new \in Table
          /\ \A a \in Teams, b \in Users :
                new[a][b] = IF a = t /\ b = u THEN [role |-> role, gen |-> members[t][u].gen + 1]
                                              ELSE members[a][b]
      BY <1>2, <2>1, <2>3, TypedRows, JoinedTable
    <2>5. /\ members' = new
          /\ managers' = managers \cup {x \in Users \X Teams : members'[x[2]][x[1]].role = "admin"}
      BY <1>4 DEF SetMembers
    <2>6. /\ \A b \in Users \ {u} : users'[b] = users[b]
          /\ users'[u].row = "live"
      BY <1>4, TypedRows
    <2>7. teams' = teams /\ teams[t].row = "live" /\ req[p].ep.op = "signup"
      BY <1>1, <1>4 DEF Live, Acting
    <2> HIDE DEF new, role, t, i
    <2>8. \A a \in Teams, b \in Users :
            teams'[a].row = "absent" \/ users'[b].row = "absent" => members'[a][b] = NoMember
      BY <2>4, <2>5, <2>6, <2>7 DEF StrangersOK
    <2>9. \A a \in Teams : Promoted(p, a) BY <2>7 DEF Promoted
    <2>10. \A a \in Teams, b \in Users : members[a][b].role = "admin" => members'[a][b].role = "admin"
      BY <2>3, <2>4, <2>5
    <2>q. QED BY <2>4, <2>5, <2>8, <2>9, <2>10 DEF Written
  <1>5. \/ UNCHANGED <<users, members, managers>>
        \/ \E u \in Users : /\ users[u].row = "absent" /\ Live(t) /\ invites[i].state = "open"
                            /\ users' = [users EXCEPT ![u].row = "live"]
                            /\ SetMembers(Joined(members, t, u, invites[i].role))
    BY DEF register, lock_for_lifecycle, mark_used, OneOf
  <1>q. QED BY <1>3, <1>4, <1>5

\* The rows of a team that is gone.
LEMMA ErasedWrites ==
    ASSUME AccessTypes, StrangersOK, NEW p \in Procs, NEW t \in Teams, Erased(t),
           users' = users, teams'[t].row \in TeamGone, \A a \in Teams \ {t} : teams'[a] = teams[a]
    PROVE  Written(p)
  <1> DEFINE new == [members EXCEPT ![t] = [u \in Users |-> [role |-> "none", gen |-> members[t][u].gen]]]
  <1>1. /\ members' = new
        /\ managers' = managers \cup {x \in Users \X Teams : members'[x[2]][x[1]].role = "admin"}
    BY DEF Erased, SetMembers
  <1>2. \A u \in Users : [role |-> "none", gen |-> members[t][u].gen] \in Membership
    BY TypedRows DEF Table, Membership
  <1>3. [u \in Users |-> [role |-> "none", gen |-> members[t][u].gen]] \in [Users -> Membership]
    BY <1>2
  <1>4. new \in Table BY <1>3, TypedRows DEF Table
  <1>5. \A a \in Teams, b \in Users :
           new[a][b] = IF a = t THEN [role |-> "none", gen |-> members[t][b].gen] ELSE members[a][b]
    BY TypedRows DEF Table
  <1>9. members' = new BY <1>1
  <1> HIDE DEF new
  <1>6. \A a \in Teams, b \in Users :
          teams'[a].row = "absent" \/ users'[b].row = "absent" => members'[a][b] = NoMember
    <2> SUFFICES ASSUME NEW a \in Teams, NEW b \in Users,
                        teams'[a].row = "absent" \/ users'[b].row = "absent"
                 PROVE  members'[a][b] = NoMember
      OBVIOUS
    <2>1. members[a][b] = NoMember /\ (a = t => users[b].row = "absent")
      BY DEF StrangersOK, TeamGone
    <2>2. members[a][b].gen = 0 BY <2>1 DEF NoMember
    <2>q. QED BY <1>5, <1>9, <2>1, <2>2 DEF NoMember
  <1>7. \A a \in Teams, b \in Users : members'[a][b].role = "admin" => members[a][b].role = "admin"
    <2> SUFFICES ASSUME NEW a \in Teams, NEW b \in Users, new[a][b].role = "admin"
                 PROVE  members[a][b].role = "admin"
      BY <1>9
    <2>1. CASE a = t
      <3>1. new[a][b] = [role |-> "none", gen |-> members[t][b].gen] BY <1>5, <2>1
      <3>2. new[a][b].role = "none" BY <3>1
      <3>q. QED BY <3>2
    <2>2. CASE a # t BY <1>5, <2>2
    <2>q. QED BY <2>1, <2>2
  <1>8. \A a \in Teams, b \in Users :
          members[a][b].role = "admin" /\ members'[a][b].role # "admin" => teams'[a].row # "live"
    BY <1>5, <1>9 DEF TeamGone
  <1>q. QED BY <1>1, <1>4, <1>6, <1>7, <1>8 DEF Written

LEMMA delete_team_commit_Writes ==
    ASSUME AccessTypes, RequestsOK, StrangersOK, NEW p \in Procs, delete_team_commit(p)
    PROVE  Written(p)
  <1> DEFINE t == req[p].team
  <1>1. /\ Acting(p, "delete_team") /\ users' = users
        /\ \/ /\ teams[t].billed /\ teams' = [teams EXCEPT ![t].row = "tombstoned"]
              /\ UNCHANGED <<members, managers>>
           \/ teams' = [teams EXCEPT ![t].row = "gone"] /\ Erased(t)
           \/ UNCHANGED <<teams, members, managers>>
    BY DEF delete_team_commit
  <1>2. t \in Teams BY <1>1, ActingFields DEF Acting
  <1>3. CASE UNCHANGED <<teams, members, managers>> BY <1>1, <1>3, NothingWritten
  <1>4. CASE teams' = [teams EXCEPT ![t].row = "tombstoned"] /\ UNCHANGED <<members, managers>>
    <2>1. \A a \in Teams : teams'[a].row = "absent" => teams[a].row = "absent"
      BY <1>2, <1>4, TypedRows
    <2>q. QED BY <1>1, <1>4, <2>1, NothingWritten
  <1>5. CASE teams' = [teams EXCEPT ![t].row = "gone"] /\ Erased(t)
    <2>1. teams'[t].row \in TeamGone /\ \A a \in Teams \ {t} : teams'[a] = teams[a]
      BY <1>2, <1>5, TypedRows DEF TeamGone
    <2> HIDE DEF t
    <2>q. QED BY <1>1, <1>2, <1>5, <2>1, ErasedWrites
  <1>q. QED BY <1>1, <1>3, <1>4, <1>5

LEMMA purge_Writes ==
    ASSUME AccessTypes, RequestsOK, StrangersOK, NEW p \in Procs, purge(p)
    PROVE  Written(p)
  <1> DEFINE t == req[p].team
  <1>1. /\ Acting(p, "purge_team") /\ users' = users
        /\ \/ teams' = [teams EXCEPT ![t].row = "purged"] /\ Erased(t)
           \/ UNCHANGED <<teams, members, managers>>
    BY DEF purge
  <1>2. t \in Teams BY <1>1, ActingFields DEF Acting
  <1>3. CASE UNCHANGED <<teams, members, managers>> BY <1>1, <1>3, NothingWritten
  <1>4. CASE teams' = [teams EXCEPT ![t].row = "purged"] /\ Erased(t)
    <2>1. teams'[t].row \in TeamGone /\ \A a \in Teams \ {t} : teams'[a] = teams[a]
      BY <1>2, <1>4, TypedRows DEF TeamGone
    <2> HIDE DEF t
    <2>q. QED BY <1>1, <1>2, <1>4, <2>1, ErasedWrites
  <1>q. QED BY <1>1, <1>3, <1>4

\* A login writes, for its user alone, what it planned for each team.
LEMMA reconcile_sso_Writes ==
    ASSUME AccessTypes, RequestsOK, StrangersOK, NEW p \in Procs, reconcile_sso_memberships(p)
    PROVE  Written(p)
  <1> DEFINE r == req[p]
             fits(x) ==
                CASE x.do = "remove" -> TRUE
                  [] x.do = "update" -> members[x.team][r.user].role # "none" /\ members[x.team][r.user].gen = x.gen
                  [] x.do = "add"    -> CanJoin(x.team, r.user) /\ teams[x.team].row \in {"live", "tombstoned"}
             new(t, u) ==
                IF u = r.user /\ \E x \in r.plan : x.team = t
                THEN LET x == CHOOSE y \in r.plan : y.team = t
                     IN [role |-> x.role, gen |-> IF x.do = "add" THEN members[t][u].gen + 1 ELSE members[t][u].gen]
                ELSE members[t][u]
             ok == Person(r.user) /\ \A x \in r.plan : fits(x)
  <1>1. /\ Acting(p, "sso") /\ UNCHANGED <<teams, users>>
        /\ IF ok THEN SetMembers([t \in Teams |-> [u \in Users |-> new(t, u)]])
                 ELSE UNCHANGED <<members, managers>>
    BY DEF reconcile_sso_memberships
  <1>2. CASE ~ok BY <1>1, <1>2, NothingWritten
  <1>3. CASE ok
    <2>1. /\ members' = [t \in Teams |-> [u \in Users |-> new(t, u)]]
          /\ managers' = managers \cup {x \in Users \X Teams : members'[x[2]][x[1]].role = "admin"}
      BY <1>1, <1>3 DEF SetMembers
    <2>2. r.user \in Users /\ users[r.user].row # "absent" /\ r.ep.op = "sso" /\ r.at = "act"
      BY <1>1, <1>3, ActingFields DEF Acting, Person
    <2>3. r.plan \subseteq Change BY TypedRows DEF Request
    <2>4. ASSUME NEW t \in Teams, NEW u \in Users
          PROVE  \/ new(t, u) = members[t][u]
                 \/ /\ u = r.user
                    /\ \E x \in r.plan :
                          /\ x.team = t /\ x.role \in Roles \cup {"none"}
                          /\ x.do = "add" => members[t][u].role = "none"
                          /\ \/ new(t, u) = [role |-> x.role, gen |-> members[t][u].gen]
                             \/ /\ x.do = "add" /\ members[t][u].gen < MaxRejoin
                                /\ new(t, u) = [role |-> x.role, gen |-> members[t][u].gen + 1]
      <3>1. CASE ~(u = r.user /\ \E x \in r.plan : x.team = t) BY <3>1
      <3>2. CASE u = r.user /\ \E x \in r.plan : x.team = t
        <4> DEFINE x == CHOOSE y \in r.plan : y.team = t
        <4>1. x \in r.plan /\ x.team = t BY <3>2
        <4>2. new(t, u) = [role |-> x.role, gen |-> IF x.do = "add" THEN members[t][u].gen + 1
                                                                     ELSE members[t][u].gen]
          BY <3>2
        <4> HIDE DEF x, new
        <4>3. x \in Change BY <2>3, <4>1
        <4>4. x.do \in {"add", "update", "remove"} /\ x.role \in Roles \cup {"none"} BY <4>3 DEF Change
        <4>5. fits(x) BY <1>3, <4>1
        <4>6. x.do = "add" => members[t][u].role = "none" /\ members[t][u].gen < MaxRejoin
          BY <3>2, <4>1, <4>5 DEF CanJoin
        <4>q. QED BY <3>2, <4>1, <4>2, <4>4, <4>6
      <3>q. QED BY <3>1, <3>2
    <2>5. \A t \in Teams, u \in Users : members'[t][u] = new(t, u) BY <2>1
    <2> HIDE DEF new, fits, ok
    <2>6. ASSUME NEW t \in Teams, NEW u \in Users
          PROVE  members'[t][u] \in Membership
      <3>1. members[t][u] \in Membership BY TypedRows DEF Table
      <3>2. /\ members[t][u].gen \in 0..MaxRejoin
            /\ members[t][u].gen < MaxRejoin => members[t][u].gen + 1 \in 0..MaxRejoin
        BY <3>1, TeamAccessAssumption DEF Membership
      <3>3. \A role \in Roles \cup {"none"}, gen \in 0..MaxRejoin : [role |-> role, gen |-> gen] \in Membership
        BY DEF Membership
      <3>q. QED BY <2>4, <2>5, <3>1, <3>2, <3>3
    <2>7. members' \in Table
      <3>1. members' = [t \in Teams |-> [u \in Users |-> members'[t][u]]] BY <2>1, <2>5
      <3>2. \A t \in Teams : [u \in Users |-> members'[t][u]] \in [Users -> Membership] BY <2>6
      <3>q. QED BY <3>1, <3>2 DEF Table
    <2>8. ASSUME NEW t \in Teams, NEW u \in Users,
                 teams'[t].row = "absent" \/ users'[u].row = "absent"
          PROVE  members'[t][u] = NoMember
      <3>1. members[t][u] = NoMember BY <1>1, <2>8 DEF StrangersOK
      <3>2. \A x \in r.plan : teams[x.team].row # "absent" BY <2>2 DEF RequestsOK, MayAct
      <3>q. QED BY <1>1, <2>2, <2>4, <2>5, <2>8, <3>1, <3>2
    <2>9. \A t \in Teams : Promoted(p, t) BY <2>2 DEF Promoted
    <2>10. ASSUME NEW t \in Teams, NEW u \in Users,
                  members[t][u].role = "admin", members'[t][u].role # "admin"
           PROVE  TakesAdmin(p, t) /\ u = r.user
      <3>1. PICK x \in r.plan :
                /\ u = r.user /\ x.team = t /\ x.do # "add"
                /\ new(t, u) = [role |-> x.role, gen |-> members[t][u].gen]
        BY <2>4, <2>5, <2>10
      <3>2. x.role # "admin" BY <2>5, <2>10, <3>1
      <3>q. QED BY <2>2, <3>1, <3>2 DEF TakesAdmin, TakesBy
    <2>q. QED BY <2>1, <2>7, <2>8, <2>9, <2>10 DEF Written
  <1>q. QED BY <1>2, <1>3

\* The steps that write memberships.
RoleChanges(p) ==
    \/ add_team(p) \/ join(p) \/ update_role(p) \/ leave(p) \/ reconcile_sso_memberships(p)
    \/ register(p) \/ delete_team_commit(p) \/ purge(p)

LEMMA RoleChangesWrite ==
    ASSUME AccessTypes, RequestsOK, StrangersOK, InvitesOK, NEW p \in Procs, RoleChanges(p)
    PROVE  Written(p)
  BY add_team_Writes, join_Writes, update_role_Writes, leave_Writes, reconcile_sso_Writes,
     register_Writes, delete_team_commit_Writes, purge_Writes DEF RoleChanges

-----------------------------------------------------------------------------
(* The keys a step writes.                                                 *)

KeyRow == [row: {"absent", "active", "grace", "revoked"}, team: Teams \cup {NoOne},
           sp: SPs \cup {NoOne}, mgmt: BOOLEAN, by: Users \cup {NoOne}, rotated: BOOLEAN]

\* What a step may do to the keys: an issued key keeps its team and its scope,
\* a key that can manage goes to people who managed, a rotation is logged.
KeysWritten ==
    /\ keys' \in [Keys -> KeyRow] /\ holders' \subseteq Users \X Keys /\ late' \subseteq Keys
    /\ late \subseteq late' /\ log \subseteq log'
    /\ \A k \in Keys : keys[k].row # "absent" =>
          /\ keys'[k].row # "absent" /\ keys'[k].mgmt = keys[k].mgmt /\ keys'[k].team = keys[k].team
          /\ keys'[k].sp \in {keys[k].sp, NoOne}
    /\ \A k \in Keys : keys[k].row = "absent" =>
          \/ keys'[k] = keys[k]
          \/ keys'[k].row # "absent" /\ (k \in late' \/ (Live(keys'[k].team) /\ lifecycle[keys'[k].team] = NoOne))
    /\ \A h \in holders' : h \in holders \/ (/\ keys'[h[2]].row # "absent"
                                             /\ keys'[h[2]].mgmt => Manages(h[1], keys'[h[2]].team, managers))
    /\ \A k \in Keys : keys'[k].rotated =>
          keys[k].rotated \/ \E e \in log' : e.op = "rotate" /\ e.key = k

LEMMA TypedKeys ==
    ASSUME AccessTypes
    PROVE  /\ keys \in [Keys -> KeyRow] /\ holders \subseteq Users \X Keys /\ late \subseteq Keys
           /\ sps \in [SPs -> [state: {"absent", "enabled", "disabled", "deleted"}, team: Teams \cup {NoOne}]]
           /\ req \in [Procs -> Request]
  BY DEF AccessTypes, AccessTypeOK, KeyRow

\* A row is edited without changing what was granted with it.
LEMMA KeysEdited ==
    ASSUME AccessTypes, UNCHANGED <<holders, late>>, log \subseteq log', keys' \in [Keys -> KeyRow],
           \A k \in Keys :
              /\ keys[k].row # "absent" =>
                    /\ keys'[k].row # "absent" /\ keys'[k].mgmt = keys[k].mgmt
                    /\ keys'[k].team = keys[k].team /\ keys'[k].sp \in {keys[k].sp, NoOne}
              /\ keys[k].row = "absent" => keys'[k] = keys[k]
              /\ keys'[k].rotated => keys[k].rotated
    PROVE  KeysWritten
  BY TypedKeys DEF KeysWritten

\* A key is inserted.
LEMMA KeyInserted ==
    ASSUME AccessTypes, NEW k \in Keys, keys[k].row = "absent", NEW new \in KeyRow,
           NEW u \in Users, new.row = "active", ~new.rotated,
           new.mgmt => Manages(u, new.team, managers),
           late' = Belated(k, new.team), holders' = holders \cup {<<u, k>>}, log \subseteq log',
           keys' \in [Keys -> KeyRow], keys'[k] = new,
           \A j \in Keys \ {k} :
              /\ keys[j].row # "absent" =>
                    /\ keys'[j].row # "absent" /\ keys'[j].mgmt = keys[j].mgmt
                    /\ keys'[j].team = keys[j].team /\ keys'[j].sp \in {keys[j].sp, NoOne}
              /\ keys[j].row = "absent" => keys'[j] = keys[j]
              /\ keys'[j].rotated => keys[j].rotated \/ \E e \in log' : e.op = "rotate" /\ e.key = j
    PROVE  KeysWritten
  <1>1. late' \subseteq Keys /\ late \subseteq late'
        /\ (k \in late' \/ (Live(new.team) /\ lifecycle[new.team] = NoOne))
    BY TypedKeys DEF Belated
  <1>2. holders' \subseteq Users \X Keys BY TypedKeys
  <1>3. \A h \in holders' : h \in holders \/ (h[1] = u /\ h[2] = k) OBVIOUS
  <1>4. \A h \in holders' : h \in holders \/ (/\ keys'[h[2]].row # "absent"
                                              /\ keys'[h[2]].mgmt => Manages(h[1], keys'[h[2]].team, managers))
    BY <1>3
  <1>q. QED BY <1>1, <1>2, <1>4 DEF KeysWritten

LEMMA issue_Writes ==
    ASSUME AccessTypes, RequestsOK, NEW p \in Procs, issue(p)
    PROVE  KeysWritten
  <1> DEFINE r == req[p]
  <1>1. CASE UNCHANGED <<keys, holders, late>>
    <2>1. log' = log BY DEF issue
    <2>2. keys' \in [Keys -> KeyRow] BY <1>1, TypedKeys
    <2>3. UNCHANGED <<holders, late>> BY <1>1
    <2>q. QED BY <1>1, <2>1, <2>2, <2>3, KeysEdited
  <1>2. ASSUME NEW k \in Keys, keys[k].row = "absent", NEW s \in SPs \cup {NoOne}, NEW mgmt \in BOOLEAN,
               r.by \in Users, r.at = "act", r.ep.op # "sso", mgmt => r.ep.op = "sp_issue",
               Insert(k, r.team, r.by, s, mgmt), log' = log
        PROVE  KeysWritten
    <2> DEFINE new == [row |-> "active", team |-> r.team, sp |-> s, mgmt |-> mgmt, by |-> r.by, rotated |-> FALSE]
    <2>1. r.team \in Teams /\ (mgmt => Manages(r.by, r.team, managers))
      BY <1>2 DEF RequestsOK, MayAct
    <2>2. new \in KeyRow /\ new.row = "active" /\ ~new.rotated /\ new.mgmt = mgmt /\ new.team = r.team
      BY <1>2, <2>1 DEF KeyRow
    <2>3. /\ keys' = [keys EXCEPT ![k] = new]
          /\ late' = Belated(k, r.team) /\ holders' = holders \cup {<<r.by, k>>}
      BY <1>2 DEF Insert
    <2> HIDE DEF new
    <2>4. /\ keys' \in [Keys -> KeyRow] /\ keys'[k] = new
          /\ \A j \in Keys \ {k} : keys'[j] = keys[j]
      BY <2>2, <2>3, TypedKeys
    <2>5. late' = Belated(k, new.team) BY <2>2, <2>3
    <2>6. new.mgmt => Manages(r.by, new.team, managers) BY <2>1, <2>2
    <2>7. holders' = holders \cup {<<r.by, k>>} BY <2>3
    <2>8. log \subseteq log' BY <1>2
    <2> HIDE DEF r
    <2>q. QED BY <1>2, <2>2, <2>4, <2>5, <2>6, <2>7, <2>8, KeyInserted
  <1>3. \/ UNCHANGED <<keys, holders, late>>
        \/ \E k \in Keys, s \in SPs \cup {NoOne}, mgmt \in BOOLEAN :
              /\ keys[k].row = "absent" /\ r.by \in Users
              /\ mgmt => r.ep.op = "sp_issue"
              /\ Insert(k, r.team, r.by, s, mgmt)
    BY DEF issue, OneOf, Person
  <1>4. r.at = "act" /\ r.ep.op # "sso" /\ log' = log BY DEF issue, Acting
  <1> HIDE DEF r
  <1>q. QED BY <1>1, <1>2, <1>3, <1>4

LEMMA rotate_Writes ==
    ASSUME AccessTypes, RequestsOK, NEW p \in Procs, rotate(p)
    PROVE  KeysWritten
  <1> DEFINE r == req[p]
             old == keys[r.key]
  <1>1. CASE UNCHANGED <<keys, holders, late, log>>
    <2>1. keys' \in [Keys -> KeyRow] BY <1>1, TypedKeys
    <2>2. UNCHANGED <<holders, late>> /\ log \subseteq log' BY <1>1
    <2>q. QED BY <1>1, <2>1, <2>2, KeysEdited
  <1>2. /\ r.key \in Keys /\ old.row # "absent" /\ r.by \in Users /\ old.team = r.team /\ r.team \in Teams
        /\ old.sp # NoOne => Manages(r.by, r.team, managers)
        /\ r.ep.op = "rotate"
    BY DEF rotate, Acting, RequestsOK, MayAct
  <1>3. ASSUME NEW k \in Keys, keys[k].row = "absent", old.row = "active", old.sp = NoOne => ~old.mgmt,
               keys' = [keys EXCEPT ![k] = [old EXCEPT !.rotated = FALSE],
                                    ![r.key].row = "grace", ![r.key].rotated = TRUE],
               holders' = holders \cup {<<r.by, k>>}, late' = Belated(k, r.team),
               log' = log \cup {Entry(r)}
        PROVE  KeysWritten
    <2> DEFINE new == [old EXCEPT !.rotated = FALSE]
               was == [old EXCEPT !.row = "grace", !.rotated = TRUE]
    <2>1. old \in KeyRow BY <1>2, TypedKeys
    <2>2. /\ new \in KeyRow /\ new.row = "active" /\ ~new.rotated /\ new.mgmt = old.mgmt /\ new.team = r.team
          /\ was \in KeyRow /\ was.row = "grace" /\ was.mgmt = old.mgmt /\ was.team = old.team /\ was.sp = old.sp
      BY <1>2, <1>3, <2>1 DEF KeyRow
    <2>3. k # r.key BY <1>2, <1>3
    <2>4. /\ keys'[k] = new /\ keys'[r.key] = was
          /\ \A j \in Keys \ {k, r.key} : keys'[j] = keys[j]
          /\ keys' \in [Keys -> KeyRow]
      <3>1. keys' = [[keys EXCEPT ![k] = new] EXCEPT ![r.key] = was]
        BY <1>2, <1>3, <2>1, <2>3, TypedKeys DEF KeyRow
      <3>2. r.key \in Keys /\ keys \in [Keys -> KeyRow] /\ new \in KeyRow /\ was \in KeyRow
        BY <1>2, <2>2, TypedKeys
      <3> HIDE DEF new, was, r, old
      <3>q. QED BY <2>3, <3>1, <3>2
    <2>5. Entry(r) \in log' /\ Entry(r).op = "rotate" /\ Entry(r).key = r.key
      BY <1>2, <1>3 DEF Entry
    <2>6. /\ late' = Belated(k, new.team) /\ (new.mgmt => Manages(r.by, new.team, managers))
          /\ holders' = holders \cup {<<r.by, k>>} /\ log \subseteq log'
      BY <1>2, <1>3, <2>2
    <2> HIDE DEF new, was
    <2>7. \A j \in Keys \ {k} :
              /\ keys[j].row # "absent" =>
                    /\ keys'[j].row # "absent" /\ keys'[j].mgmt = keys[j].mgmt
                    /\ keys'[j].team = keys[j].team /\ keys'[j].sp \in {keys[j].sp, NoOne}
              /\ keys[j].row = "absent" => keys'[j] = keys[j]
              /\ keys'[j].rotated => keys[j].rotated \/ \E e \in log' : e.op = "rotate" /\ e.key = j
      BY <1>2, <2>2, <2>4, <2>5
    <2>8. keys[k].row = "absent" BY <1>3
    <2>9. r.by \in Users BY <1>2
    <2> HIDE DEF r, old
    <2>q. QED BY <2>2, <2>4, <2>6, <2>7, <2>8, <2>9, KeyInserted
  <1>4. \/ UNCHANGED <<keys, holders, late, log>>
        \/ \E k \in Keys :
              /\ keys[k].row = "absent" /\ old.row = "active" /\ (old.sp = NoOne => ~old.mgmt)
              /\ keys' = [keys EXCEPT ![k] = [old EXCEPT !.rotated = FALSE],
                                      ![r.key].row = "grace", ![r.key].rotated = TRUE]
              /\ holders' = holders \cup {<<r.by, k>>} /\ late' = Belated(k, r.team)
              /\ log' = log \cup {Entry(r)}
    BY DEF rotate, OneOf
  <1>q. QED BY <1>1, <1>3, <1>4

\* A row edited in place.
LEMMA RowEdited ==
    ASSUME AccessTypes, UNCHANGED <<holders, late>>, log \subseteq log',
           NEW k \in Keys, keys[k].row # "absent", keys' = [keys EXCEPT ![k].row = "revoked"]
    PROVE  KeysWritten
  <1> DEFINE new == [keys[k] EXCEPT !.row = "revoked"]
  <1>1. keys[k] \in KeyRow BY TypedKeys
  <1>2. /\ new \in KeyRow /\ new.row = "revoked" /\ new.mgmt = keys[k].mgmt /\ new.team = keys[k].team
        /\ new.sp = keys[k].sp /\ new.rotated = keys[k].rotated
    BY <1>1 DEF KeyRow
  <1>3. keys' = [keys EXCEPT ![k] = new] OBVIOUS
  <1> HIDE DEF new
  <1>4. keys' \in [Keys -> KeyRow] /\ keys'[k] = new /\ \A j \in Keys \ {k} : keys'[j] = keys[j]
    BY <1>2, <1>3, TypedKeys
  <1>5. \A j \in Keys :
           /\ keys[j].row # "absent" =>
                 /\ keys'[j].row # "absent" /\ keys'[j].mgmt = keys[j].mgmt
                 /\ keys'[j].team = keys[j].team /\ keys'[j].sp \in {keys[j].sp, NoOne}
           /\ keys[j].row = "absent" => keys'[j] = keys[j]
           /\ keys'[j].rotated => keys[j].rotated
    BY <1>2, <1>4
  <1>q. QED BY <1>4, <1>5, KeysEdited

LEMMA revoke_Writes ==
    ASSUME AccessTypes, RequestsOK, NEW p \in Procs, revoke(p)
    PROVE  KeysWritten
  <1> DEFINE k == req[p].key
  <1>1. k \in Keys /\ keys[k].row # "absent" BY DEF revoke, Acting, RequestsOK, MayAct
  <1>2. keys' = [keys EXCEPT ![k].row = "revoked"] /\ UNCHANGED <<holders, late>> /\ log \subseteq log'
    BY DEF revoke
  <1> HIDE DEF k
  <1>q. QED BY <1>1, <1>2, RowEdited

LEMMA GraceEnds_Writes ==
    ASSUME AccessTypes, NEW k \in Keys, GraceEnds(k)
    PROVE  KeysWritten
  <1>1. keys[k].row # "absent" /\ keys' = [keys EXCEPT ![k].row = "revoked"]
        /\ UNCHANGED <<holders, late>> /\ log \subseteq log'
    BY DEF GraceEnds
  <1>q. QED BY <1>1, RowEdited

LEMMA remove_sp_Writes ==
    ASSUME AccessTypes, RequestsOK, KeysOwned, NEW p \in Procs, remove_sp(p)
    PROVE  KeysWritten
  <1> DEFINE s == req[p].key
             row(k) == IF keys[k].sp = s THEN [keys[k] EXCEPT !.row = "revoked", !.sp = NoOne] ELSE keys[k]
  <1>1. s \in SPs /\ s # NoOne
    BY TeamAccessAssumption DEF remove_sp, Acting, RequestsOK, MayAct
  <1>2. keys' = [k \in Keys |-> row(k)] /\ UNCHANGED <<holders, late>> /\ log \subseteq log'
    BY DEF remove_sp
  <1>3. ASSUME NEW k \in Keys
        PROVE  /\ row(k) \in KeyRow
               /\ keys[k].row # "absent" =>
                    /\ row(k).row # "absent" /\ row(k).mgmt = keys[k].mgmt
                    /\ row(k).team = keys[k].team /\ row(k).sp \in {keys[k].sp, NoOne}
               /\ keys[k].row = "absent" => row(k) = keys[k]
               /\ row(k).rotated => keys[k].rotated
    <2>1. keys[k] \in KeyRow BY TypedKeys
    <2>2. keys[k].row = "absent" => keys[k].sp # s BY <1>1 DEF KeysOwned
    <2> HIDE DEF s
    <2>q. QED BY <2>1, <2>2 DEF KeyRow
  <1> HIDE DEF row
  <1>4. \A k \in Keys : keys'[k] = row(k) BY <1>2
  <1>5. keys' \in [Keys -> KeyRow] BY <1>2, <1>3
  <1>q. QED BY <1>2, <1>3, <1>4, <1>5, KeysEdited

\* The steps that write keys.
KeyChanges(p) == issue(p) \/ rotate(p) \/ revoke(p) \/ remove_sp(p)

LEMMA KeyChangesWrite ==
    ASSUME AccessTypes, RequestsOK, KeysOwned, NEW p \in Procs, KeyChanges(p)
    PROVE  KeysWritten
  BY issue_Writes, rotate_Writes, revoke_Writes, remove_sp_Writes DEF KeyChanges

-----------------------------------------------------------------------------
(* What each kind of step leaves alone.                                    *)

\* The steps of a request that write neither memberships nor keys.
Others(p) ==
    \/ add_organization(p) \/ delete_org(p) \/ add_invite(p) \/ add_sp(p) \/ toggle_sp(p)
    \/ set_or_remove_key_budget(p) \/ set_auditor(p) \/ remove_user(p) \/ serve(p)
    \/ change_guardrails(p) \/ execute(p) \/ record_audit(p) \/ Crash(p)

Finished(p) == Done(p) \/ Ended(p)

LEMMA AllSteps ==
    ASSUME AccessNext
    PROVE  \/ \E p \in Procs : \/ Calls(p) \/ delete_team_check(p) \/ set_role_check(p)
                               \/ remove_member_check(p) \/ reconcile_sso_read(p)
                               \/ RoleChanges(p) \/ KeyChanges(p) \/ Others(p)
           \/ \E i \in Invites : InviteExpires(i)
           \/ \E k \in Keys : GraceEnds(k)
  BY DEF AccessNext, TeamStep, MemberStep, InviteStep, KeyStep, UserStep, OtherStep,
         Calls, RoleChanges, KeyChanges, Others

LEMMA CallsKeep ==
    ASSUME NEW p, Calls(p)
    PROVE  UNCHANGED AccessRows /\ UNCHANGED <<lifecycle, raced>>
  BY DEF Calls, AccessRows, call, delete_org_check, create_team_check, add_member_check, signup,
         change_sp_check, key_check, user_check

LEMMA ChecksKeep ==
    ASSUME NEW p
    PROVE  /\ delete_team_check(p) => UNCHANGED AccessRows /\ UNCHANGED raced
           /\ set_role_check(p) \/ remove_member_check(p) \/ reconcile_sso_read(p) =>
                 UNCHANGED AccessRows /\ UNCHANGED lifecycle
  BY DEF AccessRows, delete_team_check, set_role_check, remove_member_check, reconcile_sso_read

LEMMA RoleChangesKeep ==
    ASSUME NEW p, RoleChanges(p)
    PROVE  UNCHANGED <<orgs, keys, holders, editors, raced, late>> /\ Finished(p) /\ req[p].at = "act"
  BY DEF RoleChanges, Finished, Acting, add_team, join, update_role, leave, reconcile_sso_memberships,
         register, delete_team_commit, purge

LEMMA KeyChangesKeep ==
    ASSUME NEW p, KeyChanges(p)
    PROVE  /\ UNCHANGED <<orgs, teams, lifecycle, members, users, invites, managers, editors, raced, joined>>
           /\ Finished(p) /\ req[p].at = "act" /\ req[p].ep.op # "delete_team"
  BY DEF KeyChanges, Finished, Acting, issue, rotate, revoke, remove_sp

LEMMA OthersKeep ==
    ASSUME NEW p, Others(p)
    PROVE  UNCHANGED <<members, managers, keys, holders, raced, late, joined>> /\ Finished(p)
  BY DEF Others, Finished, add_organization, delete_org, add_invite, add_sp, toggle_sp,
         set_or_remove_key_budget, set_auditor, remove_user, serve, change_guardrails, execute,
         record_audit, Crash

-----------------------------------------------------------------------------
(* The rows, one table at a time.                                          *)

\* A team's row: live once, then gone for good.
TeamRow == [row: {"absent", "live", "tombstoned", "gone", "purged"}, org: Orgs \cup {NoOne}, billed: BOOLEAN]

TeamsWritten ==
    /\ teams' \in [Teams -> TeamRow]
    /\ \A t \in Teams : /\ teams[t].row # "absent" => teams'[t].row # "absent"
                        /\ teams[t].row \in TeamGone => teams'[t].row \in TeamGone

LEMMA TeamsStep ==
    ASSUME AccessTypes, RequestsOK, AccessNext
    PROVE  TeamsWritten
  <1>0. teams \in [Teams -> TeamRow] BY TypedRows DEF TeamRow
  <1>1. CASE teams' = teams BY <1>0, <1>1 DEF TeamsWritten
  <1>2. ASSUME NEW t \in Teams, NEW row \in TeamRow, teams' = [teams EXCEPT ![t] = row],
               row.row # "absent", teams[t].row \in TeamGone => row.row \in TeamGone
        PROVE  TeamsWritten
    BY <1>0, <1>2 DEF TeamsWritten
  <1>3. ASSUME NEW p \in Procs, add_team(p), teams' # teams PROVE TeamsWritten
    <2> DEFINE r == req[p]
               row == [row |-> "live", org |-> r.key, billed |-> FALSE]
    <2>1. r.team \in Teams /\ r.key \in Orgs
      BY <1>3, ActingFields DEF add_team, Acting
    <2>2. teams' = [teams EXCEPT ![r.team] = row] /\ teams[r.team].row = "absent" BY <1>3 DEF add_team
    <2>3. row \in TeamRow /\ row.row = "live" BY <2>1 DEF TeamRow
    <2> HIDE DEF row
    <2>q. QED BY <1>2, <2>1, <2>2, <2>3 DEF TeamGone
  <1>4. ASSUME NEW p \in Procs, NEW to \in {"tombstoned", "gone", "purged"},
               req[p].team \in Teams, teams' = [teams EXCEPT ![req[p].team].row = to]
        PROVE  TeamsWritten
    <2> DEFINE t == req[p].team
               row == [teams[t] EXCEPT !.row = to]
    <2>1. row \in TeamRow /\ row.row = to BY <1>0, <1>4 DEF TeamRow
    <2>2. teams' = [teams EXCEPT ![t] = row] BY <1>4
    <2> HIDE DEF row, t
    <2>3. t \in Teams BY <1>4 DEF t
    <2>q. QED BY <1>2, <2>1, <2>2, <2>3 DEF TeamGone
  <1>5. ASSUME NEW p \in Procs, delete_team_commit(p), teams' # teams PROVE TeamsWritten
    BY <1>4, <1>5, ActingFields DEF delete_team_commit, Acting
  <1>6. ASSUME NEW p \in Procs, purge(p), teams' # teams PROVE TeamsWritten
    BY <1>4, <1>6, ActingFields DEF purge, Acting
  <1>7. ASSUME NEW p \in Procs, execute(p) PROVE TeamsWritten
    <2> DEFINE t == req[p].team
               row == [teams[t] EXCEPT !.billed = @ \/ teams[t].row \in {"live", "tombstoned"}]
    <2>1. t \in Teams BY <1>7, ActingFields DEF execute, Acting
    <2>2. row \in TeamRow /\ row.row = teams[t].row BY <1>0, <2>1 DEF TeamRow
    <2>3. teams' = [teams EXCEPT ![t] = row] BY <1>7 DEF execute
    <2> HIDE DEF t, row
    <2>q. QED BY <1>0, <2>1, <2>2, <2>3 DEF TeamsWritten
  <1>8. ASSUME NEW p \in Procs, RoleChanges(p) PROVE TeamsWritten
    <2>1. teams' = teams \/ add_team(p) \/ delete_team_commit(p) \/ purge(p)
      BY <1>8 DEF RoleChanges, join, update_role, leave, reconcile_sso_memberships, register
    <2>q. QED BY <1>1, <1>3, <1>5, <1>6, <2>1
  <1>9. ASSUME NEW p \in Procs, Others(p) PROVE TeamsWritten
    <2>1. teams' = teams \/ execute(p)
      BY <1>9 DEF Others, add_organization, delete_org, add_invite, add_sp, toggle_sp,
              set_or_remove_key_budget, set_auditor, remove_user, serve, change_guardrails,
              record_audit, Crash
    <2>q. QED BY <1>1, <1>7, <2>1
  <1>10. ASSUME NEW p \in Procs, Calls(p) \/ delete_team_check(p) \/ set_role_check(p)
                                 \/ remove_member_check(p) \/ reconcile_sso_read(p)
         PROVE  teams' = teams
    BY <1>10, CallsKeep, ChecksKeep DEF AccessRows
  <1>11. ASSUME NEW p \in Procs, KeyChanges(p) PROVE teams' = teams
    BY <1>11, KeyChangesKeep
  <1>12. ASSUME NEW i \in Invites, InviteExpires(i) PROVE teams' = teams
    BY <1>12 DEF InviteExpires
  <1>13. ASSUME NEW k \in Keys, GraceEnds(k) PROVE teams' = teams
    BY <1>13 DEF GraceEnds
  <1>q. QED BY <1>1, <1>8, <1>9, <1>10, <1>11, <1>12, <1>13, AllSteps

\* Memberships are written by the steps that change roles.
LEMMA MembersStep ==
    ASSUME AccessTypes, RequestsOK, StrangersOK, InvitesOK, AccessNext
    PROVE  \/ UNCHANGED <<members, managers>>
           \/ \E p \in Procs : RoleChanges(p) /\ Written(p)
  <1>1. ASSUME NEW p \in Procs, RoleChanges(p) PROVE Written(p)
    BY <1>1, RoleChangesWrite
  <1>2. ASSUME NEW p \in Procs, Calls(p) \/ delete_team_check(p) \/ set_role_check(p)
                                \/ remove_member_check(p) \/ reconcile_sso_read(p)
        PROVE  UNCHANGED <<members, managers>>
    BY <1>2, CallsKeep, ChecksKeep DEF AccessRows
  <1>3. ASSUME NEW p \in Procs, KeyChanges(p) PROVE UNCHANGED <<members, managers>>
    BY <1>3, KeyChangesKeep
  <1>4. ASSUME NEW p \in Procs, Others(p) PROVE UNCHANGED <<members, managers>>
    BY <1>4, OthersKeep
  <1>5. ASSUME NEW i \in Invites, InviteExpires(i) PROVE UNCHANGED <<members, managers>>
    BY <1>5 DEF InviteExpires
  <1>6. ASSUME NEW k \in Keys, GraceEnds(k) PROVE UNCHANGED <<members, managers>>
    BY <1>6 DEF GraceEnds
  <1>q. QED BY <1>1, <1>2, <1>3, <1>4, <1>5, <1>6, AllSteps

\* The audit trail only grows; keys are written by the steps that change keys.
LEMMA TeamKeysStep ==
    ASSUME AccessTypes, RequestsOK, KeysOwned, AccessNext
    PROVE  (UNCHANGED <<keys, holders, late>> /\ log \subseteq log') \/ KeysWritten
  <1>1. ASSUME NEW p \in Procs, KeyChanges(p) PROVE KeysWritten
    BY <1>1, KeyChangesWrite
  <1>2. ASSUME NEW k \in Keys, GraceEnds(k) PROVE KeysWritten
    BY <1>2, GraceEnds_Writes
  <1>3. ASSUME NEW p \in Procs, Calls(p) \/ delete_team_check(p) \/ set_role_check(p)
                                \/ remove_member_check(p) \/ reconcile_sso_read(p)
        PROVE  UNCHANGED <<keys, holders, late>> /\ log \subseteq log'
    BY <1>3, CallsKeep, ChecksKeep DEF AccessRows
  <1>4. ASSUME NEW p \in Procs, Others(p)
        PROVE  UNCHANGED <<keys, holders, late>> /\ log \subseteq log'
    <2>1. log \subseteq log'
      BY <1>4 DEF Others, add_organization, delete_org, add_invite, add_sp, toggle_sp,
              set_or_remove_key_budget, set_auditor, remove_user, serve, change_guardrails,
              execute, record_audit, Crash
    <2>q. QED BY <1>4, <2>1, OthersKeep
  <1>5. ASSUME NEW p \in Procs, RoleChanges(p)
        PROVE  UNCHANGED <<keys, holders, late>> /\ log \subseteq log'
    <2>1. log \subseteq log'
      BY <1>5 DEF RoleChanges, add_team, join, update_role, leave, reconcile_sso_memberships,
              register, delete_team_commit, purge
    <2>q. QED BY <1>5, <2>1, RoleChangesKeep
  <1>6. ASSUME NEW i \in Invites, InviteExpires(i)
        PROVE  UNCHANGED <<keys, holders, late>> /\ log \subseteq log'
    BY <1>6 DEF InviteExpires
  <1>q. QED BY <1>1, <1>2, <1>3, <1>4, <1>5, <1>6, AllSteps

LEMMA KeptStep ==
    ASSUME AccessTypes, RequestsOK, StrangersOK, InvitesOK, KeysOwned, AccessNext
    PROVE  RequestsKept
  <1>1. managers \subseteq managers' BY MembersStep DEF Written
  <1>2. \A t \in Teams : teams[t].row # "absent" => teams'[t].row # "absent"
    BY TeamsStep DEF TeamsWritten
  <1>3. \A k \in Keys : keys[k].row # "absent" =>
          /\ keys'[k].row # "absent" /\ keys'[k].mgmt = keys[k].mgmt /\ keys'[k].team = keys[k].team
          /\ keys'[k].sp \in {keys[k].sp, NoOne}
    BY TeamKeysStep DEF KeysWritten
  <1>q. QED BY <1>1, <1>2, <1>3 DEF RequestsKept

Account == [row: {"absent", "live", "deleted"}, admin: BOOLEAN, auditor: BOOLEAN]

\* An account appears, may be deleted, and never acquires the admin flag.
UsersWritten ==
    /\ users' \in [Users -> Account]
    /\ \A u \in Users : /\ users'[u].admin => users[u].admin
                        /\ users'[u].row = "absent" => users[u].row = "absent"

LEMMA UsersStep ==
    ASSUME AccessTypes, RequestsOK, AccessNext
    PROVE  UsersWritten
  <1>0. users \in [Users -> Account] BY TypedRows DEF Account
  <1>1. CASE users' = users BY <1>0, <1>1 DEF UsersWritten
  <1>2. ASSUME NEW u \in Users, NEW row \in Account, users' = [users EXCEPT ![u] = row],
               row.row # "absent", row.admin => users[u].admin
        PROVE  UsersWritten
    BY <1>0, <1>2 DEF UsersWritten
  <1>3. ASSUME NEW p \in Procs, set_auditor(p), users' # users PROVE UsersWritten
    <2> DEFINE u == req[p].user
               row == [users[u] EXCEPT !.auditor = ~@]
    <2>1. u \in Users /\ users[u].row = "live" /\ users' = [users EXCEPT ![u].auditor = ~@]
      BY <1>3 DEF set_auditor, Person
    <2>2. row \in Account /\ row.row = "live" /\ row.admin = users[u].admin BY <1>0, <2>1 DEF Account
    <2>3. users' = [users EXCEPT ![u] = row] BY <2>1
    <2> HIDE DEF row, u
    <2>q. QED BY <1>2, <2>1, <2>2, <2>3
  <1>4. ASSUME NEW p \in Procs, remove_user(p), users' # users PROVE UsersWritten
    <2> DEFINE u == req[p].user
               row == [row |-> "deleted", admin |-> FALSE, auditor |-> FALSE]
    <2>1. u \in Users /\ users' = [users EXCEPT ![u] = row] BY <1>4 DEF remove_user, Person
    <2>2. row \in Account /\ row.row = "deleted" /\ ~row.admin BY DEF Account
    <2> HIDE DEF row, u
    <2>q. QED BY <1>2, <2>1, <2>2
  <1>5. ASSUME NEW p \in Procs, register(p), users' # users PROVE UsersWritten
    <2>1. PICK u \in Users : users' = [users EXCEPT ![u].row = "live"]
      BY <1>5 DEF register, OneOf
    <2> DEFINE row == [users[u] EXCEPT !.row = "live"]
    <2>2. row \in Account /\ row.row = "live" /\ row.admin = users[u].admin BY <1>0 DEF Account
    <2>3. users' = [users EXCEPT ![u] = row] BY <2>1
    <2> HIDE DEF row
    <2>q. QED BY <1>2, <2>2, <2>3
  <1>6. ASSUME NEW p \in Procs, RoleChanges(p) PROVE UsersWritten
    <2>1. users' = users \/ register(p)
      BY <1>6 DEF RoleChanges, add_team, join, update_role, leave, reconcile_sso_memberships,
              delete_team_commit, purge
    <2>q. QED BY <1>1, <1>5, <2>1
  <1>7. ASSUME NEW p \in Procs, Others(p) PROVE UsersWritten
    <2>1. users' = users \/ set_auditor(p) \/ remove_user(p)
      BY <1>7 DEF Others, add_organization, delete_org, add_invite, add_sp, toggle_sp,
              set_or_remove_key_budget, serve, change_guardrails, execute, record_audit, Crash
    <2>q. QED BY <1>1, <1>3, <1>4, <2>1
  <1>8. ASSUME NEW p \in Procs, Calls(p) \/ delete_team_check(p) \/ set_role_check(p)
                                \/ remove_member_check(p) \/ reconcile_sso_read(p)
        PROVE  users' = users
    BY <1>8, CallsKeep, ChecksKeep DEF AccessRows
  <1>9. ASSUME NEW p \in Procs, KeyChanges(p) PROVE users' = users
    BY <1>9, KeyChangesKeep
  <1>10. ASSUME NEW i \in Invites, InviteExpires(i) PROVE users' = users
    BY <1>10 DEF InviteExpires
  <1>11. ASSUME NEW k \in Keys, GraceEnds(k) PROVE users' = users
    BY <1>11 DEF GraceEnds
  <1>q. QED BY <1>1, <1>6, <1>7, <1>8, <1>9, <1>10, <1>11, AllSteps

Invite == [state: {"absent", "open", "expired", "used", "gone"}, team: Teams \cup {NoOne},
           role: Roles \cup {"none"}]

\* An invite is opened for a team and a role, used once, and never opened again.
InvitesWritten ==
    /\ invites' \in [Invites -> Invite] /\ joined' \in [Invites -> Nat]
    /\ \A i \in Invites :
          /\ invites'[i].state = "open" =>
                \/ invites'[i] = invites[i]
                \/ /\ invites[i].state = "absent"
                   /\ invites'[i].team \in Teams /\ invites'[i].role \in Roles
          /\ invites[i].state \in {"used", "gone"} => invites'[i].state \in {"used", "gone"}
          /\ \/ joined'[i] = joined[i]
             \/ invites[i].state = "open" /\ invites'[i].state = "used" /\ joined'[i] = joined[i] + 1

LEMMA InvitesStep ==
    ASSUME AccessTypes, RequestsOK, AccessNext
    PROVE  InvitesWritten
  <1>0. invites \in [Invites -> Invite] /\ joined \in [Invites -> Nat]
    BY DEF AccessTypes, AccessTypeOK, Invite
  <1>1. CASE UNCHANGED <<invites, joined>> BY <1>0, <1>1 DEF InvitesWritten
  <1>2. ASSUME NEW i \in Invites, NEW row \in Invite, invites' = [invites EXCEPT ![i] = row],
               \/ joined' = joined
               \/ invites[i].state = "open" /\ row.state = "used" /\ joined' = [joined EXCEPT ![i] = @ + 1],
               row.state = "open" => invites[i].state = "absent" /\ row.team \in Teams /\ row.role \in Roles,
               invites[i].state \notin {"used", "gone"}
        PROVE  InvitesWritten
    <2>1. invites' \in [Invites -> Invite] /\ invites'[i] = row /\ \A j \in Invites \ {i} : invites'[j] = invites[j]
      BY <1>0, <1>2
    <2>2. CASE joined' = joined
      <3>1. joined' \in [Invites -> Nat] /\ \A j \in Invites : joined'[j] = joined[j] BY <1>0, <2>2
      <3>2. \A j \in Invites :
              /\ invites'[j].state = "open" =>
                    \/ invites'[j] = invites[j]
                    \/ /\ invites[j].state = "absent"
                       /\ invites'[j].team \in Teams /\ invites'[j].role \in Roles
              /\ invites[j].state \in {"used", "gone"} => invites'[j].state \in {"used", "gone"}
        BY <1>2, <2>1
      <3>q. QED BY <2>1, <3>1, <3>2 DEF InvitesWritten
    <2>3. CASE invites[i].state = "open" /\ row.state = "used" /\ joined' = [joined EXCEPT ![i] = @ + 1]
      <3>1. joined' \in [Invites -> Nat] BY <1>0, <2>3
      <3>2. joined'[i] = joined[i] + 1 /\ \A j \in Invites \ {i} : joined'[j] = joined[j] BY <1>0, <2>3
      <3>3. invites[i].state = "open" /\ row.state = "used" BY <2>3
      <3>4. \A j \in Invites :
              /\ invites'[j].state = "open" => invites'[j] = invites[j]
              /\ invites[j].state \in {"used", "gone"} => invites'[j].state \in {"used", "gone"}
              /\ \/ joined'[j] = joined[j]
                 \/ invites[j].state = "open" /\ invites'[j].state = "used" /\ joined'[j] = joined[j] + 1
        BY <2>1, <3>2, <3>3
      <3>q. QED BY <2>1, <3>1, <3>4 DEF InvitesWritten
    <2>q. QED BY <1>2, <2>2, <2>3
  <1>3. ASSUME NEW p \in Procs, add_invite(p), UNCHANGED joined PROVE InvitesWritten
    <2>1. req[p].team \in Teams BY <1>3, ActingFields DEF add_invite, Acting
    <2>2. CASE UNCHANGED invites BY <1>1, <1>3, <2>2
    <2>3. ASSUME NEW i \in Invites, invites[i].state = "absent", NEW role \in Roles,
                 invites' = [invites EXCEPT ![i] = [state |-> "open", team |-> req[p].team, role |-> role]]
          PROVE  InvitesWritten
      <3> DEFINE row == [state |-> "open", team |-> req[p].team, role |-> role]
      <3>1. row \in Invite /\ row.team \in Teams /\ row.role \in Roles BY <2>1 DEF Invite
      <3>2. invites' = [invites EXCEPT ![i] = row] BY <2>3
      <3> HIDE DEF row
      <3>q. QED BY <1>2, <1>3, <2>3, <3>1, <3>2
    <2>4. \/ UNCHANGED invites
          \/ \E i \in Invites, role \in Roles :
                /\ invites[i].state = "absent"
                /\ invites' = [invites EXCEPT ![i] = [state |-> "open", team |-> req[p].team, role |-> role]]
      BY <1>3 DEF add_invite, OneOf
    <2>q. QED BY <2>2, <2>3, <2>4
  <1>4. ASSUME NEW i \in Invites, InviteExpires(i) PROVE InvitesWritten
    <2> DEFINE row == [invites[i] EXCEPT !.state = "expired"]
    <2>1. row \in Invite /\ row.state = "expired" BY <1>0 DEF Invite
    <2>2. invites' = [invites EXCEPT ![i] = row] /\ joined' = joined /\ invites[i].state = "open"
      BY <1>4 DEF InviteExpires
    <2> HIDE DEF row
    <2>q. QED BY <1>2, <2>1, <2>2
  <1>5. ASSUME NEW p \in Procs, register(p), ~UNCHANGED <<invites, joined>> PROVE InvitesWritten
    <2> DEFINE i == req[p].key
               row == [invites[i] EXCEPT !.state = "used"]
    <2>1. i \in Invites BY <1>5, ActingFields DEF register, Acting
    <2>2. row \in Invite /\ row.state = "used" BY <1>0, <2>1 DEF Invite
    <2>3. /\ invites[i].state = "open" /\ invites' = [invites EXCEPT ![i].state = "used"]
          /\ joined' = joined \/ joined' = [joined EXCEPT ![i] = @ + 1]
      BY <1>5 DEF register, mark_used
    <2>4. invites' = [invites EXCEPT ![i] = row] BY <2>3
    <2> HIDE DEF row, i
    <2>q. QED BY <1>2, <2>1, <2>2, <2>3, <2>4
  <1>6. ASSUME NEW t \in Teams, Erased(t), UNCHANGED joined PROVE InvitesWritten
    <2> DEFINE row(i) == IF invites[i].team = t THEN [invites[i] EXCEPT !.state = "gone"] ELSE invites[i]
    <2>1. invites' = [i \in Invites |-> row(i)] BY <1>6 DEF Erased
    <2>2. \A i \in Invites : row(i) \in Invite /\ (row(i) = invites[i] \/ row(i).state = "gone")
      BY <1>0 DEF Invite
    <2> HIDE DEF row
    <2>3. invites' \in [Invites -> Invite] /\ \A i \in Invites : invites'[i] = invites[i] \/ invites'[i].state = "gone"
      BY <2>1, <2>2
    <2>q. QED BY <1>0, <1>6, <2>3 DEF InvitesWritten
  <1>7. ASSUME NEW p \in Procs, RoleChanges(p) PROVE InvitesWritten
    <2>1. \/ UNCHANGED <<invites, joined>> \/ register(p)
          \/ Erased(req[p].team) /\ UNCHANGED joined /\ req[p].at = "act" /\ req[p].ep.op # "sso"
      BY <1>7 DEF RoleChanges, add_team, join, update_role, leave, reconcile_sso_memberships,
              delete_team_commit, purge, Acting
    <2>2. req[p].at = "act" /\ req[p].ep.op # "sso" => req[p].team \in Teams BY ActingFields
    <2>q. QED BY <1>1, <1>5, <1>6, <2>1, <2>2
  <1>8. ASSUME NEW p \in Procs, Others(p) PROVE InvitesWritten
    <2>1. joined' = joined BY <1>8, OthersKeep
    <2>2. invites' = invites \/ add_invite(p)
      BY <1>8 DEF Others, add_organization, delete_org, add_sp, toggle_sp, set_auditor, remove_user,
              set_or_remove_key_budget, serve, change_guardrails, execute, record_audit, Crash
    <2>q. QED BY <1>1, <1>3, <2>1, <2>2
  <1>9. ASSUME NEW p \in Procs, Calls(p) \/ delete_team_check(p) \/ set_role_check(p)
                                \/ remove_member_check(p) \/ reconcile_sso_read(p)
        PROVE  UNCHANGED <<invites, joined>>
    BY <1>9, CallsKeep, ChecksKeep DEF AccessRows
  <1>10. ASSUME NEW p \in Procs, KeyChanges(p) PROVE UNCHANGED <<invites, joined>>
    BY <1>10, KeyChangesKeep
  <1>11. ASSUME NEW k \in Keys, GraceEnds(k) PROVE UNCHANGED <<invites, joined>>
    BY <1>11 DEF GraceEnds
  <1>q. QED BY <1>1, <1>4, <1>7, <1>8, <1>9, <1>10, <1>11, AllSteps

LEMMA OrgsStep ==
    ASSUME AccessTypes, AccessNext
    PROVE  orgs' \in [Orgs -> {"absent", "live", "deleted"}]
  <1>0. orgs \in [Orgs -> {"absent", "live", "deleted"}] BY DEF AccessTypes, AccessTypeOK
  <1>1. CASE orgs' = orgs BY <1>0, <1>1
  <1>2. ASSUME NEW o, NEW s \in {"live", "deleted"}, orgs' = [orgs EXCEPT ![o] = s]
        PROVE  orgs' \in [Orgs -> {"absent", "live", "deleted"}]
    BY <1>0, <1>2
  <1>3. ASSUME NEW p \in Procs, Others(p)
        PROVE  orgs' = orgs \/ \E o, s : s \in {"live", "deleted"} /\ orgs' = [orgs EXCEPT ![o] = s]
    <2>1. orgs' = orgs \/ add_organization(p) \/ delete_org(p)
      BY <1>3 DEF Others, add_invite, add_sp, toggle_sp, set_or_remove_key_budget, set_auditor,
              remove_user, serve, change_guardrails, execute, record_audit, Crash
    <2>2. add_organization(p) => \E o : orgs' = [orgs EXCEPT ![o] = "live"] BY DEF add_organization
    <2>3. delete_org(p) => orgs' = orgs \/ orgs' = [orgs EXCEPT ![req[p].key] = "deleted"]
      BY DEF delete_org
    <2>q. QED BY <2>1, <2>2, <2>3
  <1>4. ASSUME NEW p \in Procs, Calls(p) \/ delete_team_check(p) \/ set_role_check(p)
                                \/ remove_member_check(p) \/ reconcile_sso_read(p)
        PROVE  orgs' = orgs
    BY <1>4, CallsKeep, ChecksKeep DEF AccessRows
  <1>5. ASSUME NEW p \in Procs, RoleChanges(p) \/ KeyChanges(p) PROVE orgs' = orgs
    BY <1>5, RoleChangesKeep, KeyChangesKeep
  <1>6. ASSUME NEW i \in Invites, InviteExpires(i) PROVE orgs' = orgs BY <1>6 DEF InviteExpires
  <1>7. ASSUME NEW k \in Keys, GraceEnds(k) PROVE orgs' = orgs BY <1>7 DEF GraceEnds
  <1>q. QED BY <1>1, <1>2, <1>3, <1>4, <1>5, <1>6, <1>7, AllSteps

ServicePrincipal == [state: {"absent", "enabled", "disabled", "deleted"}, team: Teams \cup {NoOne}]

LEMMA SpsStep ==
    ASSUME AccessTypes, RequestsOK, AccessNext
    PROVE  sps' \in [SPs -> ServicePrincipal]
  <1> DEFINE Typed == sps' \in [SPs -> ServicePrincipal]
  <1>0. sps \in [SPs -> ServicePrincipal] BY DEF AccessTypes, AccessTypeOK, ServicePrincipal
  <1>1. CASE sps' = sps BY <1>0, <1>1
  <1>2. ASSUME NEW s \in SPs, NEW row \in ServicePrincipal, sps' = [sps EXCEPT ![s] = row] PROVE Typed
    BY <1>0, <1>2
  <1>3. ASSUME NEW p \in Procs, add_sp(p) PROVE Typed
    <2>1. req[p].team \in Teams BY <1>3, ActingFields DEF add_sp, Acting
    <2>2. ASSUME NEW s \in SPs, sps' = [sps EXCEPT ![s] = [state |-> "enabled", team |-> req[p].team]] PROVE Typed
      <3>1. [state |-> "enabled", team |-> req[p].team] \in ServicePrincipal BY <2>1 DEF ServicePrincipal
      <3>q. QED BY <1>2, <2>2, <3>1
    <2>3. sps' = sps \/ \E s \in SPs : sps' = [sps EXCEPT ![s] = [state |-> "enabled", team |-> req[p].team]]
      BY <1>3 DEF add_sp, OneOf
    <2>q. QED BY <1>1, <2>2, <2>3
  <1>4. ASSUME NEW s \in SPs, NEW to \in {"enabled", "disabled", "deleted"}, sps' = [sps EXCEPT ![s].state = to]
        PROVE  Typed
    <2> DEFINE row == [sps[s] EXCEPT !.state = to]
    <2>1. row \in ServicePrincipal BY <1>0 DEF ServicePrincipal
    <2>2. sps' = [sps EXCEPT ![s] = row] BY <1>4
    <2> HIDE DEF row
    <2>q. QED BY <1>2, <2>1, <2>2
  <1>5. ASSUME NEW p \in Procs, toggle_sp(p) PROVE Typed
    <2>1. req[p].key \in SPs BY <1>5 DEF toggle_sp, Acting, RequestsOK, MayAct
    <2>2. \/ sps' = sps
          \/ sps' = [sps EXCEPT ![req[p].key].state = "enabled"]
          \/ sps' = [sps EXCEPT ![req[p].key].state = "disabled"]
      BY <1>5, <1>0, <2>1 DEF toggle_sp
    <2>q. QED BY <1>1, <1>4, <2>1, <2>2
  <1>6. ASSUME NEW p \in Procs, remove_sp(p) PROVE Typed
    <2>1. req[p].key \in SPs BY <1>6 DEF remove_sp, Acting, RequestsOK, MayAct
    <2>2. sps' = [sps EXCEPT ![req[p].key].state = "deleted"] BY <1>6 DEF remove_sp
    <2>q. QED BY <1>4, <2>1, <2>2
  <1>7. ASSUME NEW t, Erased(t) PROVE Typed
    <2> DEFINE row(s) == IF sps[s].team = t THEN [sps[s] EXCEPT !.state = "deleted"] ELSE sps[s]
    <2>1. sps' = [s \in SPs |-> row(s)] BY <1>7 DEF Erased
    <2>2. \A s \in SPs : row(s) \in ServicePrincipal BY <1>0 DEF ServicePrincipal
    <2> HIDE DEF row
    <2>q. QED BY <2>1, <2>2
  <1>8. ASSUME NEW p \in Procs, RoleChanges(p) PROVE Typed
    <2>1. sps' = sps \/ Erased(req[p].team)
      BY <1>8 DEF RoleChanges, add_team, join, update_role, leave, reconcile_sso_memberships,
              register, delete_team_commit, purge
    <2>q. QED BY <1>1, <1>7, <2>1
  <1>9. ASSUME NEW p \in Procs, KeyChanges(p) PROVE Typed
    <2>1. sps' = sps \/ remove_sp(p) BY <1>9 DEF KeyChanges, issue, rotate, revoke
    <2>q. QED BY <1>1, <1>6, <2>1
  <1>10. ASSUME NEW p \in Procs, Others(p) PROVE Typed
    <2>1. sps' = sps \/ add_sp(p) \/ toggle_sp(p)
      BY <1>10 DEF Others, add_organization, delete_org, add_invite, set_or_remove_key_budget,
              set_auditor, remove_user, serve, change_guardrails, execute, record_audit, Crash
    <2>q. QED BY <1>1, <1>3, <1>5, <2>1
  <1>11. ASSUME NEW p \in Procs, Calls(p) \/ delete_team_check(p) \/ set_role_check(p)
                                 \/ remove_member_check(p) \/ reconcile_sso_read(p)
         PROVE  sps' = sps
    BY <1>11, CallsKeep, ChecksKeep DEF AccessRows
  <1>12. ASSUME NEW i \in Invites, InviteExpires(i) PROVE sps' = sps BY <1>12 DEF InviteExpires
  <1>13. ASSUME NEW k \in Keys, GraceEnds(k) PROVE sps' = sps BY <1>13 DEF GraceEnds
  <1>q. QED BY <1>1, <1>8, <1>9, <1>10, <1>11, <1>12, <1>13, AllSteps

\* A step moves one request: it begins one that may act, or ends one, or is a
\* row's own (an expiry).
LEMMA OneRequestMoves ==
    ASSUME AccessTypes, RequestsOK, AdminFlagsOK, ManagersOK, InvitesOK, AccessNext
    PROVE  \/ \E p \in Procs, r \in Request : Begins(p, r)
           \/ \E p \in Procs : Finished(p) /\ (RoleChanges(p) \/ KeyChanges(p) \/ Others(p))
           \/ req' = req
  <1>1. ASSUME NEW p \in Procs, Calls(p) \/ delete_team_check(p) \/ set_role_check(p)
                                \/ remove_member_check(p) \/ reconcile_sso_read(p)
        PROVE  \E r \in Request : Begins(p, r)
    BY <1>1, CallsBegin, delete_team_check_Begins, set_role_check_Begins, remove_member_check_Begins,
       reconcile_sso_read_Begins
  <1>2. ASSUME NEW p \in Procs, RoleChanges(p) \/ KeyChanges(p) \/ Others(p) PROVE Finished(p)
    BY <1>2, RoleChangesKeep, KeyChangesKeep, OthersKeep
  <1>3. ASSUME NEW i \in Invites, InviteExpires(i) PROVE req' = req BY <1>3 DEF InviteExpires
  <1>4. ASSUME NEW k \in Keys, GraceEnds(k) PROVE req' = req BY <1>4 DEF GraceEnds
  <1>q. QED BY <1>1, <1>2, <1>3, <1>4, AllSteps

LEMMA RequestsStep ==
    ASSUME AccessTypes, RequestsOK, AdminFlagsOK, ManagersOK, StrangersOK, InvitesOK, KeysOwned, AccessNext
    PROVE  RequestsOK' /\ req' \in [Procs -> Request]
  <1>0. RequestsKept /\ req \in [Procs -> Request] BY KeptStep, TypedRows
  <1>1. ASSUME NEW p \in Procs, NEW r \in Request, Begins(p, r)
        PROVE  RequestsOK' /\ req' \in [Procs -> Request]
    <2>1. MayAct(r, managers', keys', teams') BY <1>0, <1>1, MayActKept DEF Begins
    <2>2. req' = [req EXCEPT ![p] = r] BY <1>1 DEF Begins
    <2>q. QED BY <1>0, <2>1, <2>2, OneMoves
  <1>2. ASSUME NEW p \in Procs, Finished(p)
        PROVE  RequestsOK' /\ req' \in [Procs -> Request]
    <2>1. PICK r \in Request : req' = [req EXCEPT ![p] = r] /\ \A M, K, T : MayAct(r, M, K, T)
      BY <1>0, <1>2, Finishes DEF Finished
    <2>2. MayAct(r, managers', keys', teams') BY <2>1
    <2>q. QED BY <1>0, <2>1, <2>2, OneMoves
  <1>3. CASE req' = req
    <2>1. ASSUME NEW q \in Procs PROVE MayAct(req'[q], managers', keys', teams')
      <3>1. req[q] \in Request /\ MayAct(req[q], managers, keys, teams) BY <1>0 DEF RequestsOK
      <3>2. MayAct(req[q], managers', keys', teams') BY <1>0, <3>1, MayActKept
      <3>q. QED BY <1>3, <3>2
    <2>q. QED BY <1>0, <1>3, <2>1 DEF RequestsOK
  <1>q. QED BY <1>1, <1>2, <1>3, OneRequestMoves

-----------------------------------------------------------------------------
(* The lifecycle locks, and the keys inserted under them.                  *)

Locks == [Teams -> Procs \cup {NoOne}]

LEMMA TypedLocks ==
    ASSUME AccessTypes
    PROVE  lifecycle \in Locks /\ req \in [Procs -> Request] /\ NoOne \notin Procs
  BY TeamAccessAssumption DEF AccessTypes, AccessTypeOK, Locks

\* Request p becomes r, and no other moves.
Becomes(p, r) == req'[p] = r /\ \A q \in Procs \ {p} : req'[q] = req[q]

\* Request r is a delete of team t that runs.
Deletes(r, t) == r.at = "act" /\ r.ep.op = "delete_team" /\ r.team = t

LEMMA DeletesName ==
    ASSUME RequestsOK, LocksOK, NEW q \in Procs, Acting(q, "delete_team")
    PROVE  req[q].team \in Teams /\ lifecycle[req[q].team] = q
  BY DEF RequestsOK, MayAct, LocksOK, Acting

\* Another request than a delete moves.
LEMMA LocksKept ==
    ASSUME AccessTypes, LocksOK, NEW p \in Procs, NEW r, Becomes(p, r), lifecycle' = lifecycle,
           ~Acting(p, "delete_team"), r.at # "act" \/ r.ep.op # "delete_team"
    PROVE  LocksOK'
  <1>1. ~Acting(p, "delete_team")' BY DEF Acting, Deletes, Becomes
  <1>2. \A q \in Procs : Acting(q, "delete_team")' => q # p /\ Acting(q, "delete_team") /\ req'[q] = req[q]
    BY <1>1 DEF Acting, Deletes, Becomes
  <1>3. \A q \in Procs : Acting(q, "delete_team") => Acting(q, "delete_team")' /\ req'[q] = req[q]
    BY DEF Acting, Deletes, Becomes
  <1>4. \A t \in Teams : lifecycle[t] # NoOne => lifecycle[t] \in Procs BY TypedLocks DEF Locks
  <1>q. QED BY <1>2, <1>3, <1>4 DEF LocksOK, Deletes, Acting

\* A delete begins, and takes the lock.
LEMMA LockTaken ==
    ASSUME AccessTypes, RequestsOK, LocksOK, NEW p \in Procs, Free(p), NEW r, Becomes(p, r),
           r.at = "act", r.ep.op = "delete_team", NEW t \in Teams, r.team = t, lifecycle[t] = NoOne,
           lifecycle'[t] = p, \A x \in Teams \ {t} : lifecycle'[x] = lifecycle[x]
    PROVE  LocksOK'
  <1>1. ~Acting(p, "delete_team") BY DEF Free, Acting
  <1>2. \A q \in Procs \ {p} : Acting(q, "delete_team")' <=> Acting(q, "delete_team") BY DEF Acting, Deletes, Becomes
  <1>3. Acting(p, "delete_team")' BY DEF Acting, Deletes, Becomes
  <1>4. ASSUME NEW x \in Teams, lifecycle'[x] # NoOne
        PROVE  Deletes(req'[lifecycle'[x]], x)
    <2>1. CASE x # t
      <3>1. lifecycle'[x] = lifecycle[x] /\ lifecycle[x] \in Procs BY <1>4, <2>1, TypedLocks DEF Locks
      <3>2. Acting(lifecycle[x], "delete_team") /\ req[lifecycle[x]].team = x BY <1>4, <3>1 DEF LocksOK, Deletes, Acting
      <3>3. lifecycle[x] # p BY <1>1, <3>2
      <3>q. QED BY <3>1, <3>2, <3>3 DEF Becomes, Deletes, Acting
    <2>2. CASE x = t BY <2>2 DEF Becomes, Deletes
    <2>q. QED BY <2>1, <2>2
  <1>5. ASSUME NEW q \in Procs, Acting(q, "delete_team")' PROVE lifecycle'[req'[q].team] = q
    <2>1. CASE q = p BY <2>1 DEF Becomes, Deletes
    <2>2. CASE q # p
      <3>1. req'[q] = req[q] /\ Acting(q, "delete_team") BY <1>2, <1>5, <2>2 DEF Becomes, Deletes
      <3>2. req[q].team \in Teams /\ lifecycle[req[q].team] = q BY <3>1, DeletesName
      <3>3. req[q].team # t BY <3>2, TypedLocks
      <3>q. QED BY <3>1, <3>2, <3>3
    <2>q. QED BY <2>1, <2>2
  <1>q. QED BY <1>4, <1>5 DEF LocksOK, Deletes, Acting

\* A request ends, and with it its lock.
LEMMA LockFreed ==
    ASSUME AccessTypes, RequestsOK, LocksOK, NEW p \in Procs, NEW r, Becomes(p, r), r.at # "act",
           \A t \in Teams : lifecycle'[t] = IF lifecycle[t] = p THEN NoOne ELSE lifecycle[t]
    PROVE  LocksOK'
  <1>1. ~Acting(p, "delete_team")' BY DEF Acting, Deletes, Becomes
  <1>2. \A q \in Procs : Acting(q, "delete_team")' => q # p /\ Acting(q, "delete_team") /\ req'[q] = req[q]
    BY <1>1 DEF Acting, Deletes, Becomes
  <1>3. \A q \in Procs \ {p} : Acting(q, "delete_team") => Acting(q, "delete_team")' /\ req'[q] = req[q]
    BY DEF Acting, Deletes, Becomes
  <1>4. ASSUME NEW t \in Teams, lifecycle'[t] # NoOne
        PROVE  Deletes(req'[lifecycle'[t]], t)
    <2>1. lifecycle'[t] = lifecycle[t] /\ lifecycle[t] \in Procs \ {p}
      BY <1>4, TypedLocks DEF Locks
    <2>2. Acting(lifecycle[t], "delete_team") /\ req[lifecycle[t]].team = t BY <1>4, <2>1 DEF LocksOK, Deletes, Acting
    <2>q. QED BY <2>1, <2>2 DEF Becomes, Deletes, Acting
  <1>5. ASSUME NEW q \in Procs, Acting(q, "delete_team")' PROVE lifecycle'[req'[q].team] = q
    <2>1. q # p /\ Acting(q, "delete_team") /\ req'[q] = req[q] BY <1>2, <1>5
    <2>2. req[q].team \in Teams /\ lifecycle[req[q].team] = q BY <2>1, DeletesName
    <2>q. QED BY <2>1, <2>2
  <1>q. QED BY <1>4, <1>5 DEF LocksOK, Deletes, Acting

LEMMA MovesOne ==
    ASSUME AccessTypes, NEW p \in Procs, NEW r, req' = [req EXCEPT ![p] = r]
    PROVE  Becomes(p, r)
  BY TypedLocks DEF Becomes

\* What a step does to the locks.
LockStep ==
    /\ LocksOK' /\ lifecycle' \in Locks
    /\ \A t \in Teams : lifecycle[t] = NoOne /\ lifecycle'[t] # NoOne => TeamEmpty(t) /\ keys' = keys

LEMMA LocksUntouched ==
    ASSUME AccessTypes, LocksOK', lifecycle' = lifecycle
    PROVE  LockStep
  <1>1. lifecycle' \in Locks BY TypedLocks
  <1>q. QED BY <1>1 DEF LockStep

LEMMA delete_team_check_Locks ==
    ASSUME AccessTypes, RequestsOK, AdminFlagsOK, ManagersOK, LocksOK, NEW p \in Procs, delete_team_check(p)
    PROVE  LockStep
  <1>1. PICK r \in Request :
           /\ Begins(p, r) /\ r.ep.op = "delete_team" /\ r.team \in Teams
           /\ lifecycle[r.team] = NoOne /\ TeamEmpty(r.team)
           /\ lifecycle' = [lifecycle EXCEPT ![r.team] = p]
    BY delete_team_check_Begins
  <1>2. Free(p) /\ Becomes(p, r) /\ r.at = "act" BY <1>1, MovesOne DEF Begins
  <1>3. keys' = keys BY DEF delete_team_check
  <1>4. /\ lifecycle'[r.team] = p /\ \A x \in Teams \ {r.team} : lifecycle'[x] = lifecycle[x]
        /\ lifecycle' \in Locks
    BY <1>1, TypedLocks DEF Locks
  <1>5. r.team \in Teams /\ r.ep.op = "delete_team" /\ lifecycle[r.team] = NoOne /\ TeamEmpty(r.team) BY <1>1
  <1>6. LocksOK' BY <1>2, <1>4, <1>5, LockTaken
  <1>7. \A t \in Teams : lifecycle[t] = NoOne /\ lifecycle'[t] # NoOne => t = r.team BY <1>4
  <1>q. QED BY <1>3, <1>4, <1>5, <1>6, <1>7 DEF LockStep

LEMMA Frees ==
    ASSUME AccessTypes, RequestsOK, LocksOK, NEW p \in Procs, Finished(p), lifecycle' \in Locks,
           \A t \in Teams : lifecycle'[t] = IF lifecycle[t] = p THEN NoOne ELSE lifecycle[t]
    PROVE  LockStep
  <1>1. PICK r \in Request : req' = [req EXCEPT ![p] = r] /\ r.at # "act"
    BY TypedLocks, Finishes DEF Finished
  <1>2. Becomes(p, r) BY <1>1, MovesOne
  <1>3. LocksOK' BY <1>1, <1>2, LockFreed
  <1>4. \A t \in Teams : lifecycle'[t] # NoOne => lifecycle[t] # NoOne BY TypedLocks
  <1>q. QED BY <1>3, <1>4 DEF LockStep

LEMMA NotLocked ==
    ASSUME AccessTypes, RequestsOK, LocksOK, NEW p \in Procs, Finished(p), lifecycle' = lifecycle,
           ~Acting(p, "delete_team")
    PROVE  LockStep
  <1>1. PICK r \in Request : req' = [req EXCEPT ![p] = r] /\ r.at # "act"
    BY TypedLocks, Finishes DEF Finished
  <1>2. Becomes(p, r) BY <1>1, MovesOne
  <1>3. LocksOK' BY <1>1, <1>2, LocksKept
  <1>q. QED BY <1>3, LocksUntouched

LEMMA LocksStep ==
    ASSUME AccessTypes, RequestsOK, AdminFlagsOK, ManagersOK, InvitesOK, LocksOK, AccessNext
    PROVE  LockStep
  <1>1. ASSUME NEW p \in Procs, NEW r \in Request, Begins(p, r), r.ep.op # "delete_team", lifecycle' = lifecycle
        PROVE  LockStep
    <2>1. Becomes(p, r) /\ ~Acting(p, "delete_team") BY <1>1, MovesOne DEF Begins, Free, Acting
    <2>2. LocksOK' BY <1>1, <2>1, LocksKept
    <2>q. QED BY <1>1, <2>2, LocksUntouched
  <1>2. ASSUME NEW p \in Procs, Calls(p) PROVE LockStep
    <2>1. PICK r \in Request : Begins(p, r) /\ r.ep.op # "delete_team"
      BY <1>2, CallsBegin DEF Exclusive
    <2>2. lifecycle' = lifecycle BY <1>2, CallsKeep
    <2>q. QED BY <1>1, <2>1, <2>2
  <1>3. ASSUME NEW p \in Procs, set_role_check(p) \/ remove_member_check(p) \/ reconcile_sso_read(p)
        PROVE  LockStep
    <2>1. lifecycle' = lifecycle BY <1>3, ChecksKeep
    <2>2. CASE set_role_check(p)
      <3>1. PICK r \in Request : Begins(p, r) /\ r.ep.op = "set_role" BY <2>2, set_role_check_Begins
      <3>q. QED BY <1>1, <2>1, <3>1
    <2>3. CASE remove_member_check(p)
      <3>1. PICK r \in Request : Begins(p, r) /\ r.ep.op = "remove_member" BY <2>3, remove_member_check_Begins
      <3>q. QED BY <1>1, <2>1, <3>1
    <2>4. CASE reconcile_sso_read(p)
      <3>1. PICK r \in Request : Begins(p, r) /\ r.ep.op = "sso" BY <2>4, reconcile_sso_read_Begins
      <3>q. QED BY <1>1, <2>1, <3>1
    <2>q. QED BY <1>3, <2>2, <2>3, <2>4
  <1>4. ASSUME NEW p \in Procs, delete_team_commit(p) PROVE LockStep
    <2>1. Acting(p, "delete_team") /\ lifecycle' = [lifecycle EXCEPT ![req[p].team] = NoOne] /\ Finished(p)
      BY <1>4 DEF delete_team_commit, Finished
    <2>2. req[p].team \in Teams /\ lifecycle[req[p].team] = p BY <2>1, DeletesName
    <2>3. lifecycle' \in Locks BY <2>1, TypedLocks DEF Locks
    <2>4. \A t \in Teams : lifecycle[t] = p => t = req[p].team BY TypedLocks DEF LocksOK
    <2>5. \A t \in Teams : lifecycle'[t] = IF t = req[p].team THEN NoOne ELSE lifecycle[t]
      BY <2>1, TypedLocks DEF Locks
    <2>6. \A t \in Teams : lifecycle'[t] = IF lifecycle[t] = p THEN NoOne ELSE lifecycle[t]
      BY <2>2, <2>4, <2>5
    <2>q. QED BY <2>1, <2>3, <2>6, Frees
  <1>5. ASSUME NEW p \in Procs, Crash(p) PROVE LockStep
    <2>1. Finished(p) /\ lifecycle' = [t \in Teams |-> IF lifecycle[t] = p THEN NoOne ELSE lifecycle[t]]
      BY <1>5 DEF Crash, Finished
    <2>2. lifecycle' \in Locks BY <2>1, TypedLocks DEF Locks
    <2>3. \A t \in Teams : lifecycle'[t] = IF lifecycle[t] = p THEN NoOne ELSE lifecycle[t] BY <2>1
    <2>q. QED BY <2>1, <2>2, <2>3, Frees
  <1>6. ASSUME NEW p \in Procs, RoleChanges(p) PROVE LockStep
    <2>1. delete_team_commit(p) \/ (lifecycle' = lifecycle /\ ~Acting(p, "delete_team"))
      BY <1>6 DEF RoleChanges, add_team, join, update_role, leave, reconcile_sso_memberships,
              register, purge, Acting
    <2>2. Finished(p) BY <1>6, RoleChangesKeep
    <2>q. QED BY <1>4, <2>1, <2>2, NotLocked
  <1>7. ASSUME NEW p \in Procs, KeyChanges(p) PROVE LockStep
    <2>1. lifecycle' = lifecycle /\ ~Acting(p, "delete_team") /\ Finished(p)
      BY <1>7, KeyChangesKeep DEF Acting
    <2>q. QED BY <2>1, NotLocked
  <1>8. ASSUME NEW p \in Procs, Others(p) PROVE LockStep
    <2>1. Crash(p) \/ (lifecycle' = lifecycle /\ ~Acting(p, "delete_team"))
      BY <1>8 DEF Others, add_organization, delete_org, add_invite, add_sp, toggle_sp,
              set_or_remove_key_budget, set_auditor, remove_user, serve, change_guardrails,
              execute, record_audit, Acting
    <2>2. Finished(p) BY <1>8, OthersKeep
    <2>q. QED BY <1>5, <2>1, <2>2, NotLocked
  <1>9. ASSUME req' = req, lifecycle' = lifecycle PROVE LockStep
    <2>1. LocksOK' BY <1>9 DEF LocksOK, Acting
    <2>q. QED BY <1>9, <2>1, LocksUntouched
  <1>10. ASSUME NEW i \in Invites, InviteExpires(i) PROVE req' = req /\ lifecycle' = lifecycle
    BY <1>10 DEF InviteExpires
  <1>11. ASSUME NEW k \in Keys, GraceEnds(k) PROVE req' = req /\ lifecycle' = lifecycle
    BY <1>11 DEF GraceEnds
  <1>q. QED BY <1>2, <1>3, <1>6, <1>7, <1>8, <1>9, <1>10, <1>11, delete_team_check_Locks, AllSteps

\* How a team's row turns: it is created, ends under its lock, or is purged,
\* with a record, once it was tombstoned.
LEMMA TeamTurns ==
    ASSUME AccessTypes, RequestsOK, StrangersOK, LocksOK, AccessNext, NEW t \in Teams
    PROVE  \/ teams'[t].row = teams[t].row
           \/ /\ teams[t].row = "absent" /\ teams'[t].row = "live"
              /\ \E u \in Users : members'[t][u].role = "admin"
           \/ lifecycle[t] # NoOne /\ teams'[t].row \in {"tombstoned", "gone"}
           \/ /\ teams[t].row = "tombstoned" /\ teams'[t].row = "purged"
              /\ \E e \in log' : e.op = "purge_team" /\ e.team = t
  <1> DEFINE Goal ==
           \/ teams'[t].row = teams[t].row
           \/ /\ teams[t].row = "absent" /\ teams'[t].row = "live"
              /\ \E u \in Users : members'[t][u].role = "admin"
           \/ lifecycle[t] # NoOne /\ teams'[t].row \in {"tombstoned", "gone"}
           \/ /\ teams[t].row = "tombstoned" /\ teams'[t].row = "purged"
              /\ \E e \in log' : e.op = "purge_team" /\ e.team = t
  <1>0. teams \in [Teams -> TeamRow] BY TypedRows DEF TeamRow
  <1>1. CASE teams' = teams BY <1>1
  <1>2. ASSUME NEW p \in Procs, add_team(p), teams' # teams PROVE Goal
    <2>1. /\ teams' = [teams EXCEPT ![req[p].team] = [row |-> "live", org |-> req[p].key, billed |-> FALSE]]
          /\ teams[req[p].team].row = "absent"
      BY <1>2 DEF add_team
    <2>2. CASE t # req[p].team
      <3>1. teams'[t] = teams[t] BY <1>0, <2>1, <2>2
      <3>q. QED BY <3>1
    <2>3. CASE t = req[p].team
      <3>1. teams[t].row = "absent" /\ teams'[t].row = "live" BY <1>0, <2>1, <2>3
      <3>2. \E u \in Users : members'[t][u].role = "admin" BY <1>2, <2>3, add_team_Writes
      <3>q. QED BY <3>1, <3>2
    <2>q. QED BY <2>2, <2>3
  <1>3. ASSUME NEW p \in Procs, delete_team_commit(p) PROVE Goal
    <2>1. Acting(p, "delete_team")
          /\ \/ teams' = teams
             \/ \E to \in {"tombstoned", "gone"} : teams' = [teams EXCEPT ![req[p].team].row = to]
      BY <1>3 DEF delete_team_commit
    <2>2. teams'[t].row = teams[t].row \/ (t = req[p].team /\ teams'[t].row \in {"tombstoned", "gone"})
      BY <1>0, <2>1 DEF TeamRow
    <2>3. lifecycle[req[p].team] # NoOne BY <2>1, DeletesName, TypedLocks
    <2>q. QED BY <2>2, <2>3
  <1>4. ASSUME NEW p \in Procs, purge(p), teams' # teams PROVE Goal
    <2>1. /\ Acting(p, "purge_team") /\ teams[req[p].team].row = "tombstoned"
          /\ teams' = [teams EXCEPT ![req[p].team].row = "purged"]
          /\ Entry(req[p]) \in log'
      BY <1>4 DEF purge
    <2>2. \/ teams'[t] = teams[t]
          \/ t = req[p].team /\ teams[t].row = "tombstoned" /\ teams'[t].row = "purged"
      BY <1>0, <2>1 DEF TeamRow
    <2>3. Entry(req[p]).op = "purge_team" /\ Entry(req[p]).team = req[p].team
      BY <2>1 DEF Entry, Acting
    <2>q. QED BY <2>1, <2>2, <2>3
  <1>5. ASSUME NEW p \in Procs, execute(p) PROVE Goal
    <2>1. \E b : teams' = [teams EXCEPT ![req[p].team].billed = b] BY <1>5 DEF execute
    <2>2. teams'[t].row = teams[t].row BY <1>0, <2>1 DEF TeamRow
    <2>q. QED BY <2>2
  <1>6. ASSUME NEW p \in Procs, RoleChanges(p)
        PROVE  teams' = teams \/ add_team(p) \/ delete_team_commit(p) \/ purge(p)
    BY <1>6 DEF RoleChanges, join, update_role, leave, reconcile_sso_memberships, register
  <1>7. ASSUME NEW p \in Procs, Others(p) PROVE teams' = teams \/ execute(p)
    BY <1>7 DEF Others, add_organization, delete_org, add_invite, add_sp, toggle_sp,
            set_or_remove_key_budget, set_auditor, remove_user, serve, change_guardrails,
            record_audit, Crash
  <1>8. ASSUME NEW p \in Procs, Calls(p) \/ delete_team_check(p) \/ set_role_check(p)
                                \/ remove_member_check(p) \/ reconcile_sso_read(p)
        PROVE  teams' = teams
    BY <1>8, CallsKeep, ChecksKeep DEF AccessRows
  <1>9. ASSUME NEW p \in Procs, KeyChanges(p) PROVE teams' = teams BY <1>9, KeyChangesKeep
  <1>10. ASSUME NEW i \in Invites, InviteExpires(i) PROVE teams' = teams BY <1>10 DEF InviteExpires
  <1>11. ASSUME NEW k \in Keys, GraceEnds(k) PROVE teams' = teams BY <1>11 DEF GraceEnds
  <1> HIDE DEF Goal
  <1>12. teams' = teams => Goal BY <1>1 DEF Goal
  <1>q. QED BY <1>2, <1>3, <1>4, <1>5, <1>6, <1>7, <1>8, <1>9, <1>10, <1>11, <1>12, AllSteps DEF Goal

-----------------------------------------------------------------------------
(* The invariant, one part at a time.                                      *)

LEMMA AdminFlagsStep ==
    ASSUME AccessTypes, RequestsOK, AdminFlagsOK, AccessNext
    PROVE  AdminFlagsOK'
  BY UsersStep DEF UsersWritten, AdminFlagsOK

LEMMA StrangersStep ==
    ASSUME AccessTypes, RequestsOK, StrangersOK, InvitesOK, AccessNext
    PROVE  StrangersOK'
  <1>1. CASE UNCHANGED <<members, managers>>
    <2>1. \A t \in Teams : teams'[t].row = "absent" => teams[t].row = "absent"
      BY TeamsStep DEF TeamsWritten
    <2>2. \A u \in Users : users'[u].row = "absent" => users[u].row = "absent"
      BY UsersStep DEF UsersWritten
    <2>q. QED BY <1>1, <2>1, <2>2 DEF StrangersOK
  <1>2. ASSUME NEW p \in Procs, Written(p) PROVE StrangersOK'
    BY <1>2 DEF Written, StrangersOK
  <1>q. QED BY <1>1, <1>2, MembersStep

LEMMA ManagersStep ==
    ASSUME AccessTypes, RequestsOK, StrangersOK, InvitesOK, ManagersOK, AccessNext
    PROVE  /\ ManagersOK' /\ managers' \subseteq Users \X Teams
           /\ managers \subseteq managers' /\ members' \in Table
  <1>0. managers \subseteq Users \X Teams /\ members \in Table
    BY TypedRows DEF AccessTypes, AccessTypeOK
  <1>1. CASE members' = members /\ managers' = managers BY <1>0, <1>1 DEF ManagersOK
  <1>2. CASE /\ managers' = managers \cup {x \in Users \X Teams : members'[x[2]][x[1]].role = "admin"}
             /\ members' \in Table
    <2>1. \A t \in Teams, u \in Users : members'[t][u].role = "admin" => <<u, t>> \in managers'
      BY <1>2
    <2>2. managers' \subseteq Users \X Teams /\ managers \subseteq managers' BY <1>0, <1>2
    <2>q. QED BY <1>2, <2>1, <2>2 DEF ManagersOK
  <1>3. ASSUME NEW p \in Procs, Written(p)
        PROVE  \/ members' = members /\ managers' = managers
               \/ /\ managers' = managers \cup {x \in Users \X Teams : members'[x[2]][x[1]].role = "admin"}
                  /\ members' \in Table
    BY <1>3 DEF Written
  <1>q. QED BY <1>1, <1>2, <1>3, MembersStep

LEMMA ManagesKept ==
    ASSUME managers \subseteq managers', NEW u, NEW t, Manages(u, t, managers)
    PROVE  Manages(u, t, managers')
  BY DEF Manages

LEMMA KeysOwnedStep ==
    ASSUME AccessTypes, RequestsOK, KeysOwned, AccessNext
    PROVE  KeysOwned' /\ keys' \in [Keys -> KeyRow] /\ holders' \subseteq Users \X Keys /\ late' \subseteq Keys
  <1>1. CASE UNCHANGED <<keys, holders, late>> BY <1>1, TypedKeys DEF KeysOwned
  <1>2. CASE KeysWritten
    <2>1. \A k \in Keys : keys'[k].row = "absent" => keys'[k] = keys[k] BY <1>2 DEF KeysWritten
    <2>2. KeysOwned' BY <2>1 DEF KeysOwned
    <2>q. QED BY <1>2, <2>2 DEF KeysWritten
  <1>q. QED BY <1>1, <1>2, TeamKeysStep

\* A team's guardrails are changed by whom the request was authorized for.
LEMMA EditorsStep ==
    ASSUME AccessTypes, RequestsOK, AccessNext
    PROVE  \A e \in editors' : \/ e \in editors
                               \/ /\ e \in Callers \X Teams
                                  /\ Manages(e[1], e[2], managers) \/ ManagesByKey(e[1], e[2], keys)
  <1>1. ASSUME NEW p \in Procs, change_guardrails(p), NEW e \in editors', e \notin editors
        PROVE  /\ e \in Callers \X Teams
               /\ Manages(e[1], e[2], managers) \/ ManagesByKey(e[1], e[2], keys)
    <2>1. e = <<req[p].by, req[p].team>> /\ Acting(p, "guardrails") BY <1>1 DEF change_guardrails
    <2>2. Manages(req[p].by, req[p].team, managers) \/ ManagesByKey(req[p].by, req[p].team, keys)
      BY <2>1 DEF RequestsOK, MayAct, Acting
    <2>3. req[p].team \in Teams BY <2>1, ActingFields DEF Acting
    <2>4. req[p].by \in Callers BY <2>2 DEF Manages, ManagesByKey, Callers
    <2>q. QED BY <2>1, <2>2, <2>3, <2>4
  <1>2. ASSUME NEW p \in Procs, Others(p) PROVE editors' = editors \/ change_guardrails(p)
    BY <1>2 DEF Others, add_organization, delete_org, add_invite, add_sp, toggle_sp,
            set_or_remove_key_budget, set_auditor, remove_user, serve, execute, record_audit, Crash
  <1>3. ASSUME NEW p \in Procs, Calls(p) \/ delete_team_check(p) \/ set_role_check(p)
                                \/ remove_member_check(p) \/ reconcile_sso_read(p)
        PROVE  editors' = editors
    BY <1>3, CallsKeep, ChecksKeep DEF AccessRows
  <1>4. ASSUME NEW p \in Procs, RoleChanges(p) \/ KeyChanges(p) PROVE editors' = editors
    BY <1>4, RoleChangesKeep, KeyChangesKeep
  <1>5. ASSUME NEW i \in Invites, InviteExpires(i) PROVE editors' = editors BY <1>5 DEF InviteExpires
  <1>6. ASSUME NEW k \in Keys, GraceEnds(k) PROVE editors' = editors BY <1>6 DEF GraceEnds
  <1>q. QED BY <1>1, <1>2, <1>3, <1>4, <1>5, <1>6, AllSteps

\* Who was handed a key, and who changed guardrails.
LEMMA AuthorityStep ==
    ASSUME AccessTypes, RequestsOK, StrangersOK, InvitesOK, ManagersOK, KeysOwned, AuthorityOK, NoEscalation,
           AccessNext
    PROVE  AuthorityOK' /\ NoEscalation' /\ editors' \subseteq Callers \X Teams
  <1>0. managers \subseteq managers' BY ManagersStep
  <1>1. \A k \in Keys : keys[k].row # "absent" =>
          keys'[k].row # "absent" /\ keys'[k].mgmt = keys[k].mgmt /\ keys'[k].team = keys[k].team
    BY KeptStep DEF RequestsKept
  <1>2. \A h \in holders : h[1] \in Users /\ h[2] \in Keys BY TypedKeys
  <1>3. \A h \in holders : /\ keys'[h[2]].row # "absent"
                           /\ keys'[h[2]].mgmt => Manages(h[1], keys'[h[2]].team, managers')
    BY <1>0, <1>1, <1>2 DEF AuthorityOK, NoEscalation, Managed, Manages
  <1>4. \A h \in holders' : h \in holders \/ (/\ keys'[h[2]].row # "absent"
                                              /\ keys'[h[2]].mgmt => Manages(h[1], keys'[h[2]].team, managers))
    BY TeamKeysStep DEF KeysWritten
  <1>5. \A h \in holders' : /\ keys'[h[2]].row # "absent"
                            /\ keys'[h[2]].mgmt => Manages(h[1], keys'[h[2]].team, managers')
    BY <1>0, <1>3, <1>4, ManagesKept
  <1>6. NoEscalation' BY <1>5 DEF NoEscalation, Managed, Manages
  <1>7. \A u, t : Manages(u, t, managers) => Manages(u, t, managers') BY <1>0, ManagesKept
  <1>8. \A k, t : ManagesByKey(k, t, keys) => ManagesByKey(k, t, keys') BY <1>1 DEF ManagesByKey
  <1>9. \A e \in editors' : Manages(e[1], e[2], managers) \/ ManagesByKey(e[1], e[2], keys)
    BY EditorsStep DEF AuthorityOK
  <1>10. \A e \in editors' : Manages(e[1], e[2], managers') \/ ManagesByKey(e[1], e[2], keys')
    BY <1>7, <1>8, <1>9
  <1>11. editors' \subseteq Callers \X Teams BY EditorsStep DEF AccessTypes, AccessTypeOK
  <1>q. QED BY <1>5, <1>6, <1>10, <1>11 DEF AuthorityOK

LEMMA LateStep ==
    ASSUME AccessTypes, RequestsOK, AdminFlagsOK, ManagersOK, StrangersOK, InvitesOK, KeysOwned, LocksOK, LateOK,
           AccessNext
    PROVE  LateOK'
  <1> SUFFICES ASSUME NEW t \in Teams, lifecycle'[t] # NoOne \/ teams'[t].row \in TeamGone,
                      NEW k \in Keys, keys'[k].row # "absent", keys'[k].team = t
               PROVE  k \in late'
    BY DEF LateOK, TeamKeys
  <1>1. late \subseteq late' BY TeamKeysStep DEF KeysWritten
  <1>2. CASE lifecycle[t] = NoOne /\ teams[t].row \notin TeamGone
    <2>1. lifecycle'[t] # NoOne BY <1>2, TeamTurns DEF TeamGone
    <2>2. TeamEmpty(t) /\ keys' = keys BY <1>2, <2>1, LocksStep DEF LockStep
    <2>q. QED BY <2>2 DEF TeamEmpty, TeamKeys
  <1>3. CASE lifecycle[t] # NoOne \/ teams[t].row \in TeamGone
    <2>1. CASE keys[k].row # "absent"
      <3>1. keys[k].team = t BY <2>1, KeptStep DEF RequestsKept
      <3>q. QED BY <1>1, <1>3, <2>1, <3>1 DEF LateOK, TeamKeys
    <2>2. CASE keys[k].row = "absent"
      <3>1. ~(Live(t) /\ lifecycle[t] = NoOne) BY <1>3 DEF Live, TeamGone
      <3>q. QED BY <2>2, <3>1, TeamKeysStep DEF KeysWritten
    <2>q. QED BY <2>1, <2>2
  <1>q. QED BY <1>2, <1>3

LEMMA InvitesKept ==
    ASSUME AccessTypes, RequestsOK, InvitesOK, AccessNext
    PROVE  InvitesOK'
  <1> SUFFICES ASSUME NEW i \in Invites
               PROVE  /\ joined'[i] \in {0, 1}
                      /\ joined'[i] = 1 => invites'[i].state \in {"used", "gone"}
                      /\ invites'[i].state = "open" => invites'[i].team \in Teams /\ invites'[i].role \in Roles
    BY DEF InvitesOK
  <1>1. InvitesWritten BY InvitesStep
  <1>2. CASE joined'[i] = joined[i]
    BY <1>1, <1>2 DEF InvitesWritten, InvitesOK
  <1>3. CASE invites[i].state = "open" /\ invites'[i].state = "used" /\ joined'[i] = joined[i] + 1
    BY <1>3 DEF InvitesOK
  <1>q. QED BY <1>1, <1>2, <1>3 DEF InvitesWritten

LEMMA AuditedStep ==
    ASSUME AccessTypes, RequestsOK, StrangersOK, KeysOwned, LocksOK, ChangesAudited, AccessNext
    PROVE  ChangesAudited'
  <1>0. log \subseteq log' BY TeamKeysStep DEF KeysWritten
  <1>1. ASSUME NEW t \in Teams, teams'[t].row = "purged" PROVE \E e \in log' : e.op = "purge_team" /\ e.team = t
    BY <1>0, <1>1, TeamTurns DEF ChangesAudited
  <1>2. ASSUME NEW k \in Keys, keys'[k].rotated PROVE \E e \in log' : e.op = "rotate" /\ e.key = k
    <2>1. keys[k].rotated \/ \E e \in log' : e.op = "rotate" /\ e.key = k
      BY <1>2, TeamKeysStep DEF KeysWritten
    <2>q. QED BY <1>0, <2>1 DEF ChangesAudited
  <1>q. QED BY <1>1, <1>2 DEF ChangesAudited

-----------------------------------------------------------------------------
(* A team keeps an admin, unless two role changes of it were in flight.    *)

\* An admin who is not the last one is not the only one.
LEMMA NotLast ==
    ASSUME NEW t \in Teams, NEW u \in Users, ~_is_last_admin(t, u), \E v \in Users : members[t][v].role = "admin"
    PROVE  OtherAdmin(t, u)
  <1> SUFFICES ASSUME ~OtherAdmin(t, u) PROVE FALSE
    OBVIOUS
  <1>1. {v \in Users : members[t][v].role = "admin"} = {u} BY DEF OtherAdmin
  <1>2. members[t][u].role = "admin" BY <1>1
  <1>3. count_admins(t) = Cardinality({u}) BY <1>1 DEF count_admins
  <1>4. count_admins(t) = 1 BY <1>3, FS_Singleton
  <1>q. QED BY <1>2, <1>4 DEF _is_last_admin

LEMMA TakesTouches ==
    ASSUME RequestsOK, NEW p \in Procs, NEW t \in Teams, TakesAdmin(p, t)
    PROVE  Touches(p, t) /\ teams[t].row # "absent"
  <1>1. MayAct(req[p], managers, keys, teams) BY DEF RequestsOK
  <1> DEFINE r == req[p]
  <1>2. TakesBy(r, t) BY DEF TakesAdmin
  <1>3. MayAct(r, managers, keys, teams) BY <1>1
  <1> HIDE DEF r
  <1>4. TouchesBy(r, t) /\ teams[t].row # "absent" BY <1>2, <1>3 DEF TakesBy, TouchesBy, MayAct
  <1>q. QED BY <1>4 DEF Touches, r

\* A role change begins: what it touches is noted, and it does not take the
\* role from the last admin.
LEMMA RoleCheckBegins ==
    ASSUME AccessTypes, AdminFlagsOK, ManagersOK, NEW p \in Procs,
           set_role_check(p) \/ remove_member_check(p) \/ reconcile_sso_read(p)
    PROVE  \E r \in Request, ts \in SUBSET Teams :
              /\ Begins(p, r) /\ r.user \in Users /\ Overlaps(p, ts)
              /\ \A t \in Teams : /\ TouchesBy(r, t) => t \in ts
                                  /\ TakesBy(r, t) => Live(t) /\ ~_is_last_admin(t, r.user)
  <1>1. CASE set_role_check(p)
    <2>1. PICK r \in Request :
              /\ Begins(p, r) /\ r.ep.op = "set_role" /\ r.team \in Teams /\ r.user \in Users
              /\ Overlaps(p, {r.team}) /\ Live(r.team)
              /\ r.role # "admin" => ~_is_last_admin(r.team, r.user)
      BY <1>1, set_role_check_Begins
    <2>2. PICK ts \in SUBSET Teams : ts = {r.team} BY <2>1
    <2>3. Overlaps(p, ts) BY <2>1, <2>2
    <2>4. \A t \in Teams : /\ TouchesBy(r, t) => t \in ts
                           /\ TakesBy(r, t) => Live(t) /\ ~_is_last_admin(t, r.user)
      BY <2>1, <2>2 DEF TouchesBy, TakesBy
    <2>q. QED BY <2>1, <2>3, <2>4
  <1>2. CASE remove_member_check(p)
    <2>1. PICK r \in Request :
              /\ Begins(p, r) /\ r.ep.op = "remove_member" /\ r.team \in Teams /\ r.user \in Users
              /\ Overlaps(p, {r.team}) /\ Live(r.team) /\ ~_is_last_admin(r.team, r.user)
      BY <1>2, remove_member_check_Begins
    <2>2. PICK ts \in SUBSET Teams : ts = {r.team} BY <2>1
    <2>3. Overlaps(p, ts) BY <2>1, <2>2
    <2>4. \A t \in Teams : /\ TouchesBy(r, t) => t \in ts
                           /\ TakesBy(r, t) => Live(t) /\ ~_is_last_admin(t, r.user)
      BY <2>1, <2>2 DEF TouchesBy, TakesBy
    <2>q. QED BY <2>1, <2>3, <2>4
  <1>3. CASE reconcile_sso_read(p)
    <2>1. PICK r \in Request :
              /\ Begins(p, r) /\ r.ep.op = "sso" /\ r.user \in Users
              /\ Overlaps(p, Governed)
              /\ \A x \in r.plan : /\ x.team \in Governed /\ Live(x.team)
                                   /\ x.role # "admin" /\ x.do # "add" => ~_is_last_admin(x.team, r.user)
      BY <1>3, reconcile_sso_read_Begins
    <2>2. ASSUME NEW t \in Teams
          PROVE  /\ TouchesBy(r, t) => t \in Governed
                 /\ TakesBy(r, t) => Live(t) /\ ~_is_last_admin(t, r.user)
      <3>1. r.ep.op = "sso" BY <2>1
      <3>2. \A x \in r.plan : x.team = t /\ x.role # "admin" /\ x.do # "add" =>
                                 Live(t) /\ ~_is_last_admin(t, r.user)
        BY <2>1
      <3>3. TouchesBy(r, t) => t \in Governed BY <3>1 DEF TouchesBy
      <3>4. TakesBy(r, t) => \E x \in r.plan : x.team = t /\ x.role # "admin" /\ x.do # "add"
        BY <3>1 DEF TakesBy
      <3>q. QED BY <3>2, <3>3, <3>4
    <2>3. PICK ts \in SUBSET Teams : ts = Governed BY GovernedTeams
    <2>4. Begins(p, r) /\ r.user \in Users /\ Overlaps(p, ts) BY <2>1, <2>3
    <2>5. \A t \in Teams : /\ TouchesBy(r, t) => t \in ts
                           /\ TakesBy(r, t) => Live(t) /\ ~_is_last_admin(t, r.user)
      BY <2>2, <2>3
    <2>q. QED BY <2>4, <2>5
  <1>q. QED BY <1>1, <1>2, <1>3

\* The other requests that begin change no role.
LEMMA NoRoleBegins ==
    ASSUME AccessTypes, AdminFlagsOK, ManagersOK, InvitesOK, NEW p \in Procs, Calls(p) \/ delete_team_check(p)
    PROVE  \E r \in Request : Begins(p, r) /\ \A t : ~TouchesBy(r, t) /\ ~TakesBy(r, t)
  <1>1. PICK r \in Request : Begins(p, r) /\ r.ep.op \notin {"set_role", "remove_member", "sso"}
    <2>1. CASE Calls(p) BY <2>1, CallsBegin DEF Exclusive
    <2>2. CASE delete_team_check(p)
      <3>1. PICK r \in Request : Begins(p, r) /\ r.ep.op = "delete_team" BY <2>2, delete_team_check_Begins
      <3>q. QED BY <3>1
    <2>q. QED BY <2>1, <2>2
  <1>q. QED BY <1>1 DEF TouchesBy, TakesBy

LEMMA InFlightTouches ==
    ASSUME NEW q \in Procs, NEW t \in Teams, Touches(q, t)
    PROVE  InFlight(q, t)
  BY DEF Touches, TouchesBy, InFlight, RoleOps

\* What a beginning request touches, nobody touches unnoticed.
LEMMA AloneBegins ==
    ASSUME AccessTypes, AloneOK, NEW p \in Procs, NEW r, Becomes(p, r), raced \subseteq raced',
           \A t \in Teams, q \in Procs \ {p} : TouchesBy(r, t) /\ Touches(q, t) => t \in raced'
    PROVE  AloneOK'
  <1> SUFFICES ASSUME NEW a \in Procs, NEW b \in Procs, NEW t \in Teams, t \notin raced',
                      TouchesBy(req'[a], t), TouchesBy(req'[b], t)
               PROVE  a = b
    BY DEF AloneOK, Touches
  <1>1. t \notin raced OBVIOUS
  <1>2. \A q \in Procs \ {p} : req'[q] = req[q] BY DEF Becomes
  <1>3. req'[p] = r BY DEF Becomes
  <1>4. CASE a # p /\ b # p BY <1>1, <1>2, <1>4 DEF AloneOK, Touches
  <1>5. CASE a = p /\ b # p
    <2>1. TouchesBy(r, t) /\ Touches(b, t) BY <1>2, <1>3, <1>5 DEF Touches
    <2>q. QED BY <1>5, <2>1
  <1>6. CASE a # p /\ b = p
    <2>1. TouchesBy(r, t) /\ Touches(a, t) BY <1>2, <1>3, <1>6 DEF Touches
    <2>q. QED BY <1>6, <2>1
  <1>q. QED BY <1>4, <1>5, <1>6

LEMMA FinishedBecomes ==
    ASSUME AccessTypes, RequestsOK, NEW p \in Procs, Finished(p)
    PROVE  \E r : Becomes(p, r) /\ r.at # "act"
  <1>1. PICK r \in Request : req' = [req EXCEPT ![p] = r] /\ r.at # "act"
    BY TypedLocks, Finishes DEF Finished
  <1>2. Becomes(p, r) BY <1>1, MovesOne
  <1>q. QED BY <1>1, <1>2

\* Role changes in flight together are noted, and stay noted.
LEMMA RacedStep ==
    ASSUME AccessTypes, RequestsOK, AdminFlagsOK, ManagersOK, InvitesOK, AloneOK, AccessNext
    PROVE  raced \subseteq raced' /\ raced' \subseteq Teams /\ AloneOK'
  <1>0. raced \subseteq Teams BY DEF AccessTypes, AccessTypeOK
  <1>1. ASSUME NEW p \in Procs, set_role_check(p) \/ remove_member_check(p) \/ reconcile_sso_read(p)
        PROVE  raced \subseteq raced' /\ raced' \subseteq Teams /\ AloneOK'
    <2>1. PICK r \in Request, ts \in SUBSET Teams :
              /\ Begins(p, r) /\ Overlaps(p, ts) /\ \A t \in Teams : TouchesBy(r, t) => t \in ts
      BY <1>1, RoleCheckBegins
    <2>2. Becomes(p, r) BY <2>1, MovesOne DEF Begins
    <2>3. raced \subseteq raced' /\ raced' \subseteq Teams BY <1>0, <2>1 DEF Overlaps
    <2>4. \A t \in ts, q \in Procs \ {p} : InFlight(q, t) => t \in raced' BY <2>1 DEF Overlaps
    <2>5. \A t \in Teams, q \in Procs \ {p} : TouchesBy(r, t) /\ Touches(q, t) => t \in raced'
      BY <2>1, <2>4, InFlightTouches
    <2>q. QED BY <2>2, <2>3, <2>5, AloneBegins
  <1>2. ASSUME NEW p \in Procs, Calls(p) \/ delete_team_check(p)
        PROVE  raced' = raced /\ AloneOK'
    <2>1. PICK r \in Request : Begins(p, r) /\ \A t : ~TouchesBy(r, t)
      BY <1>2, NoRoleBegins
    <2>2. Becomes(p, r) BY <2>1, MovesOne DEF Begins
    <2>3. raced' = raced BY <1>2, CallsKeep, ChecksKeep
    <2>q. QED BY <2>1, <2>2, <2>3, AloneBegins
  <1>3. ASSUME NEW p \in Procs, RoleChanges(p) \/ KeyChanges(p) \/ Others(p)
        PROVE  raced' = raced /\ AloneOK'
    <2>1. raced' = raced /\ Finished(p) BY <1>3, RoleChangesKeep, KeyChangesKeep, OthersKeep
    <2>2. PICK r : Becomes(p, r) /\ r.at # "act" BY <2>1, FinishedBecomes
    <2>3. \A t : ~TouchesBy(r, t) BY <2>2 DEF TouchesBy
    <2>q. QED BY <2>1, <2>2, <2>3, AloneBegins
  <1>4. ASSUME req' = req, raced' = raced PROVE AloneOK'
    BY <1>4 DEF AloneOK, Touches
  <1>5. ASSUME NEW i \in Invites, InviteExpires(i) PROVE req' = req /\ raced' = raced
    BY <1>5 DEF InviteExpires
  <1>6. ASSUME NEW k \in Keys, GraceEnds(k) PROVE req' = req /\ raced' = raced
    BY <1>6 DEF GraceEnds
  <1>q. QED BY <1>0, <1>1, <1>2, <1>3, <1>4, <1>5, <1>6, AllSteps

\* A step that leaves the memberships alone.
LEMMA AdminsStay ==
    ASSUME AccessTypes, RequestsOK, StrangersOK, LocksOK, AdminsOK, AccessNext,
           members' = members, raced \subseteq raced',
           NEW p \in Procs, NEW r, Becomes(p, r),
           \A t \in Teams : TakesBy(r, t) => r.user \in Users /\ Live(t) /\ ~_is_last_admin(t, r.user)
    PROVE  AdminsOK'
  <1> SUFFICES ASSUME NEW t \in Teams, t \notin raced', teams'[t].row = "live"
               PROVE  /\ \E u \in Users : members'[t][u].role = "admin"
                      /\ \A q \in Procs : TakesBy(req'[q], t) =>
                            \E v \in Users \ {req'[q].user} : members'[t][v].role = "admin"
    BY DEF AdminsOK, Live, TakesAdmin, OtherAdmin
  <1>1. t \notin raced OBVIOUS
  <1>2. CASE teams[t].row = "live"
    <2>1. Live(t) BY <1>2 DEF Live
    <2>2. \E u \in Users : members[t][u].role = "admin" BY <1>1, <2>1 DEF AdminsOK
    <2>3. ASSUME NEW q \in Procs, TakesBy(req'[q], t)
          PROVE  \E v \in Users \ {req'[q].user} : members[t][v].role = "admin"
      <3>1. CASE q = p
        <4>1. req'[q] = r BY <3>1 DEF Becomes
        <4>2. r.user \in Users /\ ~_is_last_admin(t, r.user) BY <2>3, <4>1
        <4>q. QED BY <2>2, <4>1, <4>2, NotLast DEF OtherAdmin
      <3>2. CASE q # p
        <4>1. req'[q] = req[q] BY <3>2 DEF Becomes
        <4>2. TakesAdmin(q, t) BY <2>3, <4>1 DEF TakesAdmin
        <4>q. QED BY <1>1, <2>1, <4>1, <4>2 DEF AdminsOK, OtherAdmin
      <3>q. QED BY <3>1, <3>2
    <2>q. QED BY <2>2, <2>3
  <1>3. CASE teams[t].row # "live"
    <2>1. teams[t].row = "absent" /\ \E u \in Users : members'[t][u].role = "admin"
      BY <1>3, TeamTurns
    <2>2. ASSUME NEW q \in Procs, TakesBy(req'[q], t) PROVE FALSE
      <3>1. CASE q = p
        <4>1. Live(t) BY <2>2, <3>1 DEF Becomes
        <4>q. QED BY <1>3, <4>1 DEF Live
      <3>2. CASE q # p
        <4>1. TakesAdmin(q, t) BY <2>2, <3>2 DEF TakesAdmin, Becomes
        <4>q. QED BY <2>1, <4>1, TakesTouches
      <3>q. QED BY <3>1, <3>2
    <2>q. QED BY <2>1, <2>2
  <1>q. QED BY <1>2, <1>3

\* A step that writes memberships.
LEMMA AdminsChange ==
    ASSUME AccessTypes, RequestsOK, StrangersOK, LocksOK, AloneOK, AdminsOK, AccessNext,
           raced \subseteq raced', NEW p \in Procs, Written(p),
           NEW r, Becomes(p, r), r.at # "act"
    PROVE  AdminsOK'
  <1> SUFFICES ASSUME NEW t \in Teams, t \notin raced', teams'[t].row = "live"
               PROVE  /\ \E u \in Users : members'[t][u].role = "admin"
                      /\ \A q \in Procs : TakesBy(req'[q], t) =>
                            \E v \in Users \ {req'[q].user} : members'[t][v].role = "admin"
    BY DEF AdminsOK, Live, TakesAdmin, OtherAdmin
  <1>1. t \notin raced OBVIOUS
  <1>2. \A q \in Procs : TakesBy(req'[q], t) => q # p /\ req'[q] = req[q] /\ TakesAdmin(q, t)
    BY DEF Becomes, TakesAdmin, TakesBy
  <1>3. CASE teams[t].row = "live"
    <2>1. Live(t) BY <1>3 DEF Live
    <2>2. \A u \in Users : members[t][u].role = "admin" /\ members'[t][u].role # "admin" =>
             TakesAdmin(p, t) /\ u = req[p].user
      BY DEF Written
    <2>3. \E u \in Users : members'[t][u].role = "admin"
      <3>1. PICK u \in Users : members[t][u].role = "admin" BY <1>1, <2>1 DEF AdminsOK
      <3>2. CASE members'[t][u].role # "admin"
        <4>1. TakesAdmin(p, t) BY <2>2, <3>1, <3>2
        <4>2. PICK v \in Users \ {req[p].user} : members[t][v].role = "admin"
          BY <1>1, <2>1, <4>1 DEF AdminsOK, OtherAdmin
        <4>q. QED BY <2>2, <4>2
      <3>q. QED BY <3>2
    <2>4. ASSUME NEW q \in Procs, TakesBy(req'[q], t)
          PROVE  \E v \in Users \ {req'[q].user} : members'[t][v].role = "admin"
      <3>1. q # p /\ req'[q] = req[q] /\ TakesAdmin(q, t) BY <1>2, <2>4
      <3>2. ~TakesAdmin(p, t)
        <4>1. SUFFICES ASSUME TakesAdmin(p, t) PROVE FALSE OBVIOUS
        <4>2. Touches(p, t) /\ Touches(q, t) BY <3>1, <4>1, TakesTouches
        <4>q. QED BY <1>1, <3>1, <4>2 DEF AloneOK
      <3>3. PICK v \in Users \ {req[q].user} : members[t][v].role = "admin"
        BY <1>1, <2>1, <3>1 DEF AdminsOK, OtherAdmin
      <3>q. QED BY <2>2, <3>1, <3>2, <3>3
    <2>q. QED BY <2>3, <2>4
  <1>4. CASE teams[t].row # "live"
    <2>1. teams[t].row = "absent" /\ \E u \in Users : members'[t][u].role = "admin"
      BY <1>4, TeamTurns
    <2>2. \A q \in Procs : ~TakesBy(req'[q], t) BY <1>2, <2>1, TakesTouches
    <2>q. QED BY <2>1, <2>2
  <1>q. QED BY <1>3, <1>4

\* The check for the last admin holds until the change, or was raced.
LEMMA AdminsStep ==
    ASSUME AccessTypes, RequestsOK, AdminFlagsOK, ManagersOK, StrangersOK, InvitesOK, LocksOK, AloneOK, AdminsOK,
           AccessNext
    PROVE  AdminsOK'
  <1>0. raced \subseteq raced' BY RacedStep
  <1>1. ASSUME NEW p \in Procs, set_role_check(p) \/ remove_member_check(p) \/ reconcile_sso_read(p)
        PROVE  AdminsOK'
    <2>1. PICK r \in Request :
              /\ Begins(p, r) /\ r.user \in Users
              /\ \A t \in Teams : TakesBy(r, t) => Live(t) /\ ~_is_last_admin(t, r.user)
      BY <1>1, RoleCheckBegins
    <2>2. Becomes(p, r) BY <2>1, MovesOne DEF Begins
    <2>3. members' = members BY <1>1, ChecksKeep DEF AccessRows
    <2>q. QED BY <1>0, <2>1, <2>2, <2>3, AdminsStay
  <1>2. ASSUME NEW p \in Procs, Calls(p) \/ delete_team_check(p) PROVE AdminsOK'
    <2>1. PICK r \in Request : Begins(p, r) /\ \A t : ~TakesBy(r, t) BY <1>2, NoRoleBegins
    <2>2. Becomes(p, r) BY <2>1, MovesOne DEF Begins
    <2>3. members' = members BY <1>2, CallsKeep, ChecksKeep DEF AccessRows
    <2>q. QED BY <1>0, <2>1, <2>2, <2>3, AdminsStay
  <1>3. ASSUME NEW p \in Procs, KeyChanges(p) \/ Others(p) PROVE AdminsOK'
    <2>1. members' = members /\ Finished(p) BY <1>3, KeyChangesKeep, OthersKeep
    <2>2. PICK r : Becomes(p, r) /\ r.at # "act" BY <2>1, FinishedBecomes
    <2>3. \A t : ~TakesBy(r, t) BY <2>2 DEF TakesBy
    <2>q. QED BY <1>0, <2>1, <2>2, <2>3, AdminsStay
  <1>4. ASSUME NEW p \in Procs, RoleChanges(p) PROVE AdminsOK'
    <2>1. Written(p) /\ Finished(p) BY <1>4, RoleChangesWrite, RoleChangesKeep
    <2>2. PICK r : Becomes(p, r) /\ r.at # "act" BY <2>1, FinishedBecomes
    <2>q. QED BY <1>0, <2>1, <2>2, AdminsChange
  <1>5. ASSUME req' = req, members' = members, teams' = teams PROVE AdminsOK'
    BY <1>0, <1>5 DEF AdminsOK, Live, TakesAdmin, OtherAdmin
  <1>6. ASSUME NEW i \in Invites, InviteExpires(i) PROVE req' = req /\ members' = members /\ teams' = teams
    BY <1>6 DEF InviteExpires
  <1>7. ASSUME NEW k \in Keys, GraceEnds(k) PROVE req' = req /\ members' = members /\ teams' = teams
    BY <1>7 DEF GraceEnds
  <1>q. QED BY <1>1, <1>2, <1>3, <1>4, <1>5, <1>6, <1>7, AllSteps

-----------------------------------------------------------------------------
(* The invariant, and what it implies.                                     *)

LEMMA AccessStarts ==
    ASSUME AccessInit
    PROVE  AccessInv
  <1>1. 0 \in 0..MaxRejoin BY TeamAccessAssumption
  <1>2. \A t \in Teams, u \in Users : members[t][u] = NoMember BY DEF AccessInit
  <1>3. \A p \in Procs : req[p] = Idle BY DEF AccessInit
  <1>4. Idle.at = "idle" /\ Idle.ground = "none" BY DEF Idle
  <1>5. /\ \A t \in Teams : teams[t].row = "absent" /\ lifecycle[t] = NoOne
        /\ \A u \in Users : users[u].admin = (u \in Admins)
        /\ \A i \in Invites : invites[i].state = "absent" /\ joined[i] = 0
        /\ \A k \in Keys : keys[k].row = "absent" /\ ~keys[k].mgmt /\ keys[k].sp = NoOne /\ ~keys[k].rotated
        /\ holders = {} /\ editors = {}
    BY DEF AccessInit
  <1>6. AccessTypes
    <2>1. members \in [Teams -> [Users -> [role: Roles \cup {"none"}, gen: 0..MaxRejoin]]]
      BY <1>1 DEF AccessInit, NoMember
    <2>2. /\ orgs \in [Orgs -> {"absent", "live", "deleted"}]
          /\ teams \in [Teams -> [row: {"absent", "live", "tombstoned", "gone", "purged"},
                                  org: Orgs \cup {NoOne}, billed: BOOLEAN]]
          /\ lifecycle \in [Teams -> Procs \cup {NoOne}]
      BY DEF AccessInit
    <2>3. users \in [Users -> [row: {"absent", "live", "deleted"}, admin: BOOLEAN, auditor: BOOLEAN]]
      BY DEF AccessInit
    <2>4. /\ invites \in [Invites -> [state: {"absent", "open", "expired", "used", "gone"},
                                      team: Teams \cup {NoOne}, role: Roles \cup {"none"}]]
          /\ sps \in [SPs -> [state: {"absent", "enabled", "disabled", "deleted"}, team: Teams \cup {NoOne}]]
      BY DEF AccessInit
    <2>5. keys \in [Keys -> [row: {"absent", "active", "grace", "revoked"}, team: Teams \cup {NoOne},
                             sp: SPs \cup {NoOne}, mgmt: BOOLEAN, by: Users \cup {NoOne}, rotated: BOOLEAN]]
      BY DEF AccessInit
    <2>6. /\ managers \subseteq Users \X Teams /\ holders \subseteq Users \X Keys
          /\ editors \subseteq Callers \X Teams /\ raced \subseteq Teams /\ late \subseteq Keys
      BY DEF AccessInit
    <2>7. \A t \in Teams : lifecycle[t] \notin Procs BY <1>5, TeamAccessAssumption
    <2>8. req \in [Procs -> Request] BY IdleTyped DEF AccessInit
    <2>9. joined \in [Invites -> Nat] BY DEF AccessInit
    <2>q. QED BY <2>1, <2>2, <2>3, <2>4, <2>5, <2>6, <2>7, <2>8, <2>9 DEF AccessTypes, AccessTypeOK
  <1>7. RequestsOK BY <1>3, <1>4 DEF RequestsOK, MayAct
  <1>8. AdminFlagsOK /\ StrangersOK /\ ManagersOK
    <2>1. AdminFlagsOK BY <1>5 DEF AdminFlagsOK
    <2>2. StrangersOK BY <1>2 DEF StrangersOK
    <2>3. NoMember.role # "admin" BY DEF NoMember
    <2>4. ManagersOK BY <1>2, <2>3 DEF ManagersOK
    <2>q. QED BY <2>1, <2>2, <2>4
  <1>9. KeysOwned /\ AuthorityOK /\ NoEscalation BY <1>5 DEF KeysOwned, AuthorityOK, NoEscalation
  <1>10. LocksOK /\ LateOK BY <1>3, <1>4, <1>5 DEF LocksOK, LateOK, Acting, TeamGone
  <1>11. InvitesOK BY <1>5 DEF InvitesOK
  <1>12. AloneOK BY <1>3, <1>4 DEF AloneOK, Touches, TouchesBy
  <1>13. AdminsOK /\ ChangesAudited BY <1>5 DEF AdminsOK, ChangesAudited, Live
  <1>q. QED BY <1>6, <1>7, <1>8, <1>9, <1>10, <1>11, <1>12, <1>13 DEF AccessInv

LEMMA AccessSteps ==
    ASSUME AccessInv, [AccessNext]_accessVars
    PROVE  AccessInv'
  <1> USE DEF AccessInv
  <1>1. CASE AccessNext
    <2>1. RequestsOK' /\ req' \in [Procs -> Request] BY <1>1, RequestsStep
    <2>2. AdminFlagsOK' /\ StrangersOK' BY <1>1, AdminFlagsStep, StrangersStep
    <2>3. ManagersOK' /\ managers' \subseteq Users \X Teams /\ members' \in Table BY <1>1, ManagersStep
    <2>4. KeysOwned' /\ keys' \in [Keys -> KeyRow] /\ holders' \subseteq Users \X Keys /\ late' \subseteq Keys
      BY <1>1, KeysOwnedStep
    <2>5. AuthorityOK' /\ NoEscalation' /\ editors' \subseteq Callers \X Teams BY <1>1, AuthorityStep
    <2>6. LocksOK' /\ lifecycle' \in Locks BY <1>1, LocksStep DEF LockStep
    <2>7. LateOK' /\ InvitesOK' /\ ChangesAudited' BY <1>1, LateStep, InvitesKept, AuditedStep
    <2>8. raced' \subseteq Teams /\ AloneOK' BY <1>1, RacedStep
    <2>9. AdminsOK' BY <1>1, AdminsStep
    <2>10. AccessTypes'
      <3>1. orgs' \in [Orgs -> {"absent", "live", "deleted"}] BY <1>1, OrgsStep
      <3>2. teams' \in [Teams -> TeamRow] BY <1>1, TeamsStep DEF TeamsWritten
      <3>3. users' \in [Users -> Account] BY <1>1, UsersStep DEF UsersWritten
      <3>4. invites' \in [Invites -> Invite] /\ joined' \in [Invites -> Nat]
        BY <1>1, InvitesStep DEF InvitesWritten
      <3>5. sps' \in [SPs -> ServicePrincipal] BY <1>1, SpsStep
      <3>6. \A t \in Teams : (lifecycle[t] \in Procs => Acting(lifecycle[t], "delete_team"))'
        BY <2>6, TeamAccessAssumption DEF LocksOK
      <3> HIDE DEF AccessInv
      <3>q. QED BY <2>1, <2>3, <2>4, <2>5, <2>6, <2>8, <3>1, <3>2, <3>3, <3>4, <3>5, <3>6
            DEF AccessTypes, AccessTypeOK, Table, Membership, TeamRow, Account, Invite, ServicePrincipal,
                KeyRow, Locks
    <2>q. QED BY <2>1, <2>2, <2>3, <2>4, <2>5, <2>6, <2>7, <2>8, <2>9, <2>10
  <1>2. CASE UNCHANGED accessVars
    BY <1>2 DEF accessVars, AccessTypes, AccessTypeOK, RequestsOK, AdminFlagsOK, StrangersOK, ManagersOK,
            KeysOwned, AuthorityOK, LocksOK, LateOK, InvitesOK, AloneOK, AdminsOK, NoEscalation, ChangesAudited,
            TeamKeys, Touches, TakesAdmin, OtherAdmin, Live, Managed, Acting
  <1>q. QED BY <1>1, <1>2

THEOREM AccessInvariant == AccessSpec => []AccessInv
  BY AccessStarts, AccessSteps, PTL DEF AccessSpec

\* Nobody ends up with more than a manager granted: whoever was shown the
\* plaintext of a key that manages a team had managed that team (rotate_key's
\* second check, teams/controller.py:515), a team's guardrails are changed by
\* its managers or through such a key (authorization.py:35), and the auditor
\* flag alone opens reads (authorization.py:61).
THEOREM AuthorityIsKept == AccessSpec => []AuthorityKept
  <1>1. AccessInv => AuthorityKept
    <2> SUFFICES ASSUME AccessInv PROVE AuthorityKept OBVIOUS
    <2>1. AuditorReads BY DEF AccessInv, RequestsOK, MayAct, AuditorReads
    <2>2. NoEscalation BY DEF AccessInv
    <2>3. ASSUME NEW e \in editors, e[1] \in Users PROVE Managed(e[1], e[2])
      BY <2>3 DEF AccessInv, AuthorityOK, Manages, ManagesByKey, Managed
    <2>4. ASSUME NEW e \in editors, e[1] \notin Users, NEW h \in holders, h[2] = e[1]
          PROVE  Managed(h[1], e[2])
      <3>1. keys[e[1]].mgmt /\ keys[e[1]].team = e[2]
        BY <2>4 DEF AccessInv, AuthorityOK, Manages, ManagesByKey
      <3>q. QED BY <2>2, <2>4, <3>1 DEF NoEscalation
    <2>5. GuardrailsByManagers BY <2>3, <2>4 DEF GuardrailsByManagers
    <2>q. QED BY <2>1, <2>2, <2>5 DEF AuthorityKept
  <1>q. QED BY <1>1, AccessInvariant, PTL

\* A live team keeps an admin as long as no two role changes of it were in
\* flight at once (the check of team_service.py:461 is not in the transaction
\* that acts on it); an invite makes at most one membership
\* (invite_repository.py:54); a purge and a rotation are in the audit trail; a
\* key of a tombstoned team was inserted once its delete was under way
\* (team_service.py:294).
THEOREM TeamsAreKept == AccessSpec => []TeamsKept
  <1>1. AccessInv => TeamsKept
    <2> SUFFICES ASSUME AccessInv PROVE TeamsKept OBVIOUS
    <2>1. AccessTypeOK /\ ChangesAudited BY DEF AccessInv, AccessTypes
    <2>2. ASSUME NEW t \in Teams \ raced, Live(t) PROVE count_admins(t) > 0
      <3> DEFINE S == {u \in Users : members[t][u].role = "admin"}
      <3>1. S # {} BY <2>2 DEF AccessInv, AdminsOK
      <3>2. IsFiniteSet(S) BY FS_Subset, TeamAccessAssumption
      <3>3. Cardinality(S) \in Nat BY <3>2, FS_CardinalityType
      <3>4. Cardinality(S) # 0 BY <3>1, <3>2, FS_EmptySet
      <3>5. count_admins(t) = Cardinality(S) BY DEF count_admins
      <3> HIDE DEF S
      <3>q. QED BY <3>3, <3>4, <3>5
    <2>3. KeepsAnAdmin BY <2>2 DEF KeepsAnAdmin
    <2>4. InviteOnce BY DEF AccessInv, InvitesOK, InviteOnce
    <2>5. TombstonedHadNoKeys BY DEF AccessInv, LateOK, TombstonedHadNoKeys, TeamGone
    <2>q. QED BY <2>1, <2>3, <2>4, <2>5 DEF TeamsKept
  <1>q. QED BY <1>1, AccessInvariant, PTL

\* Who becomes a team admin does so through a request of someone else who
\* manages the team, of a platform admin, an invite or the SSO mapping
\* (team_service.py:419, 452), and a redeemed invite leads into a live team
\* (user_service.py:258).
THEOREM RolesAreGranted == AccessSpec => RolesGranted
  <1>1. ASSUME AccessInv, AccessNext, NEW x \in managers' \ managers
        PROVE  \E p \in Procs :
                  /\ req'[p] # req[p] /\ req[p].at = "act"
                  /\ \/ req[p].ep.op \in {"sso", "signup"}
                     \/ req[p].by \in Users /\ req[p].by # x[1] /\ Managed(req[p].by, x[2])
                     \/ req[p].by \in Admins
    <2>1. PICK p \in Procs : RoleChanges(p) /\ Written(p) BY <1>1, MembersStep DEF AccessInv
    <2>2. Finished(p) /\ req[p].at = "act" BY <2>1, RoleChangesKeep
    <2>3. PICK r : Becomes(p, r) /\ r.at # "act" BY <1>1, <2>2, FinishedBecomes DEF AccessInv
    <2>4. req'[p] # req[p] BY <2>2, <2>3 DEF Becomes
    <2>5. x \in Users \X Teams /\ members'[x[2]][x[1]].role = "admin" BY <1>1, <2>1 DEF Written
    <2>6. x[1] \in Users /\ x[2] \in Teams /\ x = <<x[1], x[2]>> BY <2>5
    <2>7. members[x[2]][x[1]].role # "admin" BY <1>1, <2>6 DEF AccessInv, ManagersOK
    <2>8. Promoted(p, x[2]) BY <2>1, <2>5, <2>6, <2>7 DEF Written
    <2>9. Manages(req[p].by, x[2], managers) =>
             \/ req[p].by \in Users /\ req[p].by # x[1] /\ Managed(req[p].by, x[2])
             \/ req[p].by \in Admins
      BY <1>1, <2>6 DEF Manages, Managed
    <2>q. QED BY <2>2, <2>4, <2>8, <2>9 DEF Promoted
  <1>2. ASSUME AccessInv, AccessNext, NEW p \in Procs, Acting(p, "signup"), members' # members, req'[p] # req[p]
        PROVE  teams'[req[p].team].row = "live"
    <2>1. PICK q \in Procs : RoleChanges(q) BY <1>2, MembersStep DEF AccessInv
    <2>2. Finished(q) BY <2>1, RoleChangesKeep
    <2>3. q = p BY <1>2, <2>2, FinishedBecomes DEF AccessInv, Becomes
    <2>4. register(p)
      BY <1>2, <2>1, <2>3 DEF RoleChanges, add_team, join, update_role, leave, reconcile_sso_memberships,
              delete_team_commit, purge, Acting
    <2>q. QED BY <1>2, <2>4 DEF register, lock_for_lifecycle, Live
  <1>3. AccessInv /\ [AccessNext]_accessVars =>
           [\A x \in managers' \ managers :
              \E p \in Procs :
                  /\ req'[p] # req[p] /\ req[p].at = "act"
                  /\ \/ req[p].ep.op \in {"sso", "signup"}
                     \/ req[p].by \in Users /\ req[p].by # x[1] /\ Managed(req[p].by, x[2])
                     \/ req[p].by \in Admins]_accessVars
    BY <1>1
  <1>4. AccessInv /\ [AccessNext]_accessVars =>
           [\A p \in Procs :
              Acting(p, "signup") /\ members' # members /\ req'[p] # req[p] => teams'[req[p].team].row = "live"]_accessVars
    BY <1>2
  <1>5. AccessSpec => AdminsMadeByManagers
    BY <1>3, AccessInvariant, PTL DEF AccessSpec, AdminsMadeByManagers
  <1>6. AccessSpec => JoinsLiveTeam
    BY <1>4, AccessInvariant, PTL DEF AccessSpec, JoinsLiveTeam
  <1>q. QED BY <1>5, <1>6 DEF RolesGranted

=============================================================================
