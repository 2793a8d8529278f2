--------------------------------- MODULE Vault ---------------------------------
(***************************************************************************)
(* Secrets at rest: the keyring and its daily rotation (keyring.py,        *)
(* rotation.py), the lock that lets one replica rotate (locks.py), and the *)
(* credentials the data keys encrypt (credential_service.py,               *)
(* credential_repository.py).                                              *)
(*                                                                         *)
(* Credential data keys are 1..n in order of creation and are never        *)
(* deleted.  A row has the key it names (`key') and the key its ciphertext *)
(* was really made with (`enc').  Each request and each rotation is a      *)
(* session of its own at READ COMMITTED; a commit writes the columns that  *)
(* differ from what the session loaded.  Time is in days, from one HH:MM   *)
(* to the next: the rotation is due once a day, and a JWT signing key is   *)
(* named by the day of its creation.  When in a day something happens is   *)
(* left open.                                                              *)
(***************************************************************************)
EXTENDS Naturals, FiniteSets, FiniteSetsExt

CONSTANTS Replicas, Editors, Secrets, SecretValues,
          NoRow, Nobody,
          TokenTTL,         \* ACCESS_TOKEN_TTL, in days
          MaxDay            \* bound: the clock

ASSUME TokenAssumption == TokenTTL \in Nat /\ MaxDay \in Nat

\* "No row" is neither a row nor a stored value, and nobody is no replica.
ASSUME NothingAssumption ==
    /\ NoRow \notin SecretValues \cup [key : Nat, enc : Nat, val : SecretValues]
    /\ Nobody \notin Replicas

VARIABLES usable,       \* data keys not retired
          nkeys,        \* data keys created
          rows,         \* [Secrets -> [key, enc, val] or NoRow]
          saved,        \* what an admin was last told is stored
          clash,        \* secrets an edit straddled a re-encryption of
          lock,         \* holder of the Redis rotation lock, or Nobody
          lapsed,       \* replicas that lost their lease while at work
          rot,          \* [pc, day, key, seen, todo]: each replica's rotation
          edit,         \* [pc, sec, val, was, key]: each admin's request
          jwtKeys,      \* days the usable signing keys were created on
          tokens,       \* [key, day] of every token signed
          day

vaultVars == <<usable, nkeys, rows, saved, clash, lock, lapsed, rot, edit, jwtKeys, tokens, day>>

Resting == [pc |-> "asleep", day |-> 0, key |-> 0, seen |-> [s \in Secrets |-> NoRow], todo |-> {}]

Unasked == [pc |-> "none", sec |-> NoRow, val |-> NoRow, was |-> 0, key |-> 0]

VaultInit ==
    /\ usable = {} /\ nkeys = 0
    /\ rows = [s \in Secrets |-> NoRow]
    /\ saved = [s \in Secrets |-> NoRow]
    /\ clash = {}
    /\ lock = Nobody /\ lapsed = {}
    /\ rot = [r \in Replicas |-> Resting]
    /\ edit = [e \in Editors |-> Unasked]
    /\ jwtKeys = {} /\ tokens = {}
    /\ day = 1

keyVars == <<usable, nkeys>>
rowVars == <<rows, saved, clash>>
lockVars == <<lock, lapsed>>
jwtVars == <<jwtKeys, tokens>>

(***************************************************************************)
(* The keyring.                                                            *)
(***************************************************************************)
\* _create, of a credential key.
Created == nkeys' = nkeys + 1 /\ usable' = usable \cup {nkeys + 1}

\* ensure_active: the newest usable key, the first one made on demand.
EnsuredKey == IF usable = {} THEN nkeys + 1 ELSE Max(usable)

ensure_active == IF usable = {} THEN Created ELSE UNCHANGED keyVars

Readable(row) == row.enc = row.key

(***************************************************************************)
(* Admin requests.                                                         *)
(***************************************************************************)
\* CredentialService.create and update, up to their checks and the read of the row.
begin_edit(e, s, v) ==
    /\ edit[e].pc = "none"
    /\ edit' = [edit EXCEPT ![e] = IF rows[s] = NoRow
                    THEN [pc |-> "add", sec |-> s, val |-> v, was |-> 0, key |-> 0]
                    ELSE [pc |-> "change", sec |-> s, val |-> v, was |-> rows[s].key, key |-> 0]]
    /\ UNCHANGED <<keyVars, rowVars, lockVars, rot, jwtVars, day>>

\* active_credential_cipher, for an edit.
choose_key(e) ==
    /\ edit[e].pc \in {"add", "change"} /\ edit[e].key = 0
    /\ ensure_active
    /\ edit' = [edit EXCEPT ![e].key = EnsuredKey]
    /\ UNCHANGED <<rowVars, lockVars, rot, jwtVars, day>>

\* The request is answered; a request is made once.
Answered(e) == edit' = [edit EXCEPT ![e] = [Unasked EXCEPT !.pc = "answered"]]

\* add: the loser of two creations of a name is refused by the unique constraint.
add(e) ==
    LET s == edit[e].sec
    IN /\ edit[e].pc = "add" /\ edit[e].key # 0
       /\ IF rows[s] = NoRow
          THEN /\ rows' = [rows EXCEPT ![s] = [key |-> edit[e].key, enc |-> edit[e].key, val |-> edit[e].val]]
               /\ saved' = [saved EXCEPT ![s] = edit[e].val]
          ELSE UNCHANGED <<rows, saved>>
       /\ Answered(e)
       /\ UNCHANGED <<clash, keyVars, lockVars, rot, jwtVars, day>>

\* update: key_id is written only when it is not the one the session loaded.
\* A row deleted since is an error.
update(e) ==
    LET s   == edit[e].sec
        key == IF edit[e].key = edit[e].was THEN rows[s].key ELSE edit[e].key
    IN /\ edit[e].pc = "change" /\ edit[e].key # 0
       /\ IF rows[s] # NoRow
          THEN /\ rows' = [rows EXCEPT ![s] = [key |-> key, enc |-> edit[e].key, val |-> edit[e].val]]
               /\ saved' = [saved EXCEPT ![s] = edit[e].val]
               /\ clash' = IF key # edit[e].key THEN clash \cup {s} ELSE clash \ {s}
          ELSE UNCHANGED rowVars
       /\ Answered(e)
       /\ UNCHANGED <<keyVars, lockVars, rot, jwtVars, day>>

\* delete, of a credential no model uses.
remove(s) ==
    /\ rows[s] # NoRow
    /\ rows' = [rows EXCEPT ![s] = NoRow]
    /\ saved' = [saved EXCEPT ![s] = NoRow]
    /\ clash' = clash \ {s}
    /\ UNCHANGED <<keyVars, lockVars, rot, edit, jwtVars, day>>

(***************************************************************************)
(* The rotation, guarded by the lock.                                      *)
(***************************************************************************)
Goes(r, pc) == rot' = [rot EXCEPT ![r].pc = pc]

\* What reencrypt_all, or the whole rotation, has read is gone with it.
Forgets(r, pc) == rot' = [rot EXCEPT ![r] = [Resting EXCEPT !.day = rot[r].day, !.pc = pc]]

Sleeps(r) == Forgets(r, "asleep")

\* hold: SET NX with a TTL; not acquired is a day skipped.
hold(r) ==
    /\ rot[r].pc = "asleep" /\ rot[r].day < day
    /\ rot' = [rot EXCEPT ![r].day = day, ![r].pc = IF lock = Nobody THEN "new" ELSE "asleep"]
    /\ lock' = IF lock = Nobody THEN r ELSE lock
    /\ lapsed' = IF lock = Nobody THEN lapsed \ {r} ELSE lapsed
    /\ UNCHANGED <<keyVars, rowVars, edit, jwtVars, day>>

\* release: only a lock that is still one's own.
release(r) == lock' = IF lock = r THEN Nobody ELSE lock

new_credential_key(r) ==
    /\ rot[r].pc = "new"
    /\ Created
    /\ Goes(r, "choose")
    /\ UNCHANGED <<rowVars, lockVars, edit, jwtVars, day>>

\* reencrypt_all, up to the read of the active key.
choose_new_key(r) ==
    /\ rot[r].pc = "choose"
    /\ rot' = [rot EXCEPT ![r].pc = "load", ![r].key = Max(usable)]
    /\ UNCHANGED <<keyVars, rowVars, lockVars, edit, jwtVars, day>>

\* The read of the rows.  A row that does not decrypt raises and ends the rotation.
load_rows(r) ==
    /\ rot[r].pc = "load"
    /\ IF \A s \in Secrets : rows[s] = NoRow \/ rows[s].key = rot[r].key \/ Readable(rows[s])
       THEN rot' = [rot EXCEPT ![r].pc = "write", ![r].seen = rows] /\ UNCHANGED lock
       ELSE Sleeps(r) /\ release(r)
    /\ UNCHANGED <<keyVars, rowVars, lapsed, edit, jwtVars, day>>

\* The rows a rotation re-encrypts: those that do not name the new key.
Changed(r) == {s \in Secrets : rot[r].seen[s] # NoRow /\ rot[r].seen[s].key # rot[r].key}

\* The ciphertext is new, the key it names is not.
KeepName(r, s) == [key |-> rows[s].key, enc |-> rot[r].key, val |-> rot[r].seen[s].val]

Reencrypted(r, s) == [key |-> rot[r].key, enc |-> rot[r].key, val |-> rot[r].seen[s].val]

\* Its commit: every row, or none when one of them is gone.
reencrypt_all(r) ==
    /\ rot[r].pc = "write"
    /\ IF \A s \in Changed(r) : rows[s] # NoRow
       THEN /\ rows' = [s \in Secrets |-> IF s \in Changed(r) THEN Reencrypted(r, s) ELSE rows[s]]
            /\ clash' = clash \cup {s \in Changed(r) : rot[r].seen[s].val # saved[s]}
            /\ Forgets(r, "list")
            /\ UNCHANGED lock
       ELSE Sleeps(r) /\ release(r) /\ UNCHANGED <<rows, clash>>
    /\ UNCHANGED <<saved, keyVars, lapsed, edit, jwtVars, day>>

\* retire_old_credential_keys: all but the newest, as listed.
list_old_keys(r) ==
    /\ rot[r].pc = "list"
    /\ rot' = [rot EXCEPT ![r].pc = "retire", ![r].todo = usable \ {Max(usable)}]
    /\ UNCHANGED <<keyVars, rowVars, lockVars, edit, jwtVars, day>>

retire_old_credential_keys(r) ==
    /\ rot[r].pc = "retire"
    /\ usable' = usable \ rot[r].todo
    /\ rot' = [rot EXCEPT ![r].pc = "jwt", ![r].todo = {}]
    /\ UNCHANGED <<nkeys, rowVars, lockVars, edit, jwtVars, day>>

\* rotate_jwt, up to its _create.
new_jwt_key(r) ==
    /\ rot[r].pc = "jwt"
    /\ jwtKeys' = jwtKeys \cup {day}
    /\ Goes(r, "prune")
    /\ UNCHANGED <<keyVars, rowVars, lockVars, edit, tokens, day>>

\* The cutoff is the time now, less the TTL and a day of grace.  A key of the
\* cutoff's own day is before it or not, by the time of day of both.
MayExpire == {k \in jwtKeys : k + TokenTTL + 1 <= day}

MustExpire == {k \in jwtKeys : k + TokenTTL + 1 < day}

\* One commit for every key that is too old.
delete_jwt_key(r) ==
    /\ rot[r].pc = "prune"
    /\ \E k \in MayExpire : jwtKeys' = jwtKeys \ {k}
    /\ UNCHANGED <<keyVars, rowVars, lockVars, rot, edit, tokens, day>>

end_rotation(r) ==
    /\ rot[r].pc = "prune" /\ MustExpire = {}
    /\ Sleeps(r)
    /\ release(r)
    /\ UNCHANGED <<keyVars, rowVars, lapsed, edit, jwtVars, day>>

\* The replica dies, and restarts: its lock stays until the lease ends.
VaultCrash(r) ==
    /\ rot[r].pc # "asleep"
    /\ Sleeps(r)
    /\ UNCHANGED <<keyVars, rowVars, lockVars, edit, jwtVars, day>>

\* The lease ends, whether its holder is still at work or not.
Lapse ==
    /\ lock # Nobody
    /\ lock' = Nobody
    /\ lapsed' = IF rot[lock].pc # "asleep" THEN lapsed \cup {lock} ELSE lapsed
    /\ UNCHANGED <<keyVars, rowVars, rot, edit, jwtVars, day>>

(***************************************************************************)
(* Sessions.                                                               *)
(***************************************************************************)
\* active_jwt_secret at a login: the newest signing key, or the first one.
sign ==
    LET k == IF jwtKeys = {} THEN day ELSE Max(jwtKeys)
    IN /\ jwtKeys' = jwtKeys \cup {k}
       /\ tokens' = tokens \cup {[key |-> k, day |-> day]}
       /\ UNCHANGED <<keyVars, rowVars, lockVars, rot, edit, day>>

\* The lease is minutes, a day is a day.
NextDay ==
    /\ day < MaxDay /\ lock = Nobody
    /\ \A r \in Replicas : rot[r].pc = "asleep"
    /\ day' = day + 1
    /\ UNCHANGED <<keyVars, rowVars, lockVars, rot, edit, jwtVars>>

Rotation(r) ==
    \/ hold(r) \/ new_credential_key(r) \/ choose_new_key(r) \/ load_rows(r) \/ reencrypt_all(r)
    \/ list_old_keys(r) \/ retire_old_credential_keys(r)
    \/ new_jwt_key(r) \/ delete_jwt_key(r) \/ end_rotation(r) \/ VaultCrash(r)

Editing ==
    \/ \E e \in Editors : \/ \E s \in Secrets, v \in SecretValues : begin_edit(e, s, v)
                          \/ choose_key(e) \/ add(e) \/ update(e)
    \/ \E s \in Secrets : remove(s)

VaultNext == (\E r \in Replicas : Rotation(r)) \/ Lapse \/ Editing \/ sign \/ NextDay

VaultSpec == VaultInit /\ [][VaultNext]_vaultVars

(***************************************************************************)
(* Properties.                                                             *)
(***************************************************************************)
\* A stored credential decrypts under the key it names, to what its admin last
\* saved, whatever rotations ran, overlapped, failed or crashed, unless an edit
\* straddled a re-encryption of the row.
CredentialsReadable ==
    \A s \in Secrets \ clash :
        /\ (rows[s] = NoRow) = (saved[s] = NoRow)
        /\ rows[s] # NoRow =>
            Readable(rows[s]) /\ rows[s].val = saved[s] /\ rows[s].key \in 1 .. nkeys

\* Two replicas rotate together only if one of them outlived its lease: a late
\* release takes the lock from nobody else (rotation.py:38, "Only one replica
\* should rotate at a time").
RotatesAlone ==
    Cardinality({r \in Replicas : rot[r].pc # "asleep"} \ lapsed) <= 1

\* A token has its signing key until the last day of its lifetime, and through it
\* when the key was made the same day; one signed with a key whose rotation was
\* missed altogether may lose it earlier (keyring.py:23-26, "spurious mid-session
\* logouts").
TokensVerify ==
    \A t \in tokens :
        /\ t.day <= t.key + 1 /\ day < t.day + TokenTTL => t.key \in jwtKeys
        /\ t.day = t.key /\ day <= t.day + TokenTTL => t.key \in jwtKeys

\* The newest data key is never retired, though rotations that overlap retire
\* what they listed earlier: an edit always finds a key, the newest.
NewestUsable == nkeys > 0 => nkeys \in usable

\* Rotation loses no credential, no session and no key, whichever replicas ran
\* it together, late, or half (rotation.py 46-125, keyring.py 90-108).
VaultSound == CredentialsReadable /\ RotatesAlone /\ TokensVerify /\ NewestUsable
===============================================================================
