----------------------------- MODULE MCAccounts -----------------------------
(***************************************************************************)
(* Accounts, checked one group of interleaving operations at a time: a     *)
(* behaviour picks the requests its processes serve.                       *)
(***************************************************************************)
EXTENDS Accounts, TLC

VARIABLE scenario

Requests ==
    [sso   |-> {"set_active", "set_admin", "sso_create", "sso_bind", "sso_bound", "sso_token"},
     scim  |-> {"set_active", "set_admin", "delete", "scim_identity", "scim_moved", "scim"},
     login |-> {"unlock", "reset", "redeem", "failed", "lock"},
     keys  |-> {"set_active", "issue", "rotate", "revoke", "auth", "sso_create", "sso_token"}]

MCInit == Init /\ scenario \in DOMAIN Requests

MCNext == Next /\ UNCHANGED scenario

MCSpec == MCInit /\ [][MCNext]_<<vars, scenario>>

\* Accounts the scenario does not need: SCIM's outside its scenario, all but
\* the first admin's in the login scenario, a second federated one with keys;
\* and what it does not ask about: what follows a clobbering bind, sessions
\* revoked without a disable, expiry of keys already revoked,
\* the admin's own personal keys, two keys that
\* are not each other's replacements.
MCBound ==
    /\ \A p \in Procs : req[p].at \in Requests[scenario] \cup {"idle", "bootstrap", "login"}
    /\ scenario # "login" => \A u \in Users : users[u].tv <= 1
    /\ scenario # "keys" => \A sp \in SPs : sps[sp] = "absent"
    /\ scenario # "scim" => \A u \in Users : Live(u) => users[u].known \/ users[u].sub # NoOne
    /\ scenario = "sso" => clobbered = {}
    /\ scenario = "keys" =>
         /\ \A u \in Users : Live(u) => users[u].known \/ ~users[u].admin
         /\ \A u \in Users : users[u].tv # 0 => users[u].by = "admin"
         /\ Cardinality({k \in Keys : keys[k].row /\ keys[k].replaces = NoOne}) <= 1
         /\ \A k \in Keys : keys[k].issued_to = "user" => ~users[keys[k].created_by].admin
         /\ \A k \in Keys : keys[k].expired => keys[k].revoked = "no"
         /\ \A p \in Procs : req[p].sub = NoOne \/ req[p].sub = CHOOSE s \in Subjects : TRUE

Ids == Permutations(Procs)

=============================================================================
