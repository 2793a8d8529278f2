---------------------------- MODULE MCTeamAccess ----------------------------
(***************************************************************************)
(* TeamAccess, checked one group of interleaving operations at a time.     *)
(***************************************************************************)
EXTENDS TeamAccess, TLC

CONSTANTS boss, ann, bob, t1, t2

VARIABLE scenario

MCMapping == {[group |-> "leads", team |-> t1, role |-> "admin"],
              [group |-> "staff", team |-> t1, role |-> "member"],
              [group |-> "staff", team |-> t1, role |-> "key_issuer"]}

Setup == {"create_org", "create_team"}

Ops ==
    [roles  |-> {"add_member", "set_role", "remove_member", "sso"},
     keys   |-> {"add_member", "sp_create", "sp_enable", "sp_delete", "sp_issue", "issue",
                 "rotate", "revoke", "guardrails"},
     life   |-> {"delete_org", "delete_team", "purge_team", "invite", "signup", "execute", "issue"},
     people |-> {"add_member", "set_auditor", "delete_user", "read", "configure", "issue", "key_budget"}]

MCInit == AccessInit /\ scenario \in DOMAIN Ops

MCNext == AccessNext /\ UNCHANGED scenario

MCSpec == MCInit /\ [][MCNext]_<<accessVars, scenario>>

Busy(ops) == {p \in Procs : ~Free(p) /\ req[p].ep.op \in ops}

\* What follows a record in the audit trail that no property asks for, or two
\* overlapping role changes, or an edit of the guardrails, is not followed, and a team is set up by one
\* request at a time, with one lead; then, for the scenario of
\*   roles:  the roles without management or key permissions are one;
\*   keys:   the second team has no keys and ann is the one member to watch;
\*   life:   the members are those of the setup and of the invite;
\*   people: one request is served at a time besides those of the admin.
MCBound ==
    /\ \A p \in Procs : Free(p) \/ req[p].ep.op \in Setup \cup Ops[scenario]
    /\ Busy(Setup) # {} => Cardinality({p \in Procs : ~Free(p)}) = 1
    /\ \A e \in log : e.op \in {"purge_team", "rotate"}
    /\ raced = {} /\ (editors = {} \/ \E p \in Procs : req[p].at = "audit" /\ \A q \in Procs \ {p} : Free(q))
    /\ scenario # "keys" => teams[t2].row = "absent"
    /\ \A p \in Busy({"add_member"}) : req[p].user # boss /\ (scenario # "roles" => req[p].by = boss /\ req[p].user = ann)
    /\ scenario = "roles" =>
         \A u \in Users : members[t1][u].role \in {"none", "admin", "key_issuer"}
    /\ scenario # "roles" => \A p \in Procs : bob \notin {req[p].by, req[p].user}
    /\ \A p \in Busy({"create_team"}) : req[p].user = IF scenario \in {"roles", "life"} THEN ann ELSE boss
    /\ scenario = "keys" =>
         /\ Cardinality(Busy({"guardrails"})) <= 1 /\ TeamKeys(t2) = {} /\ \A s \in SPs : sps[s].team # t2
         /\ members[t2][ann].role = "none" /\ members[t1][ann].role \notin {"member", "billing_viewer"}
         /\ Busy({"sp_create", "sp_enable", "sp_delete"}) # {} => Busy({"guardrails", "add_member"}) = {}
         /\ Live(t2) => (\A s \in SPs : sps[s].state # "disabled") /\ \A k \in Keys : ~keys[k].rotated
         /\ (\E k \in Keys : keys[k].row = "revoked" /\ ~keys[k].mgmt) => Busy({"rotate"}) # {}
         /\ \A p \in Busy(Setup) : members[t1][ann].gen = 0 /\ \A s \in SPs : sps[s].team = NoOne
         /\ \A p \in Procs : req[p].by = boss => req[p].ep.op \in {"create_org", "create_team", "add_member", "sp_create", "sp_enable", "sp_delete", "sp_issue"}
    /\ scenario = "life" =>
         \A i \in Invites : invites[i].role \in {"none", "member"}
    /\ scenario = "people" =>
         /\ \A p \in Procs : req[p].ep.op = "issue" => req[p].by = ann
         /\ Cardinality(Busy({"read", "configure", "key_budget"})) <= 1
         /\ \A p \in Busy({"delete_user", "set_auditor"}) : req[p].by = boss

Sym == Permutations(Procs)

=============================================================================
