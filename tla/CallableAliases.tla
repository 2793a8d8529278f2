-------------------------- MODULE CallableAliases --------------------------
(***************************************************************************)
(* The namespace of callable models and routers.                          *)
(*                                                                        *)
(* A team calls a model or a router by an alias.  The registry holds one   *)
(* slot per (scope, alias), a scope being a team or the whole platform.    *)
(* A live slot is bound to a resource, directly (its owner's name for it)  *)
(* or through a grant (the name a resource extended to another team gets   *)
(* there); a tombstone keeps a retired alias from falling to somebody      *)
(* else.  Platform-wide names a team's own slots hide are given a derived  *)
(* `-global' alias by the resolver.                                        *)
(*                                                                        *)
(* Every repository write takes the row lock of its resource and commits   *)
(* in one transaction, so it is one step; what the service reads before    *)
(* it is an earlier step, kept in `pend'.                                  *)
(***************************************************************************)
EXTENDS Naturals, Sequences, FiniteSets, FiniteSetsExt, TLC

CONSTANTS
    Teams,       \* the teams
    Global,      \* the scope of the platform (team_id IS NULL)
    Models,      \* model ids
    Routers,     \* router ids
    Names,       \* the names operators declare, as aliases
    Channels,    \* the webhooks a revision may send prompts to: active, shadow
    Label,       \* the slug of the source team in a disambiguated alias
    Procs,       \* administrators' requests in flight
    Unborn,      \* an id no row has had yet
    Gone,        \* an id whose row was deleted (ids are never reused)
    Idle,        \* a process with no request
    MaxRevs,     \* bound: revisions of one router
    MaxSuffix    \* bound: numbered suffixes of a derived alias

ASSUME CallableAssumption ==
    /\ Global \notin Teams
    /\ MaxRevs \in Nat \ {0} /\ MaxSuffix \in Nat \ {0}

VARIABLES
    model,       \* the model table
    router,      \* the router table with each router's immutable revisions
    grants,      \* model grants and router grants
    slots,       \* the callable_alias table
    pend         \* what each process has read and not yet written

vars == <<model, router, grants, slots, pend>>

Scopes == Teams \cup {Global}

\* A model row; what the calls of the model need beyond it is not named here.
ModelRow == [team : Scopes, origin : Scopes, name : Names, enabled : BOOLEAN]

\* An immutable revision binds candidates by model id, never by name.
Revision == [cands : SUBSET Models, egress : SUBSET Channels]

\* A router row: its revisions in order, the last of them the current head.
RouterRow == [team : Scopes, origin : Scopes, name : Names, revs : Seq(Revision) \ {<<>>}]

\* An id is of one table, and an id without a row, before or after, has none.
ASSUME IdsAssumption ==
    /\ Models \cap Routers = {}
    /\ Unborn # Gone
    /\ Unborn \notin ModelRow \cup RouterRow /\ Gone \notin ModelRow \cup RouterRow

Exists(row) == row \notin {Unborn, Gone}

Current(row) == Len(row.revs)

-----------------------------------------------------------------------------
(* Aliases: a declared name, followed by what disambiguation appended.      *)

\* foo-global, then foo-global-2, foo-global-3 ...
Derived(alias, k) ==
    alias \o (IF k = 1 THEN <<"global">> ELSE <<"global", ToString(k)>>)

\* foo-<source team>, then foo-<source team>-2 ...
Disambiguated(alias, k) ==
    alias \o (IF k = 1 THEN <<Label>> ELSE <<Label, ToString(k)>>)

Suffixes == 1..(MaxSuffix + 1)

-----------------------------------------------------------------------------
(* Slots.                                                                   *)

Live(S) == {x \in S : x.kind # "tombstone"}

Tombstone(scope, alias) ==
    [scope |-> scope, alias |-> alias, kind |-> "tombstone", id |-> Gone, grant |-> FALSE]

Direct(kind, id, scope, alias) ==
    [scope |-> scope, alias |-> alias, kind |-> kind, id |-> id, grant |-> FALSE]

Granted(kind, id, scope, alias) ==
    [scope |-> scope, alias |-> alias, kind |-> kind, id |-> id, grant |-> TRUE]

SlotReserved(S, scope, alias) == \E x \in S : x.scope = scope /\ x.alias = alias

\* The unique constraints of callable_alias: one slot per scope and alias, one
\* direct slot per resource.
Consistent(S) ==
    /\ \A x, y \in S : (x.scope = y.scope /\ x.alias = y.alias) => x = y
    /\ \A x, y \in Live(S) : (x.id = y.id /\ ~x.grant /\ ~y.grant) => x = y

\* claim_direct revives the tombstone of the alias, or adds a slot.
ClaimDirect(S, kind, id, scope, alias) ==
    (S \ {Tombstone(scope, alias)}) \cup {Direct(kind, id, scope, alias)}

\* Mutant: a retired alias leaves no tombstone.
RetireByDeletion(S, gone) == S \ gone

Retire(S, gone) == (S \ gone) \cup {Tombstone(x.scope, x.alias) : x \in gone}

DirectSlots(S, id) == {x \in Live(S) : x.id = id /\ ~x.grant}

\* rename_direct retires the old alias before it claims the new one.
RenameDirect(S, kind, id, scope, old, new) ==
    IF old = new THEN S
    ELSE ClaimDirect(Retire(S, DirectSlots(S, id)), kind, id, scope, new)

\* Mutant: the slot of a promoted resource stays in the team's scope.
PromoteDirectKeepsScope(S, kind, id, alias) == S

\* promote_direct moves the team's slot to the platform: onto the platform's
\* tombstone of the alias when there is one.
PromoteDirect(S, kind, id, alias) ==
    LET local == {x \in DirectSlots(S, id) : x.scope # Global}
    IN  IF local = {} THEN S
        ELSE (S \ (local \cup {Tombstone(Global, alias)}))
                 \cup {Direct(kind, id, Global, alias)}

TombstoneResource(S, id) == Retire(S, {x \in Live(S) : x.id = id})

\* Promotion retires the aliases of the grants, except those equal to the
\* canonical name, which the cascade of the grant's deletion frees.
TombstoneResourceGrants(S, id, canonical) ==
    Retire(S, {x \in Live(S) : x.id = id /\ x.grant /\ x.alias # canonical})

TombstoneGrant(S, g) ==
    Retire(S, {x \in Live(S) : x.id = g.id /\ x.grant /\ x.scope = g.team})

\* ON DELETE CASCADE of a grant's slot.
CascadeGrants(S, id) == {x \in S : ~(x.id = id /\ x.grant)}

-----------------------------------------------------------------------------
(* Resolution.                                                              *)

\* The snapshot of a scope: its bindings and the aliases tombstones reserve.
Explicit(t) == {x \in Live(slots) : x.scope \in {t, Global}}
Reserved(t) == {x.alias : x \in {y \in slots \ Live(slots) : y.scope \in {t, Global}}}

\* The alias under which each binding of the snapshot is called: a team's own
\* slots keep theirs; a platform binding keeps its name when the team leaves it
\* free, or takes the first derived alias neither occupied nor declared.  Two
\* platform bindings never compete for a derived alias, so the order in which
\* the code visits them does not matter.
EffectiveBindings(t) ==
    LET local    == {x \in Explicit(t) : t # Global /\ x.scope = t}
        globals  == {x \in Explicit(t) : x.scope = Global}
        occupied == {x.alias : x \in local} \cup Reserved(t)
        declared == {x.alias : x \in globals}
        Free(a)  == {k \in Suffixes : Derived(a, k) \notin occupied \cup declared}
        Alias(x) == IF x.alias \notin occupied THEN x.alias
                    ELSE Derived(x.alias, Min(Free(x.alias)))
    IN  {<<x.alias, x>> : x \in local} \cup {<<Alias(x), x>> : x \in globals}

\* What an alias denotes in a scope, Idle when nothing.
Resolve(t, alias) ==
    LET hits == {b[2] : b \in {c \in EffectiveBindings(t) : c[1] = alias}}
    IN  IF hits = {} THEN Idle ELSE (CHOOSE x \in hits : TRUE).id

\* resolve_model_id: a model by identity, when some binding of the scope has it.
CallableModel(t, m) ==
    /\ \E x \in Explicit(t) : x.kind = "model" /\ x.id = m
    /\ Exists(model[m])

\* The access a revision needs: every candidate enabled and callable by the team.
RevisionAccess(rev, t) == \A m \in rev.cands : CallableModel(t, m) /\ model[m].enabled

\* explicit_taken: the pre-check of the create services.
ExplicitTaken(scope, alias) ==
    \E x \in Live(slots) : x.scope = scope /\ x.alias = alias

\* The alias a grant gets in its team.
Disambiguate(t, base) ==
    IF ~SlotReserved(slots, t, base) THEN base
    ELSE Disambiguated(base,
             Min({k \in Suffixes : ~SlotReserved(slots, t, Disambiguated(base, k))}))

-----------------------------------------------------------------------------
Init ==
    /\ model = [m \in Models |-> Unborn]
    /\ router = [r \in Routers |-> Unborn]
    /\ grants = {}
    /\ slots = {}
    /\ pend = [p \in Procs |-> Idle]

Begin(p, req) == pend[p] = Idle /\ pend' = [pend EXCEPT ![p] = req]

Finish(p, op) == pend[p] # Idle /\ pend[p].op = op /\ pend' = [pend EXCEPT ![p] = Idle]

\* Names are unique among the rows of a scope.
NameFree(table, ids, id, scope, name) ==
    \A o \in ids \ {id} : ~(Exists(table[o]) /\ table[o].team = scope /\ table[o].name = name)

-----------------------------------------------------------------------------
(* Models.                                                                  *)

\* SQLAlchemyModelRepository.add: the row and its direct slot, or neither.
AddModel(m, row) ==
    /\ NameFree(model, Models, m, row.team, row.name)
    /\ Consistent(ClaimDirect(slots, "model", m, row.team, row.name))
    /\ model' = [model EXCEPT ![m] = row]
    /\ slots' = ClaimDirect(slots, "model", m, row.team, row.name)

\* ModelService.create, for a team or for the platform.
CreateModel(m, scope, n) ==
    /\ model[m] = Unborn
    /\ ~ExplicitTaken(scope, n)
    /\ AddModel(m, [team |-> scope, origin |-> scope, name |-> n, enabled |-> TRUE])
    /\ UNCHANGED <<router, grants, pend>>

\* ModelService.update: read the row, replace the fields the request names ...
ReadModel(p, m, n, on) ==
    /\ Exists(model[m])
    /\ Begin(p, [op |-> "model", id |-> m,
                 row |-> [model[m] EXCEPT !.name = n, !.enabled = on]])
    /\ UNCHANGED <<model, router, grants, slots>>

\* _apply_update writes every field of the row that was read back.
ApplyUpdate(m, row) == [model EXCEPT ![m] = row]

\* update: the slot follows the name, under the lock and for the same owner.
UpdateModel(m, row) ==
    LET S  == RenameDirect(slots, "model", m, row.team, model[m].name, row.name)
        ok == /\ Exists(model[m]) /\ model[m].team = row.team
              /\ NameFree(model, Models, m, row.team, row.name)
              /\ Consistent(S)
    IN  IF ok THEN model' = ApplyUpdate(m, row) /\ slots' = S
        ELSE UNCHANGED <<model, slots>>

\* update_global: the same for a row the platform owns.
UpdateGlobalModel(m, row) ==
    LET S  == RenameDirect(slots, "model", m, Global, model[m].name, row.name)
        ok == /\ Exists(model[m]) /\ model[m].team = Global
              /\ NameFree(model, Models, m, Global, row.name)
              /\ Consistent(S)
    IN  IF ok THEN model' = ApplyUpdate(m, row) /\ slots' = S
        ELSE UNCHANGED <<model, slots>>

\* ... and write it.
WriteModel(p) ==
    /\ Finish(p, "model")
    /\ IF pend[p].row.team = Global THEN UpdateGlobalModel(pend[p].id, pend[p].row)
       ELSE UpdateModel(pend[p].id, pend[p].row)
    /\ UNCHANGED <<router, grants>>

\* remove: refused while a grant is left.
RemoveModel(m) ==
    /\ Exists(model[m]) /\ model[m].team # Global
    /\ ~\E g \in grants : g.id = m
    /\ model' = [model EXCEPT ![m] = Gone]
    /\ slots' = TombstoneResource(slots, m)
    /\ UNCHANGED <<router, grants, pend>>

\* remove_global.
RemoveGlobalModel(m) ==
    /\ Exists(model[m]) /\ model[m].team = Global
    /\ ~\E g \in grants : g.id = m
    /\ model' = [model EXCEPT ![m] = Gone]
    /\ slots' = TombstoneResource(slots, m)
    /\ UNCHANGED <<router, grants, pend>>

\* promote_to_global: ownership, grants and slots in one transaction.
PromoteModel(m) ==
    LET n == model[m].name
        S == PromoteDirect(CascadeGrants(TombstoneResourceGrants(slots, m, n), m),
                           "model", m, n)
    IN  /\ NameFree(model, Models, m, Global, n) /\ Consistent(S)
        /\ slots' = S
        /\ model' = [model EXCEPT ![m].origin = model[m].team, ![m].team = Global]
        /\ grants' = {g \in grants : g.id # m}

\* make_global of a model that a team owns.
MakeModelGlobal(m) ==
    /\ Exists(model[m]) /\ model[m].team # Global
    /\ PromoteModel(m)
    /\ UNCHANGED <<router, pend>>

-----------------------------------------------------------------------------
(* Grants.                                                                  *)

\* The targets extend() goes on with, each with the alias it chose.
NewGrants(kind, id, row, targets, rev, acks) ==
    {[kind |-> kind, id |-> id, team |-> t, alias |-> Disambiguate(t, row.name),
      rev |-> rev, acks |-> acks] :
        t \in {u \in targets : u # row.team /\ ~\E g \in grants : g.id = id /\ g.team = u}}

ReadExtendModel(p, m, targets) ==
    /\ Exists(model[m])
    /\ NewGrants("model", m, model[m], targets, 0, {}) # {}
    /\ Begin(p, [op |-> "extend", id |-> m,
                 new |-> NewGrants("model", m, model[m], targets, 0, {})])
    /\ UNCHANGED <<model, router, grants, slots>>

\* What the two unique constraints of a grant table and the registry's let in.
GrantsFit(new) ==
    /\ ~\E g \in new, h \in grants :
           \/ g.id = h.id /\ g.team = h.team
           \/ g.kind = h.kind /\ g.team = h.team /\ g.alias = h.alias
    /\ \A g \in new : ~SlotReserved(slots, g.team, g.alias)

AddGrants(new) ==
    IF GrantsFit(new)
    THEN /\ grants' = grants \cup new
         /\ slots' = slots \cup {Granted(g.kind, g.id, g.team, g.alias) : g \in new}
    ELSE UNCHANGED <<grants, slots>>

\* All the grants of one call or none, while the source still belongs to a team.
WriteExtendModel(p) ==
    /\ Finish(p, "extend")
    /\ IF Exists(model[pend[p].id]) /\ model[pend[p].id].team # Global
       THEN AddGrants(pend[p].new)
       ELSE UNCHANGED <<grants, slots>>
    /\ UNCHANGED <<model, router>>

\* unextend of a model: the alias is retired with the grant.
RemoveModelGrant(g) ==
    /\ g \in grants /\ g.kind = "model"
    /\ slots' = TombstoneGrant(slots, g)
    /\ grants' = grants \ {g}
    /\ UNCHANGED <<model, router, pend>>

\* unextend of a router.
RemoveRouterGrant(g) ==
    /\ g \in grants /\ g.kind = "router"
    /\ slots' = TombstoneGrant(slots, g)
    /\ grants' = grants \ {g}
    /\ UNCHANGED <<model, router, pend>>

-----------------------------------------------------------------------------
(* Routers.                                                                 *)

\* _validate: at least one candidate, each an enabled model of the scope.
Valid(rev, scope) == rev.cands # {} /\ RevisionAccess(rev, scope)

\* SQLAlchemyRouterRepository.add: the row, its first revision and its slot.
AddRouter(r, scope, n, rev) ==
    /\ NameFree(router, Routers, r, scope, n)
    /\ Consistent(ClaimDirect(slots, "router", r, scope, n))
    /\ router' = [router EXCEPT ![r] =
                     [team |-> scope, origin |-> Global, name |-> n, revs |-> <<rev>>]]
    /\ slots' = ClaimDirect(slots, "router", r, scope, n)

\* RouterService.create.
CreateRouter(r, scope, n, rev) ==
    /\ router[r] = Unborn
    /\ ~ExplicitTaken(scope, n)
    /\ Valid(rev, scope)
    /\ AddRouter(r, scope, n, rev)
    /\ UNCHANGED <<model, grants, pend>>

\* update: the head the handler read is the one the write expects.
ReadRouter(p, r, n, rev) ==
    /\ Exists(router[r])
    /\ Current(router[r]) < MaxRevs
    /\ Valid(rev, router[r].team)
    /\ Begin(p, [op |-> "router", id |-> r, team |-> router[r].team, name |-> n,
                 base |-> Current(router[r]), rev |-> rev])
    /\ UNCHANGED <<model, router, grants, slots>>

\* Mutant: the write does not compare the head with the one that was read.
WriteRouterBlind(p) ==
    /\ Finish(p, "router")
    /\ LET r   == pend[p].id
           req == pend[p]
           S   == RenameDirect(slots, "router", r, req.team, router[r].name, req.name)
           ok  == /\ Exists(router[r]) /\ router[r].team = req.team
                  /\ NameFree(router, Routers, r, req.team, req.name) /\ Consistent(S)
       IN  IF ok THEN /\ router' = [router EXCEPT ![r].name = req.name,
                                                  ![r].revs = Append(@, req.rev)]
                      /\ slots' = S
           ELSE UNCHANGED <<router, slots>>
    /\ UNCHANGED <<model, grants>>

WriteRouter(p) ==
    /\ Finish(p, "router")
    /\ LET r   == pend[p].id
           req == pend[p]
           S   == RenameDirect(slots, "router", r, req.team, router[r].name, req.name)
           ok  == /\ Exists(router[r]) /\ router[r].team = req.team
                  /\ Current(router[r]) = req.base
                  /\ NameFree(router, Routers, r, req.team, req.name)
                  /\ Consistent(S)
       IN  IF ok THEN /\ router' = [router EXCEPT ![r].name = req.name,
                                                  ![r].revs = Append(@, req.rev)]
                      /\ slots' = S
           ELSE UNCHANGED <<router, slots>>
    /\ UNCHANGED <<model, grants>>

\* delete: revisions go with the router, grants must be gone.
DeleteRouter(r) ==
    /\ Exists(router[r]) /\ router[r].team # Global
    /\ ~\E g \in grants : g.id = r
    /\ router' = [router EXCEPT ![r] = Gone]
    /\ slots' = TombstoneResource(slots, r)
    /\ UNCHANGED <<model, grants, pend>>

\* delete_global does not look for grants: a platform router has none.
DeleteGlobalRouter(r) ==
    /\ Exists(router[r]) /\ router[r].team = Global
    /\ router' = [router EXCEPT ![r] = Gone]
    /\ slots' = TombstoneResource(slots, r)
    /\ UNCHANGED <<model, grants, pend>>

\* make_global checks that the head binds platform models only ...
ReadMakeRouterGlobal(p, r) ==
    /\ Exists(router[r]) /\ router[r].team # Global
    /\ ~\E g \in grants : g.id = r
    /\ Valid(router[r].revs[Current(router[r])], Global)
    /\ Begin(p, [op |-> "promote", id |-> r])
    /\ UNCHANGED <<model, router, grants, slots>>

\* ... and promote_to_global, later, promotes whatever head it then finds.
WriteMakeRouterGlobal(p) ==
    /\ Finish(p, "promote")
    /\ LET r  == pend[p].id
           S  == PromoteDirect(slots, "router", r, router[r].name)
           ok == /\ Exists(router[r]) /\ router[r].team # Global
                 /\ ~\E g \in grants : g.id = r
                 /\ NameFree(router, Routers, r, Global, router[r].name)
                 /\ Consistent(S)
       IN  IF ok THEN /\ router' = [router EXCEPT ![r].origin = router[r].team, ![r].team = Global]
                      /\ slots' = S
           ELSE UNCHANGED <<router, slots>>
    /\ UNCHANGED <<model, grants>>

\* extend reads the head, checks its egress is acknowledged and its candidates
\* callable by every target, and pins that revision.
ReadExtendRouter(p, r, targets, acks) ==
    /\ Exists(router[r])
    /\ LET row == router[r]
           rev == row.revs[Current(row)]
           new == NewGrants("router", r, row, targets, Current(row), acks)
       IN  /\ rev.egress \subseteq acks
           /\ new # {}
           /\ \A g \in new : RevisionAccess(rev, g.team)
           /\ Begin(p, [op |-> "share", id |-> r, base |-> Current(row), new |-> new])
    /\ UNCHANGED <<model, router, grants, slots>>

WriteExtendRouter(p) ==
    /\ Finish(p, "share")
    /\ LET row == router[pend[p].id]
       IN  IF Exists(row) /\ row.team # Global /\ Current(row) = pend[p].base
           THEN AddGrants(pend[p].new)
           ELSE UNCHANGED <<grants, slots>>
    /\ UNCHANGED <<model, router>>

\* upgrade_grant checks the target revision against the acknowledgements; the
\* revision to be replaced is the client's word ...
ReadUpgrade(p, g, base, target, acks) ==
    /\ g \in grants /\ g.kind = "router"
    /\ {base, target} \subseteq 1..Current(router[g.id])
    /\ LET rev == router[g.id].revs[target]
       IN  RevisionAccess(rev, g.team) /\ rev.egress \subseteq acks
    /\ Begin(p, [op |-> "upgrade", id |-> g.id, team |-> g.team, base |-> base,
                 target |-> target, acks |-> acks])
    /\ UNCHANGED <<model, router, grants, slots>>

\* ... and stage_grant_upgrade swaps the pin if it is still the one expected.
WriteUpgrade(p) ==
    /\ Finish(p, "upgrade")
    /\ LET req == pend[p]
           cur == {g \in grants : g.kind = "router" /\ g.id = req.id
                                  /\ g.team = req.team /\ g.rev = req.base}
       IN  grants' = (grants \ cur)
               \cup {[g EXCEPT !.rev = req.target, !.acks = req.acks] : g \in cur}
    /\ UNCHANGED <<model, router, slots>>

-----------------------------------------------------------------------------
Next ==
    \/ \E m \in Models, s \in Scopes, n \in Names : CreateModel(m, s, n)
    \/ \E p \in Procs, m \in Models, n \in Names, on \in BOOLEAN : ReadModel(p, m, n, on)
    \/ \E p \in Procs : WriteModel(p)
    \/ \E m \in Models : RemoveModel(m)
    \/ \E m \in Models : RemoveGlobalModel(m)
    \/ \E m \in Models : MakeModelGlobal(m)
    \/ \E p \in Procs, m \in Models, T \in SUBSET Teams : ReadExtendModel(p, m, T)
    \/ \E p \in Procs : WriteExtendModel(p)
    \/ \E g \in grants : RemoveModelGrant(g)
    \/ \E g \in grants : RemoveRouterGrant(g)
    \/ \E r \in Routers, s \in Scopes, n \in Names, rev \in Revision : CreateRouter(r, s, n, rev)
    \/ \E p \in Procs, r \in Routers, n \in Names, rev \in Revision : ReadRouter(p, r, n, rev)
    \/ \E p \in Procs : WriteRouter(p)
    \/ \E r \in Routers : DeleteRouter(r)
    \/ \E r \in Routers : DeleteGlobalRouter(r)
    \/ \E p \in Procs, r \in Routers : ReadMakeRouterGlobal(p, r)
    \/ \E p \in Procs : WriteMakeRouterGlobal(p)
    \/ \E p \in Procs, r \in Routers, T \in SUBSET Teams, a \in SUBSET Channels :
           ReadExtendRouter(p, r, T, a)
    \/ \E p \in Procs : WriteExtendRouter(p)
    \/ \E p \in Procs, g \in grants, b, k \in 1..MaxRevs, a \in SUBSET Channels :
           ReadUpgrade(p, g, b, k, a)
    \/ \E p \in Procs : WriteUpgrade(p)

Spec == Init /\ [][Next]_vars

-----------------------------------------------------------------------------
(* What the registry guarantees.                                            *)

TypeOK ==
    /\ model \in [Models -> ModelRow \cup {Unborn, Gone}]
    /\ router \in [Routers -> RouterRow \cup {Unborn, Gone}]
    /\ \A g \in grants : g.team \in Teams /\ g.acks \subseteq Channels
    /\ \A x \in slots : x.scope \in Scopes
    /\ DOMAIN pend = Procs

\* The registry agrees with the three tables it indexes, whatever writes
\* interleave: a model or router has exactly one direct slot, in its owner's
\* scope and under its name; a grant has exactly one, in its team and under its
\* alias; and no live slot is bound to anything else.
RegistryAgrees ==
    /\ Consistent(slots)
    /\ Live(slots) =
           {Direct("model", m, model[m].team, model[m].name) :
                m \in {i \in Models : Exists(model[i])}}
           \cup {Direct("router", r, router[r].team, router[r].name) :
                r \in {i \in Routers : Exists(router[i])}}
           \cup {Granted(g.kind, g.id, g.team, g.alias) : g \in grants}

\* Grants are of team-owned resources only, and of resources that exist, so
\* promotion and deletion leave no grant behind.
GrantsHaveOwners ==
    \A g \in grants :
        LET row == IF g.kind = "model" THEN model[g.id] ELSE router[g.id]
        IN  Exists(row) /\ row.team \notin {Global, g.team}

\* A team's grant of a router pins a revision whose prompt egress its
\* acknowledgement covers, whichever updates and upgrades raced with it.
EgressAcknowledged ==
    \A g \in grants : g.kind = "router" =>
        /\ g.rev \in 1..Current(router[g.id])
        /\ router[g.id].revs[g.rev].egress \subseteq g.acks

\* An alias that denotes a resource comes to denote another one only by a step
\* that claims this very alias, in the team or for the platform: never because
\* something was renamed, deleted, revoked or promoted elsewhere.
NoSilentRedirect ==
    [][slots' = slots \/ \A t \in Teams :
          LET before == EffectiveBindings(t)
              after  == EffectiveBindings(t)'
          IN  \A b \in before, c \in after :
                 (b[1] = c[1] /\ b[2].id # c[2].id) =>
                     \E x \in Live(slots') \ Live(slots) :
                         x.scope \in {t, Global} /\ x.alias = b[1]]_vars

\* Promoting a model keeps it callable, under its canonical name, by every team
\* that called it so before.
PromotionKeepsCallers ==
    [][\A m \in Models : \A t \in Teams :
          (/\ Exists(model[m]) /\ Exists(model'[m])
           /\ model[m].team # Global /\ model'[m].team = Global
           /\ Resolve(t, model[m].name) = m)
          => Resolve(t, model[m].name)' = m]_vars

\* Ownership only ever moves from a team to the platform, and the platform
\* remembers the team: a write prepared before a promotion cannot undo it.
OwnershipMovesUp ==
    [][/\ \A m \in Models : (Exists(model[m]) /\ Exists(model'[m])) =>
              /\ model'[m].team \in {model[m].team, Global}
              /\ model'[m].origin = model[m].origin
       /\ \A r \in Routers : (Exists(router[r]) /\ Exists(router'[r])) =>
              router'[r].team \in {router[r].team, Global}]_vars

\* A revision, once committed, is never rewritten, and every new one follows
\* the head its author read: of two edits of the same head one is refused.
RevisionsAppendOnly ==
    [][\A r \in Routers : (Exists(router[r]) /\ Exists(router'[r])) =>
          \/ router'[r].revs = router[r].revs
          \/ \E p \in Procs :
                /\ pend[p] # Idle /\ pend[p].op = "router" /\ pend[p].id = r
                /\ router'[r].revs = Append(router[r].revs, pend[p].rev)
                /\ pend[p].base = Current(router[r])]_vars

\* Whatever writes interleave, the alias registry, the resources, the grants and
\* the acknowledgements agree (callable_alias_slots.py, router_repository.py:472).
RegistryKept == TypeOK /\ RegistryAgrees /\ GrantsHaveOwners /\ EgressAcknowledged

\* A caller's alias neither changes its meaning nor loses it by what others do:
\* no silent redirect, and a promotion keeps its callers (callable_alias_slots.py:103).
CallersKeepAliases == NoSilentRedirect /\ PromotionKeepsCallers

\* Of two racing edits neither is overwritten unseen: revisions are append-only
\* and a promotion is not undone (router_repository.py:550, model_repository.py:177).
HistoryKept == OwnershipMovesUp /\ RevisionsAppendOnly
=============================================================================
