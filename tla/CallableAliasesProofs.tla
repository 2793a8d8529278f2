------------------------ MODULE CallableAliasesProofs ------------------------
(***************************************************************************)
(* The alias registry agrees with the tables it indexes, for any teams,    *)
(* models, routers, names and number of requests in flight, and no racing  *)
(* edit undoes a promotion or rewrites a revision.                         *)
(*                                                                         *)
(* RegistryKept is not inductive: a write acts on what its request read    *)
(* before.  The invariant says what such a reading is still worth: ids are *)
(* not reused, ownership only moves to the platform, a model's origin does *)
(* not change, and a revision stays where it was.                          *)
(***************************************************************************)
EXTENDS CallableAliases, TLAPS

Kinds == {"model", "router"}

IsGrant(g) ==
    /\ DOMAIN g = {"kind", "id", "team", "alias", "rev", "acks"}
    /\ g.kind \in Kinds /\ g.team \in Teams /\ g.acks \subseteq Channels
    /\ g.kind = "model" => g.id \in Models
    /\ g.kind = "router" => g.id \in Routers

\* A revision that an acknowledgement covers.
Pinned(row, k, acks) == k \in 1..Current(row) /\ row.revs[k].egress \subseteq acks

\* The owner of a granted resource is a team, and not the grantee.
OwnedApart(row, g) == Exists(row) /\ row.team \notin {Global, g.team}

GrantOK(g, M, R) ==
    /\ IsGrant(g)
    /\ g.kind = "model" => OwnedApart(M[g.id], g)
    /\ g.kind = "router" => OwnedApart(R[g.id], g) /\ Pinned(R[g.id], g.rev, g.acks)

OnePerTeam(G) == \A g, h \in G : (g.id = h.id /\ g.team = h.team) => g = h

GrantsOK(G, M, R) == OnePerTeam(G) /\ \A g \in G : GrantOK(g, M, R)

\* The grants a request is about to write.
NewOK(new, kind, id, row) ==
    /\ OnePerTeam(new)
    /\ \A g \in new : IsGrant(g) /\ g.kind = kind /\ g.id = id
    /\ Exists(row) /\ row.team # Global => \A g \in new : g.team # row.team

\* What a request in flight may still rely on.
ReqOK(q, M, R) ==
    /\ q.op = "model" =>
           /\ q.id \in Models /\ q.row \in ModelRow /\ M[q.id] # Unborn
           /\ Exists(M[q.id]) => q.row.origin = M[q.id].origin
    /\ q.op = "extend" =>
           q.id \in Models /\ M[q.id] # Unborn /\ NewOK(q.new, "model", q.id, M[q.id])
    /\ q.op = "router" => q.id \in Routers /\ q.name \in Names /\ q.rev \in Revision
    /\ q.op = "promote" => q.id \in Routers
    /\ q.op = "share" =>
           /\ q.id \in Routers /\ R[q.id] # Unborn /\ NewOK(q.new, "router", q.id, R[q.id])
           /\ Exists(R[q.id]) => \A g \in q.new : Pinned(R[q.id], g.rev, g.acks)
    /\ q.op = "upgrade" =>
           /\ q.id \in Routers /\ R[q.id] # Unborn /\ q.acks \subseteq Channels
           /\ Exists(R[q.id]) => Pinned(R[q.id], q.target, q.acks)

\* A team's model originates in that team.
OriginOK(M) == \A m \in Models : Exists(M[m]) /\ M[m].team # Global => M[m].origin = M[m].team

ModelsOK(M) == M \in [Models -> ModelRow \cup {Unborn, Gone}] /\ OriginOK(M)

RoutersOK(R) == R \in [Routers -> RouterRow \cup {Unborn, Gone}]

\* The slots each table accounts for.
ModelSlots(M) == {Direct("model", m, M[m].team, M[m].name) : m \in {i \in Models : Exists(M[i])}}
RouterSlots(R) == {Direct("router", r, R[r].team, R[r].name) : r \in {i \in Routers : Exists(R[i])}}
GrantSlots(G) == {Granted(g.kind, g.id, g.team, g.alias) : g \in G}

Directs(M, R) == ModelSlots(M) \cup RouterSlots(R)

\* The slots of one resource in D, and those of the others.
Own(D, id) == {x \in D : x.id = id}
Others(D, id) == {x \in D : x.id # id}
With(D, x) == D \cup {x}

\* The registry S agrees with the direct slots D and the grants G.
SlotsOK(S, D, G) ==
    /\ \A x \in S : x.scope \in Scopes
    /\ Consistent(S)
    /\ Live(S) = D \cup GrantSlots(G)

PendOK(P, M, R) == DOMAIN P = Procs /\ \A p \in Procs : P[p] # Idle => ReqOK(P[p], M, R)

Inv ==
    /\ ModelsOK(model) /\ RoutersOK(router)
    /\ GrantsOK(grants, model, router)
    /\ SlotsOK(slots, Directs(model, router), grants)
    /\ PendOK(pend, model, router)

-----------------------------------------------------------------------------
(* Slots.                                                                   *)

\* Claiming an alias adds one live slot: what it replaces is a tombstone.
LEMMA LiveClaim ==
  ASSUME NEW S, NEW kind \in Kinds, NEW id, NEW scope, NEW alias
  PROVE  Live(ClaimDirect(S, kind, id, scope, alias)) = Live(S) \cup {Direct(kind, id, scope, alias)}
  BY DEF Live, ClaimDirect, Direct, Tombstone, Kinds

\* Retiring live slots removes them, and nothing else, from the live ones.
LEMMA LiveRetire ==
  ASSUME NEW S, NEW gone, gone \subseteq Live(S)
  PROVE  Live(Retire(S, gone)) = Live(S) \ gone
  BY DEF Live, Retire, Tombstone

\* A tombstone takes the scope and the alias of the slot it replaces.
LEMMA RetireConsistent ==
  ASSUME NEW S, NEW gone, gone \subseteq Live(S), Consistent(S)
  PROVE  Consistent(Retire(S, gone))
<1>1. \A x \in Retire(S, gone) :
         \/ x \in S /\ x \notin gone
         \/ \E y \in gone : y \in S /\ x = Tombstone(y.scope, y.alias) /\ x.scope = y.scope /\ x.alias = y.alias
  BY DEF Retire, Live, Tombstone
<1>2. ASSUME NEW x \in Retire(S, gone), NEW y \in Retire(S, gone), x.scope = y.scope, x.alias = y.alias
      PROVE  x = y
  <2>1. \A a, b \in S : (a.scope = b.scope /\ a.alias = b.alias) => a = b
    BY DEF Consistent
  <2>2. CASE x \in S /\ x \notin gone BY <1>1, <1>2, <2>1, <2>2
  <2>3. CASE y \in S /\ y \notin gone BY <1>1, <1>2, <2>1, <2>3
  <2>4. CASE ~(x \in S /\ x \notin gone) /\ ~(y \in S /\ y \notin gone)
    <3>1. PICK a \in gone : x = Tombstone(a.scope, a.alias) /\ x.scope = a.scope /\ x.alias = a.alias
      BY <1>1, <2>4
    <3>2. PICK b \in gone : y = Tombstone(b.scope, b.alias) /\ y.scope = b.scope /\ y.alias = b.alias
      BY <1>1, <2>4
    <3> QED BY <1>2, <3>1, <3>2
  <2> QED BY <2>2, <2>3, <2>4
<1>3. \A x, y \in Live(Retire(S, gone)) : (x.id = y.id /\ ~x.grant /\ ~y.grant) => x = y
  BY LiveRetire DEF Consistent
<1> QED BY <1>2, <1>3 DEF Consistent

\* Retiring leaves every slot in a scope.
LEMMA RetireScopes ==
  ASSUME NEW S, NEW gone, gone \subseteq Live(S), \A x \in S : x.scope \in Scopes
  PROVE  \A x \in Retire(S, gone) : x.scope \in Scopes
  BY DEF Retire, Live, Tombstone

-----------------------------------------------------------------------------
(* The direct slots of the two tables.                                      *)

\* The direct slots a change of one model's row leaves and makes.
LEMMA ModelDirects ==
  ASSUME NEW M, NEW N, NEW R, NEW m \in Models, \A i \in Models \ {m} : N[i] = M[i]
  PROVE  /\ Exists(N[m]) => Directs(N, R) = With(Others(Directs(M, R), m), Direct("model", m, N[m].team, N[m].name))
         /\ ~Exists(N[m]) => Directs(N, R) = Others(Directs(M, R), m)
  BY IdsAssumption DEF Directs, ModelSlots, RouterSlots, Direct, Own, Others, With

\* The direct slots of one model: its own, if it has a row.
LEMMA ModelDirect ==
  ASSUME NEW M, NEW R, NEW m \in Models
  PROVE  /\ Exists(M[m]) => Own(Directs(M, R), m) = {Direct("model", m, M[m].team, M[m].name)}
         /\ ~Exists(M[m]) => \A x \in Directs(M, R) : x.id # m
  BY IdsAssumption DEF Directs, ModelSlots, RouterSlots, Direct, Own, Others, With

\* The direct slots a change of one router's row leaves and makes.
LEMMA RouterDirects ==
  ASSUME NEW M, NEW R, NEW Q, NEW r \in Routers, \A i \in Routers \ {r} : Q[i] = R[i]
  PROVE  /\ Exists(Q[r]) => Directs(M, Q) = With(Others(Directs(M, R), r), Direct("router", r, Q[r].team, Q[r].name))
         /\ ~Exists(Q[r]) => Directs(M, Q) = Others(Directs(M, R), r)
  BY IdsAssumption DEF Directs, ModelSlots, RouterSlots, Direct, Own, Others, With

\* The direct slots of one router: its own, if it has a row.
LEMMA RouterDirect ==
  ASSUME NEW M, NEW R, NEW r \in Routers
  PROVE  /\ Exists(R[r]) => Own(Directs(M, R), r) = {Direct("router", r, R[r].team, R[r].name)}
         /\ ~Exists(R[r]) => \A x \in Directs(M, R) : x.id # r
  BY IdsAssumption DEF Directs, ModelSlots, RouterSlots, Direct, Own, Others, With

\* Direct slots are not grants, grants' slots are.
LEMMA SlotSorts ==
  /\ \A M, R : \A x \in Directs(M, R) : ~x.grant
  /\ \A G : \A x \in GrantSlots(G) : x.grant
  BY DEF Directs, ModelSlots, RouterSlots, GrantSlots, Direct, Granted

-----------------------------------------------------------------------------
(* What the registry's operations make of an agreeing registry.             *)

\* claim_direct.
LEMMA ClaimSlots ==
  ASSUME NEW S, NEW D, NEW G, SlotsOK(S, D, G), NEW kind \in Kinds, NEW id, NEW scope \in Scopes, NEW alias,
         Consistent(ClaimDirect(S, kind, id, scope, alias))
  PROVE  SlotsOK(ClaimDirect(S, kind, id, scope, alias), With(D, Direct(kind, id, scope, alias)), G)
<1>1. \A x \in ClaimDirect(S, kind, id, scope, alias) : x.scope \in Scopes
  BY DEF SlotsOK, ClaimDirect, Direct
<1>2. Live(ClaimDirect(S, kind, id, scope, alias)) = D \cup GrantSlots(G) \cup {Direct(kind, id, scope, alias)}
  BY LiveClaim DEF SlotsOK
<1> QED BY <1>1, <1>2 DEF SlotsOK, With

\* rename_direct.
LEMMA RenameSlots ==
  ASSUME NEW S, NEW D, NEW G, SlotsOK(S, D, G), \A x \in D : ~x.grant,
         NEW kind \in Kinds, NEW id, NEW scope \in Scopes, NEW old, NEW new,
         Own(D, id) = {Direct(kind, id, scope, old)},
         Consistent(RenameDirect(S, kind, id, scope, old, new))
  PROVE  SlotsOK(RenameDirect(S, kind, id, scope, old, new),
                 With(Others(D, id), Direct(kind, id, scope, new)), G)
<1>1. CASE old = new
  <2>1. RenameDirect(S, kind, id, scope, old, new) = S BY <1>1 DEF RenameDirect
  <2>2. D = With(Others(D, id), Direct(kind, id, scope, new)) BY <1>1 DEF Own, Others, With
  <2> QED BY <2>1, <2>2
<1>2. CASE old # new
  <2> DEFINE gone == DirectSlots(S, id)
             T == Retire(S, gone)
  <2>1. RenameDirect(S, kind, id, scope, old, new) = ClaimDirect(T, kind, id, scope, new)
    BY <1>2 DEF RenameDirect
  <2>2. gone \subseteq Live(S) BY DEF DirectSlots
  <2>3. gone = Own(D, id) BY SlotSorts DEF DirectSlots, SlotsOK, Own
  <2>4. Live(S) \ gone = Others(D, id) \cup GrantSlots(G)
    BY <2>3, SlotSorts DEF SlotsOK, Own, Others
  <2>5. SlotsOK(T, Others(D, id), G)
    BY <2>2, <2>4, LiveRetire, RetireConsistent, RetireScopes DEF SlotsOK
  <2> HIDE DEF T
  <2> QED BY <2>1, <2>5, ClaimSlots
<1> QED BY <1>1, <1>2

\* tombstone_resource, of a resource without grants.
LEMMA RemoveSlots ==
  ASSUME NEW S, NEW D, NEW G, SlotsOK(S, D, G), NEW id, \A g \in G : g.id # id
  PROVE  SlotsOK(TombstoneResource(S, id), Others(D, id), G)
<1> DEFINE gone == {x \in Live(S) : x.id = id}
<1>1. gone \subseteq Live(S) OBVIOUS
<1>2. \A x \in GrantSlots(G) : x.id # id BY DEF GrantSlots, Granted
<1>3. Live(S) \ gone = Others(D, id) \cup GrantSlots(G) BY <1>2 DEF SlotsOK, Others
<1> QED BY <1>1, <1>3, LiveRetire, RetireConsistent, RetireScopes DEF SlotsOK, TombstoneResource

\* promote_direct, of a resource without grants.
LEMMA PromoteSlots ==
  ASSUME NEW S, NEW D, NEW G, SlotsOK(S, D, G), \A x \in D : ~x.grant,
         NEW kind \in Kinds, NEW id, NEW scope \in Scopes, scope # Global, NEW name,
         Own(D, id) = {Direct(kind, id, scope, name)},
         Consistent(PromoteDirect(S, kind, id, name))
  PROVE  SlotsOK(PromoteDirect(S, kind, id, name),
                 With(Others(D, id), Direct(kind, id, Global, name)), G)
<1> DEFINE local == {x \in DirectSlots(S, id) : x.scope # Global}
           P == (S \ (local \cup {Tombstone(Global, name)})) \cup {Direct(kind, id, Global, name)}
<1>1. DirectSlots(S, id) = Own(D, id) BY SlotSorts DEF DirectSlots, SlotsOK, Own
<1>2. local = {Direct(kind, id, scope, name)} BY <1>1 DEF Direct
<1>3. PromoteDirect(S, kind, id, name) = P BY <1>2 DEF PromoteDirect
<1>4. \A x \in P : x.scope \in Scopes BY DEF SlotsOK, Direct, Scopes
<1>5. Live(P) = (Live(S) \ Own(D, id)) \cup {Direct(kind, id, Global, name)}
  BY <1>2 DEF Live, Direct, Tombstone, Kinds
<1>6. Live(P) = With(Others(D, id), Direct(kind, id, Global, name)) \cup GrantSlots(G)
  BY <1>5, SlotSorts DEF SlotsOK, Own, Others, With
<1> QED BY <1>3, <1>4, <1>6 DEF SlotsOK

\* Part of a consistent registry is consistent.
LEMMA PartConsistent ==
  ASSUME NEW S, NEW T, T \subseteq S, Consistent(S)
  PROVE  Consistent(T)
  BY DEF Consistent, Live

\* The slots of a promoted model's grants: retired, or freed by the cascade.
LEMMA DropGrantSlots ==
  ASSUME NEW S, NEW D, NEW G, SlotsOK(S, D, G), \A x \in D : ~x.grant, NEW id, NEW canonical
  PROVE  SlotsOK(CascadeGrants(TombstoneResourceGrants(S, id, canonical), id), D, {g \in G : g.id # id})
<1> DEFINE gone == {x \in Live(S) : x.id = id /\ x.grant /\ x.alias # canonical}
           T == Retire(S, gone)
           U == CascadeGrants(T, id)
<1>1. gone \subseteq Live(S) OBVIOUS
<1>2. Live(T) = Live(S) \ gone /\ Consistent(T) /\ \A x \in T : x.scope \in Scopes
  BY <1>1, LiveRetire, RetireConsistent, RetireScopes DEF SlotsOK
<1>3. U \subseteq T BY DEF CascadeGrants
<1>4. Live(U) = {x \in Live(T) : ~(x.id = id /\ x.grant)} BY DEF CascadeGrants, Live
<1>5. Live(U) = {x \in Live(S) : ~(x.id = id /\ x.grant)} BY <1>2, <1>4
<1>6. {x \in GrantSlots(G) : ~(x.id = id /\ x.grant)} = GrantSlots({g \in G : g.id # id})
  BY DEF GrantSlots, Granted
<1>7. Live(U) = D \cup GrantSlots({g \in G : g.id # id}) BY <1>5, <1>6 DEF SlotsOK
<1>8. SlotsOK(U, D, {g \in G : g.id # id}) BY <1>2, <1>3, <1>7, PartConsistent DEF SlotsOK
<1> QED BY <1>8 DEF TombstoneResourceGrants

\* tombstone_grant.
LEMMA RevokeSlots ==
  ASSUME NEW S, NEW D, NEW G, SlotsOK(S, D, G), \A x \in D : ~x.grant, OnePerTeam(G), NEW g \in G
  PROVE  SlotsOK(TombstoneGrant(S, g), D, G \ {g})
<1> DEFINE gone == {x \in Live(S) : x.id = g.id /\ x.grant /\ x.scope = g.team}
<1>1. gone \subseteq Live(S) OBVIOUS
<1>2. {x \in GrantSlots(G) : ~(x.id = g.id /\ x.scope = g.team)} = GrantSlots(G \ {g})
  BY DEF GrantSlots, Granted, OnePerTeam
<1>3. Live(S) \ gone = D \cup GrantSlots(G \ {g}) BY <1>2, SlotSorts DEF SlotsOK
<1> QED BY <1>1, <1>3, LiveRetire, RetireConsistent, RetireScopes DEF SlotsOK, TombstoneGrant

\* The slots of new grants of one resource, at most one in a team.
LEMMA GrantSlotsFit ==
  ASSUME NEW S, NEW D, NEW G, SlotsOK(S, D, G), NEW new, NEW id, OnePerTeam(new),
         \A g \in new : g.id = id /\ IsGrant(g) /\ ~SlotReserved(S, g.team, g.alias)
  PROVE  SlotsOK(S \cup GrantSlots(new), D, G \cup new)
<1>1. \A x \in GrantSlots(new) : \E g \in new : x = Granted(g.kind, g.id, g.team, g.alias)
                                                /\ x.scope = g.team /\ x.alias = g.alias /\ x.grant
                                                /\ x.kind \in Kinds
  BY DEF GrantSlots, Granted, IsGrant
<1>2. ASSUME NEW x \in S \cup GrantSlots(new), NEW y \in S \cup GrantSlots(new), x.scope = y.scope, x.alias = y.alias
      PROVE  x = y
  <2>1. CASE x \in S /\ y \in S BY <1>2, <2>1 DEF SlotsOK, Consistent
  <2>2. CASE x \in S /\ y \in GrantSlots(new) BY <1>1, <1>2, <2>2 DEF SlotReserved
  <2>3. CASE x \in GrantSlots(new) /\ y \in S BY <1>1, <1>2, <2>3 DEF SlotReserved
  <2>4. CASE x \in GrantSlots(new) /\ y \in GrantSlots(new)
    BY <1>1, <1>2, <2>4 DEF OnePerTeam
  <2> QED BY <2>1, <2>2, <2>3, <2>4
<1>3. Live(S \cup GrantSlots(new)) = Live(S) \cup GrantSlots(new)
  BY <1>1 DEF Live, Kinds
<1>4. \A x, y \in Live(S \cup GrantSlots(new)) : (x.id = y.id /\ ~x.grant /\ ~y.grant) => x = y
  BY <1>1, <1>3 DEF SlotsOK, Consistent
<1>5. \A x \in S \cup GrantSlots(new) : x.scope \in Scopes
  BY <1>1 DEF SlotsOK, Scopes, IsGrant
<1>6. GrantSlots(G \cup new) = GrantSlots(G) \cup GrantSlots(new) BY DEF GrantSlots
<1> QED BY <1>2, <1>3, <1>4, <1>5, <1>6 DEF SlotsOK, Consistent

-----------------------------------------------------------------------------
(* What no step takes back: a row that was is not unborn again, ownership   *)
(* moves to the platform only, origins and revisions stay.                  *)

KeptM(M, N) ==
    \A m \in Models : M[m] # Unborn =>
        /\ N[m] # Unborn
        /\ Exists(N[m]) =>  /\ Exists(M[m])
                            /\ N[m].team \in {M[m].team, Global}
                            /\ N[m].origin = M[m].origin

Extends(new, old) == new = old \/ \E v \in Revision : new = Append(old, v)

KeptR(R, Q) ==
    \A r \in Routers : R[r] # Unborn =>
        /\ Q[r] # Unborn
        /\ Exists(Q[r]) =>  /\ Exists(R[r])
                            /\ Q[r].team \in {R[r].team, Global}
                            /\ Extends(Q[r].revs, R[r].revs)

\* A table that does not change keeps everything.
LEMMA KeptSame == (\A M : KeptM(M, M)) /\ (\A R : KeptR(R, R))
  BY DEF KeptM, KeptR, Extends, Exists

\* A revision stays where it was, and so does what it was acknowledged for.
LEMMA PinnedKept ==
  ASSUME NEW R, NEW Q, RoutersOK(R), KeptR(R, Q), NEW r \in Routers,
         Exists(R[r]), Exists(Q[r]), NEW k, NEW acks, Pinned(R[r], k, acks)
  PROVE  Pinned(Q[r], k, acks)
<1>1. R[r] # Unborn /\ R[r].revs \in Seq(Revision)
  BY DEF Exists, RoutersOK, RouterRow
<1>2. Extends(Q[r].revs, R[r].revs) BY <1>1 DEF KeptR
<1>3. CASE Q[r].revs = R[r].revs BY <1>3 DEF Pinned, Current
<1>4. ASSUME NEW v \in Revision, Q[r].revs = Append(R[r].revs, v) PROVE Pinned(Q[r], k, acks)
  <2>1. k \in 1..Len(R[r].revs) /\ Len(Q[r].revs) = Len(R[r].revs) + 1 BY <1>1, <1>4 DEF Pinned, Current
  <2>2. Q[r].revs[k] = R[r].revs[k] BY <1>1, <1>4, <2>1
  <2> QED BY <1>1, <2>1, <2>2 DEF Pinned, Current
<1> QED BY <1>2, <1>3, <1>4 DEF Extends

\* What a request in flight relies on survives the steps of the others.
LEMMA ReqKept ==
  ASSUME NEW q, NEW M, NEW N, NEW R, NEW Q, ReqOK(q, M, R), RoutersOK(R), KeptM(M, N), KeptR(R, Q)
  PROVE  ReqOK(q, N, Q)
<1>1. q.op = "model" =>
           /\ q.id \in Models /\ q.row \in ModelRow /\ N[q.id] # Unborn
           /\ Exists(N[q.id]) => q.row.origin = N[q.id].origin
  BY DEF ReqOK, KeptM
<1>2. q.op = "extend" =>
           q.id \in Models /\ N[q.id] # Unborn /\ NewOK(q.new, "model", q.id, N[q.id])
  BY DEF ReqOK, KeptM, NewOK
<1>3. q.op = "share" =>
           /\ q.id \in Routers /\ Q[q.id] # Unborn /\ NewOK(q.new, "router", q.id, Q[q.id])
           /\ Exists(Q[q.id]) => \A g \in q.new : Pinned(Q[q.id], g.rev, g.acks)
  <2> SUFFICES ASSUME q.op = "share"
               PROVE  /\ q.id \in Routers /\ Q[q.id] # Unborn /\ NewOK(q.new, "router", q.id, Q[q.id])
                      /\ Exists(Q[q.id]) => \A g \in q.new : Pinned(Q[q.id], g.rev, g.acks)
    OBVIOUS
  <2>1. q.id \in Routers /\ R[q.id] # Unborn BY DEF ReqOK
  <2>2. Q[q.id] # Unborn /\ NewOK(q.new, "router", q.id, Q[q.id]) BY <2>1 DEF ReqOK, KeptR, NewOK
  <2>3. ASSUME Exists(Q[q.id]), NEW g \in q.new PROVE Pinned(Q[q.id], g.rev, g.acks)
    <3>1. Exists(R[q.id]) BY <2>1, <2>3 DEF KeptR
    <3>2. Pinned(R[q.id], g.rev, g.acks) BY <3>1 DEF ReqOK
    <3> QED BY <2>1, <2>3, <3>1, <3>2, PinnedKept
  <2> QED BY <2>1, <2>2, <2>3
<1>4. q.op = "upgrade" =>
           /\ q.id \in Routers /\ Q[q.id] # Unborn /\ q.acks \subseteq Channels
           /\ Exists(Q[q.id]) => Pinned(Q[q.id], q.target, q.acks)
  <2> SUFFICES ASSUME q.op = "upgrade"
               PROVE  /\ q.id \in Routers /\ Q[q.id] # Unborn /\ q.acks \subseteq Channels
                      /\ Exists(Q[q.id]) => Pinned(Q[q.id], q.target, q.acks)
    OBVIOUS
  <2>1. q.id \in Routers /\ R[q.id] # Unborn /\ q.acks \subseteq Channels BY DEF ReqOK
  <2>2. Q[q.id] # Unborn BY <2>1 DEF KeptR
  <2>3. ASSUME Exists(Q[q.id]) PROVE Pinned(Q[q.id], q.target, q.acks)
    <3>1. Exists(R[q.id]) BY <2>1, <2>3 DEF KeptR
    <3>2. Pinned(R[q.id], q.target, q.acks) BY <3>1 DEF ReqOK
    <3> QED BY <2>1, <2>3, <3>1, <3>2, PinnedKept
  <2> QED BY <2>1, <2>2, <2>3
<1> QED BY <1>1, <1>2, <1>3, <1>4 DEF ReqOK

\* The requests in flight, when none begins.
LEMMA PendKept ==
  ASSUME NEW P, NEW M, NEW N, NEW R, NEW Q, PendOK(P, M, R), RoutersOK(R), KeptM(M, N), KeptR(R, Q)
  PROVE  PendOK(P, N, Q) /\ \A p \in Procs : PendOK([P EXCEPT ![p] = Idle], N, Q)
<1>1. \A p \in Procs : P[p] # Idle => ReqOK(P[p], N, Q) BY ReqKept DEF PendOK
<1> QED BY <1>1 DEF PendOK

\* The requests in flight, when one begins.
LEMMA PendBegun ==
  ASSUME NEW P, NEW M, NEW R, PendOK(P, M, R), NEW p \in Procs, NEW q, ReqOK(q, M, R)
  PROVE  PendOK([P EXCEPT ![p] = q], M, R)
  BY DEF PendOK

\* Grants stay good while their resources keep their owner.
LEMMA GrantsKept ==
  ASSUME NEW G, NEW H, NEW M, NEW N, NEW R, NEW Q, GrantsOK(G, M, R), H \subseteq G,
         RoutersOK(R), KeptR(R, Q),
         \A g \in H : g.kind = "model" => Exists(N[g.id]) /\ N[g.id].team = M[g.id].team,
         \A g \in H : g.kind = "router" => Exists(Q[g.id]) /\ Q[g.id].team = R[g.id].team
  PROVE  GrantsOK(H, N, Q)
<1>1. OnePerTeam(H) BY DEF GrantsOK, OnePerTeam
<1>2. ASSUME NEW g \in H PROVE GrantOK(g, N, Q)
  <2>1. GrantOK(g, M, R) BY DEF GrantsOK
  <2>2. IsGrant(g) BY <2>1 DEF GrantOK
  <2>3. g.kind = "model" => OwnedApart(N[g.id], g) BY <2>1 DEF GrantOK, OwnedApart
  <2>4. g.kind = "router" => OwnedApart(Q[g.id], g) BY <2>1 DEF GrantOK, OwnedApart
  <2>5. ASSUME g.kind = "router" PROVE Pinned(Q[g.id], g.rev, g.acks)
    <3>1. g.id \in Routers /\ Exists(R[g.id]) /\ Pinned(R[g.id], g.rev, g.acks)
      BY <2>1, <2>5 DEF GrantOK, IsGrant, OwnedApart
    <3> QED BY <2>5, <3>1, PinnedKept
  <2> QED BY <2>2, <2>3, <2>4, <2>5 DEF GrantOK
<1> QED BY <1>1, <1>2 DEF GrantsOK

-----------------------------------------------------------------------------
(* The steps.                                                               *)

StepOK == Inv' /\ KeptM(model, model') /\ KeptR(router, router')

\* No request begins in the step; one may end.
NoneBegins == pend' = pend \/ \E p \in Procs : pend' = [pend EXCEPT ![p] = Idle]

\* A step in which no request begins is good when its tables, grants and slots are.
LEMMA Settled ==
  ASSUME Inv, NoneBegins, ModelsOK(model'), RoutersOK(router'), KeptM(model, model'), KeptR(router, router'),
         GrantsOK(grants', model', router'), SlotsOK(slots', Directs(model', router'), grants')
  PROVE  StepOK
<1>1. PendOK(pend, model, router) /\ RoutersOK(router) BY DEF Inv
<1>2. PendOK(pend, model', router') /\ \A p \in Procs : PendOK([pend EXCEPT ![p] = Idle], model', router')
  BY <1>1, PendKept
<1>3. PendOK(pend', model', router') BY <1>2 DEF NoneBegins
<1> QED BY <1>3 DEF StepOK, Inv

\* A step that changes the row of one model, whose grants stay only with their
\* owner.
LEMMA ModelStep ==
  ASSUME Inv, NoneBegins, NEW m \in Models, ModelsOK(model'), \A i \in Models \ {m} : model'[i] = model[i],
         model[m] # Unborn => /\ model'[m] # Unborn /\ Exists(model[m])
                              /\ Exists(model'[m]) => model'[m].team \in {model[m].team, Global}
                              /\ Exists(model'[m]) => model'[m].origin = model[m].origin,
         router' = router, grants' \subseteq grants,
         \A g \in grants' : g.id = m => Exists(model'[m]) /\ model'[m].team = model[m].team,
         SlotsOK(slots', Directs(model', router), grants')
  PROVE  StepOK
<1>1. KeptM(model, model')
  <2> SUFFICES ASSUME NEW i \in Models, model[i] # Unborn
               PROVE  /\ model'[i] # Unborn
                      /\ Exists(model'[i]) =>  /\ Exists(model[i])
                                               /\ model'[i].team \in {model[i].team, Global}
                                               /\ model'[i].origin = model[i].origin
    BY DEF KeptM
  <2>1. CASE i = m BY <2>1
  <2>2. CASE i # m BY <2>2
  <2> QED BY <2>1, <2>2
<1>2. KeptR(router, router') BY KeptSame
<1>3. GrantsOK(grants, model, router) /\ RoutersOK(router) BY DEF Inv
<1>4. ASSUME NEW g \in grants', g.kind = "model"
      PROVE  Exists(model'[g.id]) /\ model'[g.id].team = model[g.id].team
  <2>1. g.id \in Models /\ Exists(model[g.id]) BY <1>3, <1>4 DEF GrantsOK, GrantOK, IsGrant, OwnedApart
  <2> QED BY <2>1
<1>5. ASSUME NEW g \in grants', g.kind = "router"
      PROVE  Exists(router[g.id]) /\ router[g.id].team = router[g.id].team
  BY <1>3, <1>5 DEF GrantsOK, GrantOK, OwnedApart
<1>6. GrantsOK(grants', model', router') BY <1>2, <1>3, <1>4, <1>5, GrantsKept
<1> QED BY <1>1, <1>2, <1>3, <1>6, Settled

\* The same for routers.
LEMMA RouterStep ==
  ASSUME Inv, NoneBegins, NEW r \in Routers, RoutersOK(router'), \A i \in Routers \ {r} : router'[i] = router[i],
         router[r] # Unborn => /\ router'[r] # Unborn /\ Exists(router[r])
                               /\ Exists(router'[r]) => router'[r].team \in {router[r].team, Global}
                               /\ Exists(router'[r]) => Extends(router'[r].revs, router[r].revs),
         model' = model, grants' = grants,
         \A g \in grants : g.id = r => Exists(router'[r]) /\ router'[r].team = router[r].team,
         SlotsOK(slots', Directs(model, router'), grants)
  PROVE  StepOK
<1>1. KeptR(router, router')
  <2> SUFFICES ASSUME NEW i \in Routers, router[i] # Unborn
               PROVE  /\ router'[i] # Unborn
                      /\ Exists(router'[i]) =>  /\ Exists(router[i])
                                                /\ router'[i].team \in {router[i].team, Global}
                                                /\ Extends(router'[i].revs, router[i].revs)
    BY DEF KeptR
  <2>1. CASE i = r BY <2>1
  <2>2. CASE i # r BY <2>2 DEF Extends
  <2> QED BY <2>1, <2>2
<1>2. KeptM(model, model') BY KeptSame
<1>3. GrantsOK(grants, model, router) /\ RoutersOK(router) /\ ModelsOK(model) BY DEF Inv
<1>4. ASSUME NEW g \in grants, g.kind = "router"
      PROVE  Exists(router'[g.id]) /\ router'[g.id].team = router[g.id].team
  <2>1. g.id \in Routers /\ Exists(router[g.id]) BY <1>3, <1>4 DEF GrantsOK, GrantOK, IsGrant, OwnedApart
  <2> QED BY <2>1
<1>5. ASSUME NEW g \in grants, g.kind = "model"
      PROVE  Exists(model[g.id]) /\ model[g.id].team = model[g.id].team
  BY <1>3, <1>5 DEF GrantsOK, GrantOK, OwnedApart
<1>6. GrantsOK(grants, model, router') BY <1>1, <1>3, <1>4, <1>5, GrantsKept
<1> QED BY <1>1, <1>2, <1>3, <1>6, Settled

\* A step of a request that only reads.
LEMMA BeginStep ==
  ASSUME Inv, NEW p \in Procs, NEW q, ReqOK(q, model, router), Begin(p, q),
         UNCHANGED <<model, router, grants, slots>>
  PROVE  StepOK
<1>1. PendOK(pend', model, router) BY PendBegun DEF Inv, Begin
<1> QED BY <1>1, KeptSame DEF StepOK, Inv

\* The direct slots of an agreeing registry are no grants.
LEMMA InvSlots ==
  ASSUME Inv
  PROVE  SlotsOK(slots, Directs(model, router), grants) /\ \A x \in Directs(model, router) : ~x.grant
  BY SlotSorts DEF Inv

\* A row is not one of the two marks for no row.
LEMMA RowsExist == (\A row \in ModelRow : Exists(row)) /\ (\A row \in RouterRow : Exists(row))
  BY IdsAssumption DEF Exists

\* A model or a router that exists has a row.
LEMMA ExistingRows ==
  ASSUME Inv
  PROVE  /\ \A m \in Models : Exists(model[m]) => model[m] \in ModelRow /\ model[m] # Unborn
         /\ \A r \in Routers : Exists(router[r]) => router[r] \in RouterRow /\ router[r] # Unborn
  BY DEF Inv, ModelsOK, RoutersOK, Exists

\* Grants are of resources that exist and that a team owns.
LEMMA GrantedOwners ==
  ASSUME Inv
  PROVE  /\ \A m \in Models : (\E g \in grants : g.id = m) => Exists(model[m]) /\ model[m].team # Global
         /\ \A r \in Routers : (\E g \in grants : g.id = r) => Exists(router[r]) /\ router[r].team # Global
  BY IdsAssumption DEF Inv, GrantsOK, GrantOK, IsGrant, OwnedApart, Kinds

\* ModelService.create.
LEMMA CreateModelOK ==
  ASSUME Inv, NEW m \in Models, NEW s \in Scopes, NEW n \in Names, CreateModel(m, s, n)
  PROVE  StepOK
<1> DEFINE row == [team |-> s, origin |-> s, name |-> n, enabled |-> TRUE]
<1>1. model[m] = Unborn /\ model' = [model EXCEPT ![m] = row] /\ UNCHANGED <<router, grants, pend>>
      /\ slots' = ClaimDirect(slots, "model", m, row.team, row.name) /\ Consistent(slots')
  BY DEF CreateModel, AddModel
<1>2. row \in ModelRow BY DEF ModelRow
<1>3. row.team = s /\ row.name = n /\ row.origin = row.team OBVIOUS
<1> HIDE DEF row
<1>4. DOMAIN model = Models BY DEF Inv, ModelsOK
<1>5. model'[m] = row /\ \A i \in Models \ {m} : model'[i] = model[i] BY <1>1, <1>4
<1>6. ModelsOK(model') BY <1>1, <1>2, <1>3, <1>5 DEF Inv, ModelsOK, OriginOK
<1>7. ~Exists(model[m]) /\ Exists(model'[m]) BY <1>1, <1>2, <1>5, RowsExist DEF Exists
<1>8. Others(Directs(model, router), m) = Directs(model, router) BY <1>7, ModelDirect DEF Others
<1>9. Directs(model', router) = With(Directs(model, router), Direct("model", m, s, n))
  BY <1>3, <1>5, <1>7, <1>8, ModelDirects
<1>10. SlotsOK(slots', Directs(model', router), grants)
  <2>1. "model" \in Kinds BY DEF Kinds
  <2>2. Consistent(ClaimDirect(slots, "model", m, s, n)) BY <1>1, <1>3
  <2>3. SlotsOK(ClaimDirect(slots, "model", m, s, n), With(Directs(model, router), Direct("model", m, s, n)), grants)
    BY <2>1, <2>2, InvSlots, ClaimSlots
  <2> QED BY <1>1, <1>3, <1>9, <2>3
<1>11. \A g \in grants : g.id # m BY <1>7, GrantedOwners
<1> QED BY <1>1, <1>5, <1>6, <1>10, <1>11, ModelStep DEF NoneBegins

\* ModelService.update reads.
LEMMA ReadModelOK ==
  ASSUME Inv, NEW p \in Procs, NEW m \in Models, NEW n \in Names, NEW on \in BOOLEAN, ReadModel(p, m, n, on)
  PROVE  StepOK
<1> DEFINE row == [model[m] EXCEPT !.name = n, !.enabled = on]
           q == [op |-> "model", id |-> m, row |-> row]
<1>1. model[m] \in ModelRow /\ model[m] # Unborn BY ExistingRows DEF ReadModel
<1>2. row \in ModelRow /\ row.origin = model[m].origin BY <1>1 DEF ModelRow
<1>3. Begin(p, q) /\ UNCHANGED <<model, router, grants, slots>> BY DEF ReadModel
<1>4. ReqOK(q, model, router)
  <2> HIDE DEF row
  <2> QED BY <1>1, <1>2 DEF ReqOK
<1> HIDE DEF q
<1> QED BY <1>3, <1>4, BeginStep

\* A write that is refused.
LEMMA RefusedOK ==
  ASSUME Inv, NoneBegins, UNCHANGED <<model, router, grants, slots>>
  PROVE  StepOK
  BY Settled, KeptSame DEF Inv

\* The row that replaces a model's, under the same owner, and its slot.
LEMMA ReplaceModel ==
  ASSUME Inv, NoneBegins, NEW m \in Models, Exists(model[m]), NEW row \in ModelRow,
         row.team = model[m].team, row.origin = model[m].origin,
         ModelsOK(model'), model'[m] = row, \A i \in Models \ {m} : model'[i] = model[i],
         slots' = RenameDirect(slots, "model", m, row.team, model[m].name, row.name), Consistent(slots'),
         UNCHANGED <<router, grants>>
  PROVE  StepOK
<1>1. Exists(model'[m]) /\ model'[m] # Unborn BY RowsExist DEF Exists
<1>2. Directs(model', router) = With(Others(Directs(model, router), m), Direct("model", m, row.team, row.name))
  BY <1>1, ModelDirects
<1>3. Own(Directs(model, router), m) = {Direct("model", m, row.team, model[m].name)}
  BY ModelDirect
<1>4. row.team \in Scopes BY DEF ModelRow
<1>5. SlotsOK(slots', Directs(model', router), grants)
  <2>1. "model" \in Kinds BY DEF Kinds
  <2>2. Consistent(RenameDirect(slots, "model", m, row.team, model[m].name, row.name)) OBVIOUS
  <2>3. SlotsOK(RenameDirect(slots, "model", m, row.team, model[m].name, row.name),
                With(Others(Directs(model, router), m), Direct("model", m, row.team, row.name)), grants)
    BY <1>3, <1>4, <2>1, <2>2, InvSlots, RenameSlots
  <2> QED BY <1>2, <2>3
<1> QED BY <1>1, <1>5, ModelStep

\* _apply_update, for a team's row or the platform's.
LEMMA WriteModelOK ==
  ASSUME Inv, NEW p \in Procs, WriteModel(p)
  PROVE  StepOK
<1> DEFINE m == pend[p].id
           row == pend[p].row
<1>1. NoneBegins /\ pend[p] # Idle /\ pend[p].op = "model" /\ UNCHANGED <<router, grants>>
  BY DEF WriteModel, Finish, NoneBegins
<1>2. ReqOK(pend[p], model, router) BY <1>1 DEF Inv, PendOK
<1>3. m \in Models /\ row \in ModelRow /\ (Exists(model[m]) => row.origin = model[m].origin)
  BY <1>1, <1>2 DEF ReqOK
<1>4. \/ UNCHANGED <<model, slots>>
      \/ /\ Exists(model[m]) /\ row.team = model[m].team
         /\ model' = [model EXCEPT ![m] = row]
         /\ slots' = RenameDirect(slots, "model", m, row.team, model[m].name, row.name) /\ Consistent(slots')
  <2>1. CASE row.team = Global BY <2>1 DEF WriteModel, UpdateGlobalModel, ApplyUpdate
  <2>2. CASE row.team # Global BY <2>2 DEF WriteModel, UpdateModel, ApplyUpdate
  <2> QED BY <2>1, <2>2
<1> HIDE DEF m, row
<1>5. CASE UNCHANGED <<model, slots>> BY <1>1, <1>5, RefusedOK
<1>6. CASE ~UNCHANGED <<model, slots>>
  <2>1. /\ Exists(model[m]) /\ row.team = model[m].team
        /\ slots' = RenameDirect(slots, "model", m, row.team, model[m].name, row.name) /\ Consistent(slots')
    BY <1>4, <1>6
  <2>2. model' = [model EXCEPT ![m] = row] BY <1>4, <1>6
  <2>3. model'[m] = row /\ \A i \in Models \ {m} : model'[i] = model[i] BY <1>3, <2>2 DEF Inv, ModelsOK
  <2>4. ModelsOK(model') BY <1>3, <2>1, <2>2, <2>3 DEF Inv, ModelsOK, OriginOK
  <2> QED BY <1>1, <1>3, <2>1, <2>3, <2>4, ReplaceModel
<1> QED BY <1>5, <1>6

\* remove and remove_global.
LEMMA RemoveModelOK ==
  ASSUME Inv, NEW m \in Models, RemoveModel(m) \/ RemoveGlobalModel(m)
  PROVE  StepOK
<1>1. /\ Exists(model[m]) /\ model' = [model EXCEPT ![m] = Gone] /\ UNCHANGED <<router, grants, pend>>
      /\ slots' = TombstoneResource(slots, m) /\ \A g \in grants : g.id # m
  BY DEF RemoveModel, RemoveGlobalModel
<1>2. DOMAIN model = Models BY DEF Inv, ModelsOK
<1>3. model'[m] = Gone /\ \A i \in Models \ {m} : model'[i] = model[i] BY <1>1, <1>2
<1>4. ~Exists(model'[m]) /\ model'[m] # Unborn BY <1>3, IdsAssumption DEF Exists
<1>5. ModelsOK(model') BY <1>1, <1>3, <1>4 DEF Inv, ModelsOK, OriginOK
<1>6. Directs(model', router) = Others(Directs(model, router), m) BY <1>3, <1>4, ModelDirects
<1>7. SlotsOK(slots', Directs(model', router), grants) BY <1>1, <1>6, InvSlots, RemoveSlots
<1> QED BY <1>1, <1>3, <1>4, <1>5, <1>7, ModelStep DEF NoneBegins

\* promote_to_global.
LEMMA MakeModelGlobalOK ==
  ASSUME Inv, NEW m \in Models, MakeModelGlobal(m)
  PROVE  StepOK
<1> DEFINE n == model[m].name
           T == CascadeGrants(TombstoneResourceGrants(slots, m, n), m)
           H == {g \in grants : g.id # m}
<1>1. /\ Exists(model[m]) /\ model[m].team # Global /\ UNCHANGED <<router, pend>>
      /\ slots' = PromoteDirect(T, "model", m, n) /\ Consistent(slots') /\ grants' = H
      /\ model' = [model EXCEPT ![m].origin = model[m].team, ![m].team = Global]
  BY DEF MakeModelGlobal, PromoteModel
<1>2. model \in [Models -> ModelRow \cup {Unborn, Gone}] /\ model[m] \in ModelRow /\ model[m].origin = model[m].team
  BY <1>1, ExistingRows DEF Inv, ModelsOK, OriginOK
<1>3. model'[m] = [model[m] EXCEPT !.origin = model[m].team, !.team = Global]
      /\ \A i \in Models \ {m} : model'[i] = model[i]
  BY <1>1, <1>2
<1>4. /\ model'[m] \in ModelRow /\ model'[m].team = Global /\ model'[m].name = n
      /\ model'[m].origin = model[m].origin /\ model[m].team \in Scopes
  BY <1>2, <1>3 DEF ModelRow, Scopes
<1>5. model' \in [Models -> ModelRow \cup {Unborn, Gone}]
  <2>1. DOMAIN model' = Models /\ \A i \in Models : model'[i] \in ModelRow \cup {Unborn, Gone} BY <1>1, <1>2, <1>3, <1>4
  <2>2. model' = [i \in Models |-> model'[i]] BY <1>1, <1>2
  <2> QED BY <2>1, <2>2
<1>6. ModelsOK(model') BY <1>3, <1>4, <1>5 DEF Inv, ModelsOK, OriginOK
<1>7. Exists(model'[m]) /\ model'[m] # Unborn BY <1>4, RowsExist DEF Exists
<1>8. SlotsOK(T, Directs(model, router), H) BY InvSlots, DropGrantSlots
<1>9. Directs(model', router) = With(Others(Directs(model, router), m), Direct("model", m, Global, n))
  <2>1. Exists(model'[m]) =>
          Directs(model', router) = With(Others(Directs(model, router), m),
                                         Direct("model", m, model'[m].team, model'[m].name))
    <3>1. \A i \in Models \ {m} : model'[i] = model[i] BY <1>3
    <3> QED BY <3>1, ModelDirects
  <2> QED BY <1>4, <1>7, <2>1
<1>10. Own(Directs(model, router), m) = {Direct("model", m, model[m].team, n)}
  BY <1>1, ModelDirect
<1> HIDE DEF T, H, n
<1>11. SlotsOK(slots', Directs(model', router), grants')
  <2>1. \A x \in Directs(model, router) : ~x.grant BY InvSlots
  <2>2. "model" \in Kinds BY DEF Kinds
  <2>3. Consistent(PromoteDirect(T, "model", m, n)) BY <1>1
  <2>4. SlotsOK(PromoteDirect(T, "model", m, n), With(Others(Directs(model, router), m), Direct("model", m, Global, n)), H)
    BY <1>1, <1>4, <1>8, <1>10, <2>1, <2>2, <2>3, PromoteSlots
  <2> QED BY <1>1, <1>9, <2>4
<1>12. grants' \subseteq grants /\ \A g \in grants' : g.id # m BY <1>1 DEF H
<1> QED BY <1>1, <1>3, <1>4, <1>6, <1>7, <1>11, <1>12, ModelStep DEF NoneBegins

\* The grants extend() prepares: one for a team, none for the owner.
LEMMA NewGrantsOK ==
  ASSUME NEW kind \in Kinds, NEW id, NEW row, NEW targets \in SUBSET Teams, NEW rev, NEW acks \in SUBSET Channels,
         kind = "model" => id \in Models, kind = "router" => id \in Routers
  PROVE  NewOK(NewGrants(kind, id, row, targets, rev, acks), kind, id, row)
<1> DEFINE new == NewGrants(kind, id, row, targets, rev, acks)
<1>1. ASSUME NEW g \in new
      PROVE  \E t \in targets : /\ t # row.team
                                /\ g = [kind |-> kind, id |-> id, team |-> t, alias |-> Disambiguate(t, row.name),
                                        rev |-> rev, acks |-> acks]
  BY DEF NewGrants
<1>2. \A g \in new : IsGrant(g) /\ g.kind = kind /\ g.id = id /\ g.team # row.team
  BY <1>1 DEF IsGrant
<1>3. \A g, h \in new : g.team = h.team => g = h BY <1>1
<1> HIDE DEF new
<1> QED BY <1>2, <1>3 DEF NewOK, OnePerTeam, new

\* ModelService.extend reads.
LEMMA ReadExtendModelOK ==
  ASSUME Inv, NEW p \in Procs, NEW m \in Models, NEW T \in SUBSET Teams, ReadExtendModel(p, m, T)
  PROVE  StepOK
<1> DEFINE new == NewGrants("model", m, model[m], T, 0, {})
           q == [op |-> "extend", id |-> m, new |-> new]
<1>1. model[m] # Unborn BY DEF ReadExtendModel, Exists
<1>2. NewOK(new, "model", m, model[m]) BY NewGrantsOK DEF Kinds
<1>3. Begin(p, q) /\ UNCHANGED <<model, router, grants, slots>> BY DEF ReadExtendModel
<1>4. ReqOK(q, model, router)
  <2> HIDE DEF new
  <2> QED BY <1>1, <1>2 DEF ReqOK
<1> HIDE DEF q
<1> QED BY <1>3, <1>4, BeginStep

\* All the grants of one call, or none.
LEMMA AddGrantsOK ==
  ASSUME Inv, NoneBegins, NEW new, NEW kind, NEW id, NEW row, NewOK(new, kind, id, row), AddGrants(new),
         Exists(row), row.team # Global,
         kind = "model" => row = model[id],
         kind = "router" => row = router[id] /\ \A g \in new : Pinned(row, g.rev, g.acks),
         UNCHANGED <<model, router>>
  PROVE  StepOK
<1>1. CASE ~GrantsFit(new) BY <1>1, RefusedOK DEF AddGrants
<1>2. CASE GrantsFit(new)
  <2>1. grants' = grants \cup new /\ slots' = slots \cup GrantSlots(new) BY <1>2 DEF AddGrants, GrantSlots
  <2>2. \A g \in new : IsGrant(g) /\ g.kind = kind /\ g.id = id /\ g.team # row.team BY DEF NewOK
  <2>3. OnePerTeam(new) BY DEF NewOK
  <2>4. \A g \in new : g.id = id /\ IsGrant(g) /\ ~SlotReserved(slots, g.team, g.alias)
    BY <1>2, <2>2 DEF GrantsFit
  <2>5. SlotsOK(slots', Directs(model, router), grants') BY <2>1, <2>3, <2>4, InvSlots, GrantSlotsFit
  <2>6. OnePerTeam(grants \cup new) BY <1>2, <2>3 DEF GrantsFit, OnePerTeam, Inv, GrantsOK
  <2>7. \A g \in new : GrantOK(g, model, router)
    BY <2>2 DEF GrantOK, OwnedApart
  <2>8. GrantsOK(grants', model, router) BY <2>1, <2>6, <2>7 DEF Inv, GrantsOK
  <2>9. ModelsOK(model) /\ RoutersOK(router) BY DEF Inv
  <2> QED BY <2>5, <2>8, <2>9, KeptSame, Settled
<1> QED BY <1>1, <1>2

\* extend writes the grants of a model.
LEMMA WriteExtendModelOK ==
  ASSUME Inv, NEW p \in Procs, WriteExtendModel(p)
  PROVE  StepOK
<1> DEFINE m == pend[p].id
           new == pend[p].new
<1>1. NoneBegins /\ pend[p] # Idle /\ pend[p].op = "extend" /\ UNCHANGED <<model, router>>
  BY DEF WriteExtendModel, Finish, NoneBegins
<1>2. ReqOK(pend[p], model, router) BY <1>1 DEF Inv, PendOK
<1>3. NewOK(new, "model", m, model[m]) BY <1>1, <1>2 DEF ReqOK
<1>4. UNCHANGED <<grants, slots>> \/ (Exists(model[m]) /\ model[m].team # Global /\ AddGrants(new))
  BY DEF WriteExtendModel
<1>5. CASE UNCHANGED <<grants, slots>> BY <1>1, <1>5, RefusedOK
<1>6. CASE Exists(model[m]) /\ model[m].team # Global /\ AddGrants(new)
  <2> HIDE DEF new, m
  <2> QED BY <1>1, <1>3, <1>6, AddGrantsOK
<1> QED BY <1>4, <1>5, <1>6

\* unextend.
LEMMA RemoveGrantOK ==
  ASSUME Inv, NEW g \in grants, RemoveModelGrant(g) \/ RemoveRouterGrant(g)
  PROVE  StepOK
<1>1. slots' = TombstoneGrant(slots, g) /\ grants' = grants \ {g} /\ UNCHANGED <<model, router, pend>>
  BY DEF RemoveModelGrant, RemoveRouterGrant
<1>2. GrantsOK(grants, model, router) /\ ModelsOK(model) /\ RoutersOK(router) BY DEF Inv
<1>3. OnePerTeam(grants) /\ OnePerTeam(grants \ {g}) BY <1>2 DEF GrantsOK, OnePerTeam
<1>4. SlotsOK(slots', Directs(model, router), grants \ {g}) BY <1>1, <1>3, InvSlots, RevokeSlots
<1>5. GrantsOK(grants \ {g}, model, router) BY <1>2, <1>3 DEF GrantsOK
<1> QED BY <1>1, <1>2, <1>4, <1>5, KeptSame, Settled DEF NoneBegins

\* RouterService.create.
LEMMA CreateRouterOK ==
  ASSUME Inv, NEW r \in Routers, NEW s \in Scopes, NEW n \in Names, NEW rev \in Revision, CreateRouter(r, s, n, rev)
  PROVE  StepOK
<1> DEFINE row == [team |-> s, origin |-> Global, name |-> n, revs |-> <<rev>>]
<1>1. router[r] = Unborn /\ router' = [router EXCEPT ![r] = row] /\ UNCHANGED <<model, grants, pend>>
      /\ slots' = ClaimDirect(slots, "router", r, s, n) /\ Consistent(slots')
  BY DEF CreateRouter, AddRouter
<1>2. row \in RouterRow
  <2>1. <<rev>> \in Seq(Revision) /\ <<rev>> # <<>> OBVIOUS
  <2> QED BY <2>1 DEF RouterRow, Scopes
<1>3. row.team = s /\ row.name = n OBVIOUS
<1> HIDE DEF row
<1>4. router \in [Routers -> RouterRow \cup {Unborn, Gone}] BY DEF Inv, RoutersOK
<1>5. router'[r] = row /\ \A i \in Routers \ {r} : router'[i] = router[i] BY <1>1, <1>4
<1>6. RoutersOK(router') BY <1>1, <1>2, <1>4 DEF RoutersOK
<1>7. ~Exists(router[r]) /\ Exists(router'[r]) BY <1>1, <1>2, <1>5, RowsExist DEF Exists
<1>8. Others(Directs(model, router), r) = Directs(model, router) BY <1>7, RouterDirect DEF Others
<1>9. Directs(model, router') = With(Directs(model, router), Direct("router", r, s, n))
  BY <1>3, <1>5, <1>7, <1>8, RouterDirects
<1>10. SlotsOK(slots', Directs(model, router'), grants)
  <2>1. "router" \in Kinds BY DEF Kinds
  <2>2. Consistent(ClaimDirect(slots, "router", r, s, n)) BY <1>1
  <2>3. SlotsOK(ClaimDirect(slots, "router", r, s, n), With(Directs(model, router), Direct("router", r, s, n)), grants)
    BY <2>1, <2>2, InvSlots, ClaimSlots
  <2> QED BY <1>1, <1>9, <2>3
<1>11. \A g \in grants : g.id # r BY <1>7, GrantedOwners
<1>12. model' = model /\ grants' = grants /\ router[r] = Unborn /\ NoneBegins BY <1>1 DEF NoneBegins
<1> QED BY <1>5, <1>6, <1>10, <1>11, <1>12, RouterStep

\* RouterService.update reads.
LEMMA ReadRouterOK ==
  ASSUME Inv, NEW p \in Procs, NEW r \in Routers, NEW n \in Names, NEW rev \in Revision, ReadRouter(p, r, n, rev)
  PROVE  StepOK
<1> DEFINE q == [op |-> "router", id |-> r, team |-> router[r].team, name |-> n,
                 base |-> Current(router[r]), rev |-> rev]
<1>1. Begin(p, q) /\ UNCHANGED <<model, router, grants, slots>> BY DEF ReadRouter
<1>2. ReqOK(q, model, router) BY DEF ReqOK
<1> HIDE DEF q
<1> QED BY <1>1, <1>2, BeginStep

\* The row that replaces a router's, under the same owner, and its slot.
LEMMA ReplaceRouter ==
  ASSUME Inv, NoneBegins, NEW r \in Routers, Exists(router[r]), NEW row \in RouterRow,
         row.team = router[r].team, Extends(row.revs, router[r].revs),
         RoutersOK(router'), router'[r] = row, \A i \in Routers \ {r} : router'[i] = router[i],
         slots' = RenameDirect(slots, "router", r, row.team, router[r].name, row.name), Consistent(slots'),
         UNCHANGED <<model, grants>>
  PROVE  StepOK
<1>1. Exists(router'[r]) /\ router'[r] # Unborn BY RowsExist DEF Exists
<1>2. Directs(model, router') = With(Others(Directs(model, router), r), Direct("router", r, row.team, row.name))
  BY <1>1, RouterDirects
<1>3. Own(Directs(model, router), r) = {Direct("router", r, row.team, router[r].name)}
  BY RouterDirect
<1>4. row.team \in Scopes BY DEF RouterRow
<1>5. SlotsOK(slots', Directs(model, router'), grants)
  <2>1. "router" \in Kinds BY DEF Kinds
  <2>2. Consistent(RenameDirect(slots, "router", r, row.team, router[r].name, row.name)) OBVIOUS
  <2>3. SlotsOK(RenameDirect(slots, "router", r, row.team, router[r].name, row.name),
                With(Others(Directs(model, router), r), Direct("router", r, row.team, row.name)), grants)
    BY <1>3, <1>4, <2>1, <2>2, InvSlots, RenameSlots
  <2> QED BY <1>2, <2>3
<1> QED BY <1>1, <1>5, RouterStep

\* WriteRouter's row: the head it read, and one more revision.
LEMMA WriteRouterOK ==
  ASSUME Inv, NEW p \in Procs, WriteRouter(p)
  PROVE  StepOK
<1> DEFINE r == pend[p].id
           n == pend[p].name
           v == pend[p].rev
           row == [router[r] EXCEPT !.name = n, !.revs = Append(@, v)]
<1>1. NoneBegins /\ pend[p] # Idle /\ pend[p].op = "router" /\ UNCHANGED <<model, grants>>
  BY DEF WriteRouter, Finish, NoneBegins
<1>2. ReqOK(pend[p], model, router) BY <1>1 DEF Inv, PendOK
<1>3. r \in Routers /\ n \in Names /\ v \in Revision BY <1>1, <1>2 DEF ReqOK
<1>4. \/ UNCHANGED <<router, slots>>
      \/ /\ Exists(router[r])
         /\ router' = [router EXCEPT ![r].name = n, ![r].revs = Append(@, v)]
         /\ slots' = RenameDirect(slots, "router", r, router[r].team, router[r].name, n) /\ Consistent(slots')
  BY DEF WriteRouter
<1> HIDE DEF r, n, v
<1>5. CASE UNCHANGED <<router, slots>> BY <1>1, <1>5, RefusedOK
<1>6. CASE ~UNCHANGED <<router, slots>>
  <2>1. Exists(router[r]) /\ slots' = RenameDirect(slots, "router", r, router[r].team, router[r].name, n) /\ Consistent(slots')
    BY <1>4, <1>6
  <2>2. router' = [router EXCEPT ![r].name = n, ![r].revs = Append(@, v)] BY <1>4, <1>6
  <2>3. router \in [Routers -> RouterRow \cup {Unborn, Gone}] /\ router[r] \in RouterRow
    BY <1>3, <2>1, ExistingRows DEF Inv, RoutersOK
  <2>4. router[r].revs \in Seq(Revision) BY <2>3 DEF RouterRow
  <2>5. Append(router[r].revs, v) \in Seq(Revision) \ {<<>>}
    <3>1. Append(router[r].revs, v) \in Seq(Revision) /\ Len(Append(router[r].revs, v)) = Len(router[r].revs) + 1
          /\ Len(router[r].revs) \in Nat
      BY <1>3, <2>4
    <3>2. Append(router[r].revs, v) # <<>> BY <3>1
    <3> QED BY <3>1, <3>2
  <2>6. row \in RouterRow /\ row.team = router[r].team /\ row.name = n /\ row.revs = Append(router[r].revs, v)
    BY <1>3, <2>3, <2>5 DEF RouterRow
  <2>7. router'[r] = row /\ \A i \in Routers \ {r} : router'[i] = router[i] BY <1>3, <2>2, <2>3
  <2>8. Extends(row.revs, router[r].revs) BY <1>3, <2>6 DEF Extends
  <2> HIDE DEF row
  <2>9. RoutersOK(router')
    <3>1. DOMAIN router' = Routers /\ router' = [i \in Routers |-> router'[i]] BY <2>2, <2>3
    <3>2. \A i \in Routers : router'[i] \in RouterRow \cup {Unborn, Gone} BY <2>3, <2>6, <2>7
    <3> QED BY <3>1, <3>2 DEF RoutersOK
  <2>10. slots' = RenameDirect(slots, "router", r, row.team, router[r].name, row.name) BY <2>1, <2>6
  <2>11. router'[r] = row /\ \A i \in Routers \ {r} : router'[i] = router[i] BY <2>7
  <2> QED BY <1>1, <1>3, <2>1, <2>6, <2>8, <2>9, <2>10, <2>11, ReplaceRouter
<1> QED BY <1>5, <1>6

\* delete and delete_global: a platform router has no grants.
LEMMA DeleteRouterOK ==
  ASSUME Inv, NEW r \in Routers, DeleteRouter(r) \/ DeleteGlobalRouter(r)
  PROVE  StepOK
<1>1. /\ Exists(router[r]) /\ router' = [router EXCEPT ![r] = Gone] /\ UNCHANGED <<model, grants, pend>>
      /\ slots' = TombstoneResource(slots, r)
  BY DEF DeleteRouter, DeleteGlobalRouter
<1>2. \A g \in grants : g.id # r BY GrantedOwners DEF DeleteRouter, DeleteGlobalRouter
<1>3. router \in [Routers -> RouterRow \cup {Unborn, Gone}] BY DEF Inv, RoutersOK
<1>4. router'[r] = Gone /\ \A i \in Routers \ {r} : router'[i] = router[i] BY <1>1, <1>3
<1>5. ~Exists(router'[r]) /\ router'[r] # Unborn BY <1>4, IdsAssumption DEF Exists
<1>6. RoutersOK(router') BY <1>1, <1>3 DEF RoutersOK
<1>7. Directs(model, router') = Others(Directs(model, router), r) BY <1>4, <1>5, RouterDirects
<1>8. SlotsOK(slots', Directs(model, router'), grants) BY <1>1, <1>2, <1>7, InvSlots, RemoveSlots
<1>9. NoneBegins /\ model' = model /\ grants' = grants /\ Exists(router[r]) BY <1>1 DEF NoneBegins
<1> QED BY <1>2, <1>4, <1>5, <1>6, <1>8, <1>9, RouterStep

\* make_global reads.
LEMMA ReadMakeRouterGlobalOK ==
  ASSUME Inv, NEW p \in Procs, NEW r \in Routers, ReadMakeRouterGlobal(p, r)
  PROVE  StepOK
<1> DEFINE q == [op |-> "promote", id |-> r]
<1>1. Begin(p, q) /\ UNCHANGED <<model, router, grants, slots>> BY DEF ReadMakeRouterGlobal
<1>2. ReqOK(q, model, router) BY DEF ReqOK
<1> HIDE DEF q
<1> QED BY <1>1, <1>2, BeginStep

\* promote_to_global of a router without grants.
LEMMA WriteMakeRouterGlobalOK ==
  ASSUME Inv, NEW p \in Procs, WriteMakeRouterGlobal(p)
  PROVE  StepOK
<1> DEFINE r == pend[p].id
           n == router[r].name
<1>1. NoneBegins /\ pend[p] # Idle /\ pend[p].op = "promote" /\ UNCHANGED <<model, grants>>
  BY DEF WriteMakeRouterGlobal, Finish, NoneBegins
<1>2. ReqOK(pend[p], model, router) BY <1>1 DEF Inv, PendOK
<1>3. r \in Routers BY <1>1, <1>2 DEF ReqOK
<1>4. \/ UNCHANGED <<router, slots>>
      \/ /\ Exists(router[r]) /\ router[r].team # Global /\ \A g \in grants : g.id # r
         /\ router' = [router EXCEPT ![r].origin = router[r].team, ![r].team = Global]
         /\ slots' = PromoteDirect(slots, "router", r, n) /\ Consistent(slots')
  BY DEF WriteMakeRouterGlobal
<1> HIDE DEF r
<1>5. CASE UNCHANGED <<router, slots>> BY <1>1, <1>5, RefusedOK
<1>6. CASE ~UNCHANGED <<router, slots>>
  <2>1. /\ Exists(router[r]) /\ router[r].team # Global /\ \A g \in grants : g.id # r
        /\ slots' = PromoteDirect(slots, "router", r, n) /\ Consistent(slots')
    BY <1>4, <1>6
  <2>2. router' = [router EXCEPT ![r].origin = router[r].team, ![r].team = Global] BY <1>4, <1>6
  <2>3. router \in [Routers -> RouterRow \cup {Unborn, Gone}] /\ router[r] \in RouterRow
    BY <1>3, <2>1, ExistingRows DEF Inv, RoutersOK
  <2>4. router'[r] = [router[r] EXCEPT !.origin = router[r].team, !.team = Global]
        /\ \A i \in Routers \ {r} : router'[i] = router[i]
    BY <1>3, <2>2, <2>3
  <2>5. /\ router'[r] \in RouterRow /\ router'[r].team = Global /\ router'[r].name = n
        /\ router'[r].revs = router[r].revs /\ router[r].team \in Scopes
    BY <2>3, <2>4 DEF RouterRow, Scopes
  <2>6. RoutersOK(router')
    <3>1. DOMAIN router' = Routers /\ router' = [i \in Routers |-> router'[i]] BY <2>2, <2>3
    <3>2. \A i \in Routers : router'[i] \in RouterRow \cup {Unborn, Gone} BY <2>3, <2>4, <2>5
    <3> QED BY <3>1, <3>2 DEF RoutersOK
  <2>7. Exists(router'[r]) /\ router'[r] # Unborn BY <2>5, RowsExist DEF Exists
  <2>8. \A i \in Routers \ {r} : router'[i] = router[i] BY <2>4
  <2>9. Directs(model, router') = With(Others(Directs(model, router), r), Direct("router", r, Global, n))
    <3>1. Exists(router'[r]) =>
            Directs(model, router') = With(Others(Directs(model, router), r),
                                           Direct("router", r, router'[r].team, router'[r].name))
      BY <1>3, <2>8, RouterDirects
    <3> QED BY <2>5, <2>7, <3>1
  <2>10. Own(Directs(model, router), r) = {Direct("router", r, router[r].team, n)} BY <1>3, <2>1, RouterDirect
  <2> HIDE DEF n
  <2>11. SlotsOK(slots', Directs(model, router'), grants)
    <3>1. "router" \in Kinds BY DEF Kinds
    <3>2. Consistent(PromoteDirect(slots, "router", r, n)) BY <2>1
    <3>3. SlotsOK(PromoteDirect(slots, "router", r, n),
                  With(Others(Directs(model, router), r), Direct("router", r, Global, n)), grants)
      BY <2>1, <2>5, <2>10, <3>1, <3>2, InvSlots, PromoteSlots
    <3> QED BY <2>1, <2>9, <3>3
  <2>12. router'[r].team \in {router[r].team, Global} /\ Extends(router'[r].revs, router[r].revs)
    BY <2>5 DEF Extends
  <2> QED BY <1>1, <1>3, <2>1, <2>6, <2>7, <2>8, <2>11, <2>12, RouterStep
<1> QED BY <1>5, <1>6

\* RouterService.extend reads: it pins the head, whose egress is acknowledged.
LEMMA ReadExtendRouterOK ==
  ASSUME Inv, NEW p \in Procs, NEW r \in Routers, NEW T \in SUBSET Teams, NEW a \in SUBSET Channels,
         ReadExtendRouter(p, r, T, a)
  PROVE  StepOK
<1> DEFINE k == Current(router[r])
           new == NewGrants("router", r, router[r], T, k, a)
           q == [op |-> "share", id |-> r, base |-> k, new |-> new]
<1>1. Exists(router[r]) /\ router[r].revs[k].egress \subseteq a /\ Begin(p, q)
      /\ UNCHANGED <<model, router, grants, slots>>
  BY DEF ReadExtendRouter
<1>2. router[r] \in RouterRow /\ router[r] # Unborn BY <1>1, ExistingRows
<1>3. k \in 1..Current(router[r])
  <2>1. router[r].revs \in Seq(Revision) /\ router[r].revs # <<>> BY <1>2 DEF RouterRow
  <2>2. Len(router[r].revs) \in Nat /\ Len(router[r].revs) # 0 BY <2>1
  <2> QED BY <2>2 DEF Current
<1>4. Pinned(router[r], k, a) BY <1>1, <1>3 DEF Pinned
<1>5. NewOK(new, "router", r, router[r]) /\ \A g \in new : g.rev = k /\ g.acks = a
  <2>1. "router" \in Kinds BY DEF Kinds
  <2> HIDE DEF k
  <2>3. NewOK(new, "router", r, router[r]) BY <2>1, NewGrantsOK
  <2>4. \A g \in new : g.rev = k /\ g.acks = a BY DEF NewGrants
  <2> QED BY <2>3, <2>4
<1>6. ReqOK(q, model, router)
  <2> HIDE DEF new, k
  <2> QED BY <1>2, <1>4, <1>5 DEF ReqOK
<1> HIDE DEF q
<1> QED BY <1>1, <1>6, BeginStep

\* extend writes the grants of a router.
LEMMA WriteExtendRouterOK ==
  ASSUME Inv, NEW p \in Procs, WriteExtendRouter(p)
  PROVE  StepOK
<1> DEFINE r == pend[p].id
           new == pend[p].new
<1>1. NoneBegins /\ pend[p] # Idle /\ pend[p].op = "share" /\ UNCHANGED <<model, router>>
  BY DEF WriteExtendRouter, Finish, NoneBegins
<1>2. ReqOK(pend[p], model, router) BY <1>1 DEF Inv, PendOK
<1>3. NewOK(new, "router", r, router[r]) /\ (Exists(router[r]) => \A g \in new : Pinned(router[r], g.rev, g.acks))
  BY <1>1, <1>2 DEF ReqOK
<1>4. UNCHANGED <<grants, slots>> \/ (Exists(router[r]) /\ router[r].team # Global /\ AddGrants(new))
  BY DEF WriteExtendRouter
<1>5. CASE UNCHANGED <<grants, slots>> BY <1>1, <1>5, RefusedOK
<1>6. CASE Exists(router[r]) /\ router[r].team # Global /\ AddGrants(new)
  <2> HIDE DEF new, r
  <2> QED BY <1>1, <1>3, <1>6, AddGrantsOK
<1> QED BY <1>4, <1>5, <1>6

\* upgrade_grant reads a revision that the acknowledgements cover.
LEMMA ReadUpgradeOK ==
  ASSUME Inv, NEW p \in Procs, NEW g \in grants, NEW b \in 1..MaxRevs, NEW k \in 1..MaxRevs,
         NEW a \in SUBSET Channels, ReadUpgrade(p, g, b, k, a)
  PROVE  StepOK
<1> DEFINE q == [op |-> "upgrade", id |-> g.id, team |-> g.team, base |-> b, target |-> k, acks |-> a]
<1>1. g.kind = "router" /\ Pinned(router[g.id], k, a) /\ Begin(p, q) /\ UNCHANGED <<model, router, grants, slots>>
  BY DEF ReadUpgrade, Pinned
<1>2. g.id \in Routers /\ Exists(router[g.id])
  BY <1>1 DEF Inv, GrantsOK, GrantOK, IsGrant, OwnedApart
<1>3. router[g.id] # Unborn BY <1>2, ExistingRows
<1>4. ReqOK(q, model, router) BY <1>1, <1>2, <1>3 DEF ReqOK
<1> HIDE DEF q
<1> QED BY <1>1, <1>4, BeginStep

\* stage_grant_upgrade rewrites two fields of a grant.
LEMMA UpgradedGrant ==
  ASSUME NEW g, IsGrant(g), NEW k, NEW a \in SUBSET Channels
  PROVE  LET h == [g EXCEPT !.rev = k, !.acks = a]
         IN  /\ h.kind = g.kind /\ h.id = g.id /\ h.team = g.team /\ h.alias = g.alias
             /\ h.rev = k /\ h.acks = a /\ IsGrant(h)
<1> DEFINE h == [g EXCEPT !.rev = k, !.acks = a]
<1>1. DOMAIN h = DOMAIN g OBVIOUS
<1>2. h.kind = g.kind /\ h.id = g.id /\ h.team = g.team /\ h.alias = g.alias /\ h.rev = k /\ h.acks = a
  BY DEF IsGrant
<1> HIDE DEF h
<1>3. IsGrant(h) BY <1>1, <1>2 DEF IsGrant
<1> QED BY <1>2, <1>3 DEF h

\* The pin and the acknowledgement change together.
LEMMA WriteUpgradeOK ==
  ASSUME Inv, NEW p \in Procs, WriteUpgrade(p)
  PROVE  StepOK
<1> DEFINE k == pend[p].target
           a == pend[p].acks
           cur == {g \in grants : g.kind = "router" /\ g.id = pend[p].id
                                   /\ g.team = pend[p].team /\ g.rev = pend[p].base}
           Up(g) == [g EXCEPT !.rev = k, !.acks = a]
           H == (grants \ cur) \cup {Up(g) : g \in cur}
<1>1. NoneBegins /\ pend[p] # Idle /\ pend[p].op = "upgrade" /\ UNCHANGED <<model, router, slots>> /\ grants' = H
  BY DEF WriteUpgrade, Finish, NoneBegins
<1>2. ReqOK(pend[p], model, router) BY <1>1 DEF Inv, PendOK
<1>3. a \subseteq Channels /\ (Exists(router[pend[p].id]) => Pinned(router[pend[p].id], k, a))
  BY <1>1, <1>2 DEF ReqOK
<1>4. GrantsOK(grants, model, router) /\ ModelsOK(model) /\ RoutersOK(router) BY DEF Inv
<1>5. ASSUME NEW g \in cur
      PROVE  /\ Up(g).kind = g.kind /\ Up(g).id = g.id /\ Up(g).team = g.team /\ Up(g).alias = g.alias
             /\ GrantOK(Up(g), model, router)
  <2>1. GrantOK(g, model, router) /\ g.kind = "router" /\ g.id = pend[p].id BY <1>4 DEF GrantsOK
  <2>2. IsGrant(g) BY <2>1 DEF GrantOK
  <2> HIDE DEF k, a
  <2>3. /\ Up(g).kind = g.kind /\ Up(g).id = g.id /\ Up(g).team = g.team /\ Up(g).alias = g.alias
        /\ Up(g).rev = k /\ Up(g).acks = a /\ IsGrant(Up(g))
    BY <1>3, <2>2, UpgradedGrant
  <2>4. OwnedApart(router[g.id], g) /\ Pinned(router[g.id], k, a) BY <1>3, <2>1 DEF GrantOK, OwnedApart
  <2> HIDE DEF Up
  <2> QED BY <2>1, <2>3, <2>4 DEF GrantOK, OwnedApart
<1>6. \A h \in H : (h \in grants /\ h \notin cur) \/ \E g \in cur : h = Up(g)
  OBVIOUS
<1>7. cur \subseteq grants OBVIOUS
<1> HIDE DEF Up, cur
<1>8. \A h \in H : GrantOK(h, model, router) BY <1>4, <1>5, <1>6 DEF GrantsOK
<1>9. OnePerTeam(H) BY <1>4, <1>5, <1>6, <1>7 DEF GrantsOK, OnePerTeam
<1>10. GrantSlots(H) = GrantSlots(grants)
  <2>1. ASSUME NEW x \in GrantSlots(H) PROVE x \in GrantSlots(grants)
    BY <1>5, <1>6, <1>7 DEF GrantSlots
  <2>2. ASSUME NEW x \in GrantSlots(grants) PROVE x \in GrantSlots(H)
    <3>1. PICK g \in grants : x = Granted(g.kind, g.id, g.team, g.alias) BY DEF GrantSlots
    <3>2. CASE g \in cur
      <4>1. Up(g) \in H /\ x = Granted(Up(g).kind, Up(g).id, Up(g).team, Up(g).alias) BY <1>5, <3>1, <3>2
      <4> HIDE DEF H
      <4> QED BY <4>1 DEF GrantSlots
    <3>3. CASE g \notin cur
      <4>1. g \in H BY <3>3
      <4> HIDE DEF H
      <4> QED BY <3>1, <4>1 DEF GrantSlots
    <3> QED BY <3>2, <3>3
  <2> QED BY <2>1, <2>2
<1>11. SlotsOK(slots', Directs(model, router), H) BY <1>1, <1>10, InvSlots DEF SlotsOK
<1>12. GrantsOK(H, model, router) BY <1>8, <1>9 DEF GrantsOK
<1> HIDE DEF H
<1> QED BY <1>1, <1>4, <1>11, <1>12, KeptSame, Settled

-----------------------------------------------------------------------------
(* The theorems.                                                            *)

\* Every step of every request keeps the invariant, and what no step takes back.
LEMMA NextOK == Inv /\ Next => StepOK
<1> SUFFICES ASSUME Inv, Next PROVE StepOK
  OBVIOUS
<1>1. CASE \E m \in Models, s \in Scopes, n \in Names : CreateModel(m, s, n)
  BY <1>1, CreateModelOK
<1>2. CASE \E p \in Procs, m \in Models, n \in Names, on \in BOOLEAN : ReadModel(p, m, n, on)
  BY <1>2, ReadModelOK
<1>3. CASE \E p \in Procs : WriteModel(p)
  BY <1>3, WriteModelOK
<1>4. CASE \E m \in Models : RemoveModel(m) \/ RemoveGlobalModel(m)
  BY <1>4, RemoveModelOK
<1>5. CASE \E m \in Models : MakeModelGlobal(m)
  BY <1>5, MakeModelGlobalOK
<1>6. CASE \E p \in Procs, m \in Models, T \in SUBSET Teams : ReadExtendModel(p, m, T)
  BY <1>6, ReadExtendModelOK
<1>7. CASE \E p \in Procs : WriteExtendModel(p)
  BY <1>7, WriteExtendModelOK
<1>8. CASE \E g \in grants : RemoveModelGrant(g) \/ RemoveRouterGrant(g)
  BY <1>8, RemoveGrantOK
<1>9. CASE \E r \in Routers, s \in Scopes, n \in Names, rev \in Revision : CreateRouter(r, s, n, rev)
  BY <1>9, CreateRouterOK
<1>10. CASE \E p \in Procs, r \in Routers, n \in Names, rev \in Revision : ReadRouter(p, r, n, rev)
  BY <1>10, ReadRouterOK
<1>11. CASE \E p \in Procs : WriteRouter(p)
  BY <1>11, WriteRouterOK
<1>12. CASE \E r \in Routers : DeleteRouter(r) \/ DeleteGlobalRouter(r)
  BY <1>12, DeleteRouterOK
<1>13. CASE \E p \in Procs, r \in Routers : ReadMakeRouterGlobal(p, r)
  BY <1>13, ReadMakeRouterGlobalOK
<1>14. CASE \E p \in Procs : WriteMakeRouterGlobal(p)
  BY <1>14, WriteMakeRouterGlobalOK
<1>15. CASE \E p \in Procs, r \in Routers, T \in SUBSET Teams, a \in SUBSET Channels : ReadExtendRouter(p, r, T, a)
  BY <1>15, ReadExtendRouterOK
<1>16. CASE \E p \in Procs : WriteExtendRouter(p)
  BY <1>16, WriteExtendRouterOK
<1>17. CASE \E p \in Procs, g \in grants, b, k \in 1..MaxRevs, a \in SUBSET Channels : ReadUpgrade(p, g, b, k, a)
  BY <1>17, ReadUpgradeOK
<1>18. CASE \E p \in Procs : WriteUpgrade(p)
  BY <1>18, WriteUpgradeOK
<1> QED BY <1>1, <1>2, <1>3, <1>4, <1>5, <1>6, <1>7, <1>8, <1>9, <1>10, <1>11, <1>12, <1>13, <1>14,
           <1>15, <1>16, <1>17, <1>18 DEF Next

\* Nothing is registered at the start.
LEMMA InitOK == Init => Inv
<1> SUFFICES ASSUME Init PROVE Inv
  OBVIOUS
<1>1. ModelsOK(model) /\ RoutersOK(router) BY DEF Init, ModelsOK, RoutersOK, OriginOK, Exists
<1>2. GrantsOK(grants, model, router) BY DEF Init, GrantsOK, OnePerTeam
<1>3. ModelSlots(model) = {} /\ RouterSlots(router) = {} BY DEF Init, ModelSlots, RouterSlots, Exists
<1>4. SlotsOK(slots, Directs(model, router), grants)
  BY <1>3 DEF Init, SlotsOK, Consistent, Live, Directs, GrantSlots
<1>5. PendOK(pend, model, router) BY DEF Init, PendOK
<1> QED BY <1>1, <1>2, <1>4, <1>5 DEF Inv

\* The inductive invariant of the alias registry holds in every state.
THEOREM Invariant == Spec => []Inv
<1>1. Inv /\ [Next]_vars => Inv'
  <2>1. Inv /\ Next => Inv' BY NextOK DEF StepOK
  <2>2. Inv /\ UNCHANGED vars => Inv' BY DEF vars, Inv
  <2> QED BY <2>1, <2>2
<1> QED BY <1>1, InitOK, PTL DEF Spec

\* Whatever writes interleave, the alias registry, the resources, the grants
\* and the acknowledgements agree, for any teams, resources, names and number
\* of requests in flight (callable_alias_slots.py, router_repository.py:472).
THEOREM RegistryKeptHolds == Spec => []RegistryKept
<1>1. Inv => RegistryKept
  <2> SUFFICES ASSUME Inv PROVE RegistryKept
    OBVIOUS
  <2>1. TypeOK BY DEF Inv, TypeOK, ModelsOK, RoutersOK, GrantsOK, GrantOK, IsGrant, SlotsOK, PendOK
  <2>2. RegistryAgrees
    BY DEF Inv, SlotsOK, RegistryAgrees, Directs, ModelSlots, RouterSlots, GrantSlots
  <2>3. GrantsHaveOwners BY DEF Inv, GrantsOK, GrantOK, IsGrant, Kinds, OwnedApart, GrantsHaveOwners
  <2>4. EgressAcknowledged BY DEF Inv, GrantsOK, GrantOK, Pinned, EgressAcknowledged
  <2> QED BY <2>1, <2>2, <2>3, <2>4 DEF RegistryKept
<1> QED BY <1>1, Invariant, PTL

\* Ownership and origin, in one step.
MovesUp ==
    /\ \A m \in Models : (Exists(model[m]) /\ Exists(model'[m])) =>
           /\ model'[m].team \in {model[m].team, Global}
           /\ model'[m].origin = model[m].origin
    /\ \A r \in Routers : (Exists(router[r]) /\ Exists(router'[r])) =>
           router'[r].team \in {router[r].team, Global}

\* The revisions of a router, in one step.
Appends(r) ==
    \/ router'[r].revs = router[r].revs
    \/ \E p \in Procs :
          /\ pend[p] # Idle /\ pend[p].op = "router" /\ pend[p].id = r
          /\ router'[r].revs = Append(router[r].revs, pend[p].rev)
          /\ pend[p].base = Current(router[r])

AppendsOnly == \A r \in Routers : (Exists(router[r]) /\ Exists(router'[r])) => Appends(r)

\* Only an update of a router adds a revision, to the head it read.
LEMMA NextAppends == Inv /\ Next => AppendsOnly
<1> SUFFICES ASSUME Inv, Next, NEW r \in Routers, Exists(router[r]), Exists(router'[r])
             PROVE  Appends(r)
  BY DEF AppendsOnly
<1>1. router \in [Routers -> RouterRow \cup {Unborn, Gone}] /\ router[r] \in RouterRow
  BY ExistingRows DEF Inv, RoutersOK
<1>2. CASE router' = router BY <1>2 DEF Appends
<1>3. ASSUME NEW o \in Routers, NEW s \in Scopes, NEW n \in Names, NEW rev \in Revision, CreateRouter(o, s, n, rev)
      PROVE  Appends(r)
  <2>1. router[o] = Unborn BY <1>3 DEF CreateRouter
  <2>2. o # r BY <2>1 DEF Exists
  <2>3. router'[r] = router[r] BY <1>1, <1>3, <2>2 DEF CreateRouter, AddRouter
  <2> QED BY <2>3 DEF Appends
<1>4. ASSUME NEW o \in Routers, DeleteRouter(o) \/ DeleteGlobalRouter(o)
      PROVE  Appends(r)
  <2>1. router' = [router EXCEPT ![o] = Gone] BY <1>4 DEF DeleteRouter, DeleteGlobalRouter
  <2>2. o # r BY <1>1, <2>1 DEF Exists
  <2>3. router'[r] = router[r] BY <1>1, <2>1, <2>2
  <2> QED BY <2>3 DEF Appends
<1>5. ASSUME NEW p \in Procs, WriteMakeRouterGlobal(p)
      PROVE  Appends(r)
  <2> DEFINE o == pend[p].id
  <2>1. \/ router' = router
        \/ router' = [router EXCEPT ![o].origin = router[o].team, ![o].team = Global]
    BY <1>5 DEF WriteMakeRouterGlobal
  <2> HIDE DEF o
  <2>2. CASE router' = [router EXCEPT ![o].origin = router[o].team, ![o].team = Global]
    <3>1. CASE o = r BY <1>1, <2>2, <3>1 DEF Appends, RouterRow
    <3>2. CASE o # r BY <1>1, <2>2, <3>2 DEF Appends
    <3> QED BY <3>1, <3>2
  <2> QED BY <1>2, <2>1, <2>2
<1>6. ASSUME NEW p \in Procs, WriteRouter(p)
      PROVE  Appends(r)
  <2> DEFINE o == pend[p].id
             n == pend[p].name
             v == pend[p].rev
  <2>1. \/ router' = router
        \/ Current(router[o]) = pend[p].base /\ router' = [router EXCEPT ![o].name = n, ![o].revs = Append(@, v)]
    BY <1>6 DEF WriteRouter
  <2>2. pend[p] # Idle /\ pend[p].op = "router" BY <1>6 DEF WriteRouter, Finish
  <2> HIDE DEF o, n, v
  <2>3. CASE Current(router[o]) = pend[p].base /\ router' = [router EXCEPT ![o].name = n, ![o].revs = Append(@, v)]
    <3>1. CASE o = r
      <4>1. router'[r].revs = Append(router[r].revs, v) BY <1>1, <2>3, <3>1 DEF RouterRow
      <4> QED BY <2>2, <2>3, <3>1, <4>1 DEF Appends, o, v
    <3>2. CASE o # r BY <1>1, <2>3, <3>2 DEF Appends
    <3> QED BY <3>1, <3>2
  <2> QED BY <1>2, <2>1, <2>3
<1>7. \/ router' = router
      \/ \E o \in Routers, s \in Scopes, n \in Names, rev \in Revision : CreateRouter(o, s, n, rev)
      \/ \E o \in Routers : DeleteRouter(o) \/ DeleteGlobalRouter(o)
      \/ \E p \in Procs : WriteMakeRouterGlobal(p)
      \/ \E p \in Procs : WriteRouter(p)
  BY DEF Next, CreateModel, ReadModel, WriteModel, RemoveModel, RemoveGlobalModel, MakeModelGlobal,
         ReadExtendModel, WriteExtendModel, RemoveModelGrant, RemoveRouterGrant, ReadRouter,
         ReadMakeRouterGlobal, ReadExtendRouter, WriteExtendRouter, ReadUpgrade, WriteUpgrade
<1> QED BY <1>2, <1>3, <1>4, <1>5, <1>6, <1>7

\* Of two racing edits neither is overwritten unseen, however many are in
\* flight: revisions are append-only and a promotion is not undone
\* (router_repository.py:550, model_repository.py:177).
THEOREM HistoryKeptHolds == Spec => HistoryKept
<1>1. Inv /\ [Next]_vars => [MovesUp]_vars
  <2> SUFFICES ASSUME Inv, Next PROVE MovesUp
    OBVIOUS
  <2>1. KeptM(model, model') /\ KeptR(router, router') BY NextOK DEF StepOK
  <2> QED BY <2>1 DEF MovesUp, KeptM, KeptR, Exists
<1>2. Inv /\ [Next]_vars => [AppendsOnly]_vars BY NextAppends
<1>3. Spec => [][MovesUp]_vars BY <1>1, Invariant, PTL DEF Spec
<1>4. Spec => [][AppendsOnly]_vars BY <1>2, Invariant, PTL DEF Spec
<1>5. [][MovesUp]_vars => OwnershipMovesUp BY DEF OwnershipMovesUp, MovesUp
<1>6. [][AppendsOnly]_vars => RevisionsAppendOnly BY DEF RevisionsAppendOnly, AppendsOnly, Appends
<1> QED BY <1>3, <1>4, <1>5, <1>6, PTL DEF HistoryKept

=============================================================================
