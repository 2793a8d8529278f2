---------------------------- MODULE RequestProofs ----------------------------
(***************************************************************************)
(* Proofs about Requests, the path of one HTTP request through the gateway *)
(* with the guardrail rules and the response cache it shares with the      *)
(* others, for every set of requests, operators, models, routers, tags and *)
(* rules; and, from the section "The ledger" on, about UsageLedger and     *)
(* SpendRead, the ledger the rows of those requests end up in, for every   *)
(* set of events, teams and replicas, every batch limit and attempts bound.*)
(*                                                                         *)
(* The requests' invariant says of each request, by the place its          *)
(* coroutine is at, where its claim is (ClaimOK), which row it wrote       *)
(* (RowsOK), what its screens took out (ScreenOK), whose answer it was     *)
(* replayed (HitOK) and which candidate it is bound to (RouteOK); CoverInv *)
(* adds what was reserved for it and what its provider was asked.  Every   *)
(* transition of a request gets a lemma that keeps these, whatever the     *)
(* other requests do: the store and the rules are all they share.          *)
(***************************************************************************)
EXTENDS Requests, SpendRead, FiniteSetTheorems, SequenceTheorems, WellFoundedInduction, TLAPS

-----------------------------------------------------------------------------
(* The requests: what holds of one at every place of its coroutine.        *)

Fields ==
    {"pc", "in", "alias", "model", "router", "conf", "body", "snap", "text", "ans", "shape",
     "usage", "ended", "held", "rel", "flag", "soon", "lost", "keyHits", "teamHits", "side",
     "rows", "sent", "got", "hit", "pre", "post", "open", "called", "reserved", "asked",
     "wire", "cut", "shadow", "out"}

\* A request under way has every field.
Whole(q) == q = [f \in Fields |-> q[f]]

BodyFields == {"feats", "conv", "stream", "n", "caps"}

BodyWhole(b) == b = [f \in BodyFields |-> b[f]]

Unadmitted == {"resolve", "preview", "route", "chosen", "screen", "guard", "admit"}

Unanswered == {"creds", "lookup", "call", "open", "prime"}

Ending == {"closing", "billing"}

Streaming == {"open", "prime", "primed", "flow"} \cup Ending

ReqPlaces == Unadmitted \cup Unanswered \cup Streaming \cup {"settle", "respond", "put", "done"}

\* Before the model is known nothing is bound to the request.
Unbound == {"resolve", "preview", "route", "chosen"}

(***************************************************************************)
(* The claim: not taken, out, about to be returned by the collector's      *)
(* callback, or back.                                                      *)
(***************************************************************************)
NoClaim(q) == q.held = FALSE /\ q.rel = 0 /\ q.soon = FALSE

ClaimOut(q) == q.held = TRUE /\ q.rel = 0 /\ q.soon = FALSE /\ q.teamHits = 1

ClaimLeaving(q) == q.held = TRUE /\ q.rel = 0 /\ q.soon = TRUE /\ q.teamHits = 1

ClaimBack(q) == q.held = FALSE /\ q.rel = 1 /\ q.soon = FALSE /\ q.teamHits = 1

ClaimOK(q) ==
    /\ q.pc \in Unadmitted => NoClaim(q) /\ q.teamHits = 0
    /\ q.pc \in Unanswered \cup {"settle", "put", "primed", "flow"} => ClaimOut(q)
    /\ q.pc = "respond" => IF q.hit = {} THEN ClaimOut(q) ELSE ClaimBack(q)
    /\ q.pc = "closing" =>
         IF q.flag THEN ClaimLeaving(q) \/ ClaimBack(q) ELSE ClaimOut(q)
    /\ q.pc = "billing" => ClaimLeaving(q) \/ ClaimBack(q)
    /\ q.pc = "done" => NoClaim(q) \/ ClaimLeaving(q) \/ ClaimBack(q)
    /\ q.pc \notin {"closing", "billing", "done"} => q.flag = FALSE
    /\ q.out = "blocked" => NoClaim(q) /\ q.teamHits = 0 /\ q.rows = <<>>

(***************************************************************************)
(* The row: written by the settlement, at a replay, or at a stream's end.  *)
(***************************************************************************)
Broken(q) == q.ended \in {"rejected", "error"}

SettledRows(q) ==
    /\ Len(q.rows) <= 1
    /\ q.called = FALSE /\ q.hit = {} => q.rows = <<>>
    /\ q.ended = "rejected" => q.rows = <<>>
    /\ q.hit # {} => q.rows = <<"hit">> /\ q.called = FALSE
    /\ q.out \in {"ok", "withheld"} /\ q.lost = FALSE => Len(q.rows) = 1
    /\ q.called = TRUE /\ q.usage = "tokens" /\ q.lost = FALSE => q.rows = <<"real">>

RowsOK(q) ==
    /\ q.pc \in Unadmitted \cup Unanswered =>
         q.rows = <<>> /\ q.called = FALSE /\ q.hit = {} /\ q.ended = "no"
    /\ q.pc = "settle" => q.rows = <<>> /\ q.called = TRUE /\ q.hit = {} /\ q.ended = "no"
    /\ q.pc \in {"respond", "put"} =>
         /\ q.ended = "no"
         /\ IF q.hit = {} THEN q.called = TRUE /\ q.rows = <<RowFor(q)>>
            ELSE q.pc = "respond" /\ q.called = FALSE /\ q.rows = <<"hit">>
    /\ q.pc \in {"primed", "flow"} =>
         q.rows = <<>> /\ q.called = (q.hit = {}) /\ q.ended = "no"
    /\ q.pc \in Ending =>
         /\ q.rows = <<>>
         /\ q.ended \in {"clean", "rejected", "error", "disconnect"}
         /\ q.hit # {} => q.called = FALSE /\ ~Broken(q)
         /\ q.hit = {} /\ q.ended # "rejected" => q.called = TRUE
         /\ q.ended = "rejected" => q.called = FALSE \/ q.usage = "absent"
    /\ q.pc # "done" => q.lost = FALSE
    /\ q.pc = "done" => SettledRows(q)
    /\ q.called \in BOOLEAN /\ q.lost \in BOOLEAN

(***************************************************************************)
(* The key's window: hit on arrival, or at admission on a native surface.  *)
(***************************************************************************)
KeyOK(q) ==
    /\ q.keyHits \in {0, 1}
    /\ q.pc # "done" => q.keyHits = IF Keyed(q) /\ ~(IsNative(q) /\ q.pc \in Unadmitted) THEN 1 ELSE 0
    /\ q.called = TRUE /\ Keyed(q) => q.keyHits = 1

(***************************************************************************)
(* The screens: what the rules in force since the resolution look for is   *)
(* out of the text once the request was guarded, and out of the answer     *)
(* once that was.  A stream has no response rule left that did not fail    *)
(* open.                                                                   *)
(***************************************************************************)
Clean(rs, content) == \A x \in rs : x.watch \notin content

Scoped(q) == q.in.via.scoped \/ q.router = NoScope

ScreenOK(q) ==
    /\ q.pc \in Unbound => q.pre = {} /\ q.post = {} /\ q.sent = {} /\ q.got = {}
    /\ q.pc \notin Unbound \cup {"done"} =>
         /\ q.pre \subseteq resolve_chain(Stored, q.model, "request", q.router)
         /\ q.post \subseteq resolve_chain(Stored, q.model, "response", q.router)
    /\ q.pc \notin Unbound \cup {"screen", "guard", "done"} => Clean(q.pre \ q.open, q.text)
    /\ Clean(q.pre \ q.open, q.sent)
    /\ q.pc \in Streaming => q.in.via.stream = TRUE
    /\ q.in.via.stream = TRUE /\ q.pc \notin Unbound \cup {"screen", "done"} => q.post \subseteq q.open
    /\ q.pc = "put" /\ Scoped(q) => Clean(q.post \ q.open, q.ans)
    /\ Scoped(q) => Clean(q.post \ q.open, q.got)

(***************************************************************************)
(* A replay: what was hit is the buyer's question, which is this one.      *)
(***************************************************************************)
HitOK(q) ==
    /\ \A w \in q.hit : w = Who(q)
    /\ q.hit # {} => is_cacheable(q)
    /\ q.pc = "lookup" => is_cacheable(q)
    /\ q.pc \in Unadmitted \cup Unanswered => q.hit = {}

(***************************************************************************)
(* The route: the model is a capable candidate that takes the request.     *)
(***************************************************************************)
RouteOK(q) ==
    /\ q.pc \in {"resolve", "preview"} => q.router = NoScope /\ q.model = NoModel
    /\ q.pc = "preview" => q.alias \in Routers
    /\ q.pc = "route" => q.router \in Routers /\ q.model = NoModel
    /\ q.pc = "chosen" => /\ q.router \in Routers /\ q.model \in Models
                          /\ ~IsNative(q)
                          /\ Validated(q.model, q.in.via.op, q.body)
    /\ q.router # NoScope /\ q.model # NoModel =>
         \E c \in RouterDef[q.router].cands : c.model = q.model /\ q.in.needs \subseteq c.caps
    /\ q.router # NoScope => q.cut # "policy"
    /\ q.pc = "route" => ~IsNative(q)
    /\ q.pc \in Unbound => q.cut = "none"
    /\ q.pc \notin Unbound \cup {"done"} => q.model \in Models

TypesOK(q) ==
    /\ q.pc \in ReqPlaces
    /\ q.in \in Inputs
    /\ BodyWhole(q.body)
    /\ q.model \in Models \cup {NoModel}
    /\ q.router \in Routers \cup {NoScope}
    /\ q.text \subseteq Tags /\ q.ans \subseteq Tags /\ q.sent \subseteq Tags /\ q.got \subseteq Tags
    /\ q.out \in Results
    /\ (q.out = "none") = (q.pc # "done")

ReqOK(q) ==
    /\ Whole(q) /\ TypesOK(q)
    /\ ClaimOK(q) /\ RowsOK(q) /\ KeyOK(q)
    /\ ScreenOK(q) /\ HitOK(q) /\ RouteOK(q)

ReqsOK ==
    /\ req = [p \in Procs |-> req[p]]
    /\ \A p \in Procs : req[p] \in {Idle} \cup Clients \/ ReqOK(req[p])

-----------------------------------------------------------------------------
(* The rest of the state.                                                  *)

EntryOK(e) == e.who = e.key /\ e.tags \subseteq Tags /\ e.tags \cap e.watched = {}

EntriesOK(s) ==
    /\ \E S : s \in Seq(S) /\ \A e \in S : EntryOK(e)
    /\ Len(s) <= MaxEntries

StoreOK == EntriesOK(store)

PolicyOK ==
    /\ rules \in [RuleIds -> Rules \cup {NoRule}]
    /\ Readable(rules)

DeskOK(k) ==
    \/ k = Idle
    \/ /\ k.pc \in {"add", "update"}
       /\ k.rule \in Rules
       /\ k.rule.model = NoScope \/ k.rule.router = NoScope
       /\ k.pc = "update" => k.at \in RuleIds

DesksOK == desk = [d \in Desks |-> desk[d]] /\ \A d \in Desks : DeskOK(desk[d])

GrantsOK ==
    /\ edits \in Nat
    /\ grants \in [Routers -> [live : BOOLEAN, rev : Nat, ack : BOOLEAN]]
    /\ \A r \in Routers : grants[r].rev + edits <= MaxEdits

RequestsInv == ReqsOK /\ StoreOK /\ PolicyOK /\ DesksOK /\ GrantsOK

-----------------------------------------------------------------------------
(* Proofs start here: what the operators of the request path change.       *)

\* r is q but for the fields in S.
Same(q, r, S) == Whole(r) /\ \A f \in Fields \ S : r[f] = q[f]

LEMMA FieldNames ==
    /\ "pc" \in Fields /\ "in" \in Fields /\ "alias" \in Fields /\ "model" \in Fields
    /\ "router" \in Fields /\ "conf" \in Fields /\ "body" \in Fields /\ "snap" \in Fields
    /\ "text" \in Fields /\ "ans" \in Fields /\ "shape" \in Fields /\ "usage" \in Fields
    /\ "ended" \in Fields /\ "held" \in Fields /\ "rel" \in Fields /\ "flag" \in Fields
    /\ "soon" \in Fields /\ "lost" \in Fields /\ "keyHits" \in Fields /\ "teamHits" \in Fields
    /\ "side" \in Fields /\ "rows" \in Fields /\ "sent" \in Fields /\ "got" \in Fields
    /\ "hit" \in Fields /\ "pre" \in Fields /\ "post" \in Fields /\ "open" \in Fields
    /\ "called" \in Fields /\ "reserved" \in Fields /\ "asked" \in Fields /\ "wire" \in Fields
    /\ "cut" \in Fields /\ "shadow" \in Fields /\ "out" \in Fields
BY DEF Fields

LEMMA SameTrans ==
    ASSUME NEW q, NEW b, NEW r, NEW S, NEW T, Same(q, b, S), Same(b, r, T)
    PROVE  Same(q, r, S \cup T)
BY DEF Same

LEMMA MoveEffect ==
    ASSUME NEW q, Whole(q), NEW x
    PROVE  LET r == [q EXCEPT !.pc = x] IN Same(q, r, {"pc"}) /\ r.pc = x
BY FieldNames DEF Whole, Same

LEMMA EndEffect ==
    ASSUME NEW q, Whole(q), NEW x
    PROVE  LET r == [q EXCEPT !.pc = "done", !.out = x]
           IN Same(q, r, {"pc", "out"}) /\ r.pc = "done" /\ r.out = x
BY FieldNames DEF Whole, Same

LEMMA ReleasedEffect ==
    ASSUME NEW q, Whole(q)
    PROVE  /\ Same(q, Released(q), {"held", "rel"})
           /\ Released(q).held = FALSE /\ Released(q).rel = q.rel + 1
BY FieldNames DEF Whole, Same, Released

\* The claim goes back, unless it did at a replay (_guard_response).
Back(q) == IF q.held THEN Released(q) ELSE q

LEMMA BilledEffect ==
    ASSUME NEW q, Whole(q)
    PROVE  Same(q, Billed(q), {"rows"}) /\ Billed(q).rows = Append(q.rows, RowFor(q))
BY FieldNames DEF Whole, Same, Billed

\* What the operations say is Boolean.
OperationFields == {"op", "type", "stream", "native", "cached", "scoped", "preview", "early"}

OperationOK(o) ==
    /\ o = [f \in OperationFields |-> o[f]]
    /\ o.stream \in BOOLEAN /\ o.preview \in BOOLEAN /\ o.scoped \in BOOLEAN /\ o.cached \in BOOLEAN

LEMMA ViaTypes ==
    ASSUME NEW i \in Inputs
    PROVE  OperationOK(i.via)
<1>1. OperationOK(chat_completion)
    BY DEF OperationOK, OperationFields, chat_completion
<1>2. OperationOK(responses)
    BY <1>1 DEF OperationOK, OperationFields, responses
<1>3. OperationOK(embeddings_op)
    BY <1>1 DEF OperationOK, OperationFields, embeddings_op
<1>4. OperationOK(images)
    BY <1>1 DEF OperationOK, OperationFields, images
<1>5. OperationOK(open_chat_stream)
    BY <1>1 DEF OperationOK, OperationFields, open_chat_stream
<1>6. OperationOK(open_responses_stream)
    BY <1>2 DEF OperationOK, OperationFields, open_responses_stream
<1>7. OperationOK(native_messages)
    BY <1>1 DEF OperationOK, OperationFields, native_messages
<1>8. OperationOK(open_native_messages_stream)
    BY <1>7 DEF OperationOK, OperationFields, open_native_messages_stream
<1>9. OperationOK(generate_content)
    BY <1>1 DEF OperationOK, OperationFields, generate_content
<1>10. OperationOK(open_generate_content_stream)
    BY <1>9 DEF OperationOK, OperationFields, open_generate_content_stream
<1>11. OperationOK(compare)
    BY <1>1 DEF OperationOK, OperationFields, compare
<1> QED
    BY <1>1, <1>2, <1>3, <1>4, <1>5, <1>6, <1>7, <1>8, <1>9, <1>10, <1>11, InputAssumption DEF Operations

\* Where a request goes once its claim is out.
LEMMA CallPlace ==
    ASSUME NEW q, q.in \in Inputs
    PROVE  \/ (CallPc(q) = "call" /\ q.in.via.stream = FALSE)
           \/ (CallPc(q) = "open" /\ q.in.via.stream = TRUE)
BY ViaTypes DEF CallPc, OperationOK

LEMMA AdmittedPlace ==
    ASSUME NEW q, q.in \in Inputs
    PROVE  \/ (AdmittedPc(q) = "call" /\ q.in.via.stream = FALSE)
           \/ (AdmittedPc(q) = "open" /\ q.in.via.stream = TRUE)
           \/ (AdmittedPc(q) = "lookup" /\ is_cacheable(q))
BY CallPlace DEF AdmittedPc

\* The row depends on the usage and the operation only.
LEMMA RowForSame ==
    ASSUME NEW q, NEW r, r.usage = q.usage, r.in = q.in
    PROVE  RowFor(r) = RowFor(q)
BY DEF RowFor

\* Who asks depends on what was resolved and guarded only.
LEMMA WhoSame ==
    ASSUME NEW q, NEW r, r.in = q.in, r.model = q.model, r.conf = q.conf, r.body = q.body, r.text = q.text
    PROVE  Who(r) = Who(q) /\ Hot(r) = Hot(q) /\ is_cacheable(r) = is_cacheable(q)
BY DEF Who, Hot, is_cacheable

LEMMA AppendToEmpty == \A x : Append(<<>>, x) = <<x>> /\ Len(<<x>>) = 1
OBVIOUS

LEMMA ConcatToEmpty == \A x : <<>> \o <<>> = <<>> /\ <<>> \o <<x>> = <<x>>
OBVIOUS

\* A request that is refused or blocked before admission holds nothing.
LEMMA RefuseKeeps ==
    ASSUME NEW q, ReqOK(q), q.pc \in Unadmitted, NEW x \in {"refused", "blocked"}
    PROVE  ReqOK([q EXCEPT !.pc = "done", !.out = x])
<1> DEFINE r == [q EXCEPT !.pc = "done", !.out = x]
<1>1. /\ Same(q, r, {"pc", "out"})
      /\ r.pc = "done" /\ r.out = x
    BY FieldNames DEF ReqOK, Whole, Same
<1> HIDE DEF r
<1>2. /\ r.in = q.in /\ r.alias = q.alias /\ r.model = q.model /\ r.router = q.router /\ r.conf = q.conf
      /\ r.body = q.body /\ r.text = q.text /\ r.ans = q.ans /\ r.usage = q.usage /\ r.ended = q.ended
      /\ r.held = q.held /\ r.rel = q.rel /\ r.flag = q.flag /\ r.soon = q.soon /\ r.lost = q.lost
      /\ r.keyHits = q.keyHits /\ r.teamHits = q.teamHits /\ r.rows = q.rows /\ r.sent = q.sent /\ r.got = q.got
      /\ r.hit = q.hit /\ r.pre = q.pre /\ r.post = q.post /\ r.open = q.open /\ r.called = q.called
      /\ r.cut = q.cut
    BY <1>1 DEF Same, Fields
<1>3. TypesOK(r)
    BY <1>1, <1>2 DEF ReqOK, TypesOK, ReqPlaces, Unadmitted, Unanswered, Streaming, Ending, Results
<1>4. ClaimOK(r)
    BY <1>1, <1>2 DEF ReqOK, TypesOK, ClaimOK, RowsOK, SettledRows, Unadmitted, Unanswered, Ending, NoClaim,
       ClaimOut, ClaimLeaving, ClaimBack
<1>5. RowsOK(r)
    BY <1>1, <1>2 DEF ReqOK, RowsOK, SettledRows, Unadmitted, Unanswered, Ending, Broken
<1>6. KeyOK(r)
    BY <1>1, <1>2 DEF ReqOK, KeyOK, Keyed, IsNative, Unadmitted
<1>7. ScreenOK(r)
    BY <1>1, <1>2 DEF ReqOK, ScreenOK, Scoped, Unbound, Streaming, Ending
<1>8. HitOK(r)
    BY <1>1, <1>2 DEF ReqOK, HitOK, Who, is_cacheable, Hot, RowsOK, SettledRows, Unadmitted, Unanswered
<1>9. RouteOK(r)
    BY <1>1, <1>2 DEF ReqOK, RouteOK, IsNative, Unbound
<1>10. ReqOK(r)
    BY <1>1, <1>2, <1>3, <1>4, <1>5, <1>6, <1>7, <1>8, <1>9 DEF ReqOK, Same
<1> QED
    BY <1>10 DEF r

\* A request that a check refuses holds nothing; a routed one is not refused by the policy.
LEMMA CutKeeps ==
    ASSUME NEW q, ReqOK(q), q.pc \in {"resolve", "chosen"}, NEW c, q.router # NoScope => c # "policy"
    PROVE  ReqOK([[q EXCEPT !.cut = c] EXCEPT !.pc = "done", !.out = "refused"])
<1> DEFINE r == [[q EXCEPT !.cut = c] EXCEPT !.pc = "done", !.out = "refused"]
<1>1. /\ Same(q, r, {"pc", "out", "cut"})
      /\ r.pc = "done" /\ r.out = "refused" /\ r.cut = c
    BY FieldNames DEF ReqOK, Whole, Same
<1> HIDE DEF r
<1>2. /\ r.in = q.in /\ r.alias = q.alias /\ r.model = q.model /\ r.router = q.router /\ r.conf = q.conf
      /\ r.body = q.body /\ r.text = q.text /\ r.ans = q.ans /\ r.usage = q.usage /\ r.ended = q.ended
      /\ r.held = q.held /\ r.rel = q.rel /\ r.flag = q.flag /\ r.soon = q.soon /\ r.lost = q.lost
      /\ r.keyHits = q.keyHits /\ r.teamHits = q.teamHits /\ r.rows = q.rows /\ r.sent = q.sent /\ r.got = q.got
      /\ r.hit = q.hit /\ r.pre = q.pre /\ r.post = q.post /\ r.open = q.open /\ r.called = q.called
    BY <1>1 DEF Same, Fields
<1>3. TypesOK(r)
    BY <1>1, <1>2 DEF ReqOK, TypesOK, ReqPlaces, Unadmitted, Unanswered, Streaming, Ending, Results
<1>4. ClaimOK(r)
    BY <1>1, <1>2 DEF ReqOK, TypesOK, ClaimOK, RowsOK, SettledRows, Unadmitted, Unanswered, Ending, NoClaim,
       ClaimOut, ClaimLeaving, ClaimBack
<1>5. RowsOK(r)
    BY <1>1, <1>2 DEF ReqOK, RowsOK, SettledRows, Unadmitted, Unanswered, Ending, Broken
<1>6. KeyOK(r)
    BY <1>1, <1>2 DEF ReqOK, KeyOK, Keyed, IsNative, Unadmitted
<1>7. ScreenOK(r)
    BY <1>1, <1>2 DEF ReqOK, ScreenOK, Scoped, Unbound, Streaming, Ending
<1>8. HitOK(r)
    BY <1>1, <1>2 DEF ReqOK, HitOK, Who, is_cacheable, Hot, RowsOK, SettledRows, Unadmitted, Unanswered
<1>9. RouteOK(r)
    BY <1>1, <1>2 DEF ReqOK, RouteOK, IsNative, Unbound
<1>10. ReqOK(r)
    BY <1>1, <1>2, <1>3, <1>4, <1>5, <1>6, <1>7, <1>8, <1>9 DEF ReqOK, Same
<1> QED
    BY <1>10 DEF r

\* The shadow of a route touches nothing of the request.
LEMMA ShadowKeeps ==
    ASSUME NEW q, ReqOK(q), NEW x
    PROVE  ReqOK([q EXCEPT !.shadow = x])
<1> DEFINE r == [q EXCEPT !.shadow = x]
<1>1. /\ Same(q, r, {"shadow"})
    BY FieldNames DEF ReqOK, Whole, Same
<1> HIDE DEF r
<1>2. RowFor(r) = RowFor(q)
    BY <1>1, RowForSame DEF Same, Fields
<1>3. /\ r.pc = q.pc /\ r.in = q.in /\ r.alias = q.alias /\ r.model = q.model /\ r.router = q.router
      /\ r.conf = q.conf /\ r.body = q.body /\ r.text = q.text /\ r.ans = q.ans /\ r.usage = q.usage
      /\ r.ended = q.ended /\ r.held = q.held /\ r.rel = q.rel /\ r.flag = q.flag /\ r.soon = q.soon
      /\ r.lost = q.lost /\ r.keyHits = q.keyHits /\ r.teamHits = q.teamHits /\ r.rows = q.rows /\ r.sent = q.sent
      /\ r.got = q.got /\ r.hit = q.hit /\ r.pre = q.pre /\ r.post = q.post /\ r.open = q.open
      /\ r.called = q.called /\ r.cut = q.cut /\ r.out = q.out
    BY <1>1 DEF Same, Fields
<1>4. TypesOK(r)
    BY <1>1, <1>3 DEF ReqOK, TypesOK, ReqPlaces, Unadmitted, Unanswered, Streaming, Ending, Results
<1>5. ClaimOK(r)
    BY <1>1, <1>3 DEF ReqOK, TypesOK, ClaimOK, RowsOK, SettledRows, Unadmitted, Unanswered, Ending, NoClaim,
       ClaimOut, ClaimLeaving, ClaimBack
<1>6. RowsOK(r)
    BY <1>1, <1>3, <1>2 DEF ReqOK, RowsOK, SettledRows, Unadmitted, Unanswered, Ending, Broken
<1>7. KeyOK(r)
    BY <1>1, <1>3 DEF ReqOK, KeyOK, Keyed, IsNative, Unadmitted
<1>8. ScreenOK(r)
    BY <1>1, <1>3 DEF ReqOK, ScreenOK, Scoped, Unbound, Streaming, Ending
<1>9. HitOK(r)
    BY <1>1, <1>3 DEF ReqOK, HitOK, Who, is_cacheable, Hot, RowsOK, SettledRows, Unadmitted, Unanswered
<1>10. RouteOK(r)
    BY <1>1, <1>3 DEF ReqOK, RouteOK, IsNative, Unbound
<1>11. ReqOK(r)
    BY <1>1, <1>3, <1>4, <1>5, <1>6, <1>7, <1>8, <1>9, <1>10 DEF ReqOK, Same
<1> QED
    BY <1>11 DEF r

\* A router takes the request.
LEMMA ToRouteKeeps ==
    ASSUME NEW q, ReqOK(q), q.pc = "resolve", ~IsNative(q), NEW t \in Routers, NEW g
    PROVE  ReqOK([q EXCEPT !.pc = "route", !.router = t, !.snap = g])
<1> DEFINE r == [q EXCEPT !.pc = "route", !.router = t, !.snap = g]
<1>1. /\ Same(q, r, {"pc", "router", "snap"})
      /\ r.pc = "route" /\ r.router = t
    BY FieldNames DEF ReqOK, Whole, Same
<1> HIDE DEF r
<1>2. /\ r.in = q.in /\ r.alias = q.alias /\ r.model = q.model /\ r.conf = q.conf /\ r.body = q.body
      /\ r.text = q.text /\ r.ans = q.ans /\ r.usage = q.usage /\ r.ended = q.ended /\ r.held = q.held
      /\ r.rel = q.rel /\ r.flag = q.flag /\ r.soon = q.soon /\ r.lost = q.lost /\ r.keyHits = q.keyHits
      /\ r.teamHits = q.teamHits /\ r.rows = q.rows /\ r.sent = q.sent /\ r.got = q.got /\ r.hit = q.hit
      /\ r.pre = q.pre /\ r.post = q.post /\ r.open = q.open /\ r.called = q.called /\ r.cut = q.cut
      /\ r.out = q.out
    BY <1>1 DEF Same, Fields
<1>3. TypesOK(r)
    BY <1>1, <1>2 DEF ReqOK, TypesOK, ReqPlaces, Unadmitted, Unanswered, Streaming, Ending, Results
<1>4. ClaimOK(r)
    BY <1>1, <1>2 DEF ReqOK, TypesOK, ClaimOK, RowsOK, SettledRows, Unadmitted, Unanswered, Ending, NoClaim,
       ClaimOut, ClaimLeaving, ClaimBack
<1>5. RowsOK(r)
    BY <1>1, <1>2 DEF ReqOK, RowsOK, SettledRows, Unadmitted, Unanswered, Ending, Broken
<1>6. KeyOK(r)
    BY <1>1, <1>2 DEF ReqOK, KeyOK, Keyed, IsNative, Unadmitted
<1>7. ScreenOK(r)
    BY <1>1, <1>2 DEF ReqOK, ScreenOK, Scoped, Unbound, Streaming, Ending
<1>8. HitOK(r)
    BY <1>1, <1>2 DEF ReqOK, HitOK, Who, is_cacheable, Hot, RowsOK, SettledRows, Unadmitted, Unanswered
<1>9. RouteOK(r)
    BY <1>1, <1>2 DEF ReqOK, RouteOK, IsNative, Unbound
<1>10. ReqOK(r)
    BY <1>1, <1>2, <1>3, <1>4, <1>5, <1>6, <1>7, <1>8, <1>9 DEF ReqOK, Same
<1> QED
    BY <1>10 DEF r

\* A preview names the model to call.
LEMMA PreviewKeeps ==
    ASSUME NEW q, ReqOK(q), q.pc = "preview", NEW m
    PROVE  ReqOK([q EXCEPT !.pc = "resolve", !.alias = m])
<1> DEFINE r == [q EXCEPT !.pc = "resolve", !.alias = m]
<1>1. /\ Same(q, r, {"pc", "alias"})
      /\ r.pc = "resolve" /\ r.alias = m
    BY FieldNames DEF ReqOK, Whole, Same
<1> HIDE DEF r
<1>2. /\ r.in = q.in /\ r.model = q.model /\ r.router = q.router /\ r.conf = q.conf /\ r.body = q.body
      /\ r.text = q.text /\ r.ans = q.ans /\ r.usage = q.usage /\ r.ended = q.ended /\ r.held = q.held
      /\ r.rel = q.rel /\ r.flag = q.flag /\ r.soon = q.soon /\ r.lost = q.lost /\ r.keyHits = q.keyHits
      /\ r.teamHits = q.teamHits /\ r.rows = q.rows /\ r.sent = q.sent /\ r.got = q.got /\ r.hit = q.hit
      /\ r.pre = q.pre /\ r.post = q.post /\ r.open = q.open /\ r.called = q.called /\ r.cut = q.cut
      /\ r.out = q.out
    BY <1>1 DEF Same, Fields
<1>3. TypesOK(r)
    BY <1>1, <1>2 DEF ReqOK, TypesOK, ReqPlaces, Unadmitted, Unanswered, Streaming, Ending, Results
<1>4. ClaimOK(r)
    BY <1>1, <1>2 DEF ReqOK, TypesOK, ClaimOK, RowsOK, SettledRows, Unadmitted, Unanswered, Ending, NoClaim,
       ClaimOut, ClaimLeaving, ClaimBack
<1>5. RowsOK(r)
    BY <1>1, <1>2 DEF ReqOK, RowsOK, SettledRows, Unadmitted, Unanswered, Ending, Broken
<1>6. KeyOK(r)
    BY <1>1, <1>2 DEF ReqOK, KeyOK, Keyed, IsNative, Unadmitted
<1>7. ScreenOK(r)
    BY <1>1, <1>2 DEF ReqOK, ScreenOK, Scoped, Unbound, Streaming, Ending
<1>8. HitOK(r)
    BY <1>1, <1>2 DEF ReqOK, HitOK, Who, is_cacheable, Hot, RowsOK, SettledRows, Unadmitted, Unanswered
<1>9. RouteOK(r)
    BY <1>1, <1>2 DEF ReqOK, RouteOK, IsNative, Unbound
<1>10. ReqOK(r)
    BY <1>1, <1>2, <1>3, <1>4, <1>5, <1>6, <1>7, <1>8, <1>9 DEF ReqOK, Same
<1> QED
    BY <1>10 DEF r

\* The row of an answer is written.
LEMMA SettleKeeps ==
    ASSUME NEW q, ReqOK(q), q.pc = "settle"
    PROVE  ReqOK([Billed(q) EXCEPT !.pc = "respond"])
<1> DEFINE r == [Billed(q) EXCEPT !.pc = "respond"]
<1>1. /\ Same(q, r, {"pc", "rows"})
      /\ r.pc = "respond" /\ r.rows = Append(q.rows, RowFor(q))
    BY FieldNames DEF ReqOK, Whole, Same, Billed
<1> HIDE DEF r
<1>2. /\ r.in = q.in /\ r.alias = q.alias /\ r.model = q.model /\ r.router = q.router /\ r.conf = q.conf
      /\ r.body = q.body /\ r.text = q.text /\ r.ans = q.ans /\ r.usage = q.usage /\ r.ended = q.ended
      /\ r.held = q.held /\ r.rel = q.rel /\ r.flag = q.flag /\ r.soon = q.soon /\ r.lost = q.lost
      /\ r.keyHits = q.keyHits /\ r.teamHits = q.teamHits /\ r.sent = q.sent /\ r.got = q.got /\ r.hit = q.hit
      /\ r.pre = q.pre /\ r.post = q.post /\ r.open = q.open /\ r.called = q.called /\ r.cut = q.cut
      /\ r.out = q.out
    BY <1>1 DEF Same, Fields
<1>3. TypesOK(r)
    BY <1>1, <1>2 DEF ReqOK, TypesOK, ReqPlaces, Unadmitted, Unanswered, Streaming, Ending, Results
<1>4. ClaimOK(r)
    BY <1>1, <1>2 DEF ReqOK, TypesOK, ClaimOK, RowsOK, SettledRows, Unadmitted, Unanswered, Ending, NoClaim,
       ClaimOut, ClaimLeaving, ClaimBack
<1>5. RowsOK(r)
  <2>1. RowFor(r) = RowFor(q)
    BY <1>1 DEF RowFor, Same, Fields
  <2>0. q.rows = <<>>
    BY DEF ReqOK, RowsOK
  <2>2. r.rows = <<RowFor(q)>>
    BY <1>1, <2>0, AppendToEmpty
  <2> QED
    BY <1>1, <2>1, <2>2 DEF ReqOK, RowsOK, Same, Fields, Unadmitted, Unanswered, Ending
<1>6. KeyOK(r)
    BY <1>1, <1>2 DEF ReqOK, KeyOK, Keyed, IsNative, Unadmitted
<1>7. ScreenOK(r)
    BY <1>1, <1>2 DEF ReqOK, ScreenOK, Scoped, Unbound, Streaming, Ending
<1>8. HitOK(r)
    BY <1>1, <1>2 DEF ReqOK, HitOK, Who, is_cacheable, Hot, RowsOK, SettledRows, Unadmitted, Unanswered
<1>9. RouteOK(r)
    BY <1>1, <1>2 DEF ReqOK, RouteOK, IsNative, Unbound
<1>10. ReqOK(r)
    BY <1>1, <1>2, <1>3, <1>4, <1>5, <1>6, <1>7, <1>8, <1>9 DEF ReqOK, Same
<1> QED
    BY <1>10 DEF r

\* A request refused at admission has no claim.
LEMMA AdmitRefusedKeeps ==
    ASSUME NEW q, ReqOK(q), q.pc = "admit"
    PROVE  ReqOK([Hits(q) EXCEPT !.pc = "done", !.out = "refused"])
<1> DEFINE r == [Hits(q) EXCEPT !.pc = "done", !.out = "refused"]
<1>1. /\ Same(q, r, {"pc", "out", "teamHits", "keyHits"})
      /\ r.pc = "done" /\ r.out = "refused" /\ r.teamHits = q.teamHits + 1
      /\ r.keyHits = IF IsNative(q) /\ Keyed(q) THEN q.keyHits + 1 ELSE q.keyHits
    BY FieldNames DEF ReqOK, Whole, Same, Hits, enforce_key_rate_limit, IsNative, Keyed
<1> HIDE DEF r
<1>2. /\ r.in = q.in /\ r.alias = q.alias /\ r.model = q.model /\ r.router = q.router /\ r.conf = q.conf
      /\ r.body = q.body /\ r.text = q.text /\ r.ans = q.ans /\ r.usage = q.usage /\ r.ended = q.ended
      /\ r.held = q.held /\ r.rel = q.rel /\ r.flag = q.flag /\ r.soon = q.soon /\ r.lost = q.lost
      /\ r.rows = q.rows /\ r.sent = q.sent /\ r.got = q.got /\ r.hit = q.hit /\ r.pre = q.pre
      /\ r.post = q.post /\ r.open = q.open /\ r.called = q.called /\ r.cut = q.cut
    BY <1>1 DEF Same, Fields
<1>3. TypesOK(r)
    BY <1>1, <1>2 DEF ReqOK, TypesOK, ReqPlaces, Unadmitted, Unanswered, Streaming, Ending, Results
<1>4. ClaimOK(r)
    BY <1>1, <1>2 DEF ReqOK, TypesOK, ClaimOK, RowsOK, SettledRows, Unadmitted, Unanswered, Ending, NoClaim,
       ClaimOut, ClaimLeaving, ClaimBack
<1>5. RowsOK(r)
    BY <1>1, <1>2 DEF ReqOK, RowsOK, SettledRows, Unadmitted, Unanswered, Ending, Broken
<1>6. KeyOK(r)
    BY <1>1, <1>2 DEF ReqOK, KeyOK, Keyed, IsNative, Unadmitted
<1>7. ScreenOK(r)
    BY <1>1, <1>2 DEF ReqOK, ScreenOK, Scoped, Unbound, Streaming, Ending
<1>8. HitOK(r)
    BY <1>1, <1>2 DEF ReqOK, HitOK, Who, is_cacheable, Hot, RowsOK, SettledRows, Unadmitted, Unanswered
<1>9. RouteOK(r)
    BY <1>1, <1>2 DEF ReqOK, RouteOK, IsNative, Unbound
<1>10. ReqOK(r)
    BY <1>1, <1>2, <1>3, <1>4, <1>5, <1>6, <1>7, <1>8, <1>9 DEF ReqOK, Same
<1> QED
    BY <1>10 DEF r

\* The credential is there.
LEMMA CredsKeeps ==
    ASSUME NEW q, ReqOK(q), q.pc = "creds"
    PROVE  ReqOK([q EXCEPT !.pc = AdmittedPc(q)])
<1> DEFINE r == [q EXCEPT !.pc = AdmittedPc(q)]
<1>1. /\ Same(q, r, {"pc"})
      /\ r.pc = AdmittedPc(q)
    BY FieldNames DEF ReqOK, Whole, Same
<1> HIDE DEF r
<1>2. \/ (r.pc = "call" /\ q.in.via.stream = FALSE)
      \/ (r.pc = "open" /\ q.in.via.stream = TRUE)
      \/ (r.pc = "lookup" /\ is_cacheable(q))
    BY <1>1, AdmittedPlace DEF ReqOK, TypesOK
<1>3. /\ r.in = q.in /\ r.alias = q.alias /\ r.model = q.model /\ r.router = q.router /\ r.conf = q.conf
      /\ r.body = q.body /\ r.text = q.text /\ r.ans = q.ans /\ r.usage = q.usage /\ r.ended = q.ended
      /\ r.held = q.held /\ r.rel = q.rel /\ r.flag = q.flag /\ r.soon = q.soon /\ r.lost = q.lost
      /\ r.keyHits = q.keyHits /\ r.teamHits = q.teamHits /\ r.rows = q.rows /\ r.sent = q.sent /\ r.got = q.got
      /\ r.hit = q.hit /\ r.pre = q.pre /\ r.post = q.post /\ r.open = q.open /\ r.called = q.called
      /\ r.cut = q.cut /\ r.out = q.out
    BY <1>1 DEF Same, Fields
<1>4. TypesOK(r)
    BY <1>1, <1>2, <1>3 DEF ReqOK, TypesOK, ReqPlaces, Unadmitted, Unanswered, Streaming, Ending, Results
<1>5. ClaimOK(r)
    BY <1>1, <1>2, <1>3 DEF ReqOK, TypesOK, ClaimOK, RowsOK, SettledRows, Unadmitted, Unanswered, Ending,
       NoClaim, ClaimOut, ClaimLeaving, ClaimBack
<1>6. RowsOK(r)
    BY <1>1, <1>2, <1>3 DEF ReqOK, RowsOK, SettledRows, Unadmitted, Unanswered, Ending, Broken
<1>7. KeyOK(r)
    BY <1>1, <1>2, <1>3 DEF ReqOK, KeyOK, Keyed, IsNative, Unadmitted
<1>8. ScreenOK(r)
    BY <1>1, <1>2, <1>3 DEF ReqOK, ScreenOK, Scoped, Unbound, Streaming, Ending
<1>9. HitOK(r)
    BY <1>1, <1>2, <1>3 DEF ReqOK, HitOK, Who, is_cacheable, Hot, RowsOK, SettledRows, Unadmitted, Unanswered
<1>10. RouteOK(r)
    BY <1>1, <1>2, <1>3 DEF ReqOK, RouteOK, IsNative, Unbound
<1>11. ReqOK(r)
    BY <1>1, <1>2, <1>3, <1>4, <1>5, <1>6, <1>7, <1>8, <1>9, <1>10 DEF ReqOK, Same
<1> QED
    BY <1>11 DEF r

\* The credential is gone: the claim goes back.
LEMMA CredsFailKeeps ==
    ASSUME NEW q, ReqOK(q), q.pc = "creds"
    PROVE  ReqOK([Released(q) EXCEPT !.pc = "done", !.out = "failed"])
<1> DEFINE r == [Released(q) EXCEPT !.pc = "done", !.out = "failed"]
<1>1. /\ Same(q, r, {"pc", "out", "held", "rel"})
      /\ r.pc = "done" /\ r.out = "failed" /\ r.held = FALSE /\ r.rel = q.rel + 1
    BY FieldNames DEF ReqOK, Whole, Same, Released
<1> HIDE DEF r
<1>2. /\ r.in = q.in /\ r.alias = q.alias /\ r.model = q.model /\ r.router = q.router /\ r.conf = q.conf
      /\ r.body = q.body /\ r.text = q.text /\ r.ans = q.ans /\ r.usage = q.usage /\ r.ended = q.ended
      /\ r.flag = q.flag /\ r.soon = q.soon /\ r.lost = q.lost /\ r.keyHits = q.keyHits /\ r.teamHits = q.teamHits
      /\ r.rows = q.rows /\ r.sent = q.sent /\ r.got = q.got /\ r.hit = q.hit /\ r.pre = q.pre
      /\ r.post = q.post /\ r.open = q.open /\ r.called = q.called /\ r.cut = q.cut
    BY <1>1 DEF Same, Fields
<1>3. TypesOK(r)
    BY <1>1, <1>2 DEF ReqOK, TypesOK, ReqPlaces, Unadmitted, Unanswered, Streaming, Ending, Results
<1>4. ClaimOK(r)
    BY <1>1, <1>2 DEF ReqOK, TypesOK, ClaimOK, RowsOK, SettledRows, Unadmitted, Unanswered, Ending, NoClaim,
       ClaimOut, ClaimLeaving, ClaimBack
<1>5. RowsOK(r)
    BY <1>1, <1>2 DEF ReqOK, RowsOK, SettledRows, Unadmitted, Unanswered, Ending, Broken
<1>6. KeyOK(r)
    BY <1>1, <1>2 DEF ReqOK, KeyOK, Keyed, IsNative, Unadmitted
<1>7. ScreenOK(r)
    BY <1>1, <1>2 DEF ReqOK, ScreenOK, Scoped, Unbound, Streaming, Ending
<1>8. HitOK(r)
    BY <1>1, <1>2 DEF ReqOK, HitOK, Who, is_cacheable, Hot, RowsOK, SettledRows, Unadmitted, Unanswered
<1>9. RouteOK(r)
    BY <1>1, <1>2 DEF ReqOK, RouteOK, IsNative, Unbound
<1>10. ReqOK(r)
    BY <1>1, <1>2, <1>3, <1>4, <1>5, <1>6, <1>7, <1>8, <1>9 DEF ReqOK, Same
<1> QED
    BY <1>10 DEF r

\* The claim is out.
LEMMA AdmitKeeps ==
    ASSUME NEW q, ReqOK(q), q.pc = "admit", NEW c
    PROVE  ReqOK([Hits(q) EXCEPT !.held = TRUE, !.reserved = c, !.pc = IF IsNative(q) THEN CallPc(q) ELSE "creds"])
<1> DEFINE r == [Hits(q) EXCEPT !.held = TRUE, !.reserved = c, !.pc = IF IsNative(q) THEN CallPc(q) ELSE "creds"]
<1>1. /\ Same(q, r, {"pc", "held", "reserved", "teamHits", "keyHits"})
      /\ r.pc = (IF IsNative(q) THEN CallPc(q) ELSE "creds") /\ r.held = TRUE /\ r.teamHits = q.teamHits + 1
      /\ r.keyHits = IF IsNative(q) /\ Keyed(q) THEN q.keyHits + 1 ELSE q.keyHits
    BY FieldNames DEF ReqOK, Whole, Same, Hits, enforce_key_rate_limit, IsNative, Keyed
<1> HIDE DEF r
<1>2. \/ (r.pc = "call" /\ q.in.via.stream = FALSE /\ IsNative(q))
      \/ (r.pc = "open" /\ q.in.via.stream = TRUE /\ IsNative(q))
      \/ (r.pc = "creds" /\ ~IsNative(q))
    BY <1>1, CallPlace DEF ReqOK, TypesOK
<1>3. /\ r.in = q.in /\ r.alias = q.alias /\ r.model = q.model /\ r.router = q.router /\ r.conf = q.conf
      /\ r.body = q.body /\ r.text = q.text /\ r.ans = q.ans /\ r.usage = q.usage /\ r.ended = q.ended
      /\ r.rel = q.rel /\ r.flag = q.flag /\ r.soon = q.soon /\ r.lost = q.lost /\ r.rows = q.rows
      /\ r.sent = q.sent /\ r.got = q.got /\ r.hit = q.hit /\ r.pre = q.pre /\ r.post = q.post
      /\ r.open = q.open /\ r.called = q.called /\ r.cut = q.cut /\ r.out = q.out
    BY <1>1 DEF Same, Fields
<1>4. TypesOK(r)
    BY <1>1, <1>2, <1>3 DEF ReqOK, TypesOK, ReqPlaces, Unadmitted, Unanswered, Streaming, Ending, Results
<1>5. ClaimOK(r)
    BY <1>1, <1>2, <1>3 DEF ReqOK, TypesOK, ClaimOK, RowsOK, SettledRows, Unadmitted, Unanswered, Ending,
       NoClaim, ClaimOut, ClaimLeaving, ClaimBack
<1>6. RowsOK(r)
    BY <1>1, <1>2, <1>3 DEF ReqOK, RowsOK, SettledRows, Unadmitted, Unanswered, Ending, Broken
<1>7. KeyOK(r)
    BY <1>1, <1>2, <1>3 DEF ReqOK, KeyOK, Keyed, IsNative, Unadmitted
<1>8. ScreenOK(r)
    BY <1>1, <1>2, <1>3 DEF ReqOK, ScreenOK, Scoped, Unbound, Streaming, Ending
<1>9. HitOK(r)
    BY <1>1, <1>2, <1>3 DEF ReqOK, HitOK, Who, is_cacheable, Hot, RowsOK, SettledRows, Unadmitted, Unanswered
<1>10. RouteOK(r)
    BY <1>1, <1>2, <1>3 DEF ReqOK, RouteOK, IsNative, Unbound
<1>11. ReqOK(r)
    BY <1>1, <1>2, <1>3, <1>4, <1>5, <1>6, <1>7, <1>8, <1>9, <1>10 DEF ReqOK, Same
<1> QED
    BY <1>11 DEF r

\* The cache has no answer.
LEMMA MissKeeps ==
    ASSUME NEW q, ReqOK(q), q.pc = "lookup"
    PROVE  ReqOK([q EXCEPT !.pc = CallPc(q)])
<1> DEFINE r == [q EXCEPT !.pc = CallPc(q)]
<1>1. /\ Same(q, r, {"pc"})
      /\ r.pc = CallPc(q)
    BY FieldNames DEF ReqOK, Whole, Same
<1> HIDE DEF r
<1>2. \/ (r.pc = "call" /\ q.in.via.stream = FALSE)
      \/ (r.pc = "open" /\ q.in.via.stream = TRUE)
    BY <1>1, CallPlace DEF ReqOK, TypesOK
<1>3. /\ r.in = q.in /\ r.alias = q.alias /\ r.model = q.model /\ r.router = q.router /\ r.conf = q.conf
      /\ r.body = q.body /\ r.text = q.text /\ r.ans = q.ans /\ r.usage = q.usage /\ r.ended = q.ended
      /\ r.held = q.held /\ r.rel = q.rel /\ r.flag = q.flag /\ r.soon = q.soon /\ r.lost = q.lost
      /\ r.keyHits = q.keyHits /\ r.teamHits = q.teamHits /\ r.rows = q.rows /\ r.sent = q.sent /\ r.got = q.got
      /\ r.hit = q.hit /\ r.pre = q.pre /\ r.post = q.post /\ r.open = q.open /\ r.called = q.called
      /\ r.cut = q.cut /\ r.out = q.out
    BY <1>1 DEF Same, Fields
<1>4. TypesOK(r)
    BY <1>1, <1>2, <1>3 DEF ReqOK, TypesOK, ReqPlaces, Unadmitted, Unanswered, Streaming, Ending, Results
<1>5. ClaimOK(r)
    BY <1>1, <1>2, <1>3 DEF ReqOK, TypesOK, ClaimOK, RowsOK, SettledRows, Unadmitted, Unanswered, Ending,
       NoClaim, ClaimOut, ClaimLeaving, ClaimBack
<1>6. RowsOK(r)
    BY <1>1, <1>2, <1>3 DEF ReqOK, RowsOK, SettledRows, Unadmitted, Unanswered, Ending, Broken
<1>7. KeyOK(r)
    BY <1>1, <1>2, <1>3 DEF ReqOK, KeyOK, Keyed, IsNative, Unadmitted
<1>8. ScreenOK(r)
    BY <1>1, <1>2, <1>3 DEF ReqOK, ScreenOK, Scoped, Unbound, Streaming, Ending
<1>9. HitOK(r)
    BY <1>1, <1>2, <1>3 DEF ReqOK, HitOK, Who, is_cacheable, Hot, RowsOK, SettledRows, Unadmitted, Unanswered
<1>10. RouteOK(r)
    BY <1>1, <1>2, <1>3 DEF ReqOK, RouteOK, IsNative, Unbound
<1>11. ReqOK(r)
    BY <1>1, <1>2, <1>3, <1>4, <1>5, <1>6, <1>7, <1>8, <1>9, <1>10 DEF ReqOK, Same
<1> QED
    BY <1>11 DEF r

\* A body keeps its fields when its limits are clamped.
LEMMA ClampedWhole ==
    ASSUME NEW q, NEW m, BodyWhole(q.body)
    PROVE  BodyWhole(Clamped(q, m))
<1>1. \A c : BodyWhole([q.body EXCEPT !.caps = c])
    BY DEF BodyWhole, BodyFields
<1>2. \A f, x : BodyWhole([q.body EXCEPT !.caps[f] = x])
    BY DEF BodyWhole, BodyFields
<1>3. \A op, c : BodyWhole(clamp_output_tokens(op, q.body, c))
    BY <1>1 DEF clamp_output_tokens
<1>4. \A v, c : BodyWhole(clamp_native_output_tokens(v, q.body, c))
    BY <1>1, <1>2 DEF clamp_native_output_tokens
<1> QED
    BY <1>3, <1>4 DEF Clamped

LEMMA JudgedEffect ==
    ASSUME NEW q, Whole(q), NEW s
    PROVE  Same(q, Judged(q, s), {"side"})
BY FieldNames DEF Whole, Same, Judged

LEMMA BackEffect ==
    ASSUME NEW q, Whole(q)
    PROVE  LET r == Back(q)
           IN /\ Same(q, r, {"held", "rel"})
              /\ q.held = TRUE => r.held = FALSE /\ r.rel = q.rel + 1
              /\ q.held = FALSE => r.held = FALSE /\ r.rel = q.rel
BY FieldNames DEF Whole, Same, Released, Back

LEMMA AnsweredEffect ==
    ASSUME NEW q, Whole(q), NEW a
    PROVE  LET r == Answered(q, a)
           IN /\ Same(q, r, {"called", "sent", "ans", "shape", "usage", "wire", "asked"})
              /\ r.called = TRUE /\ r.sent = q.text /\ r.ans = a.tags /\ r.usage = a.usage
<1> DEFINE w == IF SpeaksChat(q) THEN Sent(ModelDesc[q.model], ChatBody(q).conv) ELSE <<>>
           s == IF SpeaksChat(q) THEN AskedFor(ModelProvider(q.model), ChatBody(q))
                ELSE {q.body.caps[f] : f \in DOMAIN q.body.caps
                         \cap IF IsNative(q) THEN {NativeField(q.in.via.native)} ELSE {"max_output_tokens"}}
           r == [q EXCEPT !.called = TRUE, !.sent = q.text, !.ans = a.tags, !.shape = a.shape, !.usage = a.usage,
                          !.wire = w, !.asked = s]
<1>1. Answered(q, a) = r
    BY DEF Answered
<1> HIDE DEF w, s
<1>2. Same(q, r, {"called", "sent", "ans", "shape", "usage", "wire", "asked"})
    BY DEF Whole, Same
<1>3. r.called = TRUE /\ r.sent = q.text /\ r.ans = a.tags /\ r.usage = a.usage
    BY FieldNames DEF Whole
<1> QED
    BY <1>1, <1>2, <1>3

\* The model is known and the rules bind the request.
LEMMA UsableKeeps ==
    ASSUME NEW q, ReqOK(q), q.pc \in {"resolve", "chosen"}, NEW m \in Models, NEW t,
           t = NoScope \/ (q.pc = "chosen" /\ t = q.router /\ m = q.model), NEW b, BodyWhole(b)
    PROVE  ReqOK([Bound(q, m, t) EXCEPT !.body = b, !.pc = IF q.in.via.stream THEN "screen" ELSE "guard"])
<1> DEFINE r == [Bound(q, m, t) EXCEPT !.body = b, !.pc = IF q.in.via.stream THEN "screen" ELSE "guard"]
<1>1. /\ Same(q, r, {"model", "router", "conf", "pre", "post", "body", "pc"})
      /\ r.model = m /\ r.router = t /\ r.body = b
      /\ r.pre = resolve_chain(Stored, m, "request", t)
      /\ r.post = resolve_chain(Stored, m, "response", t)
      /\ r.pc = IF q.in.via.stream THEN "screen" ELSE "guard"
    BY FieldNames DEF ReqOK, Whole, Same, Bound
<1> HIDE DEF r
<1>2. q.in.via.stream \in BOOLEAN
    BY ViaTypes DEF ReqOK, TypesOK, OperationOK
<1>3. /\ r.in = q.in /\ r.alias = q.alias /\ r.text = q.text /\ r.ans = q.ans /\ r.usage = q.usage
      /\ r.ended = q.ended /\ r.held = q.held /\ r.rel = q.rel /\ r.flag = q.flag /\ r.soon = q.soon
      /\ r.lost = q.lost /\ r.keyHits = q.keyHits /\ r.teamHits = q.teamHits /\ r.rows = q.rows /\ r.sent = q.sent
      /\ r.got = q.got /\ r.hit = q.hit /\ r.open = q.open /\ r.called = q.called /\ r.cut = q.cut
      /\ r.out = q.out
    BY <1>1 DEF Same, Fields
<1>4. TypesOK(r)
    BY <1>1, <1>2, <1>3 DEF ReqOK, TypesOK, ReqPlaces, Unadmitted, Unanswered, Streaming, Ending, Results
<1>5. ClaimOK(r)
    BY <1>1, <1>2, <1>3 DEF ReqOK, TypesOK, ClaimOK, RowsOK, SettledRows, Unadmitted, Unanswered, Ending,
       NoClaim, ClaimOut, ClaimLeaving, ClaimBack
<1>6. RowsOK(r)
    BY <1>1, <1>2, <1>3 DEF ReqOK, RowsOK, SettledRows, Unadmitted, Unanswered, Ending, Broken
<1>7. KeyOK(r)
    BY <1>1, <1>2, <1>3 DEF ReqOK, KeyOK, Keyed, IsNative, Unadmitted
<1>8. ScreenOK(r)
    BY <1>1, <1>2, <1>3 DEF ReqOK, ScreenOK, Scoped, Unbound, Streaming, Ending, Clean
<1>9. HitOK(r)
    BY <1>1, <1>2, <1>3 DEF ReqOK, HitOK, Who, is_cacheable, Hot, RowsOK, SettledRows, Unadmitted, Unanswered
<1>10. RouteOK(r)
    BY <1>1, <1>2, <1>3 DEF ReqOK, RouteOK, IsNative, Unbound
<1>11. ReqOK(r)
    BY <1>1, <1>2, <1>3, <1>4, <1>5, <1>6, <1>7, <1>8, <1>9, <1>10 DEF ReqOK, Same
<1> QED
    BY <1>11 DEF r

\* A strategy, or the fallback, picked a candidate.
LEMMA PickedKeeps ==
    ASSUME NEW q, ReqOK(q), q.pc = "route", NEW s \in {q, [q EXCEPT !.side = @ + 1]}, NEW m \in Models,
           Validated(m, q.in.via.op, q.body),
           \E c \in RouterDef[q.router].cands : c.model = m /\ q.in.needs \subseteq c.caps, NEW x
    PROVE  ReqOK([s EXCEPT !.pc = "chosen", !.model = m, !.shadow = x])
<1> DEFINE r == [s EXCEPT !.pc = "chosen", !.model = m, !.shadow = x]
<1>1. /\ Same(q, r, {"pc", "model", "shadow", "side"})
      /\ r.pc = "chosen" /\ r.model = m
    BY FieldNames DEF ReqOK, Whole, Same
<1> HIDE DEF r
<1>2. /\ r.in = q.in /\ r.alias = q.alias /\ r.router = q.router /\ r.conf = q.conf /\ r.body = q.body
      /\ r.text = q.text /\ r.ans = q.ans /\ r.usage = q.usage /\ r.ended = q.ended /\ r.held = q.held
      /\ r.rel = q.rel /\ r.flag = q.flag /\ r.soon = q.soon /\ r.lost = q.lost /\ r.keyHits = q.keyHits
      /\ r.teamHits = q.teamHits /\ r.rows = q.rows /\ r.sent = q.sent /\ r.got = q.got /\ r.hit = q.hit
      /\ r.pre = q.pre /\ r.post = q.post /\ r.open = q.open /\ r.called = q.called /\ r.cut = q.cut
      /\ r.out = q.out
    BY <1>1 DEF Same, Fields
<1>3. TypesOK(r)
    BY <1>1, <1>2 DEF ReqOK, TypesOK, ReqPlaces, Unadmitted, Unanswered, Streaming, Ending, Results
<1>4. ClaimOK(r)
    BY <1>1, <1>2 DEF ReqOK, TypesOK, ClaimOK, RowsOK, SettledRows, Unadmitted, Unanswered, Ending, NoClaim,
       ClaimOut, ClaimLeaving, ClaimBack
<1>5. RowsOK(r)
    BY <1>1, <1>2 DEF ReqOK, RowsOK, SettledRows, Unadmitted, Unanswered, Ending, Broken
<1>6. KeyOK(r)
    BY <1>1, <1>2 DEF ReqOK, KeyOK, Keyed, IsNative, Unadmitted
<1>7. ScreenOK(r)
    BY <1>1, <1>2 DEF ReqOK, ScreenOK, Scoped, Unbound, Streaming, Ending
<1>8. HitOK(r)
    BY <1>1, <1>2 DEF ReqOK, HitOK, Who, is_cacheable, Hot, RowsOK, SettledRows, Unadmitted, Unanswered
<1>9. RouteOK(r)
    BY <1>1, <1>2 DEF ReqOK, RouteOK, IsNative, Unbound
<1>10. ReqOK(r)
    BY <1>1, <1>2, <1>3, <1>4, <1>5, <1>6, <1>7, <1>8, <1>9 DEF ReqOK, Same
<1> QED
    BY <1>10 DEF r

\* A stream goes on when its response rules all failed open.
LEMMA ScreenPassKeeps ==
    ASSUME NEW q, ReqOK(q), q.pc = "screen", NEW c,
           c = resolve_chain(Stored, q.model, "response", q.router)
    PROVE  ReqOK([q EXCEPT !.pc = "guard", !.open = @ \cup c])
<1> DEFINE r == [q EXCEPT !.pc = "guard", !.open = @ \cup c]
<1>1. /\ Same(q, r, {"pc", "open"})
      /\ r.pc = "guard" /\ r.open = q.open \cup c
    BY FieldNames DEF ReqOK, Whole, Same
<1> HIDE DEF r
<1>2. /\ r.in = q.in /\ r.alias = q.alias /\ r.model = q.model /\ r.router = q.router /\ r.conf = q.conf
      /\ r.body = q.body /\ r.text = q.text /\ r.ans = q.ans /\ r.usage = q.usage /\ r.ended = q.ended
      /\ r.held = q.held /\ r.rel = q.rel /\ r.flag = q.flag /\ r.soon = q.soon /\ r.lost = q.lost
      /\ r.keyHits = q.keyHits /\ r.teamHits = q.teamHits /\ r.rows = q.rows /\ r.sent = q.sent /\ r.got = q.got
      /\ r.hit = q.hit /\ r.pre = q.pre /\ r.post = q.post /\ r.called = q.called /\ r.cut = q.cut
      /\ r.out = q.out
    BY <1>1 DEF Same, Fields
<1>3. TypesOK(r)
    BY <1>1, <1>2 DEF ReqOK, TypesOK, ReqPlaces, Unadmitted, Unanswered, Streaming, Ending, Results
<1>4. ClaimOK(r)
    BY <1>1, <1>2 DEF ReqOK, TypesOK, ClaimOK, RowsOK, SettledRows, Unadmitted, Unanswered, Ending, NoClaim,
       ClaimOut, ClaimLeaving, ClaimBack
<1>5. RowsOK(r)
    BY <1>1, <1>2 DEF ReqOK, RowsOK, SettledRows, Unadmitted, Unanswered, Ending, Broken
<1>6. KeyOK(r)
    BY <1>1, <1>2 DEF ReqOK, KeyOK, Keyed, IsNative, Unadmitted
<1>7. ScreenOK(r)
  <2>1. q.post \subseteq c /\ q.sent \cup q.got \subseteq q.sent \cup q.got
    BY DEF ReqOK, ScreenOK, Unbound
  <2> QED
    BY <1>1, <2>1 DEF ReqOK, ScreenOK, Scoped, Unbound, Streaming, Ending, Same, Fields, Clean
<1>8. HitOK(r)
    BY <1>1, <1>2 DEF ReqOK, HitOK, Who, is_cacheable, Hot, RowsOK, SettledRows, Unadmitted, Unanswered
<1>9. RouteOK(r)
    BY <1>1, <1>2 DEF ReqOK, RouteOK, IsNative, Unbound
<1>10. ReqOK(r)
    BY <1>1, <1>2, <1>3, <1>4, <1>5, <1>6, <1>7, <1>8, <1>9 DEF ReqOK, Same
<1> QED
    BY <1>10 DEF r

\* A request rule refuses the request.
LEMMA GuardBlockedKeeps ==
    ASSUME NEW q, ReqOK(q), NEW s, NEW f, q.pc = "guard"
    PROVE  ReqOK([[Judged(q, s) EXCEPT !.open = @ \cup f] EXCEPT !.pc = "done", !.out = "blocked"])
<1> DEFINE j == Judged(q, s)
           r == [[j EXCEPT !.open = @ \cup f] EXCEPT !.pc = "done", !.out = "blocked"]
<1>1. Same(q, j, {"side"})
    BY JudgedEffect DEF ReqOK
<1> HIDE DEF j
<1>2. /\ Same(q, r, {"pc", "out", "side", "open"})
      /\ r.pc = "done" /\ r.out = "blocked"
      /\ r.open = q.open \cup f
    BY <1>1, FieldNames DEF Whole, Same
<1> HIDE DEF r
<1>3. /\ r.in = q.in /\ r.alias = q.alias /\ r.model = q.model /\ r.router = q.router /\ r.conf = q.conf
      /\ r.body = q.body /\ r.text = q.text /\ r.ans = q.ans /\ r.usage = q.usage /\ r.ended = q.ended
      /\ r.held = q.held /\ r.rel = q.rel /\ r.flag = q.flag /\ r.soon = q.soon /\ r.lost = q.lost
      /\ r.keyHits = q.keyHits /\ r.teamHits = q.teamHits /\ r.rows = q.rows /\ r.sent = q.sent /\ r.got = q.got
      /\ r.hit = q.hit /\ r.pre = q.pre /\ r.post = q.post /\ r.called = q.called /\ r.cut = q.cut
    BY <1>2 DEF Same, Fields
<1>4. TypesOK(r)
    BY <1>2, <1>3 DEF ReqOK, TypesOK, ReqPlaces, Unadmitted, Unanswered, Streaming, Ending, Results
<1>5. ClaimOK(r)
    BY <1>2, <1>3 DEF ReqOK, TypesOK, ClaimOK, RowsOK, SettledRows, Unadmitted, Unanswered, Ending, NoClaim,
       ClaimOut, ClaimLeaving, ClaimBack
<1>6. RowsOK(r)
    BY <1>2, <1>3 DEF ReqOK, RowsOK, SettledRows, Unadmitted, Unanswered, Ending, Broken
<1>7. KeyOK(r)
    BY <1>2, <1>3 DEF ReqOK, KeyOK, Keyed, IsNative, Unadmitted
<1>8. ScreenOK(r)
    BY <1>2, <1>3 DEF ReqOK, ScreenOK, Scoped, Unbound, Streaming, Ending, Clean
<1>9. HitOK(r)
    BY <1>2, <1>3 DEF ReqOK, HitOK, Who, is_cacheable, Hot, RowsOK, SettledRows, Unadmitted, Unanswered
<1>10. RouteOK(r)
    BY <1>2, <1>3 DEF ReqOK, RouteOK, IsNative, Unbound
<1>11. ReqOK(r)
    BY <1>2, <1>3, <1>4, <1>5, <1>6, <1>7, <1>8, <1>9, <1>10 DEF ReqOK, Same
<1> QED
    BY <1>11 DEF j, r

\* The request chain is through: what it watches for is out of the text.
LEMMA GuardPassedKeeps ==
    ASSUME NEW q, ReqOK(q), NEW s, NEW f, q.pc = "guard", NEW c \in SUBSET Tags,
           Clean(q.pre \ (q.open \cup f), c), NEW x \in {"admit", "done"}, NEW o,
           o = (IF x = "admit" THEN "none" ELSE "refused")
    PROVE  ReqOK([[Judged(q, s) EXCEPT !.open = @ \cup f] EXCEPT !.text = c, !.pc = x, !.out = o])
<1> DEFINE j == Judged(q, s)
           r == [[j EXCEPT !.open = @ \cup f] EXCEPT !.text = c, !.pc = x, !.out = o]
<1>1. Same(q, j, {"side"})
    BY JudgedEffect DEF ReqOK
<1> HIDE DEF j
<1>2. /\ Same(q, r, {"pc", "out", "text", "side", "open"})
      /\ r.pc = x /\ r.out = o /\ r.text = c
      /\ r.open = q.open \cup f
    BY <1>1, FieldNames DEF Whole, Same
<1> HIDE DEF r
<1>3. /\ r.in = q.in /\ r.alias = q.alias /\ r.model = q.model /\ r.router = q.router /\ r.conf = q.conf
      /\ r.body = q.body /\ r.ans = q.ans /\ r.usage = q.usage /\ r.ended = q.ended /\ r.held = q.held
      /\ r.rel = q.rel /\ r.flag = q.flag /\ r.soon = q.soon /\ r.lost = q.lost /\ r.keyHits = q.keyHits
      /\ r.teamHits = q.teamHits /\ r.rows = q.rows /\ r.sent = q.sent /\ r.got = q.got /\ r.hit = q.hit
      /\ r.pre = q.pre /\ r.post = q.post /\ r.called = q.called /\ r.cut = q.cut
    BY <1>2 DEF Same, Fields
<1>4. TypesOK(r)
    BY <1>2, <1>3 DEF ReqOK, TypesOK, ReqPlaces, Unadmitted, Unanswered, Streaming, Ending, Results
<1>5. ClaimOK(r)
    BY <1>2, <1>3 DEF ReqOK, TypesOK, ClaimOK, RowsOK, SettledRows, Unadmitted, Unanswered, Ending, NoClaim,
       ClaimOut, ClaimLeaving, ClaimBack
<1>6. RowsOK(r)
    BY <1>2, <1>3 DEF ReqOK, RowsOK, SettledRows, Unadmitted, Unanswered, Ending, Broken
<1>7. KeyOK(r)
    BY <1>2, <1>3 DEF ReqOK, KeyOK, Keyed, IsNative, Unadmitted
<1>8. ScreenOK(r)
    BY <1>2, <1>3 DEF ReqOK, ScreenOK, Scoped, Unbound, Streaming, Ending, Clean
<1>9. HitOK(r)
    BY <1>2, <1>3 DEF ReqOK, HitOK, Who, is_cacheable, Hot, RowsOK, SettledRows, Unadmitted, Unanswered
<1>10. RouteOK(r)
    BY <1>2, <1>3 DEF ReqOK, RouteOK, IsNative, Unbound
<1>11. ReqOK(r)
    BY <1>2, <1>3, <1>4, <1>5, <1>6, <1>7, <1>8, <1>9, <1>10 DEF ReqOK, Same
<1> QED
    BY <1>11 DEF j, r

\* A hit is replayed as a stream.
LEMMA ReplayStreamKeeps ==
    ASSUME NEW q, ReqOK(q), q.pc = "lookup", q.in.via.stream = TRUE, NEW w, w = Who(q),
           NEW c \in SUBSET Tags, NEW s, NEW u
    PROVE  ReqOK([[q EXCEPT !.hit = {w}, !.ans = c, !.shape = s, !.usage = u] EXCEPT !.pc = "primed"])
<1> DEFINE r == [[q EXCEPT !.hit = {w}, !.ans = c, !.shape = s, !.usage = u] EXCEPT !.pc = "primed"]
<1>1. /\ Same(q, r, {"pc", "hit", "ans", "shape", "usage"})
      /\ r.pc = "primed" /\ r.hit = {w} /\ r.ans = c
    BY FieldNames DEF ReqOK, Whole, Same
<1> HIDE DEF r
<1>2. /\ r.in = q.in /\ r.alias = q.alias /\ r.model = q.model /\ r.router = q.router /\ r.conf = q.conf
      /\ r.body = q.body /\ r.text = q.text /\ r.ended = q.ended /\ r.held = q.held /\ r.rel = q.rel
      /\ r.flag = q.flag /\ r.soon = q.soon /\ r.lost = q.lost /\ r.keyHits = q.keyHits /\ r.teamHits = q.teamHits
      /\ r.rows = q.rows /\ r.sent = q.sent /\ r.got = q.got /\ r.pre = q.pre /\ r.post = q.post
      /\ r.open = q.open /\ r.called = q.called /\ r.cut = q.cut /\ r.out = q.out
    BY <1>1 DEF Same, Fields
<1>3. TypesOK(r)
    BY <1>1, <1>2 DEF ReqOK, TypesOK, ReqPlaces, Unadmitted, Unanswered, Streaming, Ending, Results
<1>4. ClaimOK(r)
    BY <1>1, <1>2 DEF ReqOK, TypesOK, ClaimOK, RowsOK, SettledRows, Unadmitted, Unanswered, Ending, NoClaim,
       ClaimOut, ClaimLeaving, ClaimBack
<1>5. RowsOK(r)
    BY <1>1, <1>2 DEF ReqOK, RowsOK, SettledRows, Unadmitted, Unanswered, Ending, Broken
<1>6. KeyOK(r)
    BY <1>1, <1>2 DEF ReqOK, KeyOK, Keyed, IsNative, Unadmitted
<1>7. ScreenOK(r)
    BY <1>1, <1>2 DEF ReqOK, ScreenOK, Scoped, Unbound, Streaming, Ending
<1>8. HitOK(r)
  <2>1. is_cacheable(q)
    BY DEF ReqOK, HitOK
  <2>2. Who(r) = Who(q) /\ is_cacheable(r) = is_cacheable(q)
    BY <1>1, WhoSame DEF Same, Fields
  <2> QED
    BY <1>1, <2>1, <2>2 DEF HitOK, Unadmitted, Unanswered
<1>9. RouteOK(r)
    BY <1>1, <1>2 DEF ReqOK, RouteOK, IsNative, Unbound
<1>10. ReqOK(r)
    BY <1>1, <1>2, <1>3, <1>4, <1>5, <1>6, <1>7, <1>8, <1>9 DEF ReqOK, Same
<1> QED
    BY <1>10 DEF r

\* A hit is settled at zero and its claim goes back.
LEMMA ReplayKeeps ==
    ASSUME NEW q, ReqOK(q), q.pc = "lookup", NEW w, w = Who(q), NEW c \in SUBSET Tags, NEW s, NEW u
    PROVE  ReqOK([Released([q EXCEPT !.hit = {w}, !.ans = c, !.shape = s, !.usage = u])
               EXCEPT !.pc = "respond", !.rows = Append(@, "hit")])
<1> DEFINE r == [Released([q EXCEPT !.hit = {w}, !.ans = c, !.shape = s, !.usage = u])
               EXCEPT !.pc = "respond", !.rows = Append(@, "hit")]
<1>1. /\ Same(q, r, {"pc", "hit", "ans", "shape", "usage", "held", "rel", "rows"})
      /\ r.pc = "respond" /\ r.hit = {w} /\ r.ans = c
      /\ r.held = FALSE /\ r.rel = q.rel + 1 /\ r.rows = Append(q.rows, "hit")
    BY FieldNames DEF ReqOK, Whole, Same, Released
<1> HIDE DEF r
<1>2. /\ r.in = q.in /\ r.alias = q.alias /\ r.model = q.model /\ r.router = q.router /\ r.conf = q.conf
      /\ r.body = q.body /\ r.text = q.text /\ r.ended = q.ended /\ r.flag = q.flag /\ r.soon = q.soon
      /\ r.lost = q.lost /\ r.keyHits = q.keyHits /\ r.teamHits = q.teamHits /\ r.sent = q.sent /\ r.got = q.got
      /\ r.pre = q.pre /\ r.post = q.post /\ r.open = q.open /\ r.called = q.called /\ r.cut = q.cut
      /\ r.out = q.out
    BY <1>1 DEF Same, Fields
<1>3. TypesOK(r)
    BY <1>1, <1>2 DEF ReqOK, TypesOK, ReqPlaces, Unadmitted, Unanswered, Streaming, Ending, Results
<1>4. ClaimOK(r)
    BY <1>1, <1>2 DEF ReqOK, TypesOK, ClaimOK, RowsOK, SettledRows, Unadmitted, Unanswered, Ending, NoClaim,
       ClaimOut, ClaimLeaving, ClaimBack
<1>5. RowsOK(r)
  <2>1. q.rows = <<>>
    BY DEF ReqOK, RowsOK, Unanswered
  <2>2. r.rows = <<"hit">>
    BY <1>1, <2>1, AppendToEmpty
  <2> QED
    BY <1>1, <2>2 DEF ReqOK, RowsOK, Unadmitted, Unanswered, Ending, Same, Fields
<1>6. KeyOK(r)
    BY <1>1, <1>2 DEF ReqOK, KeyOK, Keyed, IsNative, Unadmitted
<1>7. ScreenOK(r)
    BY <1>1, <1>2 DEF ReqOK, ScreenOK, Scoped, Unbound, Streaming, Ending
<1>8. HitOK(r)
  <2>1. is_cacheable(q)
    BY DEF ReqOK, HitOK
  <2>2. Who(r) = Who(q) /\ is_cacheable(r) = is_cacheable(q)
    BY <1>1, WhoSame DEF Same, Fields
  <2> QED
    BY <1>1, <2>1, <2>2 DEF HitOK, Unadmitted, Unanswered
<1>9. RouteOK(r)
    BY <1>1, <1>2 DEF ReqOK, RouteOK, IsNative, Unbound
<1>10. ReqOK(r)
    BY <1>1, <1>2, <1>3, <1>4, <1>5, <1>6, <1>7, <1>8, <1>9 DEF ReqOK, Same
<1> QED
    BY <1>10 DEF r

\* The provider answered.
LEMMA AnsweredKeeps ==
    ASSUME NEW q, ReqOK(q), q.pc = "call", NEW a \in Answers
    PROVE  ReqOK([Answered(q, a) EXCEPT !.pc = "settle"])
<1> DEFINE b == Answered(q, a)
           r == [b EXCEPT !.pc = "settle"]
<1>1. /\ Same(q, b, {"called", "sent", "ans", "shape", "usage", "wire", "asked"})
      /\ b.called = TRUE /\ b.sent = q.text /\ b.ans = a.tags /\ b.usage = a.usage
    BY AnsweredEffect DEF ReqOK
<1> HIDE DEF b
<1>2. /\ Same(q, r, {"called", "sent", "ans", "shape", "usage", "wire", "asked", "pc"})
      /\ r.pc = "settle" /\ r.ans = a.tags
      /\ r.called = TRUE /\ r.sent = q.text
    BY <1>1, FieldNames DEF Whole, Same
<1> HIDE DEF r
<1>3. a.tags \subseteq Tags
    BY InputAssumption
<1>4. /\ r.in = q.in /\ r.alias = q.alias /\ r.model = q.model /\ r.router = q.router /\ r.conf = q.conf
      /\ r.body = q.body /\ r.text = q.text /\ r.ended = q.ended /\ r.held = q.held /\ r.rel = q.rel
      /\ r.flag = q.flag /\ r.soon = q.soon /\ r.lost = q.lost /\ r.keyHits = q.keyHits /\ r.teamHits = q.teamHits
      /\ r.rows = q.rows /\ r.got = q.got /\ r.hit = q.hit /\ r.pre = q.pre /\ r.post = q.post
      /\ r.open = q.open /\ r.cut = q.cut /\ r.out = q.out
    BY <1>2 DEF Same, Fields
<1>5. TypesOK(r)
    BY <1>2, <1>3, <1>4 DEF ReqOK, TypesOK, ReqPlaces, Unadmitted, Unanswered, Streaming, Ending, Results
<1>6. ClaimOK(r)
    BY <1>2, <1>3, <1>4 DEF ReqOK, TypesOK, ClaimOK, RowsOK, SettledRows, Unadmitted, Unanswered, Ending,
       NoClaim, ClaimOut, ClaimLeaving, ClaimBack
<1>7. RowsOK(r)
    BY <1>2, <1>3, <1>4 DEF ReqOK, RowsOK, SettledRows, Unadmitted, Unanswered, Ending, Broken
<1>8. KeyOK(r)
    BY <1>2, <1>3, <1>4 DEF ReqOK, KeyOK, Keyed, IsNative, Unadmitted
<1>9. ScreenOK(r)
    BY <1>2, <1>3, <1>4 DEF ReqOK, ScreenOK, Scoped, Unbound, Streaming, Ending
<1>10. HitOK(r)
    BY <1>2, <1>3, <1>4 DEF ReqOK, HitOK, Who, is_cacheable, Hot, RowsOK, SettledRows, Unadmitted, Unanswered
<1>11. RouteOK(r)
    BY <1>2, <1>3, <1>4 DEF ReqOK, RouteOK, IsNative, Unbound
<1>12. ReqOK(r)
    BY <1>2, <1>3, <1>4, <1>5, <1>6, <1>7, <1>8, <1>9, <1>10, <1>11 DEF ReqOK, Same
<1> QED
    BY <1>12 DEF b, r

\* An answer nobody can use is billed and the claim goes back.
LEMMA InvalidKeeps ==
    ASSUME NEW q, ReqOK(q), q.pc = "call", NEW a \in Answers
    PROVE  ReqOK([Released(Billed(Answered(q, a))) EXCEPT !.pc = "done", !.out = "failed"])
<1> DEFINE b == Answered(q, a)
           r == [Released(Billed(b)) EXCEPT !.pc = "done", !.out = "failed"]
<1>1. /\ Same(q, b, {"called", "sent", "ans", "shape", "usage", "wire", "asked"})
      /\ b.called = TRUE /\ b.sent = q.text /\ b.ans = a.tags /\ b.usage = a.usage
    BY AnsweredEffect DEF ReqOK
<1> HIDE DEF b
<1>2. /\ Same(q, r, {"called", "sent", "ans", "shape", "usage", "wire", "asked", "pc", "out", "rows", "held", "rel"})
      /\ r.pc = "done" /\ r.out = "failed" /\ r.ans = a.tags /\ r.usage = a.usage
      /\ r.held = FALSE /\ r.rel = q.rel + 1 /\ r.rows = Append(q.rows, RowFor(b))
      /\ r.called = TRUE /\ r.sent = q.text
    BY <1>1, FieldNames DEF Whole, Same, Released, Billed
<1> HIDE DEF r
<1>3. a.tags \subseteq Tags
    BY InputAssumption
<1>4. q.rows = <<>>
    BY DEF ReqOK, RowsOK, Unanswered
<1>5. r.rows = <<RowFor(b)>> /\ Len(r.rows) = 1
    BY <1>2, <1>4, AppendToEmpty
<1>6. r.usage = "tokens" => RowFor(b) = "real"
    BY <1>1, <1>2 DEF RowFor
<1>7. /\ r.in = q.in /\ r.alias = q.alias /\ r.model = q.model /\ r.router = q.router /\ r.conf = q.conf
      /\ r.body = q.body /\ r.text = q.text /\ r.ended = q.ended /\ r.flag = q.flag /\ r.soon = q.soon
      /\ r.lost = q.lost /\ r.keyHits = q.keyHits /\ r.teamHits = q.teamHits /\ r.got = q.got /\ r.hit = q.hit
      /\ r.pre = q.pre /\ r.post = q.post /\ r.open = q.open /\ r.cut = q.cut
    BY <1>2 DEF Same, Fields
<1>8. TypesOK(r)
    BY <1>2, <1>3, <1>7 DEF ReqOK, TypesOK, ReqPlaces, Unadmitted, Unanswered, Streaming, Ending, Results
<1>9. ClaimOK(r)
    BY <1>2, <1>3, <1>7 DEF ReqOK, TypesOK, ClaimOK, RowsOK, SettledRows, Unadmitted, Unanswered, Ending,
       NoClaim, ClaimOut, ClaimLeaving, ClaimBack
<1>10. RowsOK(r)
  <2>1. /\ r.hit = {} /\ r.ended = "no" /\ r.lost = FALSE
        /\ r.called = TRUE /\ r.pc = "done" /\ r.out = "failed"
    BY <1>2 DEF ReqOK, RowsOK, Unanswered, Same, Fields
  <2>2. SettledRows(r)
    BY <1>5, <1>6, <2>1 DEF SettledRows
  <2> QED
    BY <2>1, <2>2 DEF RowsOK, Unadmitted, Unanswered, Ending
<1>11. KeyOK(r)
    BY <1>2, <1>3, <1>7 DEF ReqOK, KeyOK, Keyed, IsNative, Unadmitted
<1>12. ScreenOK(r)
    BY <1>2, <1>3, <1>7 DEF ReqOK, ScreenOK, Scoped, Unbound, Streaming, Ending
<1>13. HitOK(r)
    BY <1>2, <1>3, <1>7 DEF ReqOK, HitOK, Who, is_cacheable, Hot, RowsOK, SettledRows, Unadmitted, Unanswered
<1>14. RouteOK(r)
    BY <1>2, <1>3, <1>7 DEF ReqOK, RouteOK, IsNative, Unbound
<1>15. ReqOK(r)
    BY <1>2, <1>3, <1>7, <1>8, <1>9, <1>10, <1>11, <1>12, <1>13, <1>14 DEF ReqOK, Same
<1> QED
    BY <1>15 DEF b, r

\* The provider failed: the claim goes back.
LEMMA CallFailKeeps ==
    ASSUME NEW q, ReqOK(q), q.pc = "call"
    PROVE  ReqOK([[Released(q) EXCEPT !.sent = q.text] EXCEPT !.pc = "done", !.out = "failed"])
<1> DEFINE r == [[Released(q) EXCEPT !.sent = q.text] EXCEPT !.pc = "done", !.out = "failed"]
<1>1. /\ Same(q, r, {"pc", "out", "held", "rel", "sent"})
      /\ r.pc = "done" /\ r.out = "failed" /\ r.sent = q.text
      /\ r.held = FALSE /\ r.rel = q.rel + 1
    BY FieldNames DEF ReqOK, Whole, Same, Released
<1> HIDE DEF r
<1>2. /\ r.in = q.in /\ r.alias = q.alias /\ r.model = q.model /\ r.router = q.router /\ r.conf = q.conf
      /\ r.body = q.body /\ r.text = q.text /\ r.ans = q.ans /\ r.usage = q.usage /\ r.ended = q.ended
      /\ r.flag = q.flag /\ r.soon = q.soon /\ r.lost = q.lost /\ r.keyHits = q.keyHits /\ r.teamHits = q.teamHits
      /\ r.rows = q.rows /\ r.got = q.got /\ r.hit = q.hit /\ r.pre = q.pre /\ r.post = q.post
      /\ r.open = q.open /\ r.called = q.called /\ r.cut = q.cut
    BY <1>1 DEF Same, Fields
<1>3. TypesOK(r)
    BY <1>1, <1>2 DEF ReqOK, TypesOK, ReqPlaces, Unadmitted, Unanswered, Streaming, Ending, Results
<1>4. ClaimOK(r)
    BY <1>1, <1>2 DEF ReqOK, TypesOK, ClaimOK, RowsOK, SettledRows, Unadmitted, Unanswered, Ending, NoClaim,
       ClaimOut, ClaimLeaving, ClaimBack
<1>5. RowsOK(r)
    BY <1>1, <1>2 DEF ReqOK, RowsOK, SettledRows, Unadmitted, Unanswered, Ending, Broken
<1>6. KeyOK(r)
    BY <1>1, <1>2 DEF ReqOK, KeyOK, Keyed, IsNative, Unadmitted
<1>7. ScreenOK(r)
    BY <1>1, <1>2 DEF ReqOK, ScreenOK, Scoped, Unbound, Streaming, Ending
<1>8. HitOK(r)
    BY <1>1, <1>2 DEF ReqOK, HitOK, Who, is_cacheable, Hot, RowsOK, SettledRows, Unadmitted, Unanswered
<1>9. RouteOK(r)
    BY <1>1, <1>2 DEF ReqOK, RouteOK, IsNative, Unbound
<1>10. ReqOK(r)
    BY <1>1, <1>2, <1>3, <1>4, <1>5, <1>6, <1>7, <1>8, <1>9 DEF ReqOK, Same
<1> QED
    BY <1>10 DEF r

\* The adapter refuses the request: the claim goes back.
LEMMA AdapterKeeps ==
    ASSUME NEW q, ReqOK(q), q.pc \in {"call", "open"}
    PROVE  ReqOK([[Released(q) EXCEPT !.cut = "adapter"] EXCEPT !.pc = "done", !.out = "refused"])
<1> DEFINE r == [[Released(q) EXCEPT !.cut = "adapter"] EXCEPT !.pc = "done", !.out = "refused"]
<1>1. /\ Same(q, r, {"pc", "out", "held", "rel", "cut"})
      /\ r.pc = "done" /\ r.out = "refused" /\ r.cut = "adapter"
      /\ r.held = FALSE /\ r.rel = q.rel + 1
    BY FieldNames DEF ReqOK, Whole, Same, Released
<1> HIDE DEF r
<1>2. /\ r.in = q.in /\ r.alias = q.alias /\ r.model = q.model /\ r.router = q.router /\ r.conf = q.conf
      /\ r.body = q.body /\ r.text = q.text /\ r.ans = q.ans /\ r.usage = q.usage /\ r.ended = q.ended
      /\ r.flag = q.flag /\ r.soon = q.soon /\ r.lost = q.lost /\ r.keyHits = q.keyHits /\ r.teamHits = q.teamHits
      /\ r.rows = q.rows /\ r.sent = q.sent /\ r.got = q.got /\ r.hit = q.hit /\ r.pre = q.pre
      /\ r.post = q.post /\ r.open = q.open /\ r.called = q.called
    BY <1>1 DEF Same, Fields
<1>3. TypesOK(r)
    BY <1>1, <1>2 DEF ReqOK, TypesOK, ReqPlaces, Unadmitted, Unanswered, Streaming, Ending, Results
<1>4. ClaimOK(r)
    BY <1>1, <1>2 DEF ReqOK, TypesOK, ClaimOK, RowsOK, SettledRows, Unadmitted, Unanswered, Ending, NoClaim,
       ClaimOut, ClaimLeaving, ClaimBack
<1>5. RowsOK(r)
    BY <1>1, <1>2 DEF ReqOK, RowsOK, SettledRows, Unadmitted, Unanswered, Ending, Broken
<1>6. KeyOK(r)
    BY <1>1, <1>2 DEF ReqOK, KeyOK, Keyed, IsNative, Unadmitted
<1>7. ScreenOK(r)
    BY <1>1, <1>2 DEF ReqOK, ScreenOK, Scoped, Unbound, Streaming, Ending
<1>8. HitOK(r)
    BY <1>1, <1>2 DEF ReqOK, HitOK, Who, is_cacheable, Hot, RowsOK, SettledRows, Unadmitted, Unanswered
<1>9. RouteOK(r)
    BY <1>1, <1>2 DEF ReqOK, RouteOK, IsNative, Unbound
<1>10. ReqOK(r)
    BY <1>1, <1>2, <1>3, <1>4, <1>5, <1>6, <1>7, <1>8, <1>9 DEF ReqOK, Same
<1> QED
    BY <1>10 DEF r

\* A response rule refuses the answer.
LEMMA WithheldKeeps ==
    ASSUME NEW q, ReqOK(q), NEW s, NEW f, q.pc = "respond"
    PROVE  ReqOK([Back([Judged(q, s) EXCEPT !.open = @ \cup f]) EXCEPT !.pc = "done", !.out = "withheld"])
<1> DEFINE j == Judged(q, s)
           s1 == [j EXCEPT !.open = @ \cup f]
           b == Back(s1)
           r == [b EXCEPT !.pc = "done", !.out = "withheld"]
<1>1. Same(q, j, {"side"})
    BY JudgedEffect DEF ReqOK
<1> HIDE DEF j
<1>2. /\ Same(q, s1, {"side", "open"})
      /\ s1.open = q.open \cup f
    BY <1>1, FieldNames DEF Whole, Same
<1> HIDE DEF s1
<1>3. /\ Same(s1, b, {"held", "rel"})
      /\ s1.held = TRUE => b.held = FALSE /\ b.rel = s1.rel + 1
      /\ s1.held = FALSE => b.held = FALSE /\ b.rel = s1.rel
    BY <1>2, BackEffect DEF Same
<1>4. s1.held = q.held /\ s1.rel = q.rel /\ b.open = s1.open
    BY <1>2, <1>3 DEF Same, Fields
<1> HIDE DEF b
<1>5. Same(q, b, {"side", "open", "held", "rel"})
    BY <1>2, <1>3 DEF Same
<1>6. /\ Same(q, r, {"side", "open", "held", "rel", "pc", "out"})
      /\ r.pc = "done" /\ r.out = "withheld"
      /\ r.open = q.open \cup f
      /\ q.held = TRUE => r.held = FALSE /\ r.rel = q.rel + 1
      /\ q.held = FALSE => r.held = FALSE /\ r.rel = q.rel
    BY <1>2, <1>3, <1>4, <1>5, FieldNames DEF Whole, Same
<1> HIDE DEF r
<1>7. /\ r.in = q.in /\ r.alias = q.alias /\ r.model = q.model /\ r.router = q.router /\ r.conf = q.conf
      /\ r.body = q.body /\ r.text = q.text /\ r.ans = q.ans /\ r.usage = q.usage /\ r.ended = q.ended
      /\ r.flag = q.flag /\ r.soon = q.soon /\ r.lost = q.lost /\ r.keyHits = q.keyHits /\ r.teamHits = q.teamHits
      /\ r.rows = q.rows /\ r.sent = q.sent /\ r.got = q.got /\ r.hit = q.hit /\ r.pre = q.pre
      /\ r.post = q.post /\ r.called = q.called /\ r.cut = q.cut
    BY <1>6 DEF Same, Fields
<1>8. TypesOK(r)
    BY <1>6, <1>7 DEF ReqOK, TypesOK, ReqPlaces, Unadmitted, Unanswered, Streaming, Ending, Results
<1>9. ClaimOK(r)
    BY <1>6, <1>7 DEF ReqOK, TypesOK, ClaimOK, RowsOK, SettledRows, Unadmitted, Unanswered, Ending, NoClaim,
       ClaimOut, ClaimLeaving, ClaimBack
<1>10. RowsOK(r)
  <2>1. RowFor(r) = RowFor(q)
    BY <1>6, RowForSame DEF Same, Fields
  <2>2. /\ r.rows = q.rows /\ r.called = q.called /\ r.hit = q.hit /\ r.ended = q.ended
        /\ r.usage = q.usage /\ r.lost = q.lost
    BY <1>6 DEF Same, Fields
  <2>3. /\ q.ended = "no" /\ q.lost = FALSE
        /\ \/ q.hit = {} /\ q.called = TRUE /\ q.rows = <<RowFor(q)>>
           \/ q.hit # {} /\ q.called = FALSE /\ q.rows = <<"hit">> /\ q.pc = "respond"
    BY <1>6 DEF ReqOK, RowsOK
  <2>4. Len(q.rows) = 1
    BY <2>3, AppendToEmpty
  <2>5. q.usage = "tokens" => RowFor(q) = "real"
    BY DEF RowFor
  <2>6. SettledRows(r)
    BY <2>2, <2>3, <2>4, <2>5 DEF SettledRows
  <2> QED
    BY <1>6, <2>1, <2>2, <2>3, <2>6 DEF RowsOK, Unadmitted, Unanswered, Ending
<1>11. KeyOK(r)
    BY <1>6, <1>7 DEF ReqOK, KeyOK, Keyed, IsNative, Unadmitted
<1>12. ScreenOK(r)
    BY <1>6, <1>7 DEF ReqOK, ScreenOK, Scoped, Unbound, Streaming, Ending, Clean
<1>13. HitOK(r)
  <2>1. Who(r) = Who(q) /\ is_cacheable(r) = is_cacheable(q)
    BY <1>6, WhoSame DEF Same, Fields
  <2> QED
    BY <1>6, <2>1 DEF ReqOK, HitOK, Unadmitted, Unanswered, Same, Fields
<1>14. RouteOK(r)
    BY <1>6, <1>7 DEF ReqOK, RouteOK, IsNative, Unbound
<1>15. ReqOK(r)
    BY <1>6, <1>7, <1>8, <1>9, <1>10, <1>11, <1>12, <1>13, <1>14 DEF ReqOK, Same
<1> QED
    BY <1>15 DEF j, s1, b, r

\* The response chain is through: what it watches for is out of the answer.
LEMMA DeliveredKeeps ==
    ASSUME NEW q, ReqOK(q), NEW s, NEW f, q.pc = "respond", NEW c \in SUBSET Tags,
           Scoped(q) => Clean(q.post \ (q.open \cup f), c)
    PROVE  ReqOK([[Back([[Judged(q, s) EXCEPT !.open = @ \cup f] EXCEPT !.ans = c]) EXCEPT !.got = c] EXCEPT !.pc = "done", !.out = "ok"])
<1> DEFINE j == Judged(q, s)
           s1 == [[j EXCEPT !.open = @ \cup f] EXCEPT !.ans = c]
           b == Back(s1)
           r == [[b EXCEPT !.got = c] EXCEPT !.pc = "done", !.out = "ok"]
<1>1. Same(q, j, {"side"})
    BY JudgedEffect DEF ReqOK
<1> HIDE DEF j
<1>2. /\ Same(q, s1, {"side", "open", "ans"})
      /\ s1.ans = c
      /\ s1.open = q.open \cup f
    BY <1>1, FieldNames DEF Whole, Same
<1> HIDE DEF s1
<1>3. /\ Same(s1, b, {"held", "rel"})
      /\ s1.held = TRUE => b.held = FALSE /\ b.rel = s1.rel + 1
      /\ s1.held = FALSE => b.held = FALSE /\ b.rel = s1.rel
    BY <1>2, BackEffect DEF Same
<1>4. s1.held = q.held /\ s1.rel = q.rel /\ b.open = s1.open
    BY <1>2, <1>3 DEF Same, Fields
<1> HIDE DEF b
<1>5. Same(q, b, {"side", "open", "held", "rel", "ans"})
    BY <1>2, <1>3 DEF Same
<1>6. /\ Same(q, r, {"side", "open", "held", "rel", "ans", "pc", "out", "got"})
      /\ r.pc = "done" /\ r.out = "ok" /\ r.got = c /\ r.ans = c
      /\ r.open = q.open \cup f
      /\ q.held = TRUE => r.held = FALSE /\ r.rel = q.rel + 1
      /\ q.held = FALSE => r.held = FALSE /\ r.rel = q.rel
    BY <1>2, <1>3, <1>4, <1>5, FieldNames DEF Whole, Same
<1> HIDE DEF r
<1>7. /\ r.in = q.in /\ r.alias = q.alias /\ r.model = q.model /\ r.router = q.router /\ r.conf = q.conf
      /\ r.body = q.body /\ r.text = q.text /\ r.usage = q.usage /\ r.ended = q.ended /\ r.flag = q.flag
      /\ r.soon = q.soon /\ r.lost = q.lost /\ r.keyHits = q.keyHits /\ r.teamHits = q.teamHits /\ r.rows = q.rows
      /\ r.sent = q.sent /\ r.hit = q.hit /\ r.pre = q.pre /\ r.post = q.post /\ r.called = q.called
      /\ r.cut = q.cut
    BY <1>6 DEF Same, Fields
<1>8. TypesOK(r)
    BY <1>6, <1>7 DEF ReqOK, TypesOK, ReqPlaces, Unadmitted, Unanswered, Streaming, Ending, Results
<1>9. ClaimOK(r)
    BY <1>6, <1>7 DEF ReqOK, TypesOK, ClaimOK, RowsOK, SettledRows, Unadmitted, Unanswered, Ending, NoClaim,
       ClaimOut, ClaimLeaving, ClaimBack
<1>10. RowsOK(r)
  <2>1. RowFor(r) = RowFor(q)
    BY <1>6, RowForSame DEF Same, Fields
  <2>2. /\ r.rows = q.rows /\ r.called = q.called /\ r.hit = q.hit /\ r.ended = q.ended
        /\ r.usage = q.usage /\ r.lost = q.lost
    BY <1>6 DEF Same, Fields
  <2>3. /\ q.ended = "no" /\ q.lost = FALSE
        /\ \/ q.hit = {} /\ q.called = TRUE /\ q.rows = <<RowFor(q)>>
           \/ q.hit # {} /\ q.called = FALSE /\ q.rows = <<"hit">> /\ q.pc = "respond"
    BY <1>6 DEF ReqOK, RowsOK
  <2>4. Len(q.rows) = 1
    BY <2>3, AppendToEmpty
  <2>5. q.usage = "tokens" => RowFor(q) = "real"
    BY DEF RowFor
  <2>6. SettledRows(r)
    BY <2>2, <2>3, <2>4, <2>5 DEF SettledRows
  <2> QED
    BY <1>6, <2>1, <2>2, <2>3, <2>6 DEF RowsOK, Unadmitted, Unanswered, Ending
<1>11. KeyOK(r)
    BY <1>6, <1>7 DEF ReqOK, KeyOK, Keyed, IsNative, Unadmitted
<1>12. ScreenOK(r)
    BY <1>6, <1>7 DEF ReqOK, ScreenOK, Scoped, Unbound, Streaming, Ending, Clean
<1>13. HitOK(r)
  <2>1. Who(r) = Who(q) /\ is_cacheable(r) = is_cacheable(q)
    BY <1>6, WhoSame DEF Same, Fields
  <2> QED
    BY <1>6, <2>1 DEF ReqOK, HitOK, Unadmitted, Unanswered, Same, Fields
<1>14. RouteOK(r)
    BY <1>6, <1>7 DEF ReqOK, RouteOK, IsNative, Unbound
<1>15. ReqOK(r)
    BY <1>6, <1>7, <1>8, <1>9, <1>10, <1>11, <1>12, <1>13, <1>14 DEF ReqOK, Same
<1> QED
    BY <1>15 DEF j, s1, b, r

\* A fresh answer that may be cached is put before it is delivered.
LEMMA ToPutKeeps ==
    ASSUME NEW q, ReqOK(q), NEW s, NEW f, q.pc = "respond", q.hit = {}, NEW c \in SUBSET Tags,
           Scoped(q) => Clean(q.post \ (q.open \cup f), c)
    PROVE  ReqOK([[[Judged(q, s) EXCEPT !.open = @ \cup f] EXCEPT !.ans = c] EXCEPT !.pc = "put"])
<1> DEFINE j == Judged(q, s)
           r == [[[j EXCEPT !.open = @ \cup f] EXCEPT !.ans = c] EXCEPT !.pc = "put"]
<1>1. Same(q, j, {"side"})
    BY JudgedEffect DEF ReqOK
<1> HIDE DEF j
<1>2. /\ Same(q, r, {"pc", "ans", "side", "open"})
      /\ r.pc = "put" /\ r.ans = c
      /\ r.open = q.open \cup f
    BY <1>1, FieldNames DEF Whole, Same
<1> HIDE DEF r
<1>3. /\ r.in = q.in /\ r.alias = q.alias /\ r.model = q.model /\ r.router = q.router /\ r.conf = q.conf
      /\ r.body = q.body /\ r.text = q.text /\ r.usage = q.usage /\ r.ended = q.ended /\ r.held = q.held
      /\ r.rel = q.rel /\ r.flag = q.flag /\ r.soon = q.soon /\ r.lost = q.lost /\ r.keyHits = q.keyHits
      /\ r.teamHits = q.teamHits /\ r.rows = q.rows /\ r.sent = q.sent /\ r.got = q.got /\ r.hit = q.hit
      /\ r.pre = q.pre /\ r.post = q.post /\ r.called = q.called /\ r.cut = q.cut /\ r.out = q.out
    BY <1>2 DEF Same, Fields
<1>4. TypesOK(r)
    BY <1>2, <1>3 DEF ReqOK, TypesOK, ReqPlaces, Unadmitted, Unanswered, Streaming, Ending, Results
<1>5. ClaimOK(r)
    BY <1>2, <1>3 DEF ReqOK, TypesOK, ClaimOK, RowsOK, SettledRows, Unadmitted, Unanswered, Ending, NoClaim,
       ClaimOut, ClaimLeaving, ClaimBack
<1>6. RowsOK(r)
  <2>1. RowFor(r) = RowFor(q)
    BY <1>2, RowForSame DEF Same, Fields
  <2>2. /\ r.rows = q.rows /\ r.called = q.called /\ r.hit = q.hit /\ r.ended = q.ended
        /\ r.usage = q.usage /\ r.lost = q.lost
    BY <1>2 DEF Same, Fields
  <2>3. /\ q.ended = "no" /\ q.lost = FALSE
        /\ \/ q.hit = {} /\ q.called = TRUE /\ q.rows = <<RowFor(q)>>
           \/ q.hit # {} /\ q.called = FALSE /\ q.rows = <<"hit">> /\ q.pc = "respond"
    BY <1>2 DEF ReqOK, RowsOK
  <2>4. Len(q.rows) = 1
    BY <2>3, AppendToEmpty
  <2>5. q.usage = "tokens" => RowFor(q) = "real"
    BY DEF RowFor
  <2>6. SettledRows(r)
    BY <2>2, <2>3, <2>4, <2>5 DEF SettledRows
  <2> QED
    BY <1>2, <2>1, <2>2, <2>3, <2>6 DEF RowsOK, Unadmitted, Unanswered, Ending
<1>7. KeyOK(r)
    BY <1>2, <1>3 DEF ReqOK, KeyOK, Keyed, IsNative, Unadmitted
<1>8. ScreenOK(r)
    BY <1>2, <1>3 DEF ReqOK, ScreenOK, Scoped, Unbound, Streaming, Ending, Clean
<1>9. HitOK(r)
  <2>1. Who(r) = Who(q) /\ is_cacheable(r) = is_cacheable(q)
    BY <1>2, WhoSame DEF Same, Fields
  <2> QED
    BY <1>2, <2>1 DEF ReqOK, HitOK, Unadmitted, Unanswered, Same, Fields
<1>10. RouteOK(r)
    BY <1>2, <1>3 DEF ReqOK, RouteOK, IsNative, Unbound
<1>11. ReqOK(r)
    BY <1>2, <1>3, <1>4, <1>5, <1>6, <1>7, <1>8, <1>9, <1>10 DEF ReqOK, Same
<1> QED
    BY <1>11 DEF j, r

\* The answer was put and is delivered.
LEMMA PutKeeps ==
    ASSUME NEW q, ReqOK(q), q.pc = "put"
    PROVE  ReqOK([[Released(q) EXCEPT !.got = q.ans] EXCEPT !.pc = "done", !.out = "ok"])
<1> DEFINE r == [[Released(q) EXCEPT !.got = q.ans] EXCEPT !.pc = "done", !.out = "ok"]
<1>1. /\ Same(q, r, {"pc", "out", "got", "held", "rel"})
      /\ r.pc = "done" /\ r.out = "ok" /\ r.got = q.ans
      /\ r.held = FALSE /\ r.rel = q.rel + 1
    BY FieldNames DEF ReqOK, Whole, Same, Released
<1> HIDE DEF r
<1>2. /\ r.in = q.in /\ r.alias = q.alias /\ r.model = q.model /\ r.router = q.router /\ r.conf = q.conf
      /\ r.body = q.body /\ r.text = q.text /\ r.ans = q.ans /\ r.usage = q.usage /\ r.ended = q.ended
      /\ r.flag = q.flag /\ r.soon = q.soon /\ r.lost = q.lost /\ r.keyHits = q.keyHits /\ r.teamHits = q.teamHits
      /\ r.rows = q.rows /\ r.sent = q.sent /\ r.hit = q.hit /\ r.pre = q.pre /\ r.post = q.post
      /\ r.open = q.open /\ r.called = q.called /\ r.cut = q.cut
    BY <1>1 DEF Same, Fields
<1>3. TypesOK(r)
    BY <1>1, <1>2 DEF ReqOK, TypesOK, ReqPlaces, Unadmitted, Unanswered, Streaming, Ending, Results
<1>4. ClaimOK(r)
    BY <1>1, <1>2 DEF ReqOK, TypesOK, ClaimOK, RowsOK, SettledRows, Unadmitted, Unanswered, Ending, NoClaim,
       ClaimOut, ClaimLeaving, ClaimBack
<1>5. RowsOK(r)
  <2>1. RowFor(r) = RowFor(q)
    BY <1>1, RowForSame DEF Same, Fields
  <2>2. /\ r.rows = q.rows /\ r.called = q.called /\ r.hit = q.hit /\ r.ended = q.ended
        /\ r.usage = q.usage /\ r.lost = q.lost
    BY <1>1 DEF Same, Fields
  <2>3. /\ q.ended = "no" /\ q.lost = FALSE
        /\ \/ q.hit = {} /\ q.called = TRUE /\ q.rows = <<RowFor(q)>>
           \/ q.hit # {} /\ q.called = FALSE /\ q.rows = <<"hit">> /\ q.pc = "respond"
    BY <1>1 DEF ReqOK, RowsOK
  <2>4. Len(q.rows) = 1
    BY <2>3, AppendToEmpty
  <2>5. q.usage = "tokens" => RowFor(q) = "real"
    BY DEF RowFor
  <2>6. SettledRows(r)
    BY <2>2, <2>3, <2>4, <2>5 DEF SettledRows
  <2> QED
    BY <1>1, <2>1, <2>2, <2>3, <2>6 DEF RowsOK, Unadmitted, Unanswered, Ending
<1>6. KeyOK(r)
    BY <1>1, <1>2 DEF ReqOK, KeyOK, Keyed, IsNative, Unadmitted
<1>7. ScreenOK(r)
    BY <1>1, <1>2 DEF ReqOK, ScreenOK, Scoped, Unbound, Streaming, Ending, Clean
<1>8. HitOK(r)
  <2>1. Who(r) = Who(q) /\ is_cacheable(r) = is_cacheable(q)
    BY <1>1, WhoSame DEF Same, Fields
  <2> QED
    BY <1>1, <2>1 DEF ReqOK, HitOK, Unadmitted, Unanswered, Same, Fields
<1>9. RouteOK(r)
    BY <1>1, <1>2 DEF ReqOK, RouteOK, IsNative, Unbound
<1>10. ReqOK(r)
    BY <1>1, <1>2, <1>3, <1>4, <1>5, <1>6, <1>7, <1>8, <1>9 DEF ReqOK, Same
<1> QED
    BY <1>10 DEF r

\* The provider stream is open.
LEMMA OpenKeeps ==
    ASSUME NEW q, ReqOK(q), q.pc = "open"
    PROVE  ReqOK([q EXCEPT !.pc = "prime"])
<1> DEFINE r == [q EXCEPT !.pc = "prime"]
<1>1. /\ Same(q, r, {"pc"})
      /\ r.pc = "prime"
    BY FieldNames DEF ReqOK, Whole, Same
<1> HIDE DEF r
<1>2. /\ r.in = q.in /\ r.alias = q.alias /\ r.model = q.model /\ r.router = q.router /\ r.conf = q.conf
      /\ r.body = q.body /\ r.text = q.text /\ r.ans = q.ans /\ r.usage = q.usage /\ r.ended = q.ended
      /\ r.held = q.held /\ r.rel = q.rel /\ r.flag = q.flag /\ r.soon = q.soon /\ r.lost = q.lost
      /\ r.keyHits = q.keyHits /\ r.teamHits = q.teamHits /\ r.rows = q.rows /\ r.sent = q.sent /\ r.got = q.got
      /\ r.hit = q.hit /\ r.pre = q.pre /\ r.post = q.post /\ r.open = q.open /\ r.called = q.called
      /\ r.cut = q.cut /\ r.out = q.out
    BY <1>1 DEF Same, Fields
<1>3. TypesOK(r)
    BY <1>1, <1>2 DEF ReqOK, TypesOK, ReqPlaces, Unadmitted, Unanswered, Streaming, Ending, Results
<1>4. ClaimOK(r)
    BY <1>1, <1>2 DEF ReqOK, TypesOK, ClaimOK, RowsOK, SettledRows, Unadmitted, Unanswered, Ending, NoClaim,
       ClaimOut, ClaimLeaving, ClaimBack
<1>5. RowsOK(r)
    BY <1>1, <1>2 DEF ReqOK, RowsOK, SettledRows, Unadmitted, Unanswered, Ending, Broken
<1>6. KeyOK(r)
    BY <1>1, <1>2 DEF ReqOK, KeyOK, Keyed, IsNative, Unadmitted
<1>7. ScreenOK(r)
    BY <1>1, <1>2 DEF ReqOK, ScreenOK, Scoped, Unbound, Streaming, Ending
<1>8. HitOK(r)
    BY <1>1, <1>2 DEF ReqOK, HitOK, Who, is_cacheable, Hot, RowsOK, SettledRows, Unadmitted, Unanswered
<1>9. RouteOK(r)
    BY <1>1, <1>2 DEF ReqOK, RouteOK, IsNative, Unbound
<1>10. ReqOK(r)
    BY <1>1, <1>2, <1>3, <1>4, <1>5, <1>6, <1>7, <1>8, <1>9 DEF ReqOK, Same
<1> QED
    BY <1>10 DEF r

\* The first chunk is there.
LEMMA PrimedKeeps ==
    ASSUME NEW q, ReqOK(q), q.pc = "prime", NEW a \in Answers
    PROVE  ReqOK([Answered(q, a) EXCEPT !.pc = "primed"])
<1> DEFINE b == Answered(q, a)
           r == [b EXCEPT !.pc = "primed"]
<1>1. /\ Same(q, b, {"called", "sent", "ans", "shape", "usage", "wire", "asked"})
      /\ b.called = TRUE /\ b.sent = q.text /\ b.ans = a.tags /\ b.usage = a.usage
    BY AnsweredEffect DEF ReqOK
<1> HIDE DEF b
<1>2. /\ Same(q, r, {"called", "sent", "ans", "shape", "usage", "wire", "asked", "pc"})
      /\ r.pc = "primed" /\ r.ans = a.tags
      /\ r.called = TRUE /\ r.sent = q.text
    BY <1>1, FieldNames DEF Whole, Same
<1> HIDE DEF r
<1>3. a.tags \subseteq Tags
    BY InputAssumption
<1>4. /\ r.in = q.in /\ r.alias = q.alias /\ r.model = q.model /\ r.router = q.router /\ r.conf = q.conf
      /\ r.body = q.body /\ r.text = q.text /\ r.ended = q.ended /\ r.held = q.held /\ r.rel = q.rel
      /\ r.flag = q.flag /\ r.soon = q.soon /\ r.lost = q.lost /\ r.keyHits = q.keyHits /\ r.teamHits = q.teamHits
      /\ r.rows = q.rows /\ r.got = q.got /\ r.hit = q.hit /\ r.pre = q.pre /\ r.post = q.post
      /\ r.open = q.open /\ r.cut = q.cut /\ r.out = q.out
    BY <1>2 DEF Same, Fields
<1>5. TypesOK(r)
    BY <1>2, <1>3, <1>4 DEF ReqOK, TypesOK, ReqPlaces, Unadmitted, Unanswered, Streaming, Ending, Results
<1>6. ClaimOK(r)
    BY <1>2, <1>3, <1>4 DEF ReqOK, TypesOK, ClaimOK, RowsOK, SettledRows, Unadmitted, Unanswered, Ending,
       NoClaim, ClaimOut, ClaimLeaving, ClaimBack
<1>7. RowsOK(r)
    BY <1>2, <1>3, <1>4 DEF ReqOK, RowsOK, SettledRows, Unadmitted, Unanswered, Ending, Broken
<1>8. KeyOK(r)
    BY <1>2, <1>3, <1>4 DEF ReqOK, KeyOK, Keyed, IsNative, Unadmitted
<1>9. ScreenOK(r)
    BY <1>2, <1>3, <1>4 DEF ReqOK, ScreenOK, Scoped, Unbound, Streaming, Ending
<1>10. HitOK(r)
    BY <1>2, <1>3, <1>4 DEF ReqOK, HitOK, Who, is_cacheable, Hot, RowsOK, SettledRows, Unadmitted, Unanswered
<1>11. RouteOK(r)
    BY <1>2, <1>3, <1>4 DEF ReqOK, RouteOK, IsNative, Unbound
<1>12. ReqOK(r)
    BY <1>2, <1>3, <1>4, <1>5, <1>6, <1>7, <1>8, <1>9, <1>10, <1>11 DEF ReqOK, Same
<1> QED
    BY <1>12 DEF b, r

\* The stream ended, or was rejected, before its first chunk.
LEMMA EmptyKeeps ==
    ASSUME NEW q, ReqOK(q), q.pc = "prime", NEW h \in {"clean", "rejected"}, NEW a \in Answers
    PROVE  ReqOK(Closing([Answered(q, a) EXCEPT !.usage = "absent", !.ans = {}], h))
<1> DEFINE b == Answered(q, a)
           r == Closing([b EXCEPT !.usage = "absent", !.ans = {}], h)
<1>1. /\ Same(q, b, {"called", "sent", "ans", "shape", "usage", "wire", "asked"})
      /\ b.called = TRUE /\ b.sent = q.text /\ b.ans = a.tags /\ b.usage = a.usage
    BY AnsweredEffect DEF ReqOK
<1> HIDE DEF b
<1>2. /\ Same(q, r, {"called", "sent", "ans", "shape", "usage", "wire", "asked", "pc", "ended"})
      /\ r.pc = "closing" /\ r.ended = h /\ r.usage = "absent" /\ r.ans = {}
      /\ r.called = TRUE /\ r.sent = q.text
    BY <1>1, FieldNames DEF Whole, Same, Closing
<1> HIDE DEF r
<1>3. a.tags \subseteq Tags
    BY InputAssumption
<1>4. /\ r.in = q.in /\ r.alias = q.alias /\ r.model = q.model /\ r.router = q.router /\ r.conf = q.conf
      /\ r.body = q.body /\ r.text = q.text /\ r.held = q.held /\ r.rel = q.rel /\ r.flag = q.flag
      /\ r.soon = q.soon /\ r.lost = q.lost /\ r.keyHits = q.keyHits /\ r.teamHits = q.teamHits /\ r.rows = q.rows
      /\ r.got = q.got /\ r.hit = q.hit /\ r.pre = q.pre /\ r.post = q.post /\ r.open = q.open
      /\ r.cut = q.cut /\ r.out = q.out
    BY <1>2 DEF Same, Fields
<1>5. TypesOK(r)
    BY <1>2, <1>3, <1>4 DEF ReqOK, TypesOK, ReqPlaces, Unadmitted, Unanswered, Streaming, Ending, Results
<1>6. ClaimOK(r)
    BY <1>2, <1>3, <1>4 DEF ReqOK, TypesOK, ClaimOK, RowsOK, SettledRows, Unadmitted, Unanswered, Ending,
       NoClaim, ClaimOut, ClaimLeaving, ClaimBack
<1>7. RowsOK(r)
  <2>1. r.rows = <<>> /\ r.hit = {} /\ r.lost = FALSE
    BY <1>2 DEF ReqOK, RowsOK, Unanswered, Same, Fields
  <2> QED
    BY <1>2, <2>1 DEF RowsOK, Unadmitted, Unanswered, Ending, Broken
<1>8. KeyOK(r)
    BY <1>2, <1>3, <1>4 DEF ReqOK, KeyOK, Keyed, IsNative, Unadmitted
<1>9. ScreenOK(r)
    BY <1>2, <1>3, <1>4 DEF ReqOK, ScreenOK, Scoped, Unbound, Streaming, Ending
<1>10. HitOK(r)
    BY <1>2, <1>3, <1>4 DEF ReqOK, HitOK, Who, is_cacheable, Hot, RowsOK, SettledRows, Unadmitted, Unanswered
<1>11. RouteOK(r)
    BY <1>2, <1>3, <1>4 DEF ReqOK, RouteOK, IsNative, Unbound
<1>12. ReqOK(r)
    BY <1>2, <1>3, <1>4, <1>5, <1>6, <1>7, <1>8, <1>9, <1>10, <1>11 DEF ReqOK, Same
<1> QED
    BY <1>12 DEF b, r

\* The translator refuses the stream.
LEMMA UntranslatedKeeps ==
    ASSUME NEW q, ReqOK(q), q.pc = "prime"
    PROVE  ReqOK([Closing(q, "rejected") EXCEPT !.cut = "adapter"])
<1> DEFINE r == [Closing(q, "rejected") EXCEPT !.cut = "adapter"]
<1>1. /\ Same(q, r, {"pc", "ended", "cut"})
      /\ r.pc = "closing" /\ r.ended = "rejected" /\ r.cut = "adapter"
    BY FieldNames DEF ReqOK, Whole, Same, Closing
<1> HIDE DEF r
<1>2. /\ r.in = q.in /\ r.alias = q.alias /\ r.model = q.model /\ r.router = q.router /\ r.conf = q.conf
      /\ r.body = q.body /\ r.text = q.text /\ r.ans = q.ans /\ r.usage = q.usage /\ r.held = q.held
      /\ r.rel = q.rel /\ r.flag = q.flag /\ r.soon = q.soon /\ r.lost = q.lost /\ r.keyHits = q.keyHits
      /\ r.teamHits = q.teamHits /\ r.rows = q.rows /\ r.sent = q.sent /\ r.got = q.got /\ r.hit = q.hit
      /\ r.pre = q.pre /\ r.post = q.post /\ r.open = q.open /\ r.called = q.called /\ r.out = q.out
    BY <1>1 DEF Same, Fields
<1>3. TypesOK(r)
    BY <1>1, <1>2 DEF ReqOK, TypesOK, ReqPlaces, Unadmitted, Unanswered, Streaming, Ending, Results
<1>4. ClaimOK(r)
    BY <1>1, <1>2 DEF ReqOK, TypesOK, ClaimOK, RowsOK, SettledRows, Unadmitted, Unanswered, Ending, NoClaim,
       ClaimOut, ClaimLeaving, ClaimBack
<1>5. RowsOK(r)
    BY <1>1, <1>2 DEF ReqOK, RowsOK, SettledRows, Unadmitted, Unanswered, Ending, Broken
<1>6. KeyOK(r)
    BY <1>1, <1>2 DEF ReqOK, KeyOK, Keyed, IsNative, Unadmitted
<1>7. ScreenOK(r)
    BY <1>1, <1>2 DEF ReqOK, ScreenOK, Scoped, Unbound, Streaming, Ending
<1>8. HitOK(r)
    BY <1>1, <1>2 DEF ReqOK, HitOK, Who, is_cacheable, Hot, RowsOK, SettledRows, Unadmitted, Unanswered
<1>9. RouteOK(r)
    BY <1>1, <1>2 DEF ReqOK, RouteOK, IsNative, Unbound
<1>10. ReqOK(r)
    BY <1>1, <1>2, <1>3, <1>4, <1>5, <1>6, <1>7, <1>8, <1>9 DEF ReqOK, Same
<1> QED
    BY <1>10 DEF r

\* The primed chunk reaches the client.
LEMMA FlowKeeps ==
    ASSUME NEW q, ReqOK(q), q.pc = "primed"
    PROVE  ReqOK([q EXCEPT !.pc = "flow", !.got = q.ans])
<1> DEFINE r == [q EXCEPT !.pc = "flow", !.got = q.ans]
<1>1. /\ Same(q, r, {"pc", "got"})
      /\ r.pc = "flow" /\ r.got = q.ans
    BY FieldNames DEF ReqOK, Whole, Same
<1> HIDE DEF r
<1>2. /\ r.in = q.in /\ r.alias = q.alias /\ r.model = q.model /\ r.router = q.router /\ r.conf = q.conf
      /\ r.body = q.body /\ r.text = q.text /\ r.ans = q.ans /\ r.usage = q.usage /\ r.ended = q.ended
      /\ r.held = q.held /\ r.rel = q.rel /\ r.flag = q.flag /\ r.soon = q.soon /\ r.lost = q.lost
      /\ r.keyHits = q.keyHits /\ r.teamHits = q.teamHits /\ r.rows = q.rows /\ r.sent = q.sent /\ r.hit = q.hit
      /\ r.pre = q.pre /\ r.post = q.post /\ r.open = q.open /\ r.called = q.called /\ r.cut = q.cut
      /\ r.out = q.out
    BY <1>1 DEF Same, Fields
<1>3. TypesOK(r)
    BY <1>1, <1>2 DEF ReqOK, TypesOK, ReqPlaces, Unadmitted, Unanswered, Streaming, Ending, Results
<1>4. ClaimOK(r)
    BY <1>1, <1>2 DEF ReqOK, TypesOK, ClaimOK, RowsOK, SettledRows, Unadmitted, Unanswered, Ending, NoClaim,
       ClaimOut, ClaimLeaving, ClaimBack
<1>5. RowsOK(r)
    BY <1>1, <1>2 DEF ReqOK, RowsOK, SettledRows, Unadmitted, Unanswered, Ending, Broken
<1>6. KeyOK(r)
    BY <1>1, <1>2 DEF ReqOK, KeyOK, Keyed, IsNative, Unadmitted
<1>7. ScreenOK(r)
    BY <1>1, <1>2 DEF ReqOK, ScreenOK, Scoped, Unbound, Streaming, Ending, Clean
<1>8. HitOK(r)
    BY <1>1, <1>2 DEF ReqOK, HitOK, Who, is_cacheable, Hot, RowsOK, SettledRows, Unadmitted, Unanswered
<1>9. RouteOK(r)
    BY <1>1, <1>2 DEF ReqOK, RouteOK, IsNative, Unbound
<1>10. ReqOK(r)
    BY <1>1, <1>2, <1>3, <1>4, <1>5, <1>6, <1>7, <1>8, <1>9 DEF ReqOK, Same
<1> QED
    BY <1>10 DEF r

\* A stream ends by itself.
LEMMA EndedKeeps ==
    ASSUME NEW q, ReqOK(q), q.pc = "flow"
    PROVE  ReqOK(Closing(q, "clean"))
<1> DEFINE r == Closing(q, "clean")
<1>1. /\ Same(q, r, {"pc", "ended"})
      /\ r.pc = "closing" /\ r.ended = "clean"
    BY FieldNames DEF ReqOK, Whole, Same, Closing
<1> HIDE DEF r
<1>2. /\ r.in = q.in /\ r.alias = q.alias /\ r.model = q.model /\ r.router = q.router /\ r.conf = q.conf
      /\ r.body = q.body /\ r.text = q.text /\ r.ans = q.ans /\ r.usage = q.usage /\ r.held = q.held
      /\ r.rel = q.rel /\ r.flag = q.flag /\ r.soon = q.soon /\ r.lost = q.lost /\ r.keyHits = q.keyHits
      /\ r.teamHits = q.teamHits /\ r.rows = q.rows /\ r.sent = q.sent /\ r.got = q.got /\ r.hit = q.hit
      /\ r.pre = q.pre /\ r.post = q.post /\ r.open = q.open /\ r.called = q.called /\ r.cut = q.cut
      /\ r.out = q.out
    BY <1>1 DEF Same, Fields
<1>3. TypesOK(r)
    BY <1>1, <1>2 DEF ReqOK, TypesOK, ReqPlaces, Unadmitted, Unanswered, Streaming, Ending, Results
<1>4. ClaimOK(r)
    BY <1>1, <1>2 DEF ReqOK, TypesOK, ClaimOK, RowsOK, SettledRows, Unadmitted, Unanswered, Ending, NoClaim,
       ClaimOut, ClaimLeaving, ClaimBack
<1>5. RowsOK(r)
    BY <1>1, <1>2 DEF ReqOK, RowsOK, SettledRows, Unadmitted, Unanswered, Ending, Broken
<1>6. KeyOK(r)
    BY <1>1, <1>2 DEF ReqOK, KeyOK, Keyed, IsNative, Unadmitted
<1>7. ScreenOK(r)
    BY <1>1, <1>2 DEF ReqOK, ScreenOK, Scoped, Unbound, Streaming, Ending
<1>8. HitOK(r)
    BY <1>1, <1>2 DEF ReqOK, HitOK, Who, is_cacheable, Hot, RowsOK, SettledRows, Unadmitted, Unanswered
<1>9. RouteOK(r)
    BY <1>1, <1>2 DEF ReqOK, RouteOK, IsNative, Unbound
<1>10. ReqOK(r)
    BY <1>1, <1>2, <1>3, <1>4, <1>5, <1>6, <1>7, <1>8, <1>9 DEF ReqOK, Same
<1> QED
    BY <1>10 DEF r

\* A stream of a provider breaks off.
LEMMA BrokenKeeps ==
    ASSUME NEW q, ReqOK(q), q.pc = "flow", q.hit = {}, NEW u
    PROVE  ReqOK([Closing(q, "error") EXCEPT !.usage = u])
<1> DEFINE r == [Closing(q, "error") EXCEPT !.usage = u]
<1>1. /\ Same(q, r, {"pc", "ended", "usage"})
      /\ r.pc = "closing" /\ r.ended = "error" /\ r.usage = u
    BY FieldNames DEF ReqOK, Whole, Same, Closing
<1> HIDE DEF r
<1>2. /\ r.in = q.in /\ r.alias = q.alias /\ r.model = q.model /\ r.router = q.router /\ r.conf = q.conf
      /\ r.body = q.body /\ r.text = q.text /\ r.ans = q.ans /\ r.held = q.held /\ r.rel = q.rel
      /\ r.flag = q.flag /\ r.soon = q.soon /\ r.lost = q.lost /\ r.keyHits = q.keyHits /\ r.teamHits = q.teamHits
      /\ r.rows = q.rows /\ r.sent = q.sent /\ r.got = q.got /\ r.hit = q.hit /\ r.pre = q.pre
      /\ r.post = q.post /\ r.open = q.open /\ r.called = q.called /\ r.cut = q.cut /\ r.out = q.out
    BY <1>1 DEF Same, Fields
<1>3. TypesOK(r)
    BY <1>1, <1>2 DEF ReqOK, TypesOK, ReqPlaces, Unadmitted, Unanswered, Streaming, Ending, Results
<1>4. ClaimOK(r)
    BY <1>1, <1>2 DEF ReqOK, TypesOK, ClaimOK, RowsOK, SettledRows, Unadmitted, Unanswered, Ending, NoClaim,
       ClaimOut, ClaimLeaving, ClaimBack
<1>5. RowsOK(r)
    BY <1>1, <1>2 DEF ReqOK, RowsOK, SettledRows, Unadmitted, Unanswered, Ending, Broken
<1>6. KeyOK(r)
    BY <1>1, <1>2 DEF ReqOK, KeyOK, Keyed, IsNative, Unadmitted
<1>7. ScreenOK(r)
    BY <1>1, <1>2 DEF ReqOK, ScreenOK, Scoped, Unbound, Streaming, Ending
<1>8. HitOK(r)
    BY <1>1, <1>2 DEF ReqOK, HitOK, Who, is_cacheable, Hot, RowsOK, SettledRows, Unadmitted, Unanswered
<1>9. RouteOK(r)
    BY <1>1, <1>2 DEF ReqOK, RouteOK, IsNative, Unbound
<1>10. ReqOK(r)
    BY <1>1, <1>2, <1>3, <1>4, <1>5, <1>6, <1>7, <1>8, <1>9 DEF ReqOK, Same
<1> QED
    BY <1>10 DEF r

\* The client goes away.
LEMMA DisconnectKeeps ==
    ASSUME NEW q, ReqOK(q), q.pc \in {"primed", "flow"}, NEW u
    PROVE  ReqOK([Closing(q, "disconnect") EXCEPT !.usage = u])
<1> DEFINE r == [Closing(q, "disconnect") EXCEPT !.usage = u]
<1>1. /\ Same(q, r, {"pc", "ended", "usage"})
      /\ r.pc = "closing" /\ r.ended = "disconnect" /\ r.usage = u
    BY FieldNames DEF ReqOK, Whole, Same, Closing
<1> HIDE DEF r
<1>2. /\ r.in = q.in /\ r.alias = q.alias /\ r.model = q.model /\ r.router = q.router /\ r.conf = q.conf
      /\ r.body = q.body /\ r.text = q.text /\ r.ans = q.ans /\ r.held = q.held /\ r.rel = q.rel
      /\ r.flag = q.flag /\ r.soon = q.soon /\ r.lost = q.lost /\ r.keyHits = q.keyHits /\ r.teamHits = q.teamHits
      /\ r.rows = q.rows /\ r.sent = q.sent /\ r.got = q.got /\ r.hit = q.hit /\ r.pre = q.pre
      /\ r.post = q.post /\ r.open = q.open /\ r.called = q.called /\ r.cut = q.cut /\ r.out = q.out
    BY <1>1 DEF Same, Fields
<1>3. TypesOK(r)
    BY <1>1, <1>2 DEF ReqOK, TypesOK, ReqPlaces, Unadmitted, Unanswered, Streaming, Ending, Results
<1>4. ClaimOK(r)
    BY <1>1, <1>2 DEF ReqOK, TypesOK, ClaimOK, RowsOK, SettledRows, Unadmitted, Unanswered, Ending, NoClaim,
       ClaimOut, ClaimLeaving, ClaimBack
<1>5. RowsOK(r)
    BY <1>1, <1>2 DEF ReqOK, RowsOK, SettledRows, Unadmitted, Unanswered, Ending, Broken
<1>6. KeyOK(r)
    BY <1>1, <1>2 DEF ReqOK, KeyOK, Keyed, IsNative, Unadmitted
<1>7. ScreenOK(r)
    BY <1>1, <1>2 DEF ReqOK, ScreenOK, Scoped, Unbound, Streaming, Ending
<1>8. HitOK(r)
    BY <1>1, <1>2 DEF ReqOK, HitOK, Who, is_cacheable, Hot, RowsOK, SettledRows, Unadmitted, Unanswered
<1>9. RouteOK(r)
    BY <1>1, <1>2 DEF ReqOK, RouteOK, IsNative, Unbound
<1>10. ReqOK(r)
    BY <1>1, <1>2, <1>3, <1>4, <1>5, <1>6, <1>7, <1>8, <1>9 DEF ReqOK, Same
<1> QED
    BY <1>10 DEF r

\* The generator is collected before the first byte.
LEMMA CollectedKeeps ==
    ASSUME NEW q, ReqOK(q), q.pc \in {"primed", "flow"}, NEW u
    PROVE  ReqOK([[Closing(q, "disconnect") EXCEPT !.usage = u] EXCEPT !.flag = TRUE, !.soon = TRUE])
<1> DEFINE r == [[Closing(q, "disconnect") EXCEPT !.usage = u] EXCEPT !.flag = TRUE, !.soon = TRUE]
<1>1. /\ Same(q, r, {"pc", "ended", "usage", "flag", "soon"})
      /\ r.pc = "closing" /\ r.ended = "disconnect" /\ r.usage = u /\ r.flag = TRUE /\ r.soon = TRUE
    BY FieldNames DEF ReqOK, Whole, Same, Closing
<1> HIDE DEF r
<1>2. /\ r.in = q.in /\ r.alias = q.alias /\ r.model = q.model /\ r.router = q.router /\ r.conf = q.conf
      /\ r.body = q.body /\ r.text = q.text /\ r.ans = q.ans /\ r.held = q.held /\ r.rel = q.rel
      /\ r.lost = q.lost /\ r.keyHits = q.keyHits /\ r.teamHits = q.teamHits /\ r.rows = q.rows /\ r.sent = q.sent
      /\ r.got = q.got /\ r.hit = q.hit /\ r.pre = q.pre /\ r.post = q.post /\ r.open = q.open
      /\ r.called = q.called /\ r.cut = q.cut /\ r.out = q.out
    BY <1>1 DEF Same, Fields
<1>3. TypesOK(r)
    BY <1>1, <1>2 DEF ReqOK, TypesOK, ReqPlaces, Unadmitted, Unanswered, Streaming, Ending, Results
<1>4. ClaimOK(r)
    BY <1>1, <1>2 DEF ReqOK, TypesOK, ClaimOK, RowsOK, SettledRows, Unadmitted, Unanswered, Ending, NoClaim,
       ClaimOut, ClaimLeaving, ClaimBack
<1>5. RowsOK(r)
    BY <1>1, <1>2 DEF ReqOK, RowsOK, SettledRows, Unadmitted, Unanswered, Ending, Broken
<1>6. KeyOK(r)
    BY <1>1, <1>2 DEF ReqOK, KeyOK, Keyed, IsNative, Unadmitted
<1>7. ScreenOK(r)
    BY <1>1, <1>2 DEF ReqOK, ScreenOK, Scoped, Unbound, Streaming, Ending
<1>8. HitOK(r)
    BY <1>1, <1>2 DEF ReqOK, HitOK, Who, is_cacheable, Hot, RowsOK, SettledRows, Unadmitted, Unanswered
<1>9. RouteOK(r)
    BY <1>1, <1>2 DEF ReqOK, RouteOK, IsNative, Unbound
<1>10. ReqOK(r)
    BY <1>1, <1>2, <1>3, <1>4, <1>5, <1>6, <1>7, <1>8, <1>9 DEF ReqOK, Same
<1> QED
    BY <1>10 DEF r

\* The scheduled release runs.
LEMMA ReleaseSoonKeeps ==
    ASSUME NEW q, ReqOK(q), q.soon = TRUE
    PROVE  ReqOK([Released(q) EXCEPT !.soon = FALSE])
<1> DEFINE r == [Released(q) EXCEPT !.soon = FALSE]
<1>1. /\ Same(q, r, {"held", "rel", "soon"})
      /\ r.held = FALSE /\ r.rel = q.rel + 1 /\ r.soon = FALSE
    BY FieldNames DEF ReqOK, Whole, Same, Released
<1> HIDE DEF r
<1>2. /\ r.pc = q.pc /\ r.in = q.in /\ r.alias = q.alias /\ r.model = q.model /\ r.router = q.router
      /\ r.conf = q.conf /\ r.body = q.body /\ r.text = q.text /\ r.ans = q.ans /\ r.usage = q.usage
      /\ r.ended = q.ended /\ r.flag = q.flag /\ r.lost = q.lost /\ r.keyHits = q.keyHits /\ r.teamHits = q.teamHits
      /\ r.rows = q.rows /\ r.sent = q.sent /\ r.got = q.got /\ r.hit = q.hit /\ r.pre = q.pre
      /\ r.post = q.post /\ r.open = q.open /\ r.called = q.called /\ r.cut = q.cut /\ r.out = q.out
    BY <1>1 DEF Same, Fields
<1>3. TypesOK(r)
    BY <1>1, <1>2 DEF ReqOK, TypesOK, ReqPlaces, Unadmitted, Unanswered, Streaming, Ending, Results
<1>4. ClaimOK(r)
    BY <1>1, <1>2 DEF ReqOK, TypesOK, ClaimOK, RowsOK, SettledRows, Unadmitted, Unanswered, Ending, NoClaim,
       ClaimOut, ClaimLeaving, ClaimBack
<1>5. RowsOK(r)
  <2>1. RowFor(r) = RowFor(q)
    BY <1>1, RowForSame DEF Same, Fields
  <2> QED
    BY <1>1, <2>1 DEF ReqOK, RowsOK, SettledRows, Broken, Same, Fields
<1>6. KeyOK(r)
    BY <1>1, <1>2 DEF ReqOK, KeyOK, Keyed, IsNative, Unadmitted
<1>7. ScreenOK(r)
    BY <1>1, <1>2 DEF ReqOK, ScreenOK, Scoped, Unbound, Streaming, Ending
<1>8. HitOK(r)
  <2>1. Who(r) = Who(q) /\ is_cacheable(r) = is_cacheable(q)
    BY <1>1, WhoSame DEF Same, Fields
  <2> QED
    BY <1>1, <2>1 DEF ReqOK, HitOK, Unadmitted, Unanswered, Same, Fields
<1>9. RouteOK(r)
    BY <1>1, <1>2 DEF ReqOK, RouteOK, IsNative, Unbound
<1>10. ReqOK(r)
    BY <1>1, <1>2, <1>3, <1>4, <1>5, <1>6, <1>7, <1>8, <1>9 DEF ReqOK, Same
<1> QED
    BY <1>10 DEF r

\* The stream closes: its claim goes back unless the collector took it.
LEMMA CloseKeeps ==
    ASSUME NEW q, ReqOK(q), q.pc = "closing"
    PROVE  ReqOK([release(q) EXCEPT !.pc = "billing"])
<1> DEFINE r == [release(q) EXCEPT !.pc = "billing"]
<1>1. /\ Same(q, r, {"pc", "held", "rel", "flag"})
      /\ r.pc = "billing"
      /\ q.flag = TRUE => r.held = q.held /\ r.rel = q.rel
      /\ ~q.flag => r.held = FALSE /\ r.rel = q.rel + 1
    BY FieldNames DEF ReqOK, Whole, Same, release, Released
<1> HIDE DEF r
<1>2. /\ r.in = q.in /\ r.alias = q.alias /\ r.model = q.model /\ r.router = q.router /\ r.conf = q.conf
      /\ r.body = q.body /\ r.text = q.text /\ r.ans = q.ans /\ r.usage = q.usage /\ r.ended = q.ended
      /\ r.soon = q.soon /\ r.lost = q.lost /\ r.keyHits = q.keyHits /\ r.teamHits = q.teamHits /\ r.rows = q.rows
      /\ r.sent = q.sent /\ r.got = q.got /\ r.hit = q.hit /\ r.pre = q.pre /\ r.post = q.post
      /\ r.open = q.open /\ r.called = q.called /\ r.cut = q.cut /\ r.out = q.out
    BY <1>1 DEF Same, Fields
<1>3. TypesOK(r)
    BY <1>1, <1>2 DEF ReqOK, TypesOK, ReqPlaces, Unadmitted, Unanswered, Streaming, Ending, Results
<1>4. ClaimOK(r)
    BY <1>1, <1>2 DEF ReqOK, TypesOK, ClaimOK, RowsOK, SettledRows, Unadmitted, Unanswered, Ending, NoClaim,
       ClaimOut, ClaimLeaving, ClaimBack
<1>5. RowsOK(r)
    BY <1>1, <1>2 DEF ReqOK, RowsOK, SettledRows, Unadmitted, Unanswered, Ending, Broken
<1>6. KeyOK(r)
    BY <1>1, <1>2 DEF ReqOK, KeyOK, Keyed, IsNative, Unadmitted
<1>7. ScreenOK(r)
    BY <1>1, <1>2 DEF ReqOK, ScreenOK, Scoped, Unbound, Streaming, Ending
<1>8. HitOK(r)
    BY <1>1, <1>2 DEF ReqOK, HitOK, Who, is_cacheable, Hot, RowsOK, SettledRows, Unadmitted, Unanswered
<1>9. RouteOK(r)
    BY <1>1, <1>2 DEF ReqOK, RouteOK, IsNative, Unbound
<1>10. ReqOK(r)
    BY <1>1, <1>2, <1>3, <1>4, <1>5, <1>6, <1>7, <1>8, <1>9 DEF ReqOK, Same
<1> QED
    BY <1>10 DEF r

\* A stream is billed.
LEMMA FinalKeeps ==
    ASSUME NEW q, ReqOK(q), q.pc = "billing"
    PROVE  ReqOK([[q EXCEPT !.rows = @ \o StreamRow(q)] EXCEPT !.pc = "done", !.out = StreamOut(q)])
<1> DEFINE r == [[q EXCEPT !.rows = @ \o StreamRow(q)] EXCEPT !.pc = "done", !.out = StreamOut(q)]
<1>1. /\ Same(q, r, {"pc", "out", "rows"})
      /\ r.pc = "done" /\ r.out = StreamOut(q) /\ r.rows = q.rows \o StreamRow(q)
    BY FieldNames DEF ReqOK, Whole, Same
<1> HIDE DEF r
<1>2. r.rows = StreamRow(q)
  <2>1. q.rows = <<>>
    BY DEF ReqOK, RowsOK, Ending
  <2>2. StreamRow(q) = <<>> \/ \E x : StreamRow(q) = <<x>>
    BY DEF StreamRow
  <2> QED
    BY <1>1, <2>1, <2>2, ConcatToEmpty
<1>3. /\ r.out \in {"ok", "dropped", "failed"}
      /\ r.out = "ok" => q.ended = "clean"
    BY <1>1 DEF ReqOK, RowsOK, Ending, StreamOut
<1>4. /\ r.in = q.in /\ r.alias = q.alias /\ r.model = q.model /\ r.router = q.router /\ r.conf = q.conf
      /\ r.body = q.body /\ r.text = q.text /\ r.ans = q.ans /\ r.usage = q.usage /\ r.ended = q.ended
      /\ r.held = q.held /\ r.rel = q.rel /\ r.flag = q.flag /\ r.soon = q.soon /\ r.lost = q.lost
      /\ r.keyHits = q.keyHits /\ r.teamHits = q.teamHits /\ r.sent = q.sent /\ r.got = q.got /\ r.hit = q.hit
      /\ r.pre = q.pre /\ r.post = q.post /\ r.open = q.open /\ r.called = q.called /\ r.cut = q.cut
    BY <1>1 DEF Same, Fields
<1>5. TypesOK(r)
    BY <1>1, <1>2, <1>3, <1>4 DEF ReqOK, TypesOK, ReqPlaces, Unadmitted, Unanswered, Streaming, Ending, Results
<1>6. ClaimOK(r)
    BY <1>1, <1>2, <1>3, <1>4 DEF ReqOK, TypesOK, ClaimOK, RowsOK, SettledRows, Unadmitted, Unanswered,
       Ending, NoClaim, ClaimOut, ClaimLeaving, ClaimBack
<1>7. RowsOK(r)
  <2>1. /\ Len(StreamRow(q)) <= 1
        /\ q.hit # {} => StreamRow(q) = <<"hit">> /\ Len(StreamRow(q)) = 1
        /\ q.hit = {} /\ q.ended = "rejected" => StreamRow(q) = <<>>
        /\ q.hit = {} /\ q.ended # "rejected" /\ q.usage = "tokens" => StreamRow(q) = <<"real">>
        /\ q.hit = {} /\ q.ended = "clean" => Len(StreamRow(q)) = 1
    BY AppendToEmpty DEF StreamRow
  <2> QED
    BY <1>1, <1>2, <1>3, <2>1 DEF ReqOK, RowsOK, SettledRows, Unadmitted, Unanswered, Ending, Broken, Same,
       Fields
<1>8. KeyOK(r)
    BY <1>1, <1>2, <1>3, <1>4 DEF ReqOK, KeyOK, Keyed, IsNative, Unadmitted
<1>9. ScreenOK(r)
    BY <1>1, <1>2, <1>3, <1>4 DEF ReqOK, ScreenOK, Scoped, Unbound, Streaming, Ending
<1>10. HitOK(r)
    BY <1>1, <1>2, <1>3, <1>4 DEF ReqOK, HitOK, Who, is_cacheable, Hot, RowsOK, SettledRows, Unadmitted,
       Unanswered
<1>11. RouteOK(r)
    BY <1>1, <1>2, <1>3, <1>4 DEF ReqOK, RouteOK, IsNative, Unbound
<1>12. ReqOK(r)
    BY <1>1, <1>2, <1>3, <1>4, <1>5, <1>6, <1>7, <1>8, <1>9, <1>10, <1>11 DEF ReqOK, Same
<1> QED
    BY <1>12 DEF r

\* A settlement past its deadline is dropped.
LEMMA LostKeeps ==
    ASSUME NEW q, ReqOK(q), q.pc = "billing", q.hit = {}
    PROVE  ReqOK([[q EXCEPT !.lost = TRUE] EXCEPT !.pc = "done", !.out = StreamOut(q)])
<1> DEFINE r == [[q EXCEPT !.lost = TRUE] EXCEPT !.pc = "done", !.out = StreamOut(q)]
<1>1. /\ Same(q, r, {"pc", "out", "lost"})
      /\ r.pc = "done" /\ r.out = StreamOut(q) /\ r.lost = TRUE
    BY FieldNames DEF ReqOK, Whole, Same
<1> HIDE DEF r
<1>2. r.out \in {"ok", "dropped", "failed"}
    BY <1>1 DEF ReqOK, RowsOK, Ending, StreamOut
<1>3. Len(<<>>) = 0
    OBVIOUS
<1>4. /\ r.in = q.in /\ r.alias = q.alias /\ r.model = q.model /\ r.router = q.router /\ r.conf = q.conf
      /\ r.body = q.body /\ r.text = q.text /\ r.ans = q.ans /\ r.usage = q.usage /\ r.ended = q.ended
      /\ r.held = q.held /\ r.rel = q.rel /\ r.flag = q.flag /\ r.soon = q.soon /\ r.keyHits = q.keyHits
      /\ r.teamHits = q.teamHits /\ r.rows = q.rows /\ r.sent = q.sent /\ r.got = q.got /\ r.hit = q.hit
      /\ r.pre = q.pre /\ r.post = q.post /\ r.open = q.open /\ r.called = q.called /\ r.cut = q.cut
    BY <1>1 DEF Same, Fields
<1>5. TypesOK(r)
    BY <1>1, <1>2, <1>4 DEF ReqOK, TypesOK, ReqPlaces, Unadmitted, Unanswered, Streaming, Ending, Results
<1>6. ClaimOK(r)
    BY <1>1, <1>2, <1>4 DEF ReqOK, TypesOK, ClaimOK, RowsOK, SettledRows, Unadmitted, Unanswered, Ending,
       NoClaim, ClaimOut, ClaimLeaving, ClaimBack
<1>7. RowsOK(r)
  <2>1. r.rows = <<>> /\ r.hit = {} /\ r.called \in BOOLEAN
    BY <1>1 DEF ReqOK, RowsOK, Ending, Same, Fields
  <2>2. SettledRows(r)
    BY <1>1, <1>3, <2>1 DEF SettledRows
  <2> QED
    BY <1>1, <2>1, <2>2 DEF RowsOK, Unadmitted, Unanswered, Ending
<1>8. KeyOK(r)
    BY <1>1, <1>2, <1>4 DEF ReqOK, KeyOK, Keyed, IsNative, Unadmitted
<1>9. ScreenOK(r)
    BY <1>1, <1>2, <1>4 DEF ReqOK, ScreenOK, Scoped, Unbound, Streaming, Ending
<1>10. HitOK(r)
    BY <1>1, <1>2, <1>4 DEF ReqOK, HitOK, Who, is_cacheable, Hot, RowsOK, SettledRows, Unadmitted, Unanswered
<1>11. RouteOK(r)
    BY <1>1, <1>2, <1>4 DEF ReqOK, RouteOK, IsNative, Unbound
<1>12. ReqOK(r)
    BY <1>1, <1>2, <1>4, <1>5, <1>6, <1>7, <1>8, <1>9, <1>10, <1>11 DEF ReqOK, Same
<1> QED
    BY <1>12 DEF r

-----------------------------------------------------------------------------
(* The arrival.                                                            *)

\* A request that has just arrived holds nothing.
LEMMA FreshFields ==
    ASSUME NEW i \in Inputs
    PROVE  /\ Whole(Fresh(i))
           /\ BodyWhole(Fresh(i).body)
<1>1. BodyWhole([feats |-> i.feats, conv |-> i.conv, stream |-> i.via.stream, n |-> i.n, caps |-> i.caps])
    BY DEF BodyWhole, BodyFields
<1>2. \A op, r : BodyWhole(r) => BodyWhole(sanitize_request(op, r))
    BY DEF BodyWhole, BodyFields, sanitize_request
<1>3. BodyWhole(Body(i))
    BY <1>1, <1>2 DEF Body
<1>4. Fresh(i).body = Body(i)
    BY DEF Fresh
<1>5. Whole(Fresh(i))
    BY DEF Whole, Fields, Fresh
<1> QED
    BY <1>3, <1>4, <1>5

LEMMA FreshKeeps ==
    ASSUME NEW i \in Inputs, NEW x \in {"resolve", "preview"},
           x = "preview" => i.alias \in Routers /\ ~Keyed(Fresh(i)),
           NEW k, k = (IF Keyed(Fresh(i)) /\ ~IsNative(Fresh(i)) THEN 1 ELSE 0)
    PROVE  ReqOK([Fresh(i) EXCEPT !.pc = x, !.keyHits = k])
<1> DEFINE r == [Fresh(i) EXCEPT !.pc = x, !.keyHits = k]
<1>1. /\ Same(Fresh(i), r, {"pc", "keyHits"})
      /\ r.pc = x /\ r.keyHits = k
    BY FreshFields, FieldNames DEF Whole, Same
<1> HIDE DEF r
<1>2. /\ r.in = i /\ r.alias = i.alias /\ r.model = NoModel /\ r.router = NoScope
      /\ r.body = Fresh(i).body /\ r.text = i.tags /\ r.ans = {} /\ r.usage = "absent" /\ r.ended = "no"
      /\ r.held = FALSE /\ r.rel = 0 /\ r.flag = FALSE /\ r.soon = FALSE /\ r.lost = FALSE
      /\ r.teamHits = 0 /\ r.rows = <<>> /\ r.sent = {} /\ r.got = {} /\ r.hit = {}
      /\ r.pre = {} /\ r.post = {} /\ r.open = {} /\ r.called = FALSE /\ r.cut = "none" /\ r.out = "none"
  <2> DEFINE q == Fresh(i)
  <2>1. /\ q.in = i /\ q.alias = i.alias /\ q.model = NoModel /\ q.router = NoScope
        /\ q.text = i.tags /\ q.ans = {} /\ q.usage = "absent" /\ q.ended = "no"
        /\ q.held = FALSE /\ q.rel = 0 /\ q.flag = FALSE /\ q.soon = FALSE /\ q.lost = FALSE
        /\ q.teamHits = 0 /\ q.rows = <<>> /\ q.sent = {} /\ q.got = {} /\ q.hit = {}
        /\ q.pre = {} /\ q.post = {} /\ q.open = {} /\ q.called = FALSE /\ q.cut = "none" /\ q.out = "none"
    BY DEF Fresh
  <2> HIDE DEF q
  <2>2. Same(q, r, {"pc", "keyHits"})
    BY <1>1 DEF q
  <2> QED
    BY <2>1, <2>2 DEF Same, Fields, q
<1>3. i.tags \subseteq Tags
    BY InputAssumption
<1>4. TypesOK(r)
    BY <1>1, <1>2, <1>3, FreshFields DEF TypesOK, ReqPlaces, Unadmitted, Results
<1>5. ClaimOK(r)
    BY <1>1, <1>2 DEF ClaimOK, Unadmitted, Unanswered, NoClaim
<1>6. RowsOK(r)
    BY <1>1, <1>2 DEF RowsOK, Unadmitted, Unanswered, Ending
<1>7. KeyOK(r)
  <2>1. Keyed(r) = Keyed(Fresh(i)) /\ IsNative(r) = IsNative(Fresh(i))
    BY <1>1 DEF Keyed, IsNative, Same, Fields
  <2> QED
    BY <1>1, <1>2, <2>1 DEF KeyOK, Unadmitted
<1>8. ScreenOK(r)
    BY <1>1, <1>2 DEF ScreenOK, Clean, Unbound, Streaming, Ending
<1>9. HitOK(r)
    BY <1>1, <1>2 DEF HitOK
<1>10. RouteOK(r)
    BY <1>1, <1>2 DEF RouteOK, Unbound
<1>11. ReqOK(r)
    BY <1>1, <1>4, <1>5, <1>6, <1>7, <1>8, <1>9, <1>10 DEF ReqOK, Same
<1> QED
    BY <1>11 DEF r

LEMMA OpenedKeeps ==
    ASSUME NEW i \in Inputs
    PROVE  ReqOK(Opened(i)) /\ Opened(i).pc \in {"resolve", "preview"}
<1> DEFINE q == Fresh(i)
<1>1. Whole(q) /\ q.in = i /\ q.pc = "resolve" /\ q.keyHits = 0 /\ IsNative(q) = (i.via.native # "none")
    BY FreshFields DEF Fresh, IsNative
<1>2. \A x, k : LET r == [q EXCEPT !.pc = x, !.keyHits = k] IN r.pc = x
    BY <1>1, FieldNames DEF Whole
<1> HIDE DEF q
<1>3. q = [q EXCEPT !.pc = "resolve", !.keyHits = 0]
    BY <1>1 DEF Whole
<1>4. [q EXCEPT !.pc = "preview"] = [q EXCEPT !.pc = "preview", !.keyHits = 0]
    BY <1>1, FieldNames DEF Whole
<1>5. Keyed(q) => enforce_key_rate_limit(q) = [q EXCEPT !.pc = "resolve", !.keyHits = 1]
  <2>1. [q EXCEPT !.keyHits = 1] = [q EXCEPT !.pc = "resolve", !.keyHits = 1]
    BY <1>1, FieldNames DEF Whole
  <2>2. Keyed(q) => enforce_key_rate_limit(q) = [q EXCEPT !.keyHits = q.keyHits + 1]
    BY DEF enforce_key_rate_limit
  <2>3. q.keyHits + 1 = 1
    BY <1>1
  <2> QED
    BY <2>1, <2>2, <2>3
<1>6. ~Keyed(q) => enforce_key_rate_limit(q) = q
    BY DEF enforce_key_rate_limit
<1>7. CASE i.via.native # "none"
  <2>1. Opened(i) = [q EXCEPT !.pc = "resolve", !.keyHits = 0]
    BY <1>3, <1>7 DEF Opened, q
  <2>2. ReqOK([q EXCEPT !.pc = "resolve", !.keyHits = 0])
    BY <1>1, <1>7, FreshKeeps DEF q
  <2> QED
    BY <1>2, <2>1, <2>2
<1>8. CASE i.via.native = "none" /\ i.via.preview /\ i.alias \in Routers
  <2>1. ~Keyed(q)
    BY <1>1, <1>8, InputAssumption DEF Keyed
  <2>2. Opened(i) = [q EXCEPT !.pc = "preview", !.keyHits = 0]
    BY <1>4, <1>8 DEF Opened, q
  <2>3. ReqOK([q EXCEPT !.pc = "preview", !.keyHits = 0])
    BY <1>1, <1>8, <2>1, FreshKeeps DEF q
  <2> QED
    BY <1>2, <2>2, <2>3
<1>9. CASE i.via.native = "none" /\ ~(i.via.preview /\ i.alias \in Routers)
  <2>1. Opened(i) = enforce_key_rate_limit(q)
    BY <1>9 DEF Opened, q
  <2>2. CASE Keyed(q)
    <3>1. ReqOK([q EXCEPT !.pc = "resolve", !.keyHits = 1])
      BY <1>1, <1>9, <2>2, FreshKeeps DEF q
    <3> QED
      BY <1>2, <1>5, <2>1, <2>2, <3>1
  <2>3. CASE ~Keyed(q)
    <3>1. ReqOK([q EXCEPT !.pc = "resolve", !.keyHits = 0])
      BY <1>1, <1>9, <2>3, FreshKeeps DEF q
    <3>2. Opened(i) = q
      BY <1>6, <2>1, <2>3
    <3>3. ReqOK(q)
      BY <1>3, <3>1
    <3> QED
      BY <1>1, <3>2, <3>3
  <2> QED
    BY <2>2, <2>3
<1> QED
    BY <1>7, <1>8, <1>9

-----------------------------------------------------------------------------
(* The chain.                                                              *)

\* The rules of a chain are stored rules.
LEMMA ChainStored ==
    ASSUME NEW R, NEW m, NEW d, NEW t
    PROVE  resolve_chain(R, m, d, t) \subseteq R
BY DEF resolve_chain, Tier

\* After a chain that refused nothing, what its rules watch for is out of the
\* content, but for the rules that failed open (run_chain, _check).
LEMMA ChainCleans ==
    ASSUME NEW chain, chain \subseteq Rules, NEW content, NEW down,
           ~Unbuildable(chain), ~run_chain(build_chain(chain), content, down).blocked
    PROVE  Clean(chain \ FailedOpen(chain, down), run_chain(build_chain(chain), content, down).content)
<1> DEFINE built == build_chain(chain)
           out == run_chain(built, content, down)
<1> SUFFICES ASSUME NEW x \in chain, x \notin FailedOpen(chain, down), x.watch \in out.content
             PROVE  FALSE
    BY DEF Clean
<1>1. /\ x.kind \in {"webhook", "judge"} /\ x.fail \in {"open", "closed"} /\ x.verdict \in {"block", "redact"}
    BY DEF Rules, Rule
<1>2. Buildable(x) /\ x \in built
    BY <1>1 DEF Unbuildable, FailedOpen, build_chain
<1>3. \A y \in built : Verdict(built, y, content, down) # "block"
    BY DEF run_chain
<1>4. out.content = Left(content, built, down)
    BY <1>3 DEF run_chain, Earlier
<1>5. x.name \notin down
    BY <1>1, <1>2, <1>3 DEF FailedOpen, Verdict, _check
<1>6. x.watch \in content /\ ~Redacts(x, down)
    BY <1>2, <1>4 DEF Left
<1>7. x.watch \in Left(content, Earlier(built, x), down)
    BY <1>4 DEF Left, Earlier
<1>8. Verdict(built, x, content, down) = "block"
    BY <1>1, <1>5, <1>6, <1>7 DEF Verdict, _check, Redacts
<1> QED
    BY <1>2, <1>3, <1>8

\* What is left is part of what was there.
LEMMA ChainShrinks ==
    ASSUME NEW chain, NEW content, NEW down
    PROVE  run_chain(chain, content, down).content \subseteq content
BY DEF run_chain, Left

\* One side of one call (Guarded): an answer that is let through is clean.
LEMMA GuardedCleans ==
    ASSUME NEW R, R \subseteq Rules, NEW m, NEW d, NEW t, NEW content \in SUBSET Tags, NEW shape, NEW down,
           NEW chain, chain = resolve_chain(R, m, d, t),
           NEW g, g = Guarded(R, m, d, t, content, shape, down), ~g.refused
    PROVE  /\ g.content \in SUBSET Tags
           /\ Clean(chain \ FailedOpen(chain, down), g.content)
<1> DEFINE out == run_chain(build_chain(chain), content, down)
<1>1. CASE chain = {}
    BY <1>1 DEF Guarded, PassThrough, Clean
<1>2. CASE chain # {}
  <2>1. ~Unbuildable(chain)
    BY <1>2 DEF Guarded
  <2>2. g.content = out.content /\ ~out.blocked
    BY <1>2, <2>1 DEF Guarded
  <2>3. chain \subseteq Rules
    BY ChainStored
  <2>4. Clean(chain \ FailedOpen(chain, down), out.content)
    BY <2>1, <2>2, <2>3, ChainCleans
  <2> QED
    BY <2>2, <2>4, ChainShrinks
<1> QED
    BY <1>1, <1>2

-----------------------------------------------------------------------------
(* Routing.                                                                *)

\* A non-empty set of naturals has a least element.
LEMMA NatMin ==
    ASSUME NEW S \in SUBSET Nat, S # {}
    PROVE  \E m \in S : \A x \in S : m <= x
<1>1. PICK m \in S : \A x \in S : ~(<<x, m>> \in OpToRel(<, Nat))
    BY WFMin, NatLessThanWellFounded
<1>2. ASSUME NEW x \in S PROVE m <= x
  <2>1. x \in Nat /\ m \in Nat
    OBVIOUS
  <2>2. ~(x < m)
    BY <1>1, <2>1 DEF OpToRel
  <2> QED
    BY <2>1, <2>2
<1> QED
    BY <1>2

\* The first declared of some candidates is one of them.
LEMMA FirstIn ==
    ASSUME NEW cands, cands # {}, \A c \in cands : c.at \in Nat
    PROVE  First(cands) \in cands
<1> DEFINE S == {c.at : c \in cands}
<1>1. S \in SUBSET Nat /\ S # {}
    OBVIOUS
<1>2. PICK m \in S : \A x \in S : m <= x
    BY <1>1, NatMin
<1>3. \E c \in cands : \A d \in cands : c.at <= d.at
    BY <1>2
<1> QED
    BY <1>3 DEF First

\* A tier always finds a candidate (nearest_tier_candidate).
LEMMA NearestIn ==
    ASSUME NEW cands, cands # {}, \A c \in cands : c.at \in Nat /\ c.tier \in Tiers, NEW t \in Tiers
    PROVE  nearest_tier_candidate(t, cands) \in Names(cands)
<1> DEFINE S == {TierRank(t, c.tier) : c \in cands}
           N == {c \in cands : \A d \in cands : TierRank(t, c.tier) <= TierRank(t, d.tier)}
<1>1. \A u \in Tiers : TierRank(t, u) \in Nat
    BY DEF TierRank, Tiers
<1>2. S \in SUBSET Nat /\ S # {}
    BY <1>1
<1>3. PICK m \in S : \A x \in S : m <= x
    BY <1>2, NatMin
<1>4. N # {}
    BY <1>3
<1>5. First(N) \in N
  <2>1. \A c \in N : c.at \in Nat
    OBVIOUS
  <2> HIDE DEF N
  <2> QED
    BY <1>4, <2>1, FirstIn
<1> QED
    BY <1>5 DEF nearest_tier_candidate, Names

\* A strategy names one of the candidates it was given, or fails.
LEMMA SelectIn ==
    ASSUME NEW router \in RouterConfig(Models), NEW cands \in SUBSET router.cands, cands # {}
    PROVE  select(router, cands) \subseteq Names(cands) \cup {Fails}
<1>1. \A c \in cands : c.at \in Nat /\ c.tier \in Tiers
    BY DEF RouterConfig
<1>2. \A o : complexity(cands, o) \subseteq Names(cands)
  <2> SUFFICES ASSUME NEW o, NEW t \in Tiers
               PROVE  (IF \E e \in o : e[1] = t /\ e[2] \in Names(cands)
                       THEN (CHOOSE e \in o : e[1] = t /\ e[2] \in Names(cands))[2]
                       ELSE nearest_tier_candidate(t, cands)) \in Names(cands)
    BY DEF complexity
  <2>1. nearest_tier_candidate(t, cands) \in Names(cands)
    BY <1>1, NearestIn
  <2> QED
    BY <2>1
<1>3. /\ webhook(cands) \subseteq Names(cands) \cup {Fails}
      /\ judge(cands) \subseteq Names(cands) \cup {Fails}
      /\ embeddings(cands) \subseteq Names(cands) \cup {Fails}
      /\ weighted(cands) \subseteq Names(cands) \cup {Fails}
    BY DEF webhook, judge, embeddings, weighted
<1>4. \A o : hybrid(cands, o) \subseteq Names(cands) \cup {Fails}
    BY <1>2, <1>3 DEF hybrid
<1>5. router.strategy \in Strategies
    BY DEF RouterConfig
<1> QED
    BY <1>2, <1>3, <1>4, <1>5 DEF select, Strategies

\* Whatever the strategy did, what is picked is a capable candidate: one that
\* survives alone, the strategy's choice, or the fallback.
LEMMA PicksIn ==
    ASSUME NEW router \in RouterConfig(Models), NEW cands \in SUBSET router.cands, cands # {},
           NEW m \in Picks(router, cands)
    PROVE  m \in Names(cands)
<1>1. First(cands) \in cands
  <2>1. \A c \in cands : c.at \in Nat
    BY DEF RouterConfig
  <2> QED
    BY <2>1, FirstIn
<1>2. Fallback(router, cands) \in Names(cands)
    BY <1>1 DEF Fallback, Names
<1>3. select(router, cands) \subseteq Names(cands) \cup {Fails}
    BY SelectIn
<1> QED
    BY <1>1, <1>2, <1>3 DEF Picks, Names

\* Dropping candidates keeps a router a router.
LEMMA ValidatedRouter ==
    ASSUME NEW router \in RouterConfig(Models), NEW refuses, Accepted(router, refuses) # {}
    PROVE  /\ _validated_router(router, refuses) \in RouterConfig(Models)
           /\ _validated_router(router, refuses).cands = Accepted(router, refuses)
<1> DEFINE kept == Accepted(router, refuses)
           next == IF router.default \in Names(kept) THEN router.default ELSE First(kept).model
<1>1. kept \in SUBSET router.cands
    BY DEF Accepted
<1>2. \A c \in router.cands : c.at \in Nat /\ c.model \in Models
    BY DEF RouterConfig
<1>3. First(kept) \in kept
  <2>1. kept # {} /\ \A c \in kept : c.at \in Nat
    BY <1>1, <1>2
  <2> HIDE DEF kept
  <2> QED
    BY <2>1, FirstIn
<1>4. next \in Models
    BY <1>1, <1>2, <1>3 DEF RouterConfig
<1>5. \/ _validated_router(router, refuses) = router /\ kept = router.cands
      \/ _validated_router(router, refuses) = [router EXCEPT !.cands = kept, !.default = next]
    BY DEF _validated_router
<1> HIDE DEF kept, next
<1>6. [router EXCEPT !.cands = kept, !.default = next] \in RouterConfig(Models)
    BY <1>1, <1>4 DEF RouterConfig
<1>7. [router EXCEPT !.cands = kept, !.default = next].cands = kept
    BY DEF RouterConfig
<1> QED
    BY <1>5, <1>6, <1>7 DEF kept

\* A validator does not look at the limits that the clamp changes.
LEMMA ValidatedClamp ==
    ASSUME NEW m, NEW op, NEW b, BodyWhole(b), NEW c
    PROVE  Validated(m, op, clamp_output_tokens(op, b, c)) = Validated(m, op, b)
<1> DEFINE d == clamp_output_tokens(op, b, c)
<1>1. d.feats = b.feats /\ d.conv = b.conv /\ d.stream = b.stream
    BY DEF BodyWhole, BodyFields, clamp_output_tokens
<1> HIDE DEF d
<1>2. /\ _has_tool_contract(d) = _has_tool_contract(b) /\ HasToolRequest(d) = HasToolRequest(b)
      /\ _validate_messages(d) = _validate_messages(b)
    BY <1>1 DEF _has_tool_contract, HasToolRequest, _validate_messages
<1>3. \A k : /\ validate_bedrock_response_format(k, d) = validate_bedrock_response_format(k, b)
             /\ _validate_tools(k, d) = _validate_tools(k, b)
             /\ _validate_tool_choice(k, d) = _validate_tool_choice(k, b)
    BY <1>1 DEF validate_bedrock_response_format, _validate_tools, _validate_tool_choice,
        validate_bedrock_tool_schema, _validate_vertex_schema_node
<1>4. \A k : validate_chat_request(k, d) = validate_chat_request(k, b)
    BY <1>1, <1>2, <1>3 DEF validate_chat_request
<1>5. \A k : _validate_emulated_tools(k, d) = _validate_emulated_tools(k, b)
    BY <1>1 DEF _validate_emulated_tools, validate_bedrock_tool_schema
<1>6. \A k : Emulated(k, d) = Emulated(k, b)
    BY <1>1, <1>2, <1>5 DEF Emulated
<1>7. \A k : validate_responses_request(k, d) = validate_responses_request(k, b)
    BY <1>1, <1>6 DEF validate_responses_request, _validate_native_responses_governance
<1> QED
    BY <1>4, <1>7 DEF Validated, d

\* What the route may choose is a capable candidate of the router that takes
\* the request (route).
LEMMA RoutePicks ==
    ASSUME NEW q, BodyWhole(q.body), q.router \in Routers, Routable(q),
           NEW m \in Picks(RouterFor(q), Capable(q))
    PROVE  /\ m \in Models
           /\ Validated(m, q.in.via.op, q.body)
           /\ \E c \in RouterDef[q.router].cands : c.model = m /\ q.in.needs \subseteq c.caps
<1> DEFINE router == RouterDef[q.router]
           kept == Accepted(router, Refuses(q))
<1>1. router \in RouterConfig(Models)
    BY RouterAssumption
<1>2. kept # {} /\ Capable(q) # {}
    BY DEF Routable
<1>3. RouterFor(q) \in RouterConfig(Models) /\ RouterFor(q).cands = kept
    BY <1>1, <1>2, ValidatedRouter DEF RouterFor
<1>4. Capable(q) \in SUBSET RouterFor(q).cands
    BY DEF Capable, filter_candidates
<1>5. m \in Names(Capable(q))
    BY <1>2, <1>3, <1>4, PicksIn
<1>6. PICK c \in Capable(q) : c.model = m
    BY <1>5 DEF Names
<1>7. c \in kept /\ q.in.needs \subseteq c.caps
    BY <1>3, <1>6 DEF Capable, filter_candidates
<1>8. c \in router.cands /\ m \notin Refuses(q)
    BY <1>6, <1>7 DEF Accepted
<1>9. m \in Models
    BY <1>1, <1>6, <1>8 DEF RouterConfig
<1>10. Validated(m, q.in.via.op, clamp_output_tokens(q.in.via.op, q.body, models[m].ceiling))
    BY <1>8, <1>9 DEF Refuses
<1> QED
    BY <1>6, <1>7, <1>8, <1>9, <1>10, ValidatedClamp

\* A candidate that was chosen is not refused by the policy (_prepare).
LEMMA CutOfChosen ==
    ASSUME NEW q, BodyWhole(q.body), ~IsNative(q), NEW m, Validated(m, q.in.via.op, q.body)
    PROVE  Cut(q, m) # "policy"
BY ValidatedClamp DEF Cut, Clamped

-----------------------------------------------------------------------------
(* The store.                                                              *)

\* A removed entry leaves the others.
LEMMA WithoutShrinks ==
    ASSUME NEW S, store \in Seq(S), NEW k
    PROVE  /\ Without(k) \in Seq(S)
           /\ Len(Without(k)) <= Len(store)
           /\ At(k) # {} => Len(Without(k)) + 1 = Len(store)
<1>1. CASE At(k) = {}
    BY <1>1 DEF Without
<1>2. CASE At(k) # {}
  <2> DEFINE j == CHOOSE j \in At(k) : TRUE
             n == Len(store)
             front == SubSeq(store, 1, j - 1)
             back == SubSeq(store, j + 1, n)
  <2>1. j \in 1 .. n
    BY <1>2 DEF At
  <2>2. Without(k) = front \o back
    BY <1>2 DEF Without, RemoveAt
  <2> HIDE DEF j
  <2>3. n \in Nat /\ j \in Nat /\ 1 <= j /\ j <= n
    BY <2>1
  <2>4. front \in Seq(S) /\ Len(front) = j - 1
    <3>1. \A i \in 1 .. (j - 1) : store[i] \in S
      BY <2>3
    <3> QED
      BY <2>3, <3>1
  <2>5. back \in Seq(S) /\ Len(back) = n - j
    <3>1. \A i \in (j + 1) .. n : store[i] \in S
      BY <2>3
    <3> QED
      BY <2>3, <3>1
  <2> HIDE DEF front, back
  <2>6. front \o back \in Seq(S) /\ Len(front \o back) = (j - 1) + (n - j)
    BY <2>4, <2>5
  <2>7. (j - 1) + (n - j) + 1 = n /\ (j - 1) + (n - j) <= n
    BY <2>3
  <2> QED
    BY <2>2, <2>6, <2>7
<1> QED
    BY <1>1, <1>2

\* An expired entry leaves the store sound.
LEMMA ExpireKeeps ==
    ASSUME StoreOK, NEW k
    PROVE  EntriesOK(Without(k))
<1>1. PICK S : store \in Seq(S) /\ \A e \in S : EntryOK(e)
    BY DEF StoreOK, EntriesOK
<1>2. /\ Without(k) \in Seq(S) /\ Len(Without(k)) <= Len(store)
      /\ Len(Without(k)) \in Nat /\ Len(store) \in Nat
    BY <1>1, WithoutShrinks
<1>3. Len(Without(k)) <= MaxEntries
    BY <1>2, BoundAssumption DEF StoreOK, EntriesOK
<1> QED
    BY <1>1, <1>2, <1>3 DEF EntriesOK

\* An entry that is read moves to the end (the LRU order of get).
LEMMA GetKeeps ==
    ASSUME StoreOK, NEW k, NEW j \in At(k)
    PROVE  /\ EntriesOK(Append(Without(k), store[j]))
           /\ EntryOK(store[j])
<1>1. PICK S : store \in Seq(S) /\ \A e \in S : EntryOK(e)
    BY DEF StoreOK, EntriesOK
<1>2. store[j] \in S
    BY <1>1 DEF At
<1>3. Without(k) \in Seq(S) /\ Len(Without(k)) + 1 = Len(store)
    BY <1>1, WithoutShrinks
<1> DEFINE s == Without(k)
           e == store[j]
<1> HIDE DEF s, e
<1>4. Append(s, e) \in Seq(S) /\ Len(Append(s, e)) = Len(s) + 1
    BY <1>2, <1>3 DEF s, e
<1>5. Len(Append(s, e)) <= MaxEntries
    BY <1>3, <1>4 DEF StoreOK, EntriesOK, s
<1>6. EntriesOK(Append(s, e))
    BY <1>1, <1>4, <1>5 DEF EntriesOK
<1> QED
    BY <1>1, <1>2, <1>6 DEF s, e

\* A new entry takes the place of the old one, or of the oldest (put).
LEMMA AppendKeeps ==
    ASSUME StoreOK, NEW k, NEW e, EntryOK(e),
           NEW t, t = Append(Without(k), e)
    PROVE  EntriesOK(IF Len(t) > MaxEntries THEN Tail(t) ELSE t)
<1>1. PICK S : store \in Seq(S) /\ \A x \in S : EntryOK(x)
    BY DEF StoreOK, EntriesOK
<1> DEFINE T == S \cup {e}
           s == Without(k)
<1>2. \A x \in T : EntryOK(x)
    BY <1>1
<1>3. s \in Seq(T) /\ Len(s) <= Len(store) /\ Len(store) \in Nat
  <2>1. s \in Seq(S) /\ Len(s) <= Len(store)
    BY <1>1, WithoutShrinks
  <2>2. Seq(S) \subseteq Seq(T)
    OBVIOUS
  <2> QED
    BY <1>1, <2>1, <2>2
<1> HIDE DEF s
<1>4. e \in T
    OBVIOUS
<1> HIDE DEF T
<1>5. t \in Seq(T) /\ Len(t) = Len(s) + 1 /\ t # <<>>
    BY <1>3, <1>4 DEF s
<1>6. Tail(t) \in Seq(T) /\ Len(Tail(t)) = Len(s)
    BY <1>3, <1>5
<1>7. Len(s) <= MaxEntries /\ Len(s) \in Nat
    BY <1>3, BoundAssumption DEF StoreOK, EntriesOK
<1>8. CASE Len(t) > MaxEntries
    BY <1>2, <1>6, <1>7, <1>8 DEF EntriesOK
<1>9. CASE ~(Len(t) > MaxEntries)
  <2>1. Len(t) <= MaxEntries
    BY <1>5, <1>7, <1>9, BoundAssumption
  <2> QED
    BY <1>2, <1>5, <1>9, <2>1 DEF EntriesOK
<1> QED
    BY <1>8, <1>9

\* What a request may store: nothing that its response rules look for.
LEMMA CachePutKeeps ==
    ASSUME StoreOK, NEW q, ReqOK(q), q.pc = "put"
    PROVE  EntriesOK(CachePut(q, q.ans))
<1> DEFINE e == [key |-> derive_cache_key(q), who |-> Who(q), tags |-> q.ans,
                 shape |-> q.shape, usage |-> q.usage, watched |-> Watched(q)]
           t == Append(Without(derive_cache_key(q)), e)
<1>1. q.ans \subseteq Tags
    BY DEF ReqOK, TypesOK
<1>2. q.ans \cap Watched(q) = {}
    BY DEF ReqOK, ScreenOK, Clean, Scoped, Watched
<1>3. EntryOK(e)
    BY <1>1, <1>2 DEF EntryOK, derive_cache_key
<1>4. CachePut(q, q.ans) = (IF Len(t) > MaxEntries THEN Tail(t) ELSE t)
    BY DEF CachePut
<1> HIDE DEF e
<1>5. \A u : u = t => EntriesOK(IF Len(u) > MaxEntries THEN Tail(u) ELSE u)
    BY <1>3, AppendKeeps
<1> QED
    BY <1>4, <1>5

-----------------------------------------------------------------------------
(* The state as a whole.                                                   *)

\* The rules are all that a request's soundness reads of the state.
LEMMA ReqFrame ==
    ASSUME rules' = rules, NEW q
    PROVE  ReqOK(q)' <=> ReqOK(q)
BY DEF ReqOK, ScreenOK, Stored

\* A step of one request.
LEMMA StepKeeps ==
    ASSUME ReqsOK, rules' = rules, NEW p \in Procs, NEW r, ReqOK(r),
           req' = [req EXCEPT ![p] = r]
    PROVE  ReqsOK'
<1>1. req' = [x \in Procs |-> req'[x]]
    BY DEF ReqsOK
<1>2. ASSUME NEW x \in Procs
      PROVE  req'[x] \in {Idle} \cup Clients \/ ReqOK(req'[x])
    BY DEF ReqsOK
<1>3. ASSUME NEW x \in Procs, NEW q, q = req'[x]
      PROVE  q \in {Idle} \cup Clients \/ ReqOK(q)'
    BY <1>2, <1>3, ReqFrame
<1> QED
    BY <1>1, <1>3 DEF ReqsOK

\* What has a place of its own is a request under way.
LEMMA UnderWay ==
    ASSUME ReqsOK, NEW p \in Procs, req[p].pc \notin {"none", "idle"}
    PROVE  ReqOK(req[p])
BY DEF ReqsOK, Idle, Clients, Client

\* A request moves on, or ends.
LEMMA MovesTo ==
    ASSUME ReqsOK, rules' = rules, NEW p \in Procs, NEW r, ReqOK(r), Put(p, r)
    PROVE  ReqsOK'
BY StepKeeps DEF Put

LEMMA EndsAs ==
    ASSUME ReqsOK, rules' = rules, NEW p \in Procs, NEW q, NEW o,
           ReqOK([q EXCEPT !.pc = "done", !.out = o]), Ends(p, q, o)
    PROVE  ReqsOK'
BY StepKeeps DEF Ends, Put

\* A request arrives.
LEMMA ArriveStep ==
    ASSUME ReqsOK, NEW p \in Procs, arrive(p)
    PROVE  ReqsOK'
<1> DEFINE i == req[p].in
           q == Opened(i)
<1>1. i \in Inputs /\ rules' = rules
  <2>1. req[p].pc = "idle"
    BY DEF arrive, Goes
  <2>2. req[p] \in Clients
    BY <2>1 DEF ReqsOK, ReqOK, TypesOK, ReqPlaces, Unadmitted, Unanswered, Streaming, Ending, Idle
  <2> QED
    BY <2>2 DEF arrive, Clients, Client
<1>2. ReqOK(q) /\ q.pc \in {"resolve", "preview"}
    BY <1>1, OpenedKeeps
<1>3. Put(p, q) \/ Ends(p, q, "refused")
    BY DEF arrive
<1> HIDE DEF q
<1>4. ReqOK([q EXCEPT !.pc = "done", !.out = "refused"])
    BY <1>2, RefuseKeeps DEF Unadmitted
<1> QED
    BY <1>1, <1>2, <1>3, <1>4, MovesTo, EndsAs

\* A resolved model is bound to the request or a check refuses it.
LEMMA UsableStep ==
    ASSUME ReqsOK, rules' = rules, NEW p \in Procs, NEW q, ReqOK(q), q.pc \in {"resolve", "chosen"},
           NEW m \in Models, NEW t,
           \/ (q.pc = "resolve" /\ t = NoScope)
           \/ (q.pc = "chosen" /\ t = q.router /\ m = q.model),
           Usable(p, q, m, t)
    PROVE  ReqsOK'
<1>1. CASE Cut(q, m) = "none"
  <2> DEFINE r == [Bound(q, m, t) EXCEPT !.body = Clamped(q, m),
                                         !.pc = IF q.in.via.stream THEN "screen" ELSE "guard"]
  <2>1. BodyWhole(Clamped(q, m))
    BY ClampedWhole DEF ReqOK, TypesOK
  <2>2. ReqOK(r)
    BY <2>1, UsableKeeps
  <2>3. Put(p, r)
    BY <1>1 DEF Usable
  <2> HIDE DEF r
  <2> QED
    BY <2>2, <2>3, MovesTo
<1>2. CASE Cut(q, m) # "none"
  <2> DEFINE c == Cut(q, m)
  <2>1. q.router # NoScope => c # "policy"
    <3>1. CASE q.pc = "resolve"
      BY <3>1 DEF ReqOK, RouteOK
    <3>2. CASE q.pc = "chosen" /\ t = q.router /\ m = q.model
      BY <3>2, CutOfChosen DEF ReqOK, TypesOK, RouteOK
    <3> QED
      BY <3>1, <3>2
  <2>2. Ends(p, [q EXCEPT !.cut = c], "refused")
    BY <1>2 DEF Usable
  <2> HIDE DEF c
  <2>3. ReqOK([[q EXCEPT !.cut = c] EXCEPT !.pc = "done", !.out = "refused"])
    BY <2>1, CutKeeps
  <2> QED
    BY <2>2, <2>3, EndsAs
<1> QED
    BY <1>1, <1>2

LEMMA ResolveStep ==
    ASSUME ReqsOK, NEW p \in Procs, _resolve_model(p)
    PROVE  ReqsOK'
<1>1. ReqOK(req[p]) /\ req[p].pc = "resolve" /\ rules' = rules /\ req[p].alias \in Models
    BY UnderWay DEF _resolve_model, Goes
<1>2. CASE Usable(p, req[p], req[p].alias, NoScope)
    BY <1>1, <1>2, UsableStep
<1>3. CASE Ends(p, req[p], "refused")
  <2>1. ReqOK([req[p] EXCEPT !.pc = "done", !.out = "refused"])
    BY <1>1, RefuseKeeps DEF Unadmitted
  <2> QED
    BY <1>1, <1>3, <2>1, EndsAs
<1> QED
    BY <1>2, <1>3 DEF _resolve_model

\* The chosen candidate is resolved.
LEMMA ChosenStep ==
    ASSUME ReqsOK, NEW p \in Procs, Chosen(p)
    PROVE  ReqsOK'
<1>1. ReqOK(req[p]) /\ req[p].pc = "chosen" /\ rules' = rules
    BY UnderWay DEF Chosen, Goes
<1>2. req[p].model \in Models
    BY <1>1 DEF ReqOK, RouteOK
<1> QED
    BY <1>1, <1>2, UsableStep DEF Chosen

\* The alias names a router.
LEMMA ResolveRouterStep ==
    ASSUME ReqsOK, NEW p \in Procs, ResolveRouter(p)
    PROVE  ReqsOK'
<1>1. ReqOK(req[p]) /\ req[p].pc = "resolve" /\ rules' = rules
    BY UnderWay DEF ResolveRouter, Goes, Open
<1>2. ASSUME req[p].alias \in Routers, ~IsNative(req[p]),
             Put(p, [req[p] EXCEPT !.pc = "route", !.router = req[p].alias, !.snap = grants[req[p].alias]])
      PROVE  ReqsOK'
  <2>1. ReqOK([req[p] EXCEPT !.pc = "route", !.router = req[p].alias, !.snap = grants[req[p].alias]])
    BY <1>1, <1>2, ToRouteKeeps
  <2> QED
    BY <1>1, <1>2, <2>1, MovesTo
<1>3. ASSUME Ends(p, req[p], "refused") PROVE ReqsOK'
  <2>1. ReqOK([req[p] EXCEPT !.pc = "done", !.out = "refused"])
    BY <1>1, <1>3, RefuseKeeps DEF Unadmitted
  <2> QED
    BY <1>1, <1>3, <2>1, EndsAs
<1> QED
    BY <1>2, <1>3 DEF ResolveRouter

\* The router takes its choice.
LEMMA RouteStep ==
    ASSUME ReqsOK, NEW p \in Procs, route(p)
    PROVE  ReqsOK'
<1>1. ReqOK(req[p]) /\ req[p].pc = "route" /\ rules' = rules
    BY UnderWay DEF route, Goes
<1>2. CASE Ends(p, req[p], "refused")
  <2>1. ReqOK([req[p] EXCEPT !.pc = "done", !.out = "refused"])
    BY <1>1, RefuseKeeps DEF Unadmitted
  <2> QED
    BY <1>1, <1>2, <2>1, EndsAs
<1>3. ASSUME NEW m \in Picks(RouterFor(req[p]), Capable(req[p])), NEW s \in SideCalls(req[p]), NEW x,
             Routable(req[p]), Put(p, [s EXCEPT !.pc = "chosen", !.model = m, !.shadow = x])
      PROVE  ReqsOK'
  <2> DEFINE q == req[p]
  <2>1. BodyWhole(q.body) /\ q.router \in Routers
    BY <1>1 DEF ReqOK, TypesOK, RouteOK
  <2>2. s \in {q, [q EXCEPT !.side = @ + 1]}
    BY DEF SideCalls
  <2>3. ReqOK(q) /\ q.pc = "route" /\ Routable(q) /\ m \in Picks(RouterFor(q), Capable(q))
    BY <1>1, <1>3
  <2> HIDE DEF q
  <2>4. /\ m \in Models
        /\ Validated(m, q.in.via.op, q.body)
        /\ \E c \in RouterDef[q.router].cands : c.model = m /\ q.in.needs \subseteq c.caps
    BY <2>1, <2>3, RoutePicks
  <2>5. ReqOK([s EXCEPT !.pc = "chosen", !.model = m, !.shadow = x])
    BY <2>2, <2>3, <2>4, PickedKeeps
  <2> QED
    BY <1>1, <1>3, <2>5, MovesTo
<1> QED
    BY <1>2, <1>3 DEF route

\* A preview names a model.
LEMMA PreviewStep ==
    ASSUME ReqsOK, NEW p \in Procs, select_preview(p)
    PROVE  ReqsOK'
<1>1. ReqOK(req[p]) /\ req[p].pc = "preview" /\ rules' = rules
    BY UnderWay DEF select_preview, Goes, Open
<1>2. ASSUME NEW m, Put(p, [req[p] EXCEPT !.pc = "resolve", !.alias = m]) PROVE ReqsOK'
  <2>1. ReqOK([req[p] EXCEPT !.pc = "resolve", !.alias = m])
    BY <1>1, <1>2, PreviewKeeps
  <2> QED
    BY <1>1, <1>2, <2>1, MovesTo
<1>3. ASSUME Ends(p, req[p], "refused") PROVE ReqsOK'
  <2>1. ReqOK([req[p] EXCEPT !.pc = "done", !.out = "refused"])
    BY <1>1, <1>3, RefuseKeeps DEF Unadmitted
  <2> QED
    BY <1>1, <1>3, <2>1, EndsAs
<1> QED
    BY <1>2, <1>3 DEF select_preview

\* A shadow is logged or dropped.
LEMMA ShadowStep ==
    ASSUME ReqsOK, NEW p \in Procs, _run_shadow(p)
    PROVE  ReqsOK'
<1>1. ReqOK(req[p]) /\ TRUE /\ rules' = rules
    BY UnderWay DEF _run_shadow, Goes, Open
<1>2. ASSUME NEW x, Put(p, [req[p] EXCEPT !.shadow = x]) PROVE ReqsOK'
  <2>1. ReqOK([req[p] EXCEPT !.shadow = x])
    BY <1>1, <1>2, ShadowKeeps
  <2> QED
    BY <1>1, <1>2, <2>1, MovesTo
<1> QED
    BY <1>2 DEF _run_shadow

\* A request is admitted or refused.
LEMMA AdmitStep ==
    ASSUME ReqsOK, NEW p \in Procs, admit(p)
    PROVE  ReqsOK'
<1> DEFINE h == Hits(req[p])
<1>1. ReqOK(req[p]) /\ req[p].pc = "admit" /\ rules' = rules
    BY UnderWay DEF admit, Goes
<1>2. h.in = req[p].in
    BY <1>1, FieldNames DEF ReqOK, Whole, Hits, enforce_key_rate_limit
<1>3. IsNative(h) = IsNative(req[p]) /\ CallPc(h) = CallPc(req[p])
  <2> HIDE DEF h
  <2> QED
    BY <1>2 DEF IsNative, CallPc
<1>4. \/ Ends(p, h, "refused")
      \/ Put(p, [h EXCEPT !.held = TRUE, !.reserved = Reserves(h),
                          !.pc = IF IsNative(h) THEN CallPc(h) ELSE "creds"])
    BY DEF admit
<1>5. ReqOK([h EXCEPT !.pc = "done", !.out = "refused"])
    BY <1>1, AdmitRefusedKeeps
<1>6. \A c : ReqOK([h EXCEPT !.held = TRUE, !.reserved = c,
                             !.pc = IF IsNative(req[p]) THEN CallPc(req[p]) ELSE "creds"])
    BY <1>1, AdmitKeeps
<1> HIDE DEF h
<1>7. ReqOK([h EXCEPT !.held = TRUE, !.reserved = Reserves(h),
                      !.pc = IF IsNative(h) THEN CallPc(h) ELSE "creds"])
    BY <1>3, <1>6
<1> QED
    BY <1>1, <1>4, <1>5, <1>7, MovesTo, EndsAs

\* The credential is read.
LEMMA CredentialStep ==
    ASSUME ReqsOK, NEW p \in Procs, get_values(p)
    PROVE  ReqsOK'
<1>1. ReqOK(req[p]) /\ req[p].pc = "creds" /\ rules' = rules
    BY UnderWay DEF get_values, Goes, Open
<1>2. ASSUME Put(p, [req[p] EXCEPT !.pc = AdmittedPc(req[p])]) PROVE ReqsOK'
  <2>1. ReqOK([req[p] EXCEPT !.pc = AdmittedPc(req[p])])
    BY <1>1, <1>2, CredsKeeps
  <2> QED
    BY <1>1, <1>2, <2>1, MovesTo
<1>3. ASSUME Ends(p, Released(req[p]), "failed") PROVE ReqsOK'
  <2>1. ReqOK([Released(req[p]) EXCEPT !.pc = "done", !.out = "failed"])
    BY <1>1, <1>3, CredsFailKeeps
  <2> QED
    BY <1>1, <1>3, <2>1, EndsAs
<1> QED
    BY <1>2, <1>3 DEF get_values

\* The provider is called.
LEMMA CallStep ==
    ASSUME ReqsOK, NEW p \in Procs, call(p)
    PROVE  ReqsOK'
<1>1. ReqOK(req[p]) /\ req[p].pc = "call" /\ rules' = rules
    BY UnderWay DEF call, Goes, Open
<1>2. ASSUME NEW a \in Answers, Put(p, [Answered(req[p], a) EXCEPT !.pc = "settle"]) PROVE ReqsOK'
  <2>1. ReqOK([Answered(req[p], a) EXCEPT !.pc = "settle"])
    BY <1>1, <1>2, AnsweredKeeps
  <2> QED
    BY <1>1, <1>2, <2>1, MovesTo
<1>3. ASSUME NEW a \in Answers, Ends(p, Released(Billed(Answered(req[p], a))), "failed") PROVE ReqsOK'
  <2>1. ReqOK([Released(Billed(Answered(req[p], a))) EXCEPT !.pc = "done", !.out = "failed"])
    BY <1>1, <1>3, InvalidKeeps
  <2> QED
    BY <1>1, <1>3, <2>1, EndsAs
<1>4. ASSUME Ends(p, [Released(req[p]) EXCEPT !.sent = req[p].text], "failed") PROVE ReqsOK'
  <2>1. ReqOK([[Released(req[p]) EXCEPT !.sent = req[p].text] EXCEPT !.pc = "done", !.out = "failed"])
    BY <1>1, <1>4, CallFailKeeps
  <2> QED
    BY <1>1, <1>4, <2>1, EndsAs
<1>5. ASSUME Ends(p, [Released(req[p]) EXCEPT !.cut = "adapter"], "refused") PROVE ReqsOK'
  <2>1. ReqOK([[Released(req[p]) EXCEPT !.cut = "adapter"] EXCEPT !.pc = "done", !.out = "refused"])
    BY <1>1, <1>5, AdapterKeeps
  <2> QED
    BY <1>1, <1>5, <2>1, EndsAs
<1> QED
    BY <1>2, <1>3, <1>4, <1>5 DEF call

\* The answer is settled.
LEMMA SettleStep ==
    ASSUME ReqsOK, NEW p \in Procs, settle_ok(p)
    PROVE  ReqsOK'
<1>1. ReqOK(req[p]) /\ req[p].pc = "settle" /\ rules' = rules
    BY UnderWay DEF settle_ok, Goes, Open
<1>2. ASSUME Put(p, [Billed(req[p]) EXCEPT !.pc = "respond"]) PROVE ReqsOK'
  <2>1. ReqOK([Billed(req[p]) EXCEPT !.pc = "respond"])
    BY <1>1, <1>2, SettleKeeps
  <2> QED
    BY <1>1, <1>2, <2>1, MovesTo
<1> QED
    BY <1>2 DEF settle_ok

\* A stream is opened.
LEMMA OpenStep ==
    ASSUME ReqsOK, NEW p \in Procs, open_stream(p)
    PROVE  ReqsOK'
<1>1. ReqOK(req[p]) /\ req[p].pc = "open" /\ rules' = rules
    BY UnderWay DEF open_stream, Goes, Open
<1>2. ASSUME Put(p, [req[p] EXCEPT !.pc = "prime"]) PROVE ReqsOK'
  <2>1. ReqOK([req[p] EXCEPT !.pc = "prime"])
    BY <1>1, <1>2, OpenKeeps
  <2> QED
    BY <1>1, <1>2, <2>1, MovesTo
<1>3. ASSUME Ends(p, [Released(req[p]) EXCEPT !.cut = "adapter"], "refused") PROVE ReqsOK'
  <2>1. ReqOK([[Released(req[p]) EXCEPT !.cut = "adapter"] EXCEPT !.pc = "done", !.out = "refused"])
    BY <1>1, <1>3, AdapterKeeps
  <2> QED
    BY <1>1, <1>3, <2>1, EndsAs
<1> QED
    BY <1>2, <1>3 DEF open_stream

\* The first chunk is pulled.
LEMMA PrimeStep ==
    ASSUME ReqsOK, NEW p \in Procs, _prime(p)
    PROVE  ReqsOK'
<1>1. ReqOK(req[p]) /\ req[p].pc = "prime" /\ rules' = rules
    BY UnderWay DEF _prime, Goes, Open
<1>2. ASSUME NEW a \in Answers, Put(p, [Answered(req[p], a) EXCEPT !.pc = "primed"]) PROVE ReqsOK'
  <2>1. ReqOK([Answered(req[p], a) EXCEPT !.pc = "primed"])
    BY <1>1, <1>2, PrimedKeeps
  <2> QED
    BY <1>1, <1>2, <2>1, MovesTo
<1>3. ASSUME NEW a \in Answers, NEW h \in {"clean", "rejected"},
             Put(p, Closing([Answered(req[p], a) EXCEPT !.usage = "absent", !.ans = {}], h))
      PROVE  ReqsOK'
  <2>1. ReqOK(Closing([Answered(req[p], a) EXCEPT !.usage = "absent", !.ans = {}], h))
    BY <1>1, <1>3, EmptyKeeps
  <2> QED
    BY <1>1, <1>3, <2>1, MovesTo
<1>4. ASSUME Put(p, [Closing(req[p], "rejected") EXCEPT !.cut = "adapter"]) PROVE ReqsOK'
  <2>1. ReqOK([Closing(req[p], "rejected") EXCEPT !.cut = "adapter"])
    BY <1>1, <1>4, UntranslatedKeeps
  <2> QED
    BY <1>1, <1>4, <2>1, MovesTo
<1> QED
    BY <1>2, <1>3, <1>4 DEF _prime

\* The response starts.
LEMMA RechainStep ==
    ASSUME ReqsOK, NEW p \in Procs, _rechain(p)
    PROVE  ReqsOK'
<1>1. ReqOK(req[p]) /\ req[p].pc = "primed" /\ rules' = rules
    BY UnderWay DEF _rechain, Goes, Open
<1>2. ASSUME Put(p, [req[p] EXCEPT !.pc = "flow", !.got = req[p].ans]) PROVE ReqsOK'
  <2>1. ReqOK([req[p] EXCEPT !.pc = "flow", !.got = req[p].ans])
    BY <1>1, <1>2, FlowKeeps
  <2> QED
    BY <1>1, <1>2, <2>1, MovesTo
<1> QED
    BY <1>2 DEF _rechain

\* A stream ends or breaks.
LEMMA StreamStep ==
    ASSUME ReqsOK, NEW p \in Procs, metered_stream(p)
    PROVE  ReqsOK'
<1>1. ReqOK(req[p]) /\ req[p].pc = "flow" /\ rules' = rules
    BY UnderWay DEF metered_stream, Goes, Open
<1>2. ASSUME Put(p, Closing(req[p], "clean")) PROVE ReqsOK'
  <2>1. ReqOK(Closing(req[p], "clean"))
    BY <1>1, <1>2, EndedKeeps
  <2> QED
    BY <1>1, <1>2, <2>1, MovesTo
<1>3. ASSUME NEW u, req[p].hit = {}, Put(p, [Closing(req[p], "error") EXCEPT !.usage = u]) PROVE ReqsOK'
  <2>1. ReqOK([Closing(req[p], "error") EXCEPT !.usage = u])
    BY <1>1, <1>3, BrokenKeeps
  <2> QED
    BY <1>1, <1>3, <2>1, MovesTo
<1> QED
    BY <1>2, <1>3 DEF metered_stream

\* The client goes away.
LEMMA DisconnectStep ==
    ASSUME ReqsOK, NEW p \in Procs, Disconnect(p)
    PROVE  ReqsOK'
<1>1. ReqOK(req[p]) /\ req[p].pc \in {"primed", "flow"} /\ rules' = rules
    BY UnderWay DEF Disconnect, Goes, Open
<1>2. ASSUME NEW u, Put(p, [Closing(req[p], "disconnect") EXCEPT !.usage = u]) PROVE ReqsOK'
  <2>1. ReqOK([Closing(req[p], "disconnect") EXCEPT !.usage = u])
    BY <1>1, <1>2, DisconnectKeeps
  <2> QED
    BY <1>1, <1>2, <2>1, MovesTo
<1>3. ASSUME NEW u,
             Put(p, [[Closing(req[p], "disconnect") EXCEPT !.usage = u] EXCEPT !.flag = TRUE, !.soon = TRUE])
      PROVE  ReqsOK'
  <2>1. ReqOK([[Closing(req[p], "disconnect") EXCEPT !.usage = u] EXCEPT !.flag = TRUE, !.soon = TRUE])
    BY <1>1, <1>3, CollectedKeeps
  <2> QED
    BY <1>1, <1>3, <2>1, MovesTo
<1> QED
    BY <1>2, <1>3 DEF Disconnect

\* The scheduled release runs.
LEMMA ReleaseSoonStep ==
    ASSUME ReqsOK, NEW p \in Procs, release_soon(p)
    PROVE  ReqsOK'
<1>1. ReqOK(req[p]) /\ req[p].soon = TRUE /\ rules' = rules
    BY UnderWay DEF release_soon, Goes, Open
<1>2. ASSUME Put(p, [Released(req[p]) EXCEPT !.soon = FALSE]) PROVE ReqsOK'
  <2>1. ReqOK([Released(req[p]) EXCEPT !.soon = FALSE])
    BY <1>1, <1>2, ReleaseSoonKeeps
  <2> QED
    BY <1>1, <1>2, <2>1, MovesTo
<1> QED
    BY <1>2 DEF release_soon

\* The stream is closed.
LEMMA CloseStep ==
    ASSUME ReqsOK, NEW p \in Procs, CloseStream(p)
    PROVE  ReqsOK'
<1>1. ReqOK(req[p]) /\ req[p].pc = "closing" /\ rules' = rules
    BY UnderWay DEF CloseStream, Goes, Open
<1>2. ASSUME Put(p, [release(req[p]) EXCEPT !.pc = "billing"]) PROVE ReqsOK'
  <2>1. ReqOK([release(req[p]) EXCEPT !.pc = "billing"])
    BY <1>1, <1>2, CloseKeeps
  <2> QED
    BY <1>1, <1>2, <2>1, MovesTo
<1> QED
    BY <1>2 DEF CloseStream

\* The stream is billed, or its bill is lost.
LEMMA FinalStep ==
    ASSUME ReqsOK, NEW p \in Procs, _finalize_stream_billing(p)
    PROVE  ReqsOK'
<1>1. ReqOK(req[p]) /\ req[p].pc = "billing" /\ rules' = rules
    BY UnderWay DEF _finalize_stream_billing, Goes, Open
<1>2. ASSUME Ends(p, [req[p] EXCEPT !.rows = @ \o StreamRow(req[p])], StreamOut(req[p])) PROVE ReqsOK'
  <2>1. ReqOK([[req[p] EXCEPT !.rows = @ \o StreamRow(req[p])] EXCEPT !.pc = "done", !.out = StreamOut(req[p])])
    BY <1>1, <1>2, FinalKeeps
  <2> QED
    BY <1>1, <1>2, <2>1, EndsAs
<1>3. ASSUME req[p].hit = {}, Ends(p, [req[p] EXCEPT !.lost = TRUE], StreamOut(req[p])) PROVE ReqsOK'
  <2>1. ReqOK([[req[p] EXCEPT !.lost = TRUE] EXCEPT !.pc = "done", !.out = StreamOut(req[p])])
    BY <1>1, <1>3, LostKeeps
  <2> QED
    BY <1>1, <1>3, <2>1, EndsAs
<1> QED
    BY <1>2, <1>3 DEF _finalize_stream_billing

\* A stream is refused while a response rule can apply to it.
LEMMA ScreenStep ==
    ASSUME ReqsOK, NEW p \in Procs, _refuse_stream_when_response_guarded(p)
    PROVE  ReqsOK'
<1> DEFINE c == resolve_chain(Stored, req[p].model, "response", req[p].router)
<1>1. ReqOK(req[p]) /\ req[p].pc = "screen" /\ rules' = rules
    BY UnderWay DEF _refuse_stream_when_response_guarded, Goes
<1>2. CASE Ends(p, req[p], "blocked")
  <2>1. ReqOK([req[p] EXCEPT !.pc = "done", !.out = "blocked"])
    BY <1>1, RefuseKeeps DEF Unadmitted
  <2> QED
    BY <1>1, <1>2, <2>1, EndsAs
<1>3. CASE Put(p, [req[p] EXCEPT !.pc = "guard", !.open = @ \cup c])
  <2>1. ReqOK([req[p] EXCEPT !.pc = "guard", !.open = @ \cup c])
    BY <1>1, ScreenPassKeeps
  <2> QED
    BY <1>1, <1>3, <2>1, MovesTo
<1> QED
    BY <1>2, <1>3 DEF _refuse_stream_when_response_guarded

\* The stored rules are rules.
LEMMA StoredRules ==
    ASSUME PolicyOK
    PROVE  Stored \subseteq Rules
BY DEF PolicyOK, Stored

\* The request chain passes or blocks.
LEMMA GuardStep ==
    ASSUME ReqsOK, PolicyOK, NEW p \in Procs, _guard_request(p)
    PROVE  ReqsOK'
<1> DEFINE q == req[p]
           chain == resolve_chain(Stored, q.model, "request", q.router)
           G(down) == Guarded(Stored, q.model, "request", q.router, q.text, q.in.shape, down)
           J(down) == [Judged(q, G(down).asked) EXCEPT !.open = @ \cup FailedOpen(chain, down)]
<1>1. ReqOK(q) /\ q.pc = "guard" /\ rules' = rules
    BY UnderWay DEF _guard_request, Goes
<1>2. PICK down : IF G(down).refused THEN Ends(p, J(down), "blocked")
                  ELSE Put(p, AfterGuard([J(down) EXCEPT !.text = G(down).content]))
    BY DEF _guard_request
<1> DEFINE g == G(down)
           f == FailedOpen(chain, down)
           j == J(down)
<1>3. j = [Judged(q, g.asked) EXCEPT !.open = @ \cup f]
    OBVIOUS
<1>4. Stored \subseteq Rules
    BY StoredRules
<1>5. q.pre \subseteq chain /\ q.text \in SUBSET Tags /\ q.out = "none"
    BY <1>1 DEF ReqOK, ScreenOK, TypesOK, Unbound
<1>6. ~g.refused => g.content \in SUBSET Tags /\ Clean(chain \ f, g.content)
  <2> HIDE DEF q
  <2> QED
    BY <1>4, <1>5, GuardedCleans
<1>7. IF g.refused THEN Ends(p, j, "blocked") ELSE Put(p, AfterGuard([j EXCEPT !.text = g.content]))
    BY <1>2
<1> HIDE DEF g, j, f, q, chain
<1>8. CASE g.refused
  <2>1. ReqOK([j EXCEPT !.pc = "done", !.out = "blocked"])
    BY <1>1, <1>3, GuardBlockedKeeps
  <2> QED
    BY <1>1, <1>7, <1>8, <2>1, EndsAs
<1>9. CASE ~g.refused
  <2> DEFINE c == g.content
             t == [j EXCEPT !.text = c]
  <2>1. c \in SUBSET Tags /\ Clean(q.pre \ (q.open \cup f), c)
    BY <1>5, <1>6, <1>9 DEF Clean
  <2> HIDE DEF c
  <2>2. ReqOK([j EXCEPT !.text = c, !.pc = "admit", !.out = "none"])
    BY <1>1, <1>3, <2>1, GuardPassedKeeps
  <2>3. ReqOK([j EXCEPT !.text = c, !.pc = "done", !.out = "refused"])
    BY <1>1, <1>3, <2>1, GuardPassedKeeps
  <2>4. j.out = "none" /\ Whole(j)
    <3>1. Same(q, Judged(q, g.asked), {"side"})
      BY <1>1, JudgedEffect DEF ReqOK
    <3> DEFINE b == Judged(q, g.asked)
    <3> HIDE DEF b
    <3>2. Whole(b) /\ b.out = "none"
      BY <1>5, <3>1, FieldNames DEF Same, b
    <3>3. j = [b EXCEPT !.open = @ \cup f]
      BY <1>3 DEF b
    <3> QED
      BY <3>2, <3>3, FieldNames DEF Whole
  <2>5. [t EXCEPT !.pc = "done", !.out = "refused"] = [j EXCEPT !.text = c, !.pc = "done", !.out = "refused"]
    BY <2>4, FieldNames DEF Whole
  <2>6. [t EXCEPT !.pc = "admit"] = [j EXCEPT !.text = c, !.pc = "admit", !.out = "none"]
    BY <2>4, FieldNames DEF Whole
  <2>7. Put(p, AfterGuard(t))
    BY <1>7, <1>9 DEF c
  <2> HIDE DEF t
  <2>8. AfterGuard(t) \in {[t EXCEPT !.pc = "done", !.out = "refused"], [t EXCEPT !.pc = "admit"]}
    BY DEF AfterGuard
  <2>9. ReqOK(AfterGuard(t))
    BY <2>2, <2>3, <2>5, <2>6, <2>8
  <2> QED
    BY <1>1, <2>7, <2>9, MovesTo
<1> QED
    BY <1>8, <1>9

\* The answer is screened.
LEMMA ResponseStep ==
    ASSUME ReqsOK, PolicyOK, NEW p \in Procs, _guard_response(p)
    PROVE  ReqsOK'
<1> DEFINE q == req[p]
           chain == resolve_chain(Stored, q.model, "response", ResponseScope(q))
           G(down) == Guarded(Stored, q.model, "response", ResponseScope(q), q.ans, q.shape, down)
           J(down) == [Judged(q, G(down).asked) EXCEPT !.open = @ \cup FailedOpen(chain, down)]
           S(down) == [J(down) EXCEPT !.ans = G(down).content]
<1>1. ReqOK(q) /\ q.pc = "respond" /\ rules' = rules
    BY UnderWay DEF _guard_response, Goes
<1>2. PICK down :
        IF G(down).refused THEN Ends(p, Back(J(down)), "withheld")
        ELSE IF q.hit = {} /\ is_cacheable(q) /\ q.usage # "absent"
        THEN Put(p, [S(down) EXCEPT !.pc = "put"])
        ELSE Ends(p, [Back(S(down)) EXCEPT !.got = G(down).content], "ok")
    BY DEF _guard_response, Back
<1> DEFINE g == G(down)
           f == FailedOpen(chain, down)
           c == g.content
           j == J(down)
           s == S(down)
<1>3. j = [Judged(q, g.asked) EXCEPT !.open = @ \cup f] /\ s = [j EXCEPT !.ans = c]
    OBVIOUS
<1>4. Stored \subseteq Rules
    BY StoredRules
<1>5. /\ q.post \subseteq resolve_chain(Stored, q.model, "response", q.router)
      /\ q.ans \in SUBSET Tags
    BY <1>1 DEF ReqOK, ScreenOK, TypesOK, Unbound
<1>6. ~g.refused => c \in SUBSET Tags /\ Clean(chain \ f, c)
  <2> HIDE DEF q
  <2> QED
    BY <1>4, <1>5, GuardedCleans
<1>7. ~g.refused => (Scoped(q) => Clean(q.post \ (q.open \cup f), c))
  <2>1. Scoped(q) => ResponseScope(q) = q.router
    BY DEF Scoped, ResponseScope
  <2> HIDE DEF q, f, c, g
  <2> QED
    BY <1>5, <1>6, <2>1 DEF Clean
<1>8. \/ g.refused /\ Ends(p, Back(j), "withheld")
      \/ ~g.refused /\ q.hit = {} /\ Put(p, [s EXCEPT !.pc = "put"])
      \/ ~g.refused /\ Ends(p, [Back(s) EXCEPT !.got = c], "ok")
    BY <1>2
<1> HIDE DEF g, j, f, q, chain, c, s
<1>9. CASE g.refused /\ Ends(p, Back(j), "withheld")
  <2>1. ReqOK([Back(j) EXCEPT !.pc = "done", !.out = "withheld"])
    BY <1>1, <1>3, WithheldKeeps
  <2> QED
    BY <1>1, <1>9, <2>1, EndsAs
<1>10. CASE ~g.refused /\ q.hit = {} /\ Put(p, [s EXCEPT !.pc = "put"])
  <2>1. ReqOK([s EXCEPT !.pc = "put"])
    BY <1>1, <1>3, <1>6, <1>7, <1>10, ToPutKeeps
  <2> QED
    BY <1>1, <1>10, <2>1, MovesTo
<1>11. CASE ~g.refused /\ Ends(p, [Back(s) EXCEPT !.got = c], "ok")
  <2>1. ReqOK([[Back(s) EXCEPT !.got = c] EXCEPT !.pc = "done", !.out = "ok"])
    BY <1>1, <1>3, <1>6, <1>7, <1>11, DeliveredKeeps
  <2> QED
    BY <1>1, <1>11, <2>1, EndsAs
<1> QED
    BY <1>8, <1>9, <1>10, <1>11

\* The cache answers the one who bought the answer, or misses.
LEMMA GetStep ==
    ASSUME ReqsOK, StoreOK, NEW p \in Procs, _cache_get(p)
    PROVE  ReqsOK' /\ StoreOK'
<1> DEFINE q == req[p]
           k == Who(q)
           Hit(j) == [q EXCEPT !.hit = {store[j].who}, !.ans = store[j].tags,
                               !.shape = store[j].shape, !.usage = store[j].usage]
<1>1. ReqOK(q) /\ q.pc = "lookup" /\ rules' = rules
    BY UnderWay DEF _cache_get, Goes
<1>2. CASE UNCHANGED store /\ Put(p, [q EXCEPT !.pc = CallPc(q)])
  <2>1. ReqOK([q EXCEPT !.pc = CallPc(q)])
    BY <1>1, MissKeeps
  <2>2. ReqsOK'
    BY <1>1, <1>2, <2>1, MovesTo
  <2> QED
    BY <1>2, <2>2 DEF StoreOK
<1>3. ASSUME NEW j \in At(k), store' = Append(Without(k), store[j]), Replay(p, Hit(j))
      PROVE  ReqsOK' /\ StoreOK'
  <2> DEFINE e == store[j]
             h == Hit(j)
  <2>1. EntriesOK(store') /\ EntryOK(e)
    BY <1>3, GetKeeps
  <2>2. e.key = k
    BY DEF At
  <2>3. e.who = Who(q) /\ e.tags \in SUBSET Tags
    BY <2>1, <2>2 DEF EntryOK
  <2>4. h = [q EXCEPT !.hit = {e.who}, !.ans = e.tags, !.shape = e.shape, !.usage = e.usage]
    OBVIOUS
  <2>5. Replay(p, h)
    BY <1>3
  <2> HIDE DEF e, h, q
  <2>6. h.in = q.in /\ q.in \in Inputs
    BY <1>1, <2>4, FieldNames DEF ReqOK, Whole, TypesOK
  <2>7. q.in.via.stream \in BOOLEAN
    BY <2>6, ViaTypes DEF OperationOK
  <2>8. CASE q.in.via.stream = TRUE
    <3>1. Put(p, [h EXCEPT !.pc = "primed"])
      BY <2>5, <2>6, <2>8 DEF Replay
    <3>2. ReqOK([h EXCEPT !.pc = "primed"])
      BY <1>1, <2>3, <2>4, <2>8, ReplayStreamKeeps
    <3> QED
      BY <1>1, <2>1, <3>1, <3>2, MovesTo DEF StoreOK
  <2>9. CASE q.in.via.stream = FALSE
    <3>1. Put(p, [Released(h) EXCEPT !.pc = "respond", !.rows = Append(@, "hit")])
      BY <2>5, <2>6, <2>9 DEF Replay
    <3>2. ReqOK([Released(h) EXCEPT !.pc = "respond", !.rows = Append(@, "hit")])
      BY <1>1, <2>3, <2>4, ReplayKeeps
    <3> QED
      BY <1>1, <2>1, <3>1, <3>2, MovesTo DEF StoreOK
  <2> QED
    BY <2>7, <2>8, <2>9
<1> QED
    BY <1>2, <1>3 DEF _cache_get, derive_cache_key

\* A delivered answer is stored, or the store fails.
LEMMA PutStep ==
    ASSUME ReqsOK, StoreOK, NEW p \in Procs, _cache_put(p)
    PROVE  ReqsOK' /\ StoreOK'
<1>1. ReqOK(req[p]) /\ req[p].pc = "put" /\ rules' = rules
    BY UnderWay DEF _cache_put, Goes
<1>2. EntriesOK(CachePut(req[p], req[p].ans))
    BY <1>1, CachePutKeeps
<1>3. store' \in {store, CachePut(req[p], req[p].ans)}
    BY DEF _cache_put
<1>4. StoreOK'
    BY <1>2, <1>3 DEF StoreOK
<1>5. ReqOK([[Released(req[p]) EXCEPT !.got = req[p].ans] EXCEPT !.pc = "done", !.out = "ok"])
    BY <1>1, PutKeeps
<1>6. Ends(p, [Released(req[p]) EXCEPT !.got = req[p].ans], "ok")
    BY DEF _cache_put
<1>7. ReqsOK'
    BY <1>1, <1>5, <1>6, EndsAs
<1> QED
    BY <1>4, <1>7

-----------------------------------------------------------------------------
(* The operators.                                                          *)

\* A policy that changes narrows what stood since a request was resolved.
LEMMA NarrowKeeps ==
    ASSUME NEW q, ReqOK(q), q.pc \notin Unresolved, NEW R, R = Stored',
           NEW r, r = [q EXCEPT !.pre  = @ \cap resolve_chain(R, q.model, "request", q.router),
                                !.post = @ \cap resolve_chain(R, q.model, "response", q.router)]
    PROVE  ReqOK(r)'
<1>1. /\ Same(q, r, {"pre", "post"})
      /\ r.pre = q.pre \cap resolve_chain(R, q.model, "request", q.router)
      /\ r.post = q.post \cap resolve_chain(R, q.model, "response", q.router)
    BY FieldNames DEF ReqOK, Whole, Same
<1>2. TypesOK(r)
    BY <1>1 DEF ReqOK, TypesOK, Same, Fields
<1>3. ClaimOK(r)
    BY <1>1 DEF ReqOK, ClaimOK, NoClaim, ClaimOut, ClaimLeaving, ClaimBack, Same, Fields
<1>4. RowsOK(r)
  <2>1. RowFor(r) = RowFor(q)
    BY <1>1, RowForSame DEF Same, Fields
  <2> QED
    BY <1>1, <2>1 DEF ReqOK, RowsOK, SettledRows, Broken, Same, Fields
<1>5. KeyOK(r)
    BY <1>1 DEF ReqOK, KeyOK, Keyed, IsNative, Same, Fields
<1>6. HitOK(r)
    BY <1>1 DEF ReqOK, HitOK, Who, is_cacheable, Hot, Same, Fields
<1>7. RouteOK(r)
    BY <1>1 DEF ReqOK, RouteOK, IsNative, Same, Fields
<1>8. /\ r.pc = q.pc /\ r.in = q.in /\ r.model = q.model /\ r.router = q.router /\ r.open = q.open
      /\ r.text = q.text /\ r.ans = q.ans /\ r.sent = q.sent /\ r.got = q.got
    BY <1>1 DEF Same, Fields
<1>9. q.pc \notin Unbound \cup {"done"}
    BY DEF Unresolved, Unbound
<1>10. /\ q.pc \notin Unbound \cup {"screen", "guard", "done"} => Clean(q.pre \ q.open, q.text)
       /\ Clean(q.pre \ q.open, q.sent)
       /\ q.pc \in Streaming => q.in.via.stream = TRUE
       /\ q.in.via.stream = TRUE /\ q.pc \notin Unbound \cup {"screen", "done"} => q.post \subseteq q.open
       /\ q.pc = "put" /\ Scoped(q) => Clean(q.post \ q.open, q.ans)
       /\ Scoped(q) => Clean(q.post \ q.open, q.got)
    BY DEF ReqOK, ScreenOK
<1>11. Scoped(r) = Scoped(q)
    BY <1>8 DEF Scoped
<1>12. ScreenOK(r)'
    BY <1>1, <1>8, <1>9, <1>10, <1>11 DEF ScreenOK, Clean
<1>13. Whole(r)
    BY <1>1 DEF Same
<1> QED
    BY <1>2, <1>3, <1>4, <1>5, <1>6, <1>7, <1>12, <1>13 DEF ReqOK

\* A request that has no model yet, or is over, does not look at the policy.
LEMMA UnresolvedKeeps ==
    ASSUME NEW q, ReqOK(q), q.pc \in Unresolved
    PROVE  ReqOK(q)'
<1>1. q.pc \in Unbound \cup {"done"}
    BY DEF Unresolved, Unbound, ReqOK, TypesOK, ReqPlaces, Unadmitted, Unanswered, Streaming, Ending
<1> QED
    BY <1>1 DEF ReqOK, ScreenOK

LEMMA NarrowedKeeps ==
    ASSUME ReqsOK, req' = Narrowed(Stored')
    PROVE  ReqsOK'
<1>1. req' = [x \in Procs |-> req'[x]]
    BY DEF Narrowed
<1>2. ASSUME NEW x \in Procs, NEW q, q = req'[x]
      PROVE  q \in {Idle} \cup Clients \/ ReqOK(q)'
  <2>1. CASE req[x] \in {Idle} \cup Clients
    <3>1. req[x].pc \in Unresolved
      BY <2>1 DEF Idle, Clients, Client, Unresolved
    <3> QED
      BY <1>2, <2>1, <3>1 DEF Narrowed
  <2>2. CASE ReqOK(req[x]) /\ req[x].pc \in Unresolved
    <3>1. q = req[x]
      BY <1>2, <2>2 DEF Narrowed
    <3> QED
      BY <2>2, <3>1, UnresolvedKeeps
  <2>3. CASE ReqOK(req[x]) /\ req[x].pc \notin Unresolved
    <3> DEFINE R == Stored'
    <3>1. q = [req[x] EXCEPT !.pre  = @ \cap resolve_chain(R, req[x].model, "request", req[x].router),
                             !.post = @ \cap resolve_chain(R, req[x].model, "response", req[x].router)]
      BY <1>2, <2>3 DEF Narrowed
    <3> QED
      BY <2>3, <3>1, NarrowKeeps
  <2> QED
    BY <2>1, <2>2, <2>3 DEF ReqsOK
<1> QED
    BY <1>1, <1>2 DEF ReqsOK

\* A rule that is written has one scope and a name of its own.
LEMMA SetRuleKeeps ==
    ASSUME ReqsOK, PolicyOK, NEW x \in RuleIds, NEW r \in Rules \cup {NoRule}, SetRule(x, r),
           r # NoRule => ~NameTaken(r.name, {x}) /\ (r.model = NoScope \/ r.router = NoScope)
    PROVE  ReqsOK' /\ PolicyOK' /\ StoreOK' = StoreOK /\ grants' = grants
<1>1. rules' = [rules EXCEPT ![x] = r] /\ req' = Narrowed(Stored') /\ store' = store /\ grants' = grants
    BY DEF SetRule, Stored
<1>2. rules' \in [RuleIds -> Rules \cup {NoRule}]
    BY <1>1 DEF PolicyOK
<1>3. \A y \in RuleIds : rules'[y] = IF y = x THEN r ELSE rules[y]
    BY <1>1 DEF PolicyOK
<1>4. \A y \in RuleIds : r # NoRule /\ y # x /\ rules[y] # NoRule => rules[y].name # r.name
    BY DEF NameTaken
<1>5. Readable(rules')
    BY <1>3, <1>4 DEF Readable, PolicyOK
<1> QED
    BY <1>1, <1>2, <1>5, NarrowedKeeps DEF PolicyOK, StoreOK

\* An edited rule is a rule.
LEMMA ChangedIsRule ==
    ASSUME NEW x \in Rules, NEW c \in Changes
    PROVE  Changed(x, c) \in Rules
<1>1. /\ c.model \in Models \cup {NoScope} /\ c.router \in Routers \cup {NoScope}
      /\ c.verdict \in {"keep", "block", "redact"} /\ c.name \in Nat
    BY RulesAssumption
<1>2. NoScope \in Models \cup {NoScope} /\ NoScope \in Routers \cup {NoScope}
    OBVIOUS
<1>3. Rescope(x, c) \in Rules
    BY <1>1, <1>2 DEF Rescope, Rules, Rule
<1> DEFINE y == Rescope(x, c)
<1>4. x.enabled \in BOOLEAN
    BY DEF Rules, Rule
<1>5. Changed(x, c) = [y EXCEPT !.enabled = IF c.toggle THEN ~x.enabled ELSE @,
                                !.verdict = IF c.verdict = "keep" THEN @ ELSE c.verdict,
                                !.name = IF c.name = 0 THEN @ ELSE c.name]
    BY DEF Changed
<1> HIDE DEF y
<1>6. \A e \in BOOLEAN, v \in {"block", "redact"}, n \in Nat :
         [y EXCEPT !.enabled = e, !.verdict = v, !.name = n] \in Rules
    BY <1>3 DEF Rules, Rule, y
<1>7. y.enabled \in BOOLEAN /\ y.verdict \in {"block", "redact"} /\ y.name \in Nat
    BY <1>3 DEF Rules, Rule, y
<1> DEFINE e == IF c.toggle THEN ~x.enabled ELSE y.enabled
           v == IF c.verdict = "keep" THEN y.verdict ELSE c.verdict
           n == IF c.name = 0 THEN y.name ELSE c.name
<1>8. v \in {"block", "redact"} /\ n \in Nat
    BY <1>1, <1>7
<1>9. e \in BOOLEAN
    BY <1>4, <1>7
<1>10. Changed(x, c) = [y EXCEPT !.enabled = e, !.verdict = v, !.name = n]
    BY <1>5
<1> HIDE DEF e, v, n
<1> QED
    BY <1>6, <1>8, <1>9, <1>10

\* What an operator is about to write.
LEMMA DeskSet ==
    ASSUME DesksOK, NEW d \in Desks, NEW k, DeskOK(k), desk' = [desk EXCEPT ![d] = k]
    PROVE  DesksOK'
<1>1. desk' = [c \in Desks |-> desk'[c]]
    BY DEF DesksOK
<1>2. \A c \in Desks : DeskOK(desk'[c])
    BY DEF DesksOK
<1> QED
    BY <1>1, <1>2 DEF DesksOK, DeskOK

LEMMA DeskHolds ==
    ASSUME DesksOK, NEW d \in Desks, desk[d].pc \in {"add", "update"}
    PROVE  /\ desk[d].rule \in Rules
           /\ desk[d].rule.model = NoScope \/ desk[d].rule.router = NoScope
           /\ desk[d].pc = "update" => desk[d].at \in RuleIds
BY DEF DesksOK, DeskOK, Idle

\* An edit uses one up.
LEMMA EditsLeft ==
    ASSUME GrantsOK, edits > 0, edits' = edits - 1, grants' = grants
    PROVE  GrantsOK'
<1>1. \A r \in Routers : grants[r].rev \in Nat
    BY DEF GrantsOK
<1> QED
    BY <1>1, BoundAssumption DEF GrantsOK

LEMMA CreateStep ==
    ASSUME RequestsInv, NEW d \in Desks, create_rule(d)
    PROVE  DesksOK' /\ GrantsOK'
<1>1. PICK x \in NewRules : /\ validate_rule(x, FALSE)
                            /\ desk' = [desk EXCEPT ![d] = [pc |-> "add", rule |-> x]]
    BY DEF create_rule
<1>2. DeskOK([pc |-> "add", rule |-> x])
    BY <1>1, RulesAssumption DEF DeskOK, validate_rule
<1>3. edits > 0 /\ edits' = edits - 1 /\ grants' = grants
    BY DEF create_rule
<1> QED
    BY <1>1, <1>2, <1>3, DeskSet, EditsLeft DEF RequestsInv

LEMMA UpdateRuleStep ==
    ASSUME RequestsInv, NEW d \in Desks, update_rule(d)
    PROVE  DesksOK' /\ GrantsOK'
<1>1. PICK x \in RuleIds, c \in Changes :
        /\ rules[x] # NoRule
        /\ validate_rule(Changed(rules[x], c), FALSE)
        /\ desk' = [desk EXCEPT ![d] = [pc |-> "update", at |-> x, rule |-> Changed(rules[x], c)]]
    BY DEF update_rule
<1> DEFINE r == Changed(rules[x], c)
<1>2. r \in Rules
    BY <1>1, ChangedIsRule DEF RequestsInv, PolicyOK
<1>3. r.model = NoScope \/ r.router = NoScope
    BY <1>1 DEF validate_rule
<1>4. desk' = [desk EXCEPT ![d] = [pc |-> "update", at |-> x, rule |-> r]]
    BY <1>1
<1> HIDE DEF r
<1>5. DeskOK([pc |-> "update", at |-> x, rule |-> r])
    BY <1>2, <1>3 DEF DeskOK
<1>6. edits > 0 /\ edits' = edits - 1 /\ grants' = grants
    BY DEF update_rule
<1> QED
    BY <1>4, <1>5, <1>6, DeskSet, EditsLeft DEF RequestsInv

\* A desk that is done is idle.
LEMMA DeskDone ==
    ASSUME RequestsInv, NEW d \in Desks, desk' = [desk EXCEPT ![d] = Idle], UNCHANGED edits, grants' = grants
    PROVE  DesksOK' /\ GrantsOK'
<1>1. DeskOK(Idle)
    BY DEF DeskOK
<1> QED
    BY <1>1, DeskSet DEF RequestsInv, GrantsOK

\* Nothing of the policy and the requests changed.
LEMMA NothingWritten ==
    ASSUME RequestsInv, UNCHANGED <<rules, store, req>>
    PROVE  ReqsOK' /\ StoreOK' /\ PolicyOK'
<1>1. ASSUME NEW x \in Procs, NEW q, q = req'[x]
      PROVE  q \in {Idle} \cup Clients \/ ReqOK(q)'
    BY <1>1, ReqFrame DEF RequestsInv, ReqsOK
<1> QED
    BY <1>1 DEF RequestsInv, ReqsOK, StoreOK, PolicyOK

LEMMA AddStep ==
    ASSUME RequestsInv, NEW d \in Desks, add(d)
    PROVE  RequestsInv'
<1>1. /\ desk[d].rule \in Rules
      /\ desk[d].rule.model = NoScope \/ desk[d].rule.router = NoScope
    BY DeskHolds DEF RequestsInv, add
<1>2. desk' = [desk EXCEPT ![d] = Idle] /\ UNCHANGED edits
    BY DEF add
<1>3. CASE UNCHANGED <<rules, models, grants, store, req>>
    BY <1>2, <1>3, NothingWritten, DeskDone DEF RequestsInv
<1>4. ASSUME NEW x \in RuleIds, ~NameTaken(desk[d].rule.name, {}), SetRule(x, desk[d].rule)
      PROVE  RequestsInv'
  <2> DEFINE r == desk[d].rule
  <2>1. ~NameTaken(r.name, {x})
    BY <1>4 DEF NameTaken
  <2>2. r \in Rules \cup {NoRule} /\ SetRule(x, r) /\ (r.model = NoScope \/ r.router = NoScope)
    BY <1>1, <1>4
  <2> HIDE DEF r
  <2>3. ReqsOK' /\ PolicyOK' /\ StoreOK' = StoreOK /\ grants' = grants
    BY <2>1, <2>2, SetRuleKeeps DEF RequestsInv
  <2> QED
    BY <1>2, <2>3, DeskDone DEF RequestsInv
<1> QED
    BY <1>3, <1>4 DEF add

LEMMA UpdateStep ==
    ASSUME RequestsInv, NEW d \in Desks, update(d)
    PROVE  RequestsInv'
<1>1. /\ desk[d].rule \in Rules
      /\ desk[d].rule.model = NoScope \/ desk[d].rule.router = NoScope
      /\ desk[d].at \in RuleIds
    BY DeskHolds DEF RequestsInv, update
<1>2. desk' = [desk EXCEPT ![d] = Idle] /\ UNCHANGED edits
    BY DEF update
<1>3. CASE UNCHANGED <<rules, models, grants, store, req>>
    BY <1>2, <1>3, NothingWritten, DeskDone DEF RequestsInv
<1>4. CASE ~NameTaken(desk[d].rule.name, {desk[d].at}) /\ SetRule(desk[d].at, desk[d].rule)
  <2> DEFINE r == desk[d].rule
             x == desk[d].at
  <2>1. x \in RuleIds /\ ~NameTaken(r.name, {x})
    BY <1>1, <1>4
  <2>2. r \in Rules \cup {NoRule} /\ SetRule(x, r) /\ (r.model = NoScope \/ r.router = NoScope)
    BY <1>1, <1>4
  <2> HIDE DEF r, x
  <2>3. ReqsOK' /\ PolicyOK' /\ StoreOK' = StoreOK /\ grants' = grants
    BY <2>1, <2>2, SetRuleKeeps DEF RequestsInv
  <2> QED
    BY <1>2, <2>3, DeskDone DEF RequestsInv
<1> QED
    BY <1>3, <1>4 DEF update

LEMMA DeleteStep ==
    ASSUME RequestsInv, delete_rule
    PROVE  RequestsInv'
<1>1. PICK x \in RuleIds : SetRule(x, NoRule)
    BY DEF delete_rule
<1>2. NoRule \in Rules \cup {NoRule}
    OBVIOUS
<1>3. ReqsOK' /\ PolicyOK' /\ StoreOK' = StoreOK /\ grants' = grants
    BY <1>1, <1>2, SetRuleKeeps DEF RequestsInv
<1>4. edits > 0 /\ edits' = edits - 1 /\ UNCHANGED desk
    BY DEF delete_rule
<1> QED
    BY <1>3, <1>4, EditsLeft DEF RequestsInv, DesksOK

\* A grant is withdrawn or upgraded.
LEMMA GrantStep ==
    ASSUME RequestsInv, change_grant
    PROVE  GrantsOK'
<1>1. PICK r \in Routers :
        grants' \in {[grants EXCEPT ![r].live = FALSE]}
                    \cup {[grants EXCEPT ![r].rev = @ + 1, ![r].ack = a] : a \in BOOLEAN}
    BY DEF change_grant
<1>2. /\ edits \in Nat /\ edits > 0 /\ edits' = edits - 1 /\ edits' \in Nat
      /\ grants \in [Routers -> [live : BOOLEAN, rev : Nat, ack : BOOLEAN]]
      /\ \A x \in Routers : grants[x].rev \in Nat /\ grants[x].rev + edits <= MaxEdits
    BY DEF RequestsInv, GrantsOK, change_grant
<1>3. CASE grants' = [grants EXCEPT ![r].live = FALSE]
  <2>1. grants' \in [Routers -> [live : BOOLEAN, rev : Nat, ack : BOOLEAN]]
    BY <1>2, <1>3
  <2>2. \A x \in Routers : grants'[x].rev = grants[x].rev
    BY <1>2, <1>3
  <2>3. \A x \in Routers : grants'[x].rev + edits' <= MaxEdits
    BY <1>2, <2>2, BoundAssumption
  <2> QED
    BY <1>2, <2>1, <2>3 DEF GrantsOK
<1>4. ASSUME NEW a \in BOOLEAN, grants' = [grants EXCEPT ![r].rev = @ + 1, ![r].ack = a]
      PROVE  GrantsOK'
  <2> DEFINE g == [grants[r] EXCEPT !.rev = @ + 1, !.ack = a]
  <2>4. g \in [live : BOOLEAN, rev : Nat, ack : BOOLEAN]
    <3>1. grants[r] \in [live : BOOLEAN, rev : Nat, ack : BOOLEAN] /\ grants[r].rev + 1 \in Nat
      BY <1>2
    <3> QED
      BY <3>1
  <2>5. grants' = [grants EXCEPT ![r] = g]
    BY <1>2, <1>4
  <2> HIDE DEF g
  <2>1. grants' \in [Routers -> [live : BOOLEAN, rev : Nat, ack : BOOLEAN]]
    BY <1>2, <2>4, <2>5
  <2>2. \A x \in Routers : grants'[x].rev = IF x = r THEN grants[x].rev + 1 ELSE grants[x].rev
    BY <1>2, <1>4
  <2>3. \A x \in Routers : grants'[x].rev + edits' <= MaxEdits
    BY <1>2, <2>2, BoundAssumption
  <2> QED
    BY <1>2, <2>1, <2>3 DEF GrantsOK
<1> QED
    BY <1>1, <1>3, <1>4

-----------------------------------------------------------------------------
(* The invariant.                                                          *)

\* A step of a request leaves the operators' side alone.
LEMMA ServeQuiet ==
    ASSUME NEW p, arrive(p) \/ Serve(p) \/ Disconnect(p) \/ _run_shadow(p)
    PROVE  UNCHANGED <<rules, grants, desk, edits>>
<1>1. CASE arrive(p) \/ Disconnect(p) \/ _run_shadow(p)
    BY <1>1 DEF arrive, Disconnect, _run_shadow
<1>2. CASE _resolve_model(p) \/ ResolveRouter(p) \/ route(p) \/ Chosen(p) \/ select_preview(p)
    BY <1>2 DEF _resolve_model, ResolveRouter, route, Chosen, select_preview
<1>3. CASE _refuse_stream_when_response_guarded(p) \/ _guard_request(p) \/ admit(p) \/ get_values(p)
    BY <1>3 DEF _refuse_stream_when_response_guarded, _guard_request, admit, get_values
<1>4. CASE _cache_get(p) \/ call(p) \/ settle_ok(p) \/ _guard_response(p) \/ _cache_put(p)
    BY <1>4 DEF _cache_get, call, settle_ok, _guard_response, _cache_put
<1>5. CASE open_stream(p) \/ _prime(p) \/ _rechain(p) \/ metered_stream(p)
    BY <1>5 DEF open_stream, _prime, _rechain, metered_stream
<1>6. CASE release_soon(p) \/ CloseStream(p) \/ _finalize_stream_billing(p)
    BY <1>6 DEF release_soon, CloseStream, _finalize_stream_billing
<1> QED
    BY <1>1, <1>2, <1>3, <1>4, <1>5, <1>6 DEF Serve

\* All but the lookup and the put leave the store alone.
LEMMA StoreQuiet ==
    ASSUME NEW p, arrive(p) \/ Serve(p) \/ Disconnect(p) \/ _run_shadow(p), ~_cache_get(p), ~_cache_put(p)
    PROVE  store' = store
<1>1. CASE arrive(p) \/ Disconnect(p) \/ _run_shadow(p)
    BY <1>1 DEF arrive, Disconnect, _run_shadow
<1>2. CASE _resolve_model(p) \/ ResolveRouter(p) \/ route(p) \/ Chosen(p) \/ select_preview(p)
    BY <1>2 DEF _resolve_model, ResolveRouter, route, Chosen, select_preview
<1>3. CASE _refuse_stream_when_response_guarded(p) \/ _guard_request(p) \/ admit(p) \/ get_values(p)
    BY <1>3 DEF _refuse_stream_when_response_guarded, _guard_request, admit, get_values
<1>4. CASE call(p) \/ settle_ok(p) \/ _guard_response(p)
    BY <1>4 DEF call, settle_ok, _guard_response
<1>5. CASE open_stream(p) \/ _prime(p) \/ _rechain(p) \/ metered_stream(p)
    BY <1>5 DEF open_stream, _prime, _rechain, metered_stream
<1>6. CASE release_soon(p) \/ CloseStream(p) \/ _finalize_stream_billing(p)
    BY <1>6 DEF release_soon, CloseStream, _finalize_stream_billing
<1> QED
    BY <1>1, <1>2, <1>3, <1>4, <1>5, <1>6 DEF Serve

\* A step of a request.
LEMMA RequestStep ==
    ASSUME RequestsInv, NEW p \in Procs, arrive(p) \/ Serve(p) \/ Disconnect(p) \/ _run_shadow(p)
    PROVE  RequestsInv'
<1>1. ReqsOK /\ StoreOK /\ PolicyOK
    BY DEF RequestsInv
<1>2. ReqsOK'
  <2>1. CASE arrive(p) \/ Disconnect(p) \/ _run_shadow(p)
    BY <1>1, <2>1, ArriveStep, DisconnectStep, ShadowStep
  <2>2. CASE _resolve_model(p) \/ ResolveRouter(p) \/ route(p) \/ Chosen(p) \/ select_preview(p)
    BY <1>1, <2>2, ResolveStep, ResolveRouterStep, RouteStep, ChosenStep, PreviewStep
  <2>3. CASE _refuse_stream_when_response_guarded(p) \/ _guard_request(p) \/ admit(p) \/ get_values(p)
    BY <1>1, <2>3, ScreenStep, GuardStep, AdmitStep, CredentialStep
  <2>4. CASE _cache_get(p) \/ call(p) \/ settle_ok(p) \/ _guard_response(p) \/ _cache_put(p)
    BY <1>1, <2>4, GetStep, CallStep, SettleStep, ResponseStep, PutStep
  <2>5. CASE open_stream(p) \/ _prime(p) \/ _rechain(p) \/ metered_stream(p)
    BY <1>1, <2>5, OpenStep, PrimeStep, RechainStep, StreamStep
  <2>6. CASE release_soon(p) \/ CloseStream(p) \/ _finalize_stream_billing(p)
    BY <1>1, <2>6, ReleaseSoonStep, CloseStep, FinalStep
  <2> QED
    BY <2>1, <2>2, <2>3, <2>4, <2>5, <2>6 DEF Serve
<1>3. StoreOK'
  <2>1. CASE _cache_get(p) \/ _cache_put(p)
    BY <1>1, <2>1, GetStep, PutStep
  <2>2. CASE ~_cache_get(p) /\ ~_cache_put(p)
    <3>1. store' = store
      BY <2>2, StoreQuiet
    <3> QED
      BY <1>1, <3>1 DEF StoreOK
  <2> QED
    BY <2>1, <2>2
<1>4. UNCHANGED <<rules, grants, desk, edits>>
    BY ServeQuiet
<1> QED
    BY <1>2, <1>3, <1>4 DEF RequestsInv, PolicyOK, DesksOK, GrantsOK

\* An entry expires.
LEMMA ExpireStep ==
    ASSUME RequestsInv, Expire
    PROVE  RequestsInv'
<1>1. PICK j \in DOMAIN store : store' = Without(store[j].key)
    BY DEF Expire
<1>2. EntriesOK(Without(store[j].key))
    BY ExpireKeeps DEF RequestsInv
<1>3. UNCHANGED <<rules, grants, req, desk, edits>>
    BY DEF Expire
<1>4. StoreOK'
    BY <1>1, <1>2 DEF StoreOK
<1>5. ASSUME NEW x \in Procs, NEW q, q = req'[x]
      PROVE  q \in {Idle} \cup Clients \/ ReqOK(q)'
    BY <1>3, <1>5, ReqFrame DEF RequestsInv, ReqsOK
<1>6. ReqsOK'
    BY <1>3, <1>5 DEF RequestsInv, ReqsOK
<1> QED
    BY <1>3, <1>4, <1>6 DEF RequestsInv, PolicyOK, DesksOK, GrantsOK

\* Every step of the service keeps the invariant.
LEMMA RequestsStep ==
    ASSUME RequestsInv, [RequestsNext]_requestVars
    PROVE  RequestsInv'
<1>1. ASSUME NEW p \in Procs, arrive(p) \/ Serve(p) \/ Disconnect(p) \/ _run_shadow(p)
      PROVE  RequestsInv'
    BY <1>1, RequestStep
<1>2. ASSUME NEW d \in Desks, create_rule(d)
      PROVE  RequestsInv'
  <2>1. UNCHANGED <<rules, store, req>>
    BY <1>2 DEF create_rule
  <2> QED
    BY <1>2, <2>1, CreateStep, NothingWritten DEF RequestsInv
<1>3. ASSUME NEW d \in Desks, update_rule(d)
      PROVE  RequestsInv'
  <2>1. UNCHANGED <<rules, store, req>>
    BY <1>3 DEF update_rule
  <2> QED
    BY <1>3, <2>1, UpdateRuleStep, NothingWritten DEF RequestsInv
<1>4. ASSUME NEW d \in Desks, add(d) \/ update(d)
      PROVE  RequestsInv'
    BY <1>4, AddStep, UpdateStep
<1>5. CASE delete_rule
    BY <1>5, DeleteStep
<1>6. CASE update_model
  <2>1. UNCHANGED <<rules, grants, store, req, desk>> /\ edits > 0 /\ edits' = edits - 1
    BY <1>6 DEF update_model
  <2> QED
    BY <2>1, NothingWritten, EditsLeft DEF RequestsInv, DesksOK
<1>7. CASE change_grant
  <2>1. UNCHANGED <<rules, store, req, desk>>
    BY <1>7 DEF change_grant
  <2> QED
    BY <1>7, <2>1, NothingWritten, GrantStep DEF RequestsInv, DesksOK
<1>8. CASE Expire
    BY <1>8, ExpireStep
<1>9. CASE UNCHANGED requestVars
  <2>1. UNCHANGED <<rules, grants, store, req, desk, edits>>
    BY <1>9 DEF requestVars
  <2> QED
    BY <2>1, NothingWritten DEF RequestsInv, DesksOK, GrantsOK
<1> QED
    BY <1>1, <1>2, <1>3, <1>4, <1>5, <1>6, <1>7, <1>8, <1>9 DEF RequestsNext, Operate

LEMMA RequestsStart ==
    ASSUME RequestsInit
    PROVE  RequestsInv
<1>1. ReqsOK
    BY DEF RequestsInit, ReqsOK
<1>2. StoreOK
  <2>1. store \in Seq({}) /\ Len(store) = 0
    BY DEF RequestsInit
  <2>2. Len(store) <= MaxEntries
    BY <2>1, BoundAssumption
  <2>3. \A e \in {} : EntryOK(e)
    OBVIOUS
  <2> QED
    BY <2>1, <2>2, <2>3 DEF StoreOK, EntriesOK
<1>3. PolicyOK
    BY RulesAssumption DEF RequestsInit, PolicyOK
<1>4. DesksOK
    BY DEF RequestsInit, DesksOK, DeskOK
<1>5. GrantsOK
  <2>1. edits \in Nat /\ edits <= MaxEdits
    BY BoundAssumption DEF RequestsInit
  <2>2. grants = [r \in Routers |-> [live |-> TRUE, rev |-> 0, ack |-> TRUE]]
    BY DEF RequestsInit
  <2> QED
    BY <2>1, <2>2 DEF GrantsOK
<1> QED
    BY <1>1, <1>2, <1>3, <1>4, <1>5 DEF RequestsInv

\* Whatever requests, operators and the cache's expiry interleave, every
\* request under way is in a sound place of its coroutine: what it claimed,
\* billed, screened, replayed and routed so far fits where it waits
\* (completion_service.py, usage_meter.py).
THEOREM RequestsInvariant == RequestsSpec => []RequestsInv
<1>1. RequestsInit => RequestsInv
    BY RequestsStart
<1>2. RequestsInv /\ [RequestsNext]_requestVars => RequestsInv'
    BY RequestsStep
<1> QED
    BY <1>1, <1>2, PTL DEF RequestsSpec

-----------------------------------------------------------------------------
(* What the invariant says.                                                *)

\* A request under way is a sound one.
LEMMA OpenOK ==
    ASSUME RequestsInv, NEW p \in Procs, Open(p)
    PROVE  ReqOK(req[p])
BY UnderWay DEF RequestsInv, Open

LEMMA AccountedState ==
    ASSUME RequestsInv
    PROVE  AccountedOnce
<1>1. RequestsTypeOK
  <2>1. \A r \in Routers : grants[r] \in [live : BOOLEAN, rev : 0 .. MaxEdits, ack : BOOLEAN]
    <3> SUFFICES ASSUME NEW r \in Routers
                 PROVE  grants[r] \in [live : BOOLEAN, rev : 0 .. MaxEdits, ack : BOOLEAN]
      OBVIOUS
    <3>1. /\ grants[r] \in [live : BOOLEAN, rev : Nat, ack : BOOLEAN]
          /\ grants[r].rev + edits <= MaxEdits /\ edits \in Nat
      BY DEF RequestsInv, GrantsOK
    <3>2. grants[r].rev \in 0 .. MaxEdits
      BY <3>1, BoundAssumption
    <3> QED
      BY <3>1, <3>2
  <2>2. Stored \subseteq Rules /\ Len(store) <= MaxEntries
    BY StoredRules DEF RequestsInv, StoreOK, EntriesOK
  <2>3. ASSUME NEW p \in Procs, Open(p)
        PROVE  TypesOK(req[p])
    BY <2>3, OpenOK DEF ReqOK
  <2> QED
    BY <2>1, <2>2, <2>3 DEF RequestsTypeOK, TypesOK
<1>2. ASSUME NEW p \in Procs, Open(p), NEW q, q = req[p]
      PROVE  /\ q.rel <= 1
             /\ q.rel = 1 => ~q.held /\ q.teamHits = 1
             /\ q.out = "blocked" => q.teamHits = 0 /\ q.rel = 0 /\ q.rows = <<>>
  <2>1. ReqOK(q)
    BY <1>2, OpenOK
  <2>2. NoClaim(q) \/ ClaimOut(q) \/ ClaimLeaving(q) \/ ClaimBack(q)
    BY <2>1 DEF ReqOK, TypesOK, ClaimOK, ReqPlaces, Unadmitted, Unanswered, Streaming, Ending
  <2>3. q.out = "blocked" => NoClaim(q) /\ q.teamHits = 0 /\ q.rows = <<>>
    BY <2>1 DEF ReqOK, ClaimOK
  <2> QED
    BY <2>2, <2>3 DEF NoClaim, ClaimOut, ClaimLeaving, ClaimBack
<1>3. ReleasedOnce /\ BlockedIsFree
    BY <1>2 DEF ReleasedOnce, BlockedIsFree
<1>4. ASSUME NEW p \in Procs, Open(p), req[p].pc = "done", NEW q, q = req[p]
      PROVE  /\ Len(q.rows) <= 1
             /\ ~q.called /\ q.hit = {} => q.rows = <<>>
             /\ q.ended = "rejected" => q.rows = <<>>
             /\ q.hit # {} => q.rows = <<"hit">> /\ ~q.called
             /\ q.out \in {"ok", "withheld"} /\ ~q.lost => Len(q.rows) = 1
             /\ q.called /\ q.usage = "tokens" /\ ~q.lost => q.rows = <<"real">>
    BY <1>4, OpenOK DEF ReqOK, RowsOK, SettledRows
<1>5. BilledForCalls
    BY <1>4 DEF BilledForCalls
<1>6. ASSUME NEW p \in Procs, Open(p), NEW q, q = req[p]
      PROVE  q.keyHits <= 1 /\ (q.called /\ Keyed(q) => q.keyHits = 1)
  <2>1. q.keyHits \in {0, 1} /\ (q.called = TRUE /\ Keyed(q) => q.keyHits = 1)
    BY <1>6, OpenOK DEF ReqOK, KeyOK
  <2>2. q.called \in BOOLEAN
    BY <1>6, OpenOK DEF ReqOK, RowsOK
  <2>3. q.keyHits <= 1
    BY <2>1
  <2> QED
    BY <2>1, <2>2, <2>3
<1>7. OneKeyHit
    BY <1>6 DEF OneKeyHit
<1> QED
    BY <1>1, <1>3, <1>5, <1>7 DEF AccountedOnce

LEMMA ScreenedState ==
    ASSUME RequestsInv
    PROVE  ContentScreened
<1>1. ASSUME NEW p \in Procs, Open(p), NEW q, q = req[p]
      PROVE  /\ q.in.via.scoped \/ q.router = NoScope => \A x \in q.post \ q.open : x.watch \notin q.got
             /\ \A x \in q.pre \ q.open : x.watch \notin q.sent
    BY <1>1, OpenOK DEF ReqOK, ScreenOK, Scoped, Clean
<1>2. Screened /\ PromptScreened
    BY <1>1 DEF Screened, PromptScreened
<1>3. StoredIsScreened
  <2>1. PICK S : store \in Seq(S) /\ \A e \in S : EntryOK(e)
    BY DEF RequestsInv, StoreOK, EntriesOK
  <2> QED
    BY <2>1 DEF StoredIsScreened, EntryOK
<1>4. ASSUME NEW p \in Procs, Open(p), NEW q, q = req[p], NEW w \in q.hit
      PROVE  /\ <<w.team, w.key, w.op, w.model>> = <<q.in.team, q.in.key, q.in.via.op, q.model>>
             /\ <<w.prompt, w.text, w.body.n, w.hot>> = <<q.in.prompt, q.text, q.body.n, Hot(q)>>
             /\ Hot(q) => q.conf.cache = "any"
  <2>1. ReqOK(q)
    BY <1>4, OpenOK
  <2>2. w = Who(q) /\ is_cacheable(q) /\ BodyWhole(q.body)
    BY <1>4, <2>1 DEF ReqOK, HitOK, TypesOK
  <2>3. [q.body EXCEPT !.stream = FALSE].n = q.body.n
    BY <2>2 DEF BodyWhole, BodyFields
  <2> QED
    BY <2>2, <2>3 DEF Who, is_cacheable
<1>5. ReplayedToOwner
    BY <1>4 DEF ReplayedToOwner
<1> QED
    BY <1>2, <1>3, <1>5 DEF ContentScreened

\* Content that a rule refuses goes nowhere, for any rules, requests, answers
\* and failures of the guardrails, while operators edit the policy: what a rule
\* in force looks for reaches neither the provider nor the caller nor the cache,
\* and an answer is replayed only to who bought it (_guard_request,
\* _guard_response, derive_cache_key).
THEOREM ContentIsScreened == RequestsSpec => []ContentScreened
<1>1. RequestsInv => ContentScreened
    BY ScreenedState
<1> QED
    BY <1>1, RequestsInvariant, PTL

\* Every request is accounted for once, on every path: one release of its
\* claim, one row for an answer, one hit of its key's window, and nothing at
\* all when a request rule blocks it (UsageMeter.release, settle, admit).
THEOREM RequestsAccountedOnce == RequestsSpec => []AccountedOnce
<1>1. RequestsInv => AccountedOnce
    BY AccountedState
<1> QED
    BY <1>1, RequestsInvariant, PTL

\* Whatever the strategy did, a routed request got a capable candidate and is
\* not refused by the policy afterwards, and the rules stay readable however
\* the operators' checks and writes interleave (_validated_router,
\* filter_candidates, the unique name of a rule).
THEOREM RoutedAndReadable == RequestsSpec => [](RoutedCapable /\ RoutedIsAccepted /\ PolicyReadable)
<1>1. RequestsInv => RoutedCapable /\ RoutedIsAccepted /\ PolicyReadable
  <2> SUFFICES ASSUME RequestsInv PROVE RoutedCapable /\ RoutedIsAccepted /\ PolicyReadable
    OBVIOUS
  <2>1. ASSUME NEW p \in Procs, Open(p), NEW q, q = req[p]
        PROVE  /\ q.router # NoScope /\ q.model # NoModel =>
                    \E c \in RouterDef[q.router].cands : c.model = q.model /\ q.in.needs \subseteq c.caps
               /\ q.router # NoScope => q.cut # "policy"
    BY <2>1, OpenOK DEF ReqOK, RouteOK
  <2>2. RoutedCapable
    BY <2>1 DEF RoutedCapable
  <2>3. RoutedIsAccepted
    BY <2>1 DEF RoutedIsAccepted
  <2>4. PolicyReadable
    BY DEF RequestsInv, PolicyOK, PolicyReadable
  <2> QED
    BY <2>2, <2>3, <2>4
<1> QED
    BY <1>1, RequestsInvariant, PTL

-----------------------------------------------------------------------------
(* The reservation: what the provider is asked for, and what was put aside. *)

AskedOf(q) ==
    IF SpeaksChat(q) THEN AskedFor(ModelProvider(q.model), ChatBody(q))
    ELSE {q.body.caps[f] : f \in DOMAIN q.body.caps
             \cap IF IsNative(q) THEN {NativeField(q.in.via.native)} ELSE {"max_output_tokens"}}

\* The body is the client's, clamped to what the model was set to when it was resolved.
Fits(q) ==
    /\ q.body = IF IsNative(q)
                THEN clamp_native_output_tokens(ModelProvider(q.model), Body(q.in), q.conf.ceiling)
                ELSE clamp_output_tokens(q.in.via.op, Body(q.in), q.conf.ceiling)
    /\ q.conf.ceiling \in Int \cup {NoCeiling}
    /\ ModelType[q.model] = q.in.via.type

Home(q) == IsNative(q) => ModelProvider(q.model) = q.in.via.native

CoverOK(q) ==
    /\ q.pc \in Unbound => q.body = Body(q.in)
    /\ q.pc \notin Unbound \cup {"done"} \/ q.called = TRUE => Fits(q)
    /\ q.pc \notin Unbound \cup {"screen", "guard", "done"} \/ q.called = TRUE => Home(q)
    /\ q.pc \notin Unadmitted \cup {"done"} \/ q.called = TRUE => q.reserved = Reserves(q)
    /\ q.called = TRUE => q.asked = AskedOf(q)

ModelsOK == models = [m \in Models |-> models[m]] /\ \A m \in Models : models[m].ceiling \in Int \cup {NoCeiling}

CoverInv == ModelsOK /\ \A p \in Procs : Open(p) => CoverOK(req[p])

-----------------------------------------------------------------------------
(* The limits: one that is named and positive is the one that is read.     *)

LEMMA LesserOf ==
    ASSUME NEW a \in Int, NEW b \in Int
    PROVE  /\ Lesser(a, b) \in Int /\ Lesser(a, b) <= a /\ Lesser(a, b) <= b
           /\ a # 0 /\ b # 0 => Lesser(a, b) # 0
BY DEF Lesser

LEMMA EnoughFor ==
    ASSUME NEW c \in Nat, NEW n \in Int, NEW k \in Int, n <= k
    PROVE  c * k >= n * c
<1>1. \A d \in Nat : c * d >= 0
    OBVIOUS
<1>2. k - n \in Nat /\ c * k = c * n + c * (k - n)
    OBVIOUS
<1>3. c * (k - n) >= 0
    BY <1>1, <1>2
<1>4. c * n \in Int /\ c * (k - n) \in Int /\ n * c = c * n
    OBVIOUS
<1> QED
    BY <1>2, <1>3, <1>4

\* _max_output_tokens reads max_tokens first, and else the one there is.
LEMMA ReadsLimit ==
    ASSUME NEW b, NEW f \in DOMAIN b.caps, b.caps[f] \in Int, b.caps[f] > 0,
           \/ f = "max_tokens"
           \/ (f \in {"max_completion_tokens", "max_output_tokens"} /\ DOMAIN b.caps = {f})
    PROVE  _max_output_tokens(b) = b.caps[f]
<1> DEFINE S == {j \in DOMAIN TokenFields : TokenFields[j] \in DOMAIN b.caps /\ b.caps[TokenFields[j]] > 0}
<1>1. /\ DOMAIN TokenFields = 1 .. 3
      /\ TokenFields[1] = "max_tokens" /\ TokenFields[2] = "max_completion_tokens"
      /\ TokenFields[3] = "max_output_tokens"
    BY DEF TokenFields
<1>2. PICK k \in 1 .. 3 : TokenFields[k] = f
    BY <1>1
<1>3. k \in S
    BY <1>1, <1>2
<1>4. \A j \in S : j \in 1 .. 3 /\ k <= j
  <2> SUFFICES ASSUME NEW j \in S PROVE j \in 1 .. 3 /\ k <= j
    OBVIOUS
  <2>1. j \in 1 .. 3 /\ TokenFields[j] \in DOMAIN b.caps
    BY <1>1
  <2>2. CASE f = "max_tokens"
    <3>1. k = 1
      BY <1>1, <1>2, <2>2
    <3> QED
      BY <2>1, <3>1
  <2>3. CASE DOMAIN b.caps = {f}
    <3>1. TokenFields[j] = TokenFields[k]
      BY <1>2, <2>1, <2>3
    <3>2. j = k
      BY <1>1, <2>1, <3>1
    <3> QED
      BY <2>1, <3>2
  <2> QED
    BY <2>2, <2>3
<1>5. (CHOOSE x \in S : \A j \in S : x <= j) = k
  <2> DEFINE x == CHOOSE y \in S : \A j \in S : y <= j
  <2>1. x \in S /\ \A j \in S : x <= j
    BY <1>3, <1>4
  <2>2. x <= k /\ k <= x /\ x \in 1 .. 3
    BY <1>3, <1>4, <2>1
  <2> HIDE DEF x
  <2>3. x = k
    BY <1>2, <2>2
  <2> QED
    BY <2>3 DEF x
<1> QED
    BY <1>2, <1>3, <1>5 DEF _max_output_tokens

\* What is read is never below zero.
LEMMA ReadsNat ==
    ASSUME NEW b, \A f \in DOMAIN b.caps : b.caps[f] \in Int
    PROVE  _max_output_tokens(b) \in Nat
<1> DEFINE S == {j \in DOMAIN TokenFields : TokenFields[j] \in DOMAIN b.caps /\ b.caps[TokenFields[j]] > 0}
           x == CHOOSE y \in S : \A j \in S : y <= j
<1>1. DOMAIN TokenFields = 1 .. 3
    BY DEF TokenFields
<1>2. _max_output_tokens(b) = IF S = {} THEN 0 ELSE b.caps[TokenFields[x]]
    BY DEF _max_output_tokens
<1>3. CASE S = {}
    BY <1>2, <1>3
<1>4. ASSUME S # {}
      PROVE  x \in S
  <2>1. \A j \in S : j \in 1 .. 3
    BY <1>1
  <2> HIDE DEF S
  <2>2. CASE 1 \in S
    BY <2>1, <2>2
  <2>3. CASE 1 \notin S /\ 2 \in S
    <3>1. \A j \in S : 2 <= j
      BY <2>1, <2>3
    <3> QED
      BY <2>3, <3>1
  <2>4. CASE 1 \notin S /\ 2 \notin S
    <3>1. \A j \in S : j = 3
      BY <2>1, <2>4
    <3>2. 3 \in S /\ \A j \in S : 3 <= j
      BY <1>4, <3>1
    <3> QED
      BY <3>2
  <2> QED
    BY <2>2, <2>3, <2>4
<1>5. CASE S # {}
  <2>1. x \in S
    BY <1>4, <1>5
  <2> HIDE DEF x
  <2>2. b.caps[TokenFields[x]] \in Int /\ b.caps[TokenFields[x]] > 0
    BY <2>1
  <2> QED
    BY <1>2, <1>5, <2>2
<1> QED
    BY <1>3, <1>5

\* A reservation of tokens is once the limit for every completion.
LEMMA ReservesEnough ==
    ASSUME NEW b, b.n \in Nat, NEW c \in Int, \A f \in DOMAIN b.caps : b.caps[f] \in Int,
           c > 0 => _max_output_tokens(b) = c, NEW t, t # "image"
    PROVE  _reservation_cost(t, b) >= b.n * c
<1> DEFINE k == Completions(b)
           d == _max_output_tokens(b)
<1>1. _reservation_cost(t, b) = d * k
    BY DEF _reservation_cost
<1>2. k \in Nat /\ b.n <= k
    BY DEF Completions
<1>3. d \in Nat /\ (c > 0 => d = c)
    BY ReadsNat
<1> HIDE DEF k, d
<1>4. CASE c > 0
  <2>1. c \in Nat /\ d = c
    BY <1>3, <1>4
  <2> QED
    BY <1>1, <1>2, <2>1, EnoughFor
<1>5. CASE c <= 0
  <2>1. d * k >= 0
    BY <1>2, <1>3
  <2>2. -c \in Nat /\ b.n * (-c) >= 0
    BY <1>5
  <2>3. b.n * (-c) = -(b.n * c) /\ b.n * c \in Int
    OBVIOUS
  <2>4. d * k \in Int
    BY <1>2, <1>3
  <2> QED
    BY <1>1, <2>1, <2>2, <2>3, <2>4
<1> QED
    BY <1>4, <1>5

LEMMA ChatOperations ==
    ASSUME NEW i \in Inputs, i.via.type = "chat"
    PROVE  \/ i.via.native = "none" /\ i.via.op \in {"chat", "responses"}
           \/ i.via.native \in {"anthropic", "vertex"} /\ i.via.op \notin {"chat", "responses"}
<1> DEFINE Good(o) == \/ o.type # "chat"
                      \/ o.native = "none" /\ o.op \in {"chat", "responses"}
                      \/ o.native \in {"anthropic", "vertex"} /\ o.op \notin {"chat", "responses"}
<1>1. Good(chat_completion) /\ Good(open_chat_stream) /\ Good(compare)
    BY DEF chat_completion, open_chat_stream, compare
<1>2. Good(responses) /\ Good(open_responses_stream)
    BY DEF chat_completion, responses, open_responses_stream
<1>3. Good(embeddings_op) /\ Good(images)
    BY DEF chat_completion, embeddings_op, images
<1>4. Good(native_messages) /\ Good(open_native_messages_stream)
    BY DEF chat_completion, native_messages, open_native_messages_stream
<1>5. Good(generate_content) /\ Good(open_generate_content_stream)
    BY DEF chat_completion, generate_content, open_generate_content_stream
<1>6. i.via \in Operations
    BY InputAssumption
<1> HIDE DEF Good
<1>7. Good(i.via)
    BY <1>1, <1>2, <1>3, <1>4, <1>5, <1>6 DEF Operations
<1> QED
    BY <1>7 DEF Good

LEMMA AtMostOne ==
    ASSUME NEW S, IsFiniteSet(S), Cardinality(S) <= 1
    PROVE  S = {} \/ \E x : S = {x}
<1>1. Cardinality(S) \in Nat
    BY FS_CardinalityType
<1>2. Cardinality(S) = 0 \/ Cardinality(S) = 1
    BY <1>1
<1> QED
    BY <1>2, FS_EmptySet, FS_Singleton

\* What is left of the client's limits on the OpenAI surface.
LEMMA BodyLimits ==
    ASSUME NEW i \in Inputs, i.via.native = "none", i.via.op \in {"chat", "responses"}
    PROVE  /\ Body(i).n \in Int
           /\ Body(i).caps = [f \in DOMAIN i.caps \cap AllowedFields(i.via.op) |-> Lesser(i.caps[f], MaxTokens)]
           /\ \A f \in DOMAIN Body(i).caps :
                Body(i).caps[f] \in Int /\ (i.caps[f] # 0 => Body(i).caps[f] # 0)
           /\ BodyWhole(Body(i))
<1> DEFINE r == [feats |-> i.feats, conv |-> i.conv, stream |-> i.via.stream, n |-> i.n, caps |-> i.caps]
           c == [f \in DOMAIN i.caps \cap AllowedFields(i.via.op) |-> Lesser(i.caps[f], MaxTokens)]
<1>1. Body(i) = sanitize_request(i.via.op, r)
    BY DEF Body
<1>2. r.n \in Int /\ r.caps = i.caps /\ \A f \in DOMAIN i.caps : i.caps[f] \in Int
    BY InputAssumption
<1>3. MaxN \in Int /\ MaxTokens \in Int /\ MaxTokens > 0
    BY PolicyAssumption
<1>4. sanitize_request(i.via.op, r).caps = c
    BY <1>2 DEF sanitize_request
<1>5. sanitize_request(i.via.op, r).n \in Int
    BY <1>2, <1>3, LesserOf DEF sanitize_request
<1>6. ASSUME NEW f \in DOMAIN c
      PROVE  c[f] \in Int /\ (i.caps[f] # 0 => c[f] # 0)
  <2>1. i.caps[f] \in Int /\ c[f] = Lesser(i.caps[f], MaxTokens)
    BY <1>2
  <2>2. MaxTokens # 0
    BY <1>3
  <2> HIDE DEF c
  <2> QED
    BY <1>3, <2>1, <2>2, LesserOf
<1>7. BodyWhole(Body(i))
    BY FreshFields DEF Fresh
<1> HIDE DEF c, r
<1> QED
    BY <1>1, <1>4, <1>5, <1>6, <1>7 DEF c

\* No limit of the client, nor the model's, is zero.
NoneZero(i, C) == C # 0 /\ \A f \in DOMAIN i.caps : i.caps[f] # 0

LEMMA OpenAILimit ==
    ASSUME NEW i \in Inputs, i.via.native = "none", i.via.op \in {"chat", "responses"},
           Cardinality(DOMAIN i.caps) <= 1,
           NEW C \in Int \cup {NoCeiling}, NEW b, b = clamp_output_tokens(i.via.op, Body(i), C)
    PROVE  /\ b.n \in Int
           /\ BodyWhole(b)
           /\ \/ C = NoCeiling /\ DOMAIN b.caps = {}
              \/ \E f \in AllowedFields(i.via.op) :
                   /\ DOMAIN b.caps = {f} /\ b.caps[f] \in Int
                   /\ C # NoCeiling => b.caps[f] <= C
                   /\ NoneZero(i, C) => b.caps[f] # 0
<1> DEFINE a == Body(i)
           A == AllowedFields(i.via.op)
           Z == NoneZero(i, C)
<1>1. /\ a.n \in Int /\ BodyWhole(a)
      /\ DOMAIN a.caps = DOMAIN i.caps \cap A
      /\ \A f \in DOMAIN a.caps : a.caps[f] \in Int /\ (Z => a.caps[f] # 0)
    BY BodyLimits DEF NoneZero
<1>2. DOMAIN a.caps = {} \/ \E f \in A : DOMAIN a.caps = {f}
  <2>1. DOMAIN i.caps = {} \/ \E f : DOMAIN i.caps = {f}
    BY AtMostOne, InputAssumption
  <2> QED
    BY <1>1, <2>1
<1>3. \A c : LET x == [a EXCEPT !.caps = c] IN x.n = a.n /\ x.caps = c /\ BodyWhole(x)
    BY <1>1 DEF BodyWhole, BodyFields
<1>4. \E g \in A : OutputField(i.via.op) = {g}
    BY DEF OutputField, AllowedFields
<1>5. b = clamp_output_tokens(i.via.op, a, C)
    OBVIOUS
<1>9. Z => C # 0
    BY DEF NoneZero
<1> HIDE DEF a, A, Z
<1>6. CASE C = NoCeiling
  <2>1. b = a
    BY <1>5, <1>6 DEF clamp_output_tokens
  <2> QED
    BY <1>1, <1>2, <1>6, <2>1 DEF A, Z
<1>7. CASE C # NoCeiling /\ DOMAIN a.caps # {}
  <2> DEFINE c == [f \in DOMAIN a.caps |-> Lesser(a.caps[f], C)]
  <2>1. b = [a EXCEPT !.caps = c]
    BY <1>5, <1>7 DEF clamp_output_tokens
  <2>2. PICK f \in A : DOMAIN a.caps = {f}
    BY <1>2, <1>7
  <2>3. DOMAIN c = {f} /\ c[f] = Lesser(a.caps[f], C)
    BY <2>2
  <2> HIDE DEF c
  <2>4. a.caps[f] \in Int /\ (Z => a.caps[f] # 0) /\ C \in Int
    BY <1>1, <1>7, <2>2
  <2>5. c[f] \in Int /\ c[f] <= C /\ (Z => c[f] # 0)
    BY <1>9, <2>3, <2>4, LesserOf
  <2>6. b.caps = c /\ b.n = a.n /\ BodyWhole(b)
    BY <1>3, <2>1
  <2> QED
    BY <1>1, <2>3, <2>5, <2>6 DEF A, Z
<1>8. CASE C # NoCeiling /\ DOMAIN a.caps = {}
  <2> DEFINE c == [f \in OutputField(i.via.op) |-> C]
  <2>1. b = [a EXCEPT !.caps = c]
    BY <1>5, <1>8 DEF clamp_output_tokens
  <2>2. PICK f \in A : OutputField(i.via.op) = {f}
    BY <1>4
  <2>3. DOMAIN c = {f} /\ c[f] = C
    BY <2>2
  <2> HIDE DEF c
  <2>4. b.caps = c /\ b.n = a.n /\ BodyWhole(b)
    BY <1>3, <2>1
  <2>5. C \in Int
    BY <1>8
  <2> QED
    BY <1>1, <1>9, <2>3, <2>4, <2>5 DEF A, Z
<1> QED
    BY <1>6, <1>7, <1>8

\* What is left of the client's limit on a native surface.
LEMMA NativeLimit ==
    ASSUME NEW i \in Inputs, i.via.native \in {"anthropic", "vertex"},
           NEW C \in Int \cup {NoCeiling}, NEW b, b = clamp_native_output_tokens(i.via.native, Body(i), C)
    PROVE  /\ b.n \in Int
           /\ BodyWhole(b)
           /\ \A g \in DOMAIN b.caps : b.caps[g] \in Int
           /\ LET f == NativeField(i.via.native)
              IN \/ C = NoCeiling /\ f \notin DOMAIN b.caps
                 \/ f \in DOMAIN b.caps /\ (C # NoCeiling => b.caps[f] <= C)
<1> DEFINE a == Body(i)
           f == NativeField(i.via.native)
           top == _native_effective_ceiling(C)
<1>1. a.n \in Int /\ a.caps = i.caps /\ BodyWhole(a)
  <2>1. a = [feats |-> i.feats, conv |-> i.conv, stream |-> i.via.stream, n |-> i.n, caps |-> i.caps]
    BY DEF Body
  <2>2. i.n \in Int
    BY InputAssumption
  <2> QED
    BY <2>1, <2>2 DEF BodyWhole, BodyFields
<1>2. \A g \in DOMAIN a.caps : a.caps[g] \in Int
    BY <1>1, InputAssumption
<1>3. top \in Int /\ (C # NoCeiling => top <= C)
  <2>1. MaxTokens \in Int
    BY PolicyAssumption
  <2>2. CASE C = NoCeiling
    BY <2>1, <2>2 DEF _native_effective_ceiling
  <2>3. CASE C # NoCeiling
    <3>1. C \in Int
      BY <2>3
    <3>2. Lesser(MaxTokens, C) \in Int /\ Lesser(MaxTokens, C) <= C
      BY <2>1, <3>1, LesserOf
    <3> QED
      BY <2>3, <3>2 DEF _native_effective_ceiling
  <2> QED
    BY <2>2, <2>3
<1>4. \A c : LET x == [a EXCEPT !.caps = c] IN x.n = a.n /\ x.caps = c /\ BodyWhole(x)
    BY <1>1 DEF BodyWhole, BodyFields
<1>5. b = IF f \in DOMAIN a.caps THEN [a EXCEPT !.caps[f] = Lesser(@, top)]
          ELSE IF C = NoCeiling THEN a
          ELSE [a EXCEPT !.caps = [g \in DOMAIN @ \cup {f} |-> IF g = f THEN top ELSE a.caps[g]]]
    BY DEF clamp_native_output_tokens
<1> HIDE DEF a, f, top
<1>6. CASE f \in DOMAIN a.caps
  <2> DEFINE c == [a.caps EXCEPT ![f] = Lesser(@, top)]
  <2>1. b = [a EXCEPT !.caps = c]
    BY <1>5, <1>6
  <2>2. a.caps[f] \in Int
    BY <1>2, <1>6
  <2>3. Lesser(a.caps[f], top) \in Int /\ Lesser(a.caps[f], top) <= top
    BY <1>3, <2>2, LesserOf
  <2>4. f \in DOMAIN c /\ c[f] = Lesser(a.caps[f], top) /\ \A g \in DOMAIN c : c[g] \in Int
    BY <1>2, <1>6, <2>3
  <2> HIDE DEF c
  <2>5. C # NoCeiling => c[f] <= C
    <3>1. C # NoCeiling => C \in Int
      OBVIOUS
    <3> QED
      BY <1>3, <2>3, <2>4, <3>1
  <2>6. b.caps = c /\ b.n = a.n /\ BodyWhole(b)
    BY <1>4, <2>1
  <2> QED
    BY <1>1, <2>4, <2>5, <2>6 DEF f
<1>7. CASE f \notin DOMAIN a.caps /\ C = NoCeiling
  <2>1. b = a
    BY <1>5, <1>7
  <2> QED
    BY <1>1, <1>2, <1>7, <2>1 DEF f
<1>8. CASE f \notin DOMAIN a.caps /\ C # NoCeiling
  <2> DEFINE c == [g \in DOMAIN a.caps \cup {f} |-> IF g = f THEN top ELSE a.caps[g]]
  <2>1. b = [a EXCEPT !.caps = c]
    BY <1>5, <1>8
  <2>2. f \in DOMAIN c /\ c[f] = top /\ \A g \in DOMAIN c : c[g] \in Int
    BY <1>2, <1>3
  <2> HIDE DEF c
  <2>3. b.caps = c /\ b.n = a.n /\ BodyWhole(b)
    BY <1>4, <2>1
  <2> QED
    BY <1>1, <1>3, <2>2, <2>3 DEF f
<1> QED
    BY <1>6, <1>7, <1>8

\* A provider that speaks chat is told the one limit there is.
LEMMA AsksLimit ==
    ASSUME NEW b, NEW f \in {"max_tokens", "max_completion_tokens"}, DOMAIN b.caps = {f}, NEW v,
           b.caps[f] # 0 \/ v \notin Translated
    PROVE  AskedFor(v, b) = {b.caps[f]}
<1>1. CASE v \notin Translated
  <2>1. {b.caps[g] : g \in DOMAIN b.caps} = {b.caps[f]}
    OBVIOUS
  <2> QED
    BY <1>1, <2>1 DEF AskedFor
<1>2. CASE v \in Translated /\ b.caps[f] # 0
  <2>1. FirstLimit(b) = b.caps[f]
    BY <1>2 DEF FirstLimit
  <2> QED
    BY <1>2, <2>1 DEF AskedFor
<1> QED
    BY <1>1, <1>2

\* The emulated request asks for the limit under its chat name.
LEMMA EmulatedLimit ==
    ASSUME NEW b, BodyWhole(b), DOMAIN b.caps = {"max_output_tokens"}
    PROVE  LET x == to_chat_completions(Renamed(b))
           IN /\ BodyWhole(x) /\ DOMAIN x.caps = {"max_tokens"}
              /\ x.caps["max_tokens"] = b.caps["max_output_tokens"]
<1> DEFINE c == [f \in {"max_tokens"} |-> b.caps["max_output_tokens"]]
           r == [b EXCEPT !.caps = c]
<1>1. Renamed(b) = r
    BY DEF Renamed
<1>2. DOMAIN c = {"max_tokens"} /\ c["max_tokens"] = b.caps["max_output_tokens"]
    OBVIOUS
<1> HIDE DEF c
<1>3. BodyWhole(r) /\ r.caps = c
    BY DEF BodyWhole, BodyFields
<1> HIDE DEF r
<1> DEFINE v == _input_to_messages(r.conv)
           x == [r EXCEPT !.conv = v, !.stream = FALSE]
<1>4. to_chat_completions(Renamed(b)) = x
    BY <1>1 DEF to_chat_completions
<1> HIDE DEF v
<1>5. BodyWhole(x) /\ x.caps = c
    BY <1>3 DEF BodyWhole, BodyFields
<1> HIDE DEF x
<1> QED
    BY <1>2, <1>4, <1>5

\* What ReservedCovers says of one request.
Covered(q) ==
    /\ DOMAIN q.body.caps # {} => \A c \in q.asked : q.reserved >= q.body.n * c
    /\ q.conf.ceiling # NoCeiling =>
         q.asked # {} /\ \A c \in q.asked : c <= q.conf.ceiling /\ q.reserved >= q.body.n * c

OneLimit(q) ==
    /\ Cardinality(DOMAIN q.in.caps) <= 1 /\ q.body.n >= 0
    /\ SaysZero(q) => ModelProvider(q.model) \notin Translated \/ IsNative(q)

LEMMA OpenAICovered ==
    ASSUME NEW q, q.in \in Inputs, q.in.via.type = "chat", ~IsNative(q), OneLimit(q),
           Fits(q), q.reserved = Reserves(q), q.asked = AskedOf(q)
    PROVE  Covered(q)
<1> DEFINE b == q.body
           C == q.conf.ceiling
           op == q.in.via.op
<1>1. op \in {"chat", "responses"} /\ q.in.via.native = "none" /\ C \in Int \cup {NoCeiling}
    BY ChatOperations DEF IsNative, Fits
<1>2. b = clamp_output_tokens(op, Body(q.in), C)
    BY DEF Fits
<1>3. /\ b.n \in Int /\ BodyWhole(b)
      /\ \/ C = NoCeiling /\ DOMAIN b.caps = {}
         \/ \E f \in AllowedFields(op) :
              /\ DOMAIN b.caps = {f} /\ b.caps[f] \in Int
              /\ C # NoCeiling => b.caps[f] <= C
              /\ NoneZero(q.in, C) => b.caps[f] # 0
    BY <1>1, <1>2, OpenAILimit DEF OneLimit
<1>4. CASE C = NoCeiling /\ DOMAIN b.caps = {}
    BY <1>4 DEF Covered
<1>5. ASSUME NEW f \in AllowedFields(op), DOMAIN b.caps = {f}, b.caps[f] \in Int,
             C # NoCeiling => b.caps[f] <= C, NoneZero(q.in, C) => b.caps[f] # 0
      PROVE  Covered(q)
  <2>1. f \in {"max_tokens", "max_completion_tokens", "max_output_tokens"}
    BY <1>1 DEF AllowedFields
  <2>2. b.caps[f] > 0 => _max_output_tokens(b) = b.caps[f]
    BY <1>5, <2>1, ReadsLimit
  <2>3. q.reserved >= b.n * b.caps[f]
    <3>1. q.reserved = _reservation_cost(ModelType[q.model], b)
      BY DEF Reserves
    <3>2. ModelType[q.model] # "image"
      BY DEF Fits
    <3>3. b.n \in Nat
      BY <1>3 DEF OneLimit
    <3> QED
      BY <1>5, <2>2, <3>1, <3>2, <3>3, ReservesEnough
  <2>4. b.caps[f] # 0 \/ ModelProvider(q.model) \notin Translated
    BY <1>5 DEF OneLimit, SaysZero, NoneZero
  <2>5. q.asked = {b.caps[f]}
    <3>1. CASE op = "chat"
      <4>1. f \in {"max_tokens", "max_completion_tokens"}
        BY <3>1 DEF AllowedFields
      <4>2. SpeaksChat(q) /\ ChatBody(q) = b
        BY <3>1 DEF SpeaksChat, ChatBody, Emulates
      <4>3. q.asked = AskedFor(ModelProvider(q.model), b)
        BY <4>2 DEF AskedOf
      <4> QED
        BY <1>5, <2>4, <4>1, <4>3, AsksLimit
    <3>2. CASE op = "responses" /\ Emulates(q)
      <4> DEFINE x == to_chat_completions(Renamed(b))
      <4>1. f = "max_output_tokens"
        BY <3>2 DEF AllowedFields
      <4>2. DOMAIN x.caps = {"max_tokens"} /\ x.caps["max_tokens"] = b.caps[f]
        BY <1>3, <1>5, <4>1, EmulatedLimit
      <4>3. q.asked = AskedFor(ModelProvider(q.model), x)
        BY <3>2 DEF AskedOf, SpeaksChat, ChatBody
      <4> HIDE DEF x
      <4> QED
        BY <2>4, <4>2, <4>3, AsksLimit
    <3>3. CASE op = "responses" /\ ~Emulates(q)
      <4>1. f = "max_output_tokens"
        BY <3>3 DEF AllowedFields
      <4>2. ~SpeaksChat(q)
        BY <3>3 DEF SpeaksChat
      <4>3. q.asked = {b.caps[g] : g \in DOMAIN b.caps \cap {"max_output_tokens"}}
        BY <4>2 DEF AskedOf
      <4> QED
        BY <1>5, <4>1, <4>3
    <3> QED
      BY <1>1, <3>1, <3>2, <3>3
  <2> QED
    BY <1>5, <2>3, <2>5 DEF Covered
<1> QED
    BY <1>3, <1>4, <1>5

LEMMA NativeCovered ==
    ASSUME NEW q, q.in \in Inputs, q.in.via.type = "chat", IsNative(q), OneLimit(q),
           Fits(q), Home(q), q.reserved = Reserves(q), q.asked = AskedOf(q)
    PROVE  Covered(q)
<1> DEFINE b == q.body
           C == q.conf.ceiling
           v == q.in.via.native
           f == NativeField(v)
<1>1. v \in {"anthropic", "vertex"} /\ q.in.via.op \notin {"chat", "responses"} /\ C \in Int \cup {NoCeiling}
    BY ChatOperations DEF IsNative, Fits
<1>2. ModelProvider(q.model) = v
    BY DEF Home
<1>3. b = clamp_native_output_tokens(v, Body(q.in), C)
    BY <1>2 DEF Fits
<1>4. /\ b.n \in Nat /\ BodyWhole(b) /\ \A g \in DOMAIN b.caps : b.caps[g] \in Int
      /\ \/ C = NoCeiling /\ f \notin DOMAIN b.caps
         \/ f \in DOMAIN b.caps /\ (C # NoCeiling => b.caps[f] <= C)
  <2>1. b.n >= 0
    BY DEF OneLimit
  <2> HIDE DEF b, C, v, f
  <2>2. b.n \in Int
    BY <1>1, <1>3, NativeLimit DEF v
  <2>3. BodyWhole(b) /\ \A g \in DOMAIN b.caps : b.caps[g] \in Int
    BY <1>1, <1>3, NativeLimit DEF v
  <2>4. \/ C = NoCeiling /\ f \notin DOMAIN b.caps
        \/ f \in DOMAIN b.caps /\ (C # NoCeiling => b.caps[f] <= C)
    BY <1>1, <1>3, NativeLimit DEF v, f
  <2> QED
    BY <2>1, <2>2, <2>3, <2>4
<1>5. q.asked = {b.caps[g] : g \in DOMAIN b.caps \cap {f}}
    BY <1>1 DEF AskedOf, SpeaksChat, Emulates
<1>6. CASE C = NoCeiling /\ f \notin DOMAIN b.caps
  <2>1. q.asked = {}
    BY <1>5, <1>6
  <2> QED
    BY <1>6, <2>1 DEF Covered
<1>7. CASE f \in DOMAIN b.caps /\ (C # NoCeiling => b.caps[f] <= C)
  <2> DEFINE w == native_reservation_view(v, b)
  <2>1. q.asked = {b.caps[f]}
    BY <1>5, <1>7
  <2>2. /\ w.n = b.n /\ \A g \in DOMAIN w.caps : w.caps[g] \in Int
        /\ b.caps[f] > 0 => _max_output_tokens(w) = b.caps[f]
    <3>1. CASE v = "anthropic"
      <4>1. w = b /\ f = "max_tokens"
        BY <3>1 DEF native_reservation_view, NativeField
      <4> QED
        BY <1>4, <1>7, <4>1, ReadsLimit
    <3>2. CASE v = "vertex"
      <4> DEFINE c == [g \in {"max_tokens"} |-> b.caps[f]]
      <4>1. f = "maxOutputTokens"
        BY <3>2 DEF NativeField
      <4>2. w = [b EXCEPT !.caps = c]
        BY <1>7, <3>2, <4>1 DEF native_reservation_view
      <4>3. DOMAIN c = {"max_tokens"} /\ c["max_tokens"] = b.caps[f]
        OBVIOUS
      <4> HIDE DEF c
      <4>4. w.n = b.n /\ w.caps = c
        BY <1>4, <4>2 DEF BodyWhole, BodyFields
      <4>5. c["max_tokens"] \in Int
        BY <1>4, <1>7, <4>3
      <4> HIDE DEF w
      <4> QED
        BY <4>3, <4>4, <4>5, ReadsLimit
    <3> QED
      BY <1>1, <3>1, <3>2
  <2>3. q.reserved = _reservation_cost(ModelType[q.model], w)
    BY <1>2 DEF Reserves
  <2>4. ModelType[q.model] # "image" /\ b.caps[f] \in Int
    BY <1>4, <1>7 DEF Fits
  <2> HIDE DEF w
  <2>5. q.reserved >= b.n * b.caps[f]
    BY <1>4, <2>2, <2>3, <2>4, ReservesEnough
  <2> QED
    BY <1>7, <2>1, <2>5 DEF Covered
<1> QED
    BY <1>4, <1>6, <1>7

-----------------------------------------------------------------------------
(* The reservation's invariant, step by step.                              *)

\* What was resolved, reserved and asked stays as it is.
Kept(q, r) ==
    /\ r.in = q.in /\ r.model = q.model /\ r.conf = q.conf /\ r.body = q.body
    /\ r.called = q.called /\ r.reserved = q.reserved /\ r.asked = q.asked

\* From one place to another that knows no more.
Onward(a, b) ==
    \/ b = "done" \/ a = b
    \/ a \in Unbound /\ b \in Unbound
    \/ a = "screen" /\ b = "guard"
    \/ a \notin Unadmitted \cup {"done"} /\ b \notin Unbound

KeptFields == {"in", "model", "conf", "body", "called", "reserved", "asked"}

LEMMA SameKept ==
    ASSUME NEW q, NEW r, NEW S, Same(q, r, S), S \cap KeptFields = {}
    PROVE  Kept(q, r)
<1>1. \A f \in KeptFields : f \in Fields \ S
    BY FieldNames DEF KeptFields
<1>2. \A f \in KeptFields : r[f] = q[f]
    BY <1>1 DEF Same
<1> QED
    BY <1>2 DEF KeptFields, Kept

LEMMA KeptTrans ==
    ASSUME NEW q, NEW b, NEW r, Kept(q, b), Kept(b, r)
    PROVE  Kept(q, r)
BY DEF Kept

LEMMA KeptCover ==
    ASSUME NEW q, NEW r, CoverOK(q), Kept(q, r), Onward(q.pc, r.pc)
    PROVE  CoverOK(r)
<1>1. /\ r.in = q.in /\ r.model = q.model /\ r.conf = q.conf /\ r.body = q.body
      /\ r.called = q.called /\ r.reserved = q.reserved /\ r.asked = q.asked
    BY DEF Kept
<1>2. /\ Fits(r) = Fits(q) /\ Home(r) = Home(q)
      /\ Reserves(r) = Reserves(q)
    BY <1>1 DEF Fits, Home, Reserves, IsNative
<1>3. AskedOf(r) = AskedOf(q)
    BY <1>1 DEF AskedOf, SpeaksChat, ChatBody, Emulates, IsNative
<1>4. /\ r.pc \in Unbound => q.pc \in Unbound
      /\ r.pc \notin Unbound \cup {"done"} => q.pc \notin Unbound \cup {"done"}
      /\ r.pc \notin Unbound \cup {"screen", "guard", "done"} => q.pc \notin Unbound \cup {"screen", "guard", "done"}
      /\ r.pc \notin Unadmitted \cup {"done"} => q.pc \notin Unadmitted \cup {"done"}
    BY DEF Onward, Unbound, Unadmitted
<1> QED
    BY <1>1, <1>2, <1>3, <1>4 DEF CoverOK

\* A request that was not called and has no model yet, or has ended.
LEMMA UncalledCover ==
    ASSUME NEW q, q.called = FALSE, q.pc = "done" \/ (q.pc \in Unbound /\ q.body = Body(q.in))
    PROVE  CoverOK(q)
BY DEF CoverOK, Unbound, Unadmitted

\* The request at p goes on, or ends, with its reservation in order.
GoesCovered(p) == \E r : Put(p, r) /\ CoverOK(r)

LEMMA KeptGoes ==
    ASSUME NEW p, NEW q, CoverOK(q), NEW r, Kept(q, r), Onward(q.pc, r.pc), Put(p, r)
    PROVE  GoesCovered(p)
BY KeptCover DEF GoesCovered

LEMMA KeptEnds ==
    ASSUME NEW p, NEW q, CoverOK(q), NEW r, Whole(r), Kept(q, r), NEW o, Ends(p, r, o)
    PROVE  GoesCovered(p)
<1> DEFINE d == [r EXCEPT !.pc = "done", !.out = o]
<1>1. Same(r, d, {"pc", "out"}) /\ d.pc = "done"
    BY EndEffect
<1>2. Put(p, d)
    BY DEF Ends
<1> HIDE DEF d
<1>3. Kept(r, d)
    BY <1>1, SameKept DEF KeptFields
<1>4. Onward(q.pc, d.pc)
    BY <1>1 DEF Onward
<1> QED
    BY <1>2, <1>3, <1>4, KeptTrans, KeptGoes

LEMMA KeptMove ==
    ASSUME NEW q, Whole(q), NEW x
    PROVE  LET r == [q EXCEPT !.pc = x] IN Whole(r) /\ Kept(q, r) /\ r.pc = x
BY FieldNames DEF Whole, Kept

LEMMA KeptReleased ==
    ASSUME NEW q, Whole(q)
    PROVE  Whole(Released(q)) /\ Kept(q, Released(q)) /\ Released(q).pc = q.pc
BY FieldNames DEF Whole, Kept, Released

LEMMA KeptBilled ==
    ASSUME NEW q, Whole(q)
    PROVE  Whole(Billed(q)) /\ Kept(q, Billed(q)) /\ Billed(q).pc = q.pc
<1> DEFINE s == Append(q.rows, RowFor(q))
           r == [q EXCEPT !.rows = s]
<1>1. Billed(q) = r
    BY DEF Billed
<1> HIDE DEF s
<1>2. Whole(r) /\ Kept(q, r) /\ r.pc = q.pc
    BY FieldNames DEF Whole, Kept
<1> QED
    BY <1>1, <1>2

\* A request arrives with what the client said.
LEMMA ArriveCover ==
    ASSUME NEW p \in Procs, req[p].in \in Inputs, arrive(p)
    PROVE  GoesCovered(p)
<1> DEFINE i == req[p].in
           q == Opened(i)
<1>1. LET f == Fresh(i)
      IN Whole(f) /\ f.pc = "resolve" /\ f.in = i /\ f.body = Body(i) /\ f.called = FALSE
    BY FreshFields DEF Fresh
<1>2. Whole(q) /\ q.pc \in {"resolve", "preview"} /\ q.in = i /\ q.body = Body(i) /\ q.called = FALSE
  <2> DEFINE f == Fresh(i)
  <2> HIDE DEF f
  <2>1. Whole(f) /\ f.pc = "resolve" /\ f.in = i /\ f.body = Body(i) /\ f.called = FALSE
    BY <1>1 DEF f
  <2>2. q \in {f, [f EXCEPT !.pc = "preview"], enforce_key_rate_limit(f)}
    BY DEF Opened, f
  <2>3. enforce_key_rate_limit(f) \in {f, [f EXCEPT !.keyHits = f.keyHits + 1]}
    BY DEF enforce_key_rate_limit
  <2> DEFINE k == f.keyHits + 1
  <2>4. q \in {f, [f EXCEPT !.pc = "preview"], [f EXCEPT !.keyHits = k]}
    BY <2>2, <2>3
  <2> HIDE DEF k, q
  <2>5. \A r \in {f, [f EXCEPT !.pc = "preview"], [f EXCEPT !.keyHits = k]} :
          Whole(r) /\ r.pc \in {"resolve", "preview"} /\ r.in = i /\ r.body = Body(i) /\ r.called = FALSE
    BY <2>1, FieldNames DEF Whole
  <2> QED
    BY <2>4, <2>5
<1>3. Put(p, q) \/ Ends(p, q, "refused")
    BY DEF arrive
<1> HIDE DEF q
<1>4. CoverOK(q)
    BY <1>2, UncalledCover DEF Unbound
<1>5. Kept(q, q) /\ Onward(q.pc, q.pc)
    BY DEF Kept, Onward
<1> QED
    BY <1>2, <1>3, <1>4, <1>5, KeptGoes, KeptEnds

\* A request that is refused before it was called reserves nothing.
LEMMA RefusedCover ==
    ASSUME NEW p, NEW q, Whole(q), q.called = FALSE, NEW o, Ends(p, q, o)
    PROVE  GoesCovered(p)
<1> DEFINE r == [q EXCEPT !.pc = "done", !.out = o]
<1>1. r.pc = "done" /\ r.called = FALSE
    BY FieldNames DEF Whole
<1>2. Put(p, r)
    BY DEF Ends
<1> HIDE DEF r
<1>3. CoverOK(r)
    BY <1>1 DEF CoverOK, Unbound, Unadmitted
<1> QED
    BY <1>2, <1>3 DEF GoesCovered

\* The model is bound: the body is clamped to what the model is set to.
LEMMA UsableCover ==
    ASSUME ModelsOK, NEW p \in Procs, NEW q, ReqOK(q), CoverOK(q), q.pc \in {"resolve", "chosen"},
           NEW m \in Models, NEW t, Usable(p, q, m, t)
    PROVE  GoesCovered(p)
<1>1. Whole(q) /\ q.called = FALSE /\ q.body = Body(q.in)
    BY DEF ReqOK, RowsOK, Unadmitted, CoverOK, Unbound
<1>2. CASE Cut(q, m) # "none"
  <2> DEFINE c == Cut(q, m)
  <2>1. Ends(p, [q EXCEPT !.cut = c], "refused")
    BY <1>2 DEF Usable
  <2> HIDE DEF c
  <2>2. Whole([q EXCEPT !.cut = c]) /\ [q EXCEPT !.cut = c].called = FALSE
    BY <1>1, FieldNames DEF Whole
  <2> QED
    BY <2>1, <2>2, RefusedCover
<1>3. CASE Cut(q, m) = "none"
  <2> DEFINE x == IF q.in.via.stream THEN "screen" ELSE "guard"
             a == resolve_chain(Stored, m, "request", t)
             z == resolve_chain(Stored, m, "response", t)
             b == Clamped(q, m)
             k == models[m]
             r == [q EXCEPT !.model = m, !.router = t, !.conf = k, !.pre = a, !.post = z,
                            !.body = b, !.pc = x]
  <2>1. Put(p, r)
    BY <1>3 DEF Usable, Bound
  <2>2. x \in {"screen", "guard"}
    OBVIOUS
  <2>3. k.ceiling \in Int \cup {NoCeiling}
    BY DEF ModelsOK
  <2>4. ModelType[m] = q.in.via.type
    BY <1>3 DEF Cut, _ensure_usable
  <2>5. b = IF IsNative(q) THEN clamp_native_output_tokens(ModelProvider(m), Body(q.in), k.ceiling)
            ELSE clamp_output_tokens(q.in.via.op, Body(q.in), k.ceiling)
    BY <1>1 DEF Clamped
  <2> HIDE DEF x, a, z, b, k
  <2>6. r.pc = x /\ r.in = q.in /\ r.model = m /\ r.conf = k /\ r.body = b /\ r.called = FALSE
    BY <1>1, FieldNames DEF Whole
  <2> HIDE DEF r
  <2>7. Fits(r)
    BY <2>3, <2>4, <2>5, <2>6 DEF Fits, IsNative
  <2>8. CoverOK(r)
    BY <2>2, <2>6, <2>7 DEF CoverOK, Unbound, Unadmitted
  <2> QED
    BY <2>1, <2>8 DEF GoesCovered
<1> QED
    BY <1>2, <1>3

\* Before the model is known the request carries what the client said.
LEMMA ResolutionCover ==
    ASSUME ModelsOK, NEW p \in Procs, ReqOK(req[p]), CoverOK(req[p]),
           _resolve_model(p) \/ ResolveRouter(p) \/ route(p) \/ Chosen(p) \/ select_preview(p)
    PROVE  GoesCovered(p)
<1> DEFINE q == req[p]
<1>1. q.pc \in Unbound
    BY DEF _resolve_model, ResolveRouter, route, Chosen, select_preview, Goes, Unbound
<1>2. Whole(q) /\ q.called = FALSE /\ q.body = Body(q.in)
    BY <1>1 DEF ReqOK, RowsOK, Unadmitted, CoverOK, Unbound
<1>3. \A o : Ends(p, q, o) => GoesCovered(p)
    BY <1>2, RefusedCover
<1>4. CASE _resolve_model(p)
    BY <1>3, <1>4, UsableCover DEF _resolve_model, Goes
<1>5. CASE Chosen(p)
  <2>1. q.pc = "chosen" /\ q.model \in Models /\ Usable(p, q, q.model, q.router)
    BY <1>5 DEF Chosen, Goes, ReqOK, RouteOK
  <2> QED
    BY <2>1, UsableCover
<1>6. ASSUME NEW x \in Unbound, NEW t, NEW g, Put(p, [q EXCEPT !.pc = x, !.router = t, !.snap = g])
      PROVE  GoesCovered(p)
  <2> DEFINE r == [q EXCEPT !.pc = x, !.router = t, !.snap = g]
  <2> HIDE DEF q
  <2>1. r.pc = x /\ r.in = q.in /\ r.body = q.body /\ r.called = q.called
    BY <1>2, FieldNames DEF Whole
  <2>2. Put(p, r)
    BY <1>6 DEF q
  <2> HIDE DEF r
  <2> QED
    BY <1>2, <2>1, <2>2, UncalledCover DEF GoesCovered
<1>7. CASE ResolveRouter(p)
  <2>1. \/ Put(p, [q EXCEPT !.pc = "route", !.router = q.alias, !.snap = grants[q.alias]])
        \/ Ends(p, q, "refused")
    BY <1>7 DEF ResolveRouter
  <2>2. "route" \in Unbound
    BY DEF Unbound
  <2> HIDE DEF q
  <2> QED
    BY <1>3, <1>6, <2>1, <2>2
<1>8. ASSUME NEW m, NEW s \in SideCalls(q), NEW x,
             Put(p, [s EXCEPT !.pc = "chosen", !.model = m, !.shadow = x])
      PROVE  GoesCovered(p)
  <2>1. s \in {q, [q EXCEPT !.side = q.side + 1]}
    BY <1>8 DEF SideCalls
  <2> DEFINE k == q.side + 1
             r == [s EXCEPT !.pc = "chosen", !.model = m, !.shadow = x]
  <2>2. Put(p, r)
    BY <1>8
  <2> HIDE DEF k, q
  <2>3. Whole(s) /\ s.in = q.in /\ s.body = q.body /\ s.called = q.called
    BY <1>2, <2>1, FieldNames DEF Whole
  <2>4. r.pc = "chosen" /\ r.in = q.in /\ r.body = q.body /\ r.called = q.called
    BY <2>3, FieldNames DEF Whole
  <2> HIDE DEF r
  <2>5. CoverOK(r)
    BY <1>2, <2>4, UncalledCover DEF Unbound
  <2> QED
    BY <2>2, <2>5 DEF GoesCovered
<1>9. CASE route(p)
  <2>1. \/ Ends(p, q, "refused")
        \/ \E m \in Picks(RouterFor(q), Capable(q)), s \in SideCalls(q) :
             \E x : Put(p, [s EXCEPT !.pc = "chosen", !.model = m, !.shadow = x])
    BY <1>9 DEF route
  <2> QED
    BY <1>3, <1>8, <2>1
<1>10. ASSUME NEW m, Put(p, [q EXCEPT !.pc = "resolve", !.alias = m])
       PROVE  GoesCovered(p)
  <2> DEFINE r == [q EXCEPT !.pc = "resolve", !.alias = m]
  <2>1. Put(p, r)
    BY <1>10
  <2> HIDE DEF q
  <2>2. r.pc = "resolve" /\ r.in = q.in /\ r.body = q.body /\ r.called = q.called
    BY <1>2, FieldNames DEF Whole
  <2> HIDE DEF r
  <2>3. CoverOK(r)
    BY <1>2, <2>2, UncalledCover DEF Unbound
  <2> QED
    BY <2>1, <2>3 DEF GoesCovered
<1>11. CASE select_preview(p)
  <2>1. \/ Ends(p, q, "refused")
        \/ \E m : Put(p, [q EXCEPT !.pc = "resolve", !.alias = m])
    BY <1>11 DEF select_preview
  <2> QED
    BY <1>3, <1>10, <2>1
<1> QED
    BY <1>4, <1>5, <1>7, <1>9, <1>11

\* The guards before the call change the text only, and end at the surface's own provider.
LEMMA GuardCover ==
    ASSUME NEW p \in Procs, ReqOK(req[p]), CoverOK(req[p]),
           _refuse_stream_when_response_guarded(p) \/ _guard_request(p)
    PROVE  GoesCovered(p)
<1> DEFINE q == req[p]
<1>1. Whole(q) /\ (q.pc \in {"screen", "guard"} => q.called = FALSE)
    BY DEF ReqOK, RowsOK, Unadmitted
<1>2. ASSUME q.pc = "screen", NEW c, Put(p, [q EXCEPT !.pc = "guard", !.open = @ \cup c])
      PROVE  GoesCovered(p)
  <2> DEFINE o == q.open \cup c
             r == [q EXCEPT !.pc = "guard", !.open = o]
  <2>1. Put(p, r) /\ q.pc = "screen" /\ CoverOK(q)
    BY <1>2
  <2> HIDE DEF q, o
  <2>2. Kept(q, r) /\ r.pc = "guard"
    BY <1>1, FieldNames DEF Whole, Kept
  <2> HIDE DEF r
  <2>3. Onward(q.pc, r.pc)
    BY <2>1, <2>2 DEF Onward
  <2> QED
    BY <2>1, <2>2, <2>3, KeptGoes
<1>3. CASE _refuse_stream_when_response_guarded(p)
  <2>1. q.pc = "screen" /\ Whole(q) /\ q.called = FALSE
    BY <1>1, <1>3 DEF _refuse_stream_when_response_guarded, Goes
  <2>2. \/ Ends(p, q, "blocked")
        \/ \E c : Put(p, [q EXCEPT !.pc = "guard", !.open = @ \cup c])
    BY <1>3 DEF _refuse_stream_when_response_guarded
  <2> HIDE DEF q
  <2> QED
    BY <1>2, <2>1, <2>2, RefusedCover
<1>4. ASSUME q.pc = "guard", NEW s, NEW c
      PROVE  LET j == [Judged(q, s) EXCEPT !.open = @ \cup c]
             IN Whole(j) /\ Kept(q, j) /\ j.pc = "guard"
  <2> DEFINE h == Judged(q, s)
  <2>1. Same(q, h, {"side"})
    BY <1>1, JudgedEffect
  <2>2. Whole(h) /\ Kept(q, h) /\ h.pc = "guard"
    <3>1. Kept(q, h)
      BY <2>1, SameKept DEF KeptFields
    <3>2. Whole(h) /\ h.pc = q.pc
      BY <2>1, FieldNames DEF Same
    <3> QED
      BY <1>4, <3>1, <3>2
  <2> HIDE DEF h
  <2> DEFINE o == h.open \cup c
             j == [h EXCEPT !.open = o]
  <2> HIDE DEF o
  <2>3. Whole(j) /\ Kept(h, j) /\ j.pc = "guard"
    BY <2>2, FieldNames DEF Whole, Kept
  <2>4. Kept(q, j)
    BY <2>2, <2>3, KeptTrans
  <2> QED
    BY <2>3, <2>4 DEF h, o
<1>5. ASSUME q.pc = "guard", NEW j, Whole(j), Kept(q, j), j.pc = "guard",
             \/ Ends(p, j, "blocked")
             \/ \E t : Put(p, AfterGuard([j EXCEPT !.text = t]))
      PROVE  GoesCovered(p)
  <2>1. q.pc = "guard" /\ Kept(q, j) /\ CoverOK(q)
    BY <1>5
  <2>2. CASE Ends(p, j, "blocked")
    BY <1>5, <2>2, KeptEnds
  <2>3. ASSUME NEW t, Put(p, AfterGuard([j EXCEPT !.text = t]))
        PROVE  GoesCovered(p)
    <3> DEFINE k == [j EXCEPT !.text = t]
    <3>1. Whole(k) /\ Kept(j, k) /\ k.pc = "guard"
      BY <1>5, FieldNames DEF Whole, Kept
    <3>2. Put(p, AfterGuard(k))
      BY <2>3
    <3> HIDE DEF k, q
    <3>3. Kept(q, k) /\ CoverOK(k)
      BY <2>1, <3>1, KeptTrans, KeptCover DEF Onward
    <3>4. CASE IsNative(k) /\ ModelProvider(k.model) # k.in.via.native
      <4>1. Ends(p, k, "refused")
        BY <3>2, <3>4 DEF AfterGuard, Ends
      <4> QED
        BY <2>1, <3>1, <3>3, <4>1, KeptEnds
    <3>5. CASE Home(k)
      <4> DEFINE r == [k EXCEPT !.pc = "admit"]
      <4>1. Put(p, r)
        BY <3>2, <3>5 DEF AfterGuard, Home
      <4>2. Kept(k, r) /\ r.pc = "admit"
        BY <3>1, KeptMove
      <4> HIDE DEF r
      <4>3. /\ Fits(r) /\ Home(r) /\ r.called = FALSE
        <5>1. Fits(k)
          BY <3>1, <3>3 DEF CoverOK, Unbound
        <5>2. k.called = FALSE
          BY <1>1, <2>1, <3>3 DEF Kept
        <5> QED
          BY <3>5, <4>2, <5>1, <5>2 DEF Kept, Fits, Home, IsNative
      <4>4. CoverOK(r)
        BY <4>2, <4>3 DEF CoverOK, Unbound, Unadmitted
      <4> QED
        BY <4>1, <4>4 DEF GoesCovered
    <3> QED
      BY <3>4, <3>5 DEF Home
  <2> QED
    BY <1>5, <2>2, <2>3
<1>6. CASE _guard_request(p)
  <2>1. q.pc = "guard"
    BY <1>6 DEF _guard_request, Goes
  <2>2. \E s, c : \/ Ends(p, [Judged(q, s) EXCEPT !.open = @ \cup c], "blocked")
                  \/ \E t : Put(p, AfterGuard([[Judged(q, s) EXCEPT !.open = @ \cup c] EXCEPT !.text = t]))
    BY <1>6 DEF _guard_request
  <2> HIDE DEF q
  <2>3. PICK s, c : \/ Ends(p, [Judged(q, s) EXCEPT !.open = @ \cup c], "blocked")
                    \/ \E t : Put(p, AfterGuard([[Judged(q, s) EXCEPT !.open = @ \cup c] EXCEPT !.text = t]))
    BY <2>2
  <2> DEFINE j == [Judged(q, s) EXCEPT !.open = @ \cup c]
  <2>4. Whole(j) /\ Kept(q, j) /\ j.pc = "guard"
    BY <1>4, <2>1
  <2>5. Ends(p, j, "blocked") \/ \E t : Put(p, AfterGuard([j EXCEPT !.text = t]))
    BY <2>3
  <2> HIDE DEF j
  <2> QED
    BY <1>5, <2>1, <2>4, <2>5
<1> QED
    BY <1>3, <1>6

\* Admission reserves for the model that was bound.
LEMMA AdmitCover ==
    ASSUME NEW p \in Procs, ReqOK(req[p]), CoverOK(req[p]), admit(p)
    PROVE  GoesCovered(p)
<1> DEFINE q == req[p]
           h == Hits(q)
<1>1. Whole(q) /\ q.called = FALSE /\ q.pc = "admit" /\ CoverOK(q) /\ q.in \in Inputs
    BY DEF ReqOK, RowsOK, Unadmitted, TypesOK, admit, Goes
<1> HIDE DEF q
<1>2. Whole(h) /\ Kept(q, h) /\ h.pc = "admit"
  <2> DEFINE k == q.teamHits + 1
             t == [q EXCEPT !.teamHits = k]
             g == t.keyHits + 1
  <2>1. h \in {t, [t EXCEPT !.keyHits = g]}
    BY DEF Hits, enforce_key_rate_limit
  <2> HIDE DEF k, h
  <2>2. Whole(t) /\ Kept(q, t) /\ t.pc = "admit"
    BY <1>1, FieldNames DEF Whole, Kept
  <2> DEFINE u == [t EXCEPT !.keyHits = g]
  <2> HIDE DEF t, g
  <2>3. Whole(u) /\ Kept(t, u) /\ u.pc = "admit"
    BY <2>2, FieldNames DEF Whole, Kept
  <2>4. h \in {t, u}
    BY <2>1
  <2> HIDE DEF u
  <2>5. Kept(q, u)
    BY <2>2, <2>3, KeptTrans
  <2> QED
    BY <2>2, <2>3, <2>4, <2>5
<1>3. \/ Ends(p, h, "refused")
      \/ Put(p, [h EXCEPT !.held = TRUE, !.reserved = Reserves(h),
                          !.pc = IF IsNative(h) THEN CallPc(h) ELSE "creds"])
    BY DEF admit, q
<1>4. CoverOK(h) /\ h.called = FALSE /\ h.in \in Inputs
    BY <1>1, <1>2, KeptCover DEF Onward, Kept
<1> HIDE DEF h
<1>5. CASE Ends(p, h, "refused")
    BY <1>1, <1>2, <1>5, KeptEnds
<1>6. CASE Put(p, [h EXCEPT !.held = TRUE, !.reserved = Reserves(h),
                            !.pc = IF IsNative(h) THEN CallPc(h) ELSE "creds"])
  <2> DEFINE x == IF IsNative(h) THEN CallPc(h) ELSE "creds"
             v == Reserves(h)
             r == [h EXCEPT !.held = TRUE, !.reserved = v, !.pc = x]
  <2>1. Put(p, r)
    BY <1>6
  <2>2. x \in {"creds", "call", "open"}
    BY <1>4, CallPlace
  <2> HIDE DEF x, v
  <2>3. /\ r.pc = x /\ r.reserved = v /\ r.in = h.in /\ r.model = h.model /\ r.conf = h.conf
        /\ r.body = h.body /\ r.called = h.called
    BY <1>2, FieldNames DEF Whole
  <2> HIDE DEF r
  <2>4. Fits(h) /\ Home(h)
    BY <1>2, <1>4 DEF CoverOK, Unbound
  <2>5. Fits(r) /\ Home(r) /\ Reserves(r) = v
    BY <2>3, <2>4 DEF Fits, Home, Reserves, IsNative, v
  <2>6. CoverOK(r)
    BY <1>4, <2>2, <2>3, <2>5 DEF CoverOK, Unbound, Unadmitted
  <2> QED
    BY <2>1, <2>6 DEF GoesCovered
<1> QED
    BY <1>3, <1>5, <1>6

\* An admitted request goes on as it is.
LEMMA AdmittedGoes ==
    ASSUME NEW p, NEW q, CoverOK(q), q.pc \notin Unadmitted \cup {"done"}, NEW r, Kept(q, r),
           r.pc \notin Unbound, Put(p, r)
    PROVE  GoesCovered(p)
BY KeptGoes DEF Onward

\* The credential, the lookup and the settlement leave what was reserved alone.
LEMMA CredentialCover ==
    ASSUME NEW p \in Procs, ReqOK(req[p]), CoverOK(req[p]), get_values(p)
    PROVE  GoesCovered(p)
<1> DEFINE q == req[p]
           x == AdmittedPc(q)
           r == [q EXCEPT !.pc = x]
<1>1. Whole(q) /\ q.in \in Inputs /\ q.pc = "creds" /\ CoverOK(q)
    BY DEF ReqOK, TypesOK, get_values, Goes
<1>2. Put(p, r) \/ Ends(p, Released(q), "failed")
    BY DEF get_values
<1>3. x \in {"call", "open", "lookup"}
    BY <1>1, AdmittedPlace
<1> HIDE DEF q, x
<1>4. Kept(q, r) /\ r.pc = x
    BY <1>1, KeptMove
<1>5. Whole(Released(q)) /\ Kept(q, Released(q))
    BY <1>1, KeptReleased
<1> HIDE DEF r
<1>6. CASE Put(p, r)
    BY <1>1, <1>3, <1>4, <1>6, AdmittedGoes DEF Unadmitted, Unbound
<1>7. CASE Ends(p, Released(q), "failed")
    BY <1>1, <1>5, <1>7, KeptEnds
<1> QED
    BY <1>2, <1>6, <1>7

LEMMA GetCover ==
    ASSUME NEW p \in Procs, ReqOK(req[p]), CoverOK(req[p]), _cache_get(p)
    PROVE  GoesCovered(p)
<1> DEFINE q == req[p]
<1>1. Whole(q) /\ q.in \in Inputs /\ q.pc = "lookup" /\ CoverOK(q)
    BY DEF ReqOK, TypesOK, _cache_get, Goes
<1>2. \/ Put(p, [q EXCEPT !.pc = CallPc(q)])
      \/ \E w, a, s, u : Replay(p, [q EXCEPT !.hit = {w}, !.ans = a, !.shape = s, !.usage = u])
    BY DEF _cache_get
<1> HIDE DEF q
<1>3. CASE Put(p, [q EXCEPT !.pc = CallPc(q)])
  <2> DEFINE x == CallPc(q)
             r == [q EXCEPT !.pc = x]
  <2>1. Put(p, r)
    BY <1>3
  <2>2. x \in {"call", "open"}
    BY <1>1, CallPlace
  <2> HIDE DEF x
  <2>3. Kept(q, r) /\ r.pc = x
    BY <1>1, KeptMove
  <2> HIDE DEF r
  <2> QED
    BY <1>1, <2>1, <2>2, <2>3, AdmittedGoes DEF Unadmitted, Unbound
<1>4. ASSUME NEW w, NEW a, NEW s, NEW u,
             Replay(p, [q EXCEPT !.hit = {w}, !.ans = a, !.shape = s, !.usage = u])
      PROVE  GoesCovered(p)
  <2> DEFINE b == [q EXCEPT !.hit = {w}, !.ans = a, !.shape = s, !.usage = u]
  <2>1. Whole(b) /\ Kept(q, b)
    BY <1>1, FieldNames DEF Whole, Kept
  <2>2. \/ Put(p, [b EXCEPT !.pc = "primed"])
        \/ Put(p, [Released(b) EXCEPT !.pc = "respond", !.rows = Append(@, "hit")])
    BY <1>4 DEF Replay
  <2> HIDE DEF b
  <2>3. CASE Put(p, [b EXCEPT !.pc = "primed"])
    <3> DEFINE r == [b EXCEPT !.pc = "primed"]
    <3>1. Kept(b, r) /\ r.pc = "primed" /\ Put(p, r)
      BY <2>1, <2>3, KeptMove
    <3> HIDE DEF r
    <3>2. Kept(q, r)
      BY <2>1, <3>1, KeptTrans
    <3> QED
      BY <1>1, <3>1, <3>2, AdmittedGoes DEF Unadmitted, Unbound
  <2>4. CASE Put(p, [Released(b) EXCEPT !.pc = "respond", !.rows = Append(@, "hit")])
    <3> DEFINE c == Released(b)
               v == Append(c.rows, "hit")
               r == [c EXCEPT !.pc = "respond", !.rows = v]
    <3>1. Put(p, r)
      BY <2>4
    <3>2. Whole(c) /\ Kept(b, c)
      BY <2>1, KeptReleased
    <3> HIDE DEF c, v
    <3>3. Kept(c, r) /\ r.pc = "respond"
      BY <3>2, FieldNames DEF Whole, Kept
    <3> HIDE DEF r
    <3>4. Kept(q, r)
      BY <2>1, <3>2, <3>3, KeptTrans
    <3> QED
      BY <1>1, <3>1, <3>3, <3>4, AdmittedGoes DEF Unadmitted, Unbound
  <2> QED
    BY <2>2, <2>3, <2>4
<1> QED
    BY <1>2, <1>3, <1>4

LEMMA SettleCover ==
    ASSUME NEW p \in Procs, ReqOK(req[p]), CoverOK(req[p]), settle_ok(p)
    PROVE  GoesCovered(p)
<1> DEFINE q == req[p]
           b == Billed(q)
           r == [b EXCEPT !.pc = "respond"]
<1>1. Whole(q) /\ q.pc = "settle" /\ CoverOK(q) /\ Put(p, r)
    BY DEF ReqOK, settle_ok, Goes
<1> HIDE DEF q
<1>2. Whole(b) /\ Kept(q, b)
    BY <1>1, KeptBilled
<1> HIDE DEF b
<1>3. Kept(b, r) /\ r.pc = "respond"
    BY <1>2, KeptMove
<1> HIDE DEF r
<1>4. Kept(q, r)
    BY <1>2, <1>3, KeptTrans
<1> QED
    BY <1>1, <1>3, <1>4, AdmittedGoes DEF Unadmitted, Unbound

\* What the provider is asked for is in the request it answered.
LEMMA AnsweredCover ==
    ASSUME NEW q, Whole(q), CoverOK(q), q.pc \in Unanswered, NEW a
    PROVE  LET r == Answered(q, a) IN Whole(r) /\ CoverOK(r) /\ r.pc = q.pc
<1> DEFINE w == IF SpeaksChat(q) THEN Sent(ModelDesc[q.model], ChatBody(q).conv) ELSE <<>>
           s == AskedOf(q)
           r == [q EXCEPT !.called = TRUE, !.sent = q.text, !.ans = a.tags, !.shape = a.shape, !.usage = a.usage,
                          !.wire = w, !.asked = s]
<1>1. Answered(q, a) = r
    BY DEF Answered, AskedOf
<1>2. Fits(q) /\ Home(q) /\ q.reserved = Reserves(q)
    BY DEF CoverOK, Unbound, Unadmitted, Unanswered
<1> HIDE DEF w, s
<1>3. /\ Whole(r) /\ r.pc = q.pc /\ r.in = q.in /\ r.model = q.model /\ r.conf = q.conf /\ r.body = q.body
      /\ r.called = TRUE /\ r.reserved = q.reserved /\ r.asked = s
    BY FieldNames DEF Whole
<1> HIDE DEF r
<1>4. Fits(r) /\ Home(r) /\ r.reserved = Reserves(r)
    BY <1>2, <1>3 DEF Fits, Home, Reserves, IsNative
<1>5. AskedOf(r) = s
    BY <1>3 DEF AskedOf, SpeaksChat, ChatBody, Emulates, IsNative, s
<1>6. CoverOK(r)
    BY <1>3, <1>4, <1>5 DEF CoverOK, Unbound, Unanswered
<1> QED
    BY <1>1, <1>3, <1>6

LEMMA CallCover ==
    ASSUME NEW p \in Procs, ReqOK(req[p]), CoverOK(req[p]), call(p)
    PROVE  GoesCovered(p)
<1> DEFINE q == req[p]
<1>1. Whole(q) /\ q.pc = "call" /\ CoverOK(q)
    BY DEF ReqOK, call, Goes
<1>2. \/ \E a : Put(p, [Answered(q, a) EXCEPT !.pc = "settle"])
      \/ \E a : Ends(p, Released(Billed(Answered(q, a))), "failed")
      \/ \E t : Ends(p, [Released(q) EXCEPT !.sent = t], "failed")
      \/ Ends(p, [Released(q) EXCEPT !.cut = "adapter"], "refused")
    BY DEF call
<1> HIDE DEF q
<1>3. ASSUME NEW a
      PROVE  LET b == Answered(q, a) IN Whole(b) /\ CoverOK(b) /\ b.pc = "call"
    BY <1>1, AnsweredCover DEF Unanswered
<1>4. ASSUME NEW a, Put(p, [Answered(q, a) EXCEPT !.pc = "settle"])
      PROVE  GoesCovered(p)
  <2> DEFINE b == Answered(q, a)
             r == [b EXCEPT !.pc = "settle"]
  <2>1. Put(p, r) /\ Whole(b) /\ CoverOK(b) /\ b.pc = "call"
    BY <1>3, <1>4
  <2> HIDE DEF b
  <2>2. Kept(b, r) /\ r.pc = "settle"
    BY <2>1, KeptMove
  <2> HIDE DEF r
  <2> QED
    BY <2>1, <2>2, AdmittedGoes DEF Unadmitted, Unbound
<1>5. ASSUME NEW a, Ends(p, Released(Billed(Answered(q, a))), "failed")
      PROVE  GoesCovered(p)
  <2> DEFINE b == Answered(q, a)
             c == Billed(b)
             d == Released(c)
  <2>1. Ends(p, d, "failed") /\ Whole(b) /\ CoverOK(b)
    BY <1>3, <1>5
  <2> HIDE DEF b
  <2>2. Whole(c) /\ Kept(b, c)
    BY <2>1, KeptBilled
  <2> HIDE DEF c
  <2>3. Whole(d) /\ Kept(c, d)
    BY <2>2, KeptReleased
  <2> HIDE DEF d
  <2>4. Kept(b, d)
    BY <2>2, <2>3, KeptTrans
  <2> QED
    BY <2>1, <2>3, <2>4, KeptEnds
<1>6. ASSUME NEW t, NEW x, NEW o,
             \/ Ends(p, [Released(q) EXCEPT !.sent = t], o)
             \/ Ends(p, [Released(q) EXCEPT !.cut = x], o)
      PROVE  GoesCovered(p)
  <2> DEFINE b == Released(q)
             c == [b EXCEPT !.sent = t]
             d == [b EXCEPT !.cut = x]
  <2>1. Whole(b) /\ Kept(q, b)
    BY <1>1, KeptReleased
  <2>2. Ends(p, c, o) \/ Ends(p, d, o)
    BY <1>6
  <2> HIDE DEF b
  <2>3. Whole(c) /\ Kept(b, c) /\ Whole(d) /\ Kept(b, d)
    BY <2>1, FieldNames DEF Whole, Kept
  <2> HIDE DEF c, d
  <2>4. Kept(q, c) /\ Kept(q, d)
    BY <2>1, <2>3, KeptTrans
  <2> QED
    BY <1>1, <2>2, <2>3, <2>4, KeptEnds
<1> QED
    BY <1>2, <1>4, <1>5, <1>6

\* The answer is screened, stored and delivered.
LEMMA ResponseCover ==
    ASSUME NEW p \in Procs, ReqOK(req[p]), CoverOK(req[p]), _guard_response(p)
    PROVE  GoesCovered(p)
<1> DEFINE q == req[p]
<1>1. Whole(q) /\ q.pc = "respond" /\ CoverOK(q)
    BY DEF ReqOK, _guard_response, Goes
<1>2. \E s, c, t :
         LET j == [Judged(q, s) EXCEPT !.open = @ \cup c]
             k == [j EXCEPT !.ans = t]
         IN \/ Ends(p, Back(j), "withheld")
            \/ Put(p, [k EXCEPT !.pc = "put"])
            \/ Ends(p, [Back(k) EXCEPT !.got = t], "ok")
    BY DEF _guard_response, Back
<1> HIDE DEF q
<1>3. ASSUME NEW s, NEW c
      PROVE  LET j == [Judged(q, s) EXCEPT !.open = @ \cup c] IN Whole(j) /\ Kept(q, j)
  <2> DEFINE h == Judged(q, s)
             o == h.open \cup c
             j == [h EXCEPT !.open = o]
  <2>1. Same(q, h, {"side"})
    BY <1>1, JudgedEffect
  <2>2. Kept(q, h)
    BY <2>1, SameKept DEF KeptFields
  <2>3. Whole(h)
    BY <2>1 DEF Same
  <2> HIDE DEF h, o
  <2>4. Whole(j) /\ Kept(h, j)
    BY <2>3, FieldNames DEF Whole, Kept
  <2>5. Kept(q, j)
    BY <2>2, <2>4, KeptTrans
  <2> QED
    BY <2>4, <2>5 DEF h, o
<1>4. ASSUME NEW j, Whole(j), Kept(q, j)
      PROVE  Whole(Back(j)) /\ Kept(q, Back(j))
  <2>1. Whole(Back(j)) /\ Kept(j, Back(j))
    BY <1>4, KeptReleased DEF Back, Kept
  <2> QED
    BY <1>4, <2>1, KeptTrans
<1>5. ASSUME NEW j, Whole(j), Kept(q, j), NEW t,
             \/ Ends(p, Back(j), "withheld")
             \/ Put(p, [[j EXCEPT !.ans = t] EXCEPT !.pc = "put"])
             \/ Ends(p, [Back([j EXCEPT !.ans = t]) EXCEPT !.got = t], "ok")
      PROVE  GoesCovered(p)
  <2> DEFINE k == [j EXCEPT !.ans = t]
             b == Back(k)
             d == [b EXCEPT !.got = t]
             r == [k EXCEPT !.pc = "put"]
  <2>1. Whole(k) /\ Kept(j, k)
    BY <1>5, FieldNames DEF Whole, Kept
  <2>2. Ends(p, Back(j), "withheld") \/ Put(p, r) \/ Ends(p, d, "ok")
    BY <1>5
  <2> HIDE DEF k
  <2>3. Kept(q, k)
    BY <1>5, <2>1, KeptTrans
  <2>4. Whole(b) /\ Kept(q, b) /\ Whole(Back(j)) /\ Kept(q, Back(j))
    BY <1>4, <1>5, <2>1, <2>3
  <2>5. Kept(k, r) /\ r.pc = "put"
    BY <2>1, KeptMove
  <2> HIDE DEF b, r
  <2>6. Whole(d) /\ Kept(b, d)
    BY <2>4, FieldNames DEF Whole, Kept
  <2> HIDE DEF d
  <2>7. Kept(q, r) /\ Kept(q, d)
    BY <2>3, <2>4, <2>5, <2>6, KeptTrans
  <2>8. CASE Put(p, r)
    BY <1>1, <2>5, <2>7, <2>8, AdmittedGoes DEF Unadmitted, Unbound
  <2> QED
    BY <1>1, <2>2, <2>4, <2>6, <2>7, <2>8, KeptEnds
<1>6. PICK s, c, t :
         LET j == [Judged(q, s) EXCEPT !.open = @ \cup c]
             k == [j EXCEPT !.ans = t]
         IN \/ Ends(p, Back(j), "withheld")
            \/ Put(p, [k EXCEPT !.pc = "put"])
            \/ Ends(p, [Back(k) EXCEPT !.got = t], "ok")
    BY <1>2
<1> DEFINE j == [Judged(q, s) EXCEPT !.open = @ \cup c]
<1>7. Whole(j) /\ Kept(q, j)
    BY <1>3
<1>8. \/ Ends(p, Back(j), "withheld")
      \/ Put(p, [[j EXCEPT !.ans = t] EXCEPT !.pc = "put"])
      \/ Ends(p, [Back([j EXCEPT !.ans = t]) EXCEPT !.got = t], "ok")
    BY <1>6
<1> HIDE DEF j
<1> QED
    BY <1>5, <1>7, <1>8

LEMMA PutCover ==
    ASSUME NEW p \in Procs, ReqOK(req[p]), CoverOK(req[p]), _cache_put(p)
    PROVE  GoesCovered(p)
<1> DEFINE q == req[p]
           b == Released(q)
           g == q.ans
           r == [b EXCEPT !.got = g]
<1>1. Whole(q) /\ CoverOK(q) /\ Ends(p, r, "ok")
    BY DEF ReqOK, _cache_put
<1> HIDE DEF q, g
<1>2. Whole(b) /\ Kept(q, b)
    BY <1>1, KeptReleased
<1> HIDE DEF b
<1>3. Whole(r) /\ Kept(b, r)
    BY <1>2, FieldNames DEF Whole, Kept
<1> HIDE DEF r
<1>4. Kept(q, r)
    BY <1>2, <1>3, KeptTrans
<1> QED
    BY <1>1, <1>3, <1>4, KeptEnds

\* A stream is opened, and its first chunk is pulled.
LEMMA OpenCover ==
    ASSUME NEW p \in Procs, ReqOK(req[p]), CoverOK(req[p]), open_stream(p)
    PROVE  GoesCovered(p)
<1> DEFINE q == req[p]
           b == Released(q)
           r == [q EXCEPT !.pc = "prime"]
           d == [b EXCEPT !.cut = "adapter"]
<1>1. Whole(q) /\ q.pc = "open" /\ CoverOK(q)
    BY DEF ReqOK, open_stream, Goes
<1>2. Put(p, r) \/ Ends(p, d, "refused")
    BY DEF open_stream
<1> HIDE DEF q
<1>3. Whole(b) /\ Kept(q, b) /\ Kept(q, r) /\ r.pc = "prime"
    BY <1>1, KeptReleased, KeptMove
<1> HIDE DEF b, r
<1>4. Whole(d) /\ Kept(b, d)
    BY <1>3, FieldNames DEF Whole, Kept
<1> HIDE DEF d
<1>5. Kept(q, d)
    BY <1>3, <1>4, KeptTrans
<1>6. CASE Put(p, r)
    BY <1>1, <1>3, <1>6, AdmittedGoes DEF Unadmitted, Unbound
<1> QED
    BY <1>1, <1>2, <1>4, <1>5, <1>6, KeptEnds

LEMMA KeptClosing ==
    ASSUME NEW q, Whole(q), NEW e
    PROVE  Whole(Closing(q, e)) /\ Kept(q, Closing(q, e)) /\ Closing(q, e).pc = "closing"
BY FieldNames DEF Whole, Kept, Closing

LEMMA PrimeCover ==
    ASSUME NEW p \in Procs, ReqOK(req[p]), CoverOK(req[p]), _prime(p)
    PROVE  GoesCovered(p)
<1> DEFINE q == req[p]
<1>1. Whole(q) /\ q.pc = "prime" /\ CoverOK(q)
    BY DEF ReqOK, _prime, Goes
<1>2. \/ \E a : Put(p, [Answered(q, a) EXCEPT !.pc = "primed"])
      \/ \E a, e : Put(p, Closing([Answered(q, a) EXCEPT !.usage = "absent", !.ans = {}], e))
      \/ Put(p, [Closing(q, "rejected") EXCEPT !.cut = "adapter"])
    BY DEF _prime
<1> HIDE DEF q
<1>3. ASSUME NEW a
      PROVE  LET b == Answered(q, a) IN Whole(b) /\ CoverOK(b) /\ b.pc = "prime"
    BY <1>1, AnsweredCover DEF Unanswered
<1>4. ASSUME NEW a, Put(p, [Answered(q, a) EXCEPT !.pc = "primed"])
      PROVE  GoesCovered(p)
  <2> DEFINE b == Answered(q, a)
             r == [b EXCEPT !.pc = "primed"]
  <2>1. Put(p, r) /\ Whole(b) /\ CoverOK(b) /\ b.pc = "prime"
    BY <1>3, <1>4
  <2> HIDE DEF b
  <2>2. Kept(b, r) /\ r.pc = "primed"
    BY <2>1, KeptMove
  <2> HIDE DEF r
  <2> QED
    BY <2>1, <2>2, AdmittedGoes DEF Unadmitted, Unbound
<1>5. ASSUME NEW a, NEW e, Put(p, Closing([Answered(q, a) EXCEPT !.usage = "absent", !.ans = {}], e))
      PROVE  GoesCovered(p)
  <2> DEFINE b == Answered(q, a)
             c == [b EXCEPT !.usage = "absent", !.ans = {}]
             r == Closing(c, e)
  <2>1. Put(p, r) /\ Whole(b) /\ CoverOK(b) /\ b.pc = "prime"
    BY <1>3, <1>5
  <2> HIDE DEF b
  <2>2. Whole(c) /\ Kept(b, c)
    BY <2>1, FieldNames DEF Whole, Kept
  <2> HIDE DEF c
  <2>3. Kept(c, r) /\ r.pc = "closing"
    BY <2>2, KeptClosing
  <2> HIDE DEF r
  <2>4. Kept(b, r)
    BY <2>2, <2>3, KeptTrans
  <2> QED
    BY <2>1, <2>3, <2>4, AdmittedGoes DEF Unadmitted, Unbound
<1>6. CASE Put(p, [Closing(q, "rejected") EXCEPT !.cut = "adapter"])
  <2> DEFINE c == Closing(q, "rejected")
             r == [c EXCEPT !.cut = "adapter"]
  <2>1. Whole(c) /\ Kept(q, c) /\ c.pc = "closing"
    BY <1>1, KeptClosing
  <2>2. Put(p, r)
    BY <1>6
  <2> HIDE DEF c
  <2>3. Kept(c, r) /\ r.pc = "closing"
    BY <2>1, FieldNames DEF Whole, Kept
  <2> HIDE DEF r
  <2>4. Kept(q, r)
    BY <2>1, <2>3, KeptTrans
  <2> QED
    BY <1>1, <2>2, <2>3, <2>4, AdmittedGoes DEF Unadmitted, Unbound
<1> QED
    BY <1>2, <1>4, <1>5, <1>6

\* A stream flows, breaks off, is left by its client, closed and billed.
LEMMA FlowCover ==
    ASSUME NEW p \in Procs, ReqOK(req[p]), CoverOK(req[p]),
           _rechain(p) \/ metered_stream(p) \/ Disconnect(p)
    PROVE  GoesCovered(p)
<1> DEFINE q == req[p]
<1>1. Whole(q) /\ q.pc \in {"primed", "flow"} /\ CoverOK(q)
    BY DEF ReqOK, _rechain, metered_stream, Disconnect, Goes
<1>2. \/ \E g : Put(p, [q EXCEPT !.pc = "flow", !.got = g])
      \/ \E e : Put(p, Closing(q, e))
      \/ \E e, u : Put(p, [Closing(q, e) EXCEPT !.usage = u])
      \/ \E e, u : Put(p, [[Closing(q, e) EXCEPT !.usage = u] EXCEPT !.flag = TRUE, !.soon = TRUE])
  <2>1. CASE _rechain(p)
    BY <2>1 DEF _rechain
  <2>2. CASE metered_stream(p)
    BY <2>2 DEF metered_stream
  <2>3. CASE Disconnect(p)
    BY <2>3 DEF Disconnect
  <2> QED
    BY <2>1, <2>2, <2>3
<1> HIDE DEF q
<1>3. ASSUME NEW r, Kept(q, r), r.pc \in {"flow", "closing"}, Put(p, r)
      PROVE  GoesCovered(p)
    BY <1>1, <1>3, AdmittedGoes DEF Unadmitted, Unbound
<1>4. ASSUME NEW g, Put(p, [q EXCEPT !.pc = "flow", !.got = g])
      PROVE  GoesCovered(p)
  <2> DEFINE r == [q EXCEPT !.pc = "flow", !.got = g]
  <2>1. Kept(q, r) /\ r.pc = "flow"
    BY <1>1, FieldNames DEF Whole, Kept
  <2> QED
    BY <1>3, <1>4, <2>1
<1>5. ASSUME NEW e, NEW u
      PROVE  LET c == Closing(q, e)
                 d == [c EXCEPT !.usage = u]
                 f == [d EXCEPT !.flag = TRUE, !.soon = TRUE]
             IN \A r \in {c, d, f} : Kept(q, r) /\ r.pc = "closing"
  <2> DEFINE c == Closing(q, e)
             d == [c EXCEPT !.usage = u]
             f == [d EXCEPT !.flag = TRUE, !.soon = TRUE]
  <2>1. Whole(c) /\ Kept(q, c) /\ c.pc = "closing"
    BY <1>1, KeptClosing
  <2> HIDE DEF c
  <2>2. Whole(d) /\ Kept(c, d) /\ d.pc = "closing"
    BY <2>1, FieldNames DEF Whole, Kept
  <2> HIDE DEF d
  <2>3. Kept(d, f) /\ f.pc = "closing"
    BY <2>2, FieldNames DEF Whole, Kept
  <2> HIDE DEF f
  <2>4. Kept(q, d)
    BY <2>1, <2>2, KeptTrans
  <2>5. Kept(q, f)
    BY <2>3, <2>4, KeptTrans
  <2>6. \A r \in {c, d, f} : Kept(q, r) /\ r.pc = "closing"
    BY <2>1, <2>2, <2>3, <2>4, <2>5
  <2> QED
    BY <2>6 DEF c, d, f
<1>6. ASSUME NEW e, NEW u, \/ Put(p, Closing(q, e))
                           \/ Put(p, [Closing(q, e) EXCEPT !.usage = u])
                           \/ Put(p, [[Closing(q, e) EXCEPT !.usage = u] EXCEPT !.flag = TRUE, !.soon = TRUE])
      PROVE  GoesCovered(p)
  <2> DEFINE c == Closing(q, e)
             d == [c EXCEPT !.usage = u]
             f == [d EXCEPT !.flag = TRUE, !.soon = TRUE]
  <2>1. \A r \in {c, d, f} : Kept(q, r) /\ r.pc = "closing"
    BY <1>5
  <2>2. Put(p, c) \/ Put(p, d) \/ Put(p, f)
    BY <1>6
  <2> HIDE DEF c, d, f
  <2> QED
    BY <1>3, <2>1, <2>2
<1> QED
    BY <1>2, <1>4, <1>6

LEMMA CloseCover ==
    ASSUME NEW p \in Procs, ReqOK(req[p]), CoverOK(req[p]), release_soon(p) \/ CloseStream(p)
    PROVE  GoesCovered(p)
<1> DEFINE q == req[p]
           b == Released(q)
           r == [b EXCEPT !.soon = FALSE]
           c == [b EXCEPT !.flag = TRUE]
           d == [q EXCEPT !.pc = "billing"]
           e == [c EXCEPT !.pc = "billing"]
<1>1. Whole(q) /\ CoverOK(q)
    BY DEF ReqOK
<1>2. Put(p, r) \/ (q.pc = "closing" /\ (Put(p, d) \/ Put(p, e)))
    BY DEF release_soon, CloseStream, release, Goes
<1> HIDE DEF q
<1>3. Whole(b) /\ Kept(q, b) /\ b.pc = q.pc /\ Kept(q, d) /\ d.pc = "billing"
    BY <1>1, KeptReleased, KeptMove
<1> HIDE DEF b, d
<1>4. Kept(b, r) /\ r.pc = b.pc /\ Whole(c) /\ Kept(b, c)
    BY <1>3, FieldNames DEF Whole, Kept
<1> HIDE DEF r, c
<1>5. Kept(c, e) /\ e.pc = "billing"
    BY <1>4, KeptMove
<1> HIDE DEF e
<1>6. Kept(q, r) /\ Kept(q, c)
    BY <1>3, <1>4, KeptTrans
<1>7. Kept(q, e)
    BY <1>5, <1>6, KeptTrans
<1>8. CASE Put(p, r)
    BY <1>1, <1>3, <1>4, <1>6, <1>8, KeptGoes DEF Onward
<1>9. CASE q.pc = "closing" /\ (Put(p, d) \/ Put(p, e))
    BY <1>1, <1>3, <1>5, <1>7, <1>9, AdmittedGoes DEF Unadmitted, Unbound
<1> QED
    BY <1>2, <1>8, <1>9

LEMMA FinalCover ==
    ASSUME NEW p \in Procs, ReqOK(req[p]), CoverOK(req[p]), _finalize_stream_billing(p)
    PROVE  GoesCovered(p)
<1> DEFINE q == req[p]
           s == q.rows \o StreamRow(q)
           b == [q EXCEPT !.rows = s]
           d == [q EXCEPT !.lost = TRUE]
           o == StreamOut(q)
<1>1. Whole(q) /\ CoverOK(q)
    BY DEF ReqOK
<1>2. Ends(p, b, o) \/ Ends(p, d, o)
    BY DEF _finalize_stream_billing
<1> HIDE DEF q, s, o
<1>3. Whole(b) /\ Kept(q, b) /\ Whole(d) /\ Kept(q, d)
    BY <1>1, FieldNames DEF Whole, Kept
<1> HIDE DEF b, d
<1> QED
    BY <1>1, <1>2, <1>3, KeptEnds

LEMMA ShadowCover ==
    ASSUME NEW p \in Procs, ReqOK(req[p]), CoverOK(req[p]), _run_shadow(p)
    PROVE  GoesCovered(p)
<1> DEFINE q == req[p]
<1>1. Whole(q) /\ CoverOK(q)
    BY DEF ReqOK
<1>2. \E x : Put(p, [q EXCEPT !.shadow = x])
    BY DEF _run_shadow
<1> HIDE DEF q
<1>3. PICK x : Put(p, [q EXCEPT !.shadow = x])
    BY <1>2
<1> DEFINE r == [q EXCEPT !.shadow = x]
<1>4. Kept(q, r) /\ r.pc = q.pc
    BY <1>1, FieldNames DEF Whole, Kept
<1>5. Put(p, r)
    BY <1>3
<1> HIDE DEF r
<1> QED
    BY <1>1, <1>4, <1>5, KeptGoes DEF Onward

\* Only a request under way is served.
LEMMA ServedIsOpen ==
    ASSUME NEW p, Serve(p) \/ Disconnect(p) \/ _run_shadow(p)
    PROVE  Open(p)
<1>1. CASE Disconnect(p) \/ _run_shadow(p)
    BY <1>1 DEF Disconnect, _run_shadow, Open
<1>2. CASE _resolve_model(p) \/ ResolveRouter(p) \/ route(p) \/ Chosen(p) \/ select_preview(p)
    BY <1>2 DEF _resolve_model, ResolveRouter, route, Chosen, select_preview, Goes, Open
<1>3. CASE _refuse_stream_when_response_guarded(p) \/ _guard_request(p) \/ admit(p) \/ get_values(p)
    BY <1>3 DEF _refuse_stream_when_response_guarded, _guard_request, admit, get_values, Goes, Open
<1>4. CASE _cache_get(p) \/ call(p) \/ settle_ok(p) \/ _guard_response(p) \/ _cache_put(p)
    BY <1>4 DEF _cache_get, call, settle_ok, _guard_response, _cache_put, Goes, Open
<1>5. CASE open_stream(p) \/ _prime(p) \/ _rechain(p) \/ metered_stream(p)
    BY <1>5 DEF open_stream, _prime, _rechain, metered_stream, Goes, Open
<1>6. CASE release_soon(p) \/ CloseStream(p) \/ _finalize_stream_billing(p)
    BY <1>6 DEF release_soon, CloseStream, _finalize_stream_billing, Goes, Open
<1> QED
    BY <1>1, <1>2, <1>3, <1>4, <1>5, <1>6 DEF Serve

\* No request changes a model.
LEMMA ModelsQuiet ==
    ASSUME NEW p, arrive(p) \/ Serve(p) \/ Disconnect(p) \/ _run_shadow(p)
    PROVE  models' = models
<1>1. CASE arrive(p) \/ Disconnect(p) \/ _run_shadow(p)
    BY <1>1 DEF arrive, Disconnect, _run_shadow
<1>2. CASE _resolve_model(p) \/ ResolveRouter(p) \/ route(p) \/ Chosen(p) \/ select_preview(p)
    BY <1>2 DEF _resolve_model, ResolveRouter, route, Chosen, select_preview
<1>3. CASE _refuse_stream_when_response_guarded(p) \/ _guard_request(p) \/ admit(p) \/ get_values(p)
    BY <1>3 DEF _refuse_stream_when_response_guarded, _guard_request, admit, get_values
<1>4. CASE _cache_get(p) \/ call(p) \/ settle_ok(p) \/ _guard_response(p) \/ _cache_put(p)
    BY <1>4 DEF _cache_get, call, settle_ok, _guard_response, _cache_put
<1>5. CASE open_stream(p) \/ _prime(p) \/ _rechain(p) \/ metered_stream(p)
    BY <1>5 DEF open_stream, _prime, _rechain, metered_stream
<1>6. CASE release_soon(p) \/ CloseStream(p) \/ _finalize_stream_billing(p)
    BY <1>6 DEF release_soon, CloseStream, _finalize_stream_billing
<1> QED
    BY <1>1, <1>2, <1>3, <1>4, <1>5, <1>6 DEF Serve

LEMMA RequestCover ==
    ASSUME RequestsInv, CoverInv, NEW p \in Procs, arrive(p) \/ Serve(p) \/ Disconnect(p) \/ _run_shadow(p)
    PROVE  GoesCovered(p)
<1>1. CASE arrive(p)
  <2>1. req[p].pc = "idle"
    BY <1>1 DEF arrive, Goes
  <2>2. req[p] \in Clients
    BY <2>1 DEF RequestsInv, ReqsOK, ReqOK, TypesOK, ReqPlaces, Unadmitted, Unanswered, Streaming, Ending, Idle
  <2>3. req[p].in \in Inputs
    BY <2>2 DEF Clients, Client
  <2> QED
    BY <1>1, <2>3, ArriveCover
<1>2. CASE Serve(p) \/ Disconnect(p) \/ _run_shadow(p)
  <2>1. Open(p)
    BY <1>2, ServedIsOpen
  <2>2. ReqOK(req[p]) /\ CoverOK(req[p]) /\ ModelsOK
    BY <2>1, OpenOK DEF CoverInv
  <2>3. CASE _resolve_model(p) \/ ResolveRouter(p) \/ route(p) \/ Chosen(p) \/ select_preview(p)
    BY <2>2, <2>3, ResolutionCover
  <2>4. CASE _refuse_stream_when_response_guarded(p) \/ _guard_request(p) \/ admit(p) \/ get_values(p)
    BY <2>2, <2>4, GuardCover, AdmitCover, CredentialCover
  <2>5. CASE _cache_get(p) \/ call(p) \/ settle_ok(p) \/ _guard_response(p) \/ _cache_put(p)
    BY <2>2, <2>5, GetCover, CallCover, SettleCover, ResponseCover, PutCover
  <2>6. CASE open_stream(p) \/ _prime(p) \/ _rechain(p) \/ metered_stream(p) \/ Disconnect(p)
    BY <2>2, <2>6, OpenCover, PrimeCover, FlowCover
  <2>7. CASE release_soon(p) \/ CloseStream(p) \/ _finalize_stream_billing(p) \/ _run_shadow(p)
    BY <2>2, <2>7, CloseCover, FinalCover, ShadowCover
  <2> QED
    BY <1>2, <2>3, <2>4, <2>5, <2>6, <2>7 DEF Serve
<1> QED
    BY <1>1, <1>2

\* The rules that bind a request shrink; what it reserved does not.
LEMMA SetRuleCover ==
    ASSUME RequestsInv, CoverInv, NEW x, NEW r, SetRule(x, r)
    PROVE  CoverInv'
<1>1. PICK R : req' = Narrowed(R)
    BY DEF SetRule
<1>2. ASSUME NEW p \in Procs, Open(p)'
      PROVE  CoverOK(req'[p])
  <2> DEFINE q == req[p]
  <2>1. req'[p] = IF q.pc \in Unresolved THEN q
                  ELSE [q EXCEPT !.pre  = @ \cap resolve_chain(R, q.model, "request", q.router),
                                 !.post = @ \cap resolve_chain(R, q.model, "response", q.router)]
    BY <1>1 DEF Narrowed
  <2>2. CASE q.pc \in Unresolved
    <3>1. Open(p) /\ req'[p] = q
      BY <1>2, <2>1, <2>2 DEF Open
    <3> QED
      BY <3>1 DEF CoverInv
  <2>3. CASE q.pc \notin Unresolved
    <3>1. Open(p)
      BY <2>3 DEF Open, Unresolved
    <3>2. Whole(q) /\ CoverOK(q)
      BY <3>1, OpenOK DEF ReqOK, CoverInv
    <3> DEFINE a == q.pre \cap resolve_chain(R, q.model, "request", q.router)
               b == q.post \cap resolve_chain(R, q.model, "response", q.router)
               d == [q EXCEPT !.pre = a, !.post = b]
    <3>3. req'[p] = d
      BY <2>1, <2>3
    <3> HIDE DEF a, b, q
    <3>4. Kept(q, d) /\ d.pc = q.pc
      BY <3>2, FieldNames DEF Whole, Kept
    <3> HIDE DEF d
    <3>5. CoverOK(d)
      BY <3>2, <3>4, KeptCover DEF Onward
    <3> QED
      BY <3>3, <3>5
  <2> QED
    BY <2>2, <2>3
<1>3. ModelsOK'
    BY DEF SetRule, CoverInv, ModelsOK
<1> QED
    BY <1>2, <1>3 DEF CoverInv

\* Nothing a request holds, and no model, changed.
LEMMA CoverStays ==
    ASSUME CoverInv, UNCHANGED <<models, req>>
    PROVE  CoverInv'
BY DEF CoverInv, ModelsOK, Open

LEMMA GoesCover ==
    ASSUME RequestsInv, CoverInv, NEW p \in Procs, GoesCovered(p), models' = models
    PROVE  CoverInv'
<1>1. PICK r : Put(p, r) /\ CoverOK(r)
    BY DEF GoesCovered
<1>2. req = [x \in Procs |-> req[x]] /\ req' = [req EXCEPT ![p] = r]
    BY <1>1 DEF Put, RequestsInv, ReqsOK
<1>3. ASSUME NEW x \in Procs, Open(x)'
      PROVE  CoverOK(req'[x])
  <2>1. CASE x = p
    <3>1. req'[x] = r
      BY <1>2, <2>1
    <3> QED
      BY <1>1, <3>1
  <2>2. CASE x # p
    <3>1. req'[x] = req[x]
      BY <1>2, <2>2
    <3>2. Open(x)
      BY <1>3, <3>1 DEF Open
    <3> QED
      BY <3>1, <3>2 DEF CoverInv
  <2> QED
    BY <2>1, <2>2
<1>4. ModelsOK'
    BY DEF CoverInv, ModelsOK
<1> QED
    BY <1>3, <1>4 DEF CoverInv

LEMMA UpdateModelCover ==
    ASSUME CoverInv, update_model
    PROVE  CoverInv'
<1>1. PICK m \in Models, c \in Confs : models' = [models EXCEPT ![m] = c]
    BY DEF update_model
<1>2. req' = req
    BY DEF update_model
<1>3. ModelsOK'
    BY <1>1, ConfAssumption DEF CoverInv, ModelsOK
<1> QED
    BY <1>2, <1>3 DEF CoverInv, Open

LEMMA CoverStep ==
    ASSUME RequestsInv, CoverInv, [RequestsNext]_requestVars
    PROVE  CoverInv'
<1>1. ASSUME NEW p \in Procs, arrive(p) \/ Serve(p) \/ Disconnect(p) \/ _run_shadow(p)
      PROVE  CoverInv'
    BY <1>1, RequestCover, ModelsQuiet, GoesCover
<1>2. ASSUME NEW d \in Desks, create_rule(d) \/ update_rule(d)
      PROVE  CoverInv'
    BY <1>2, CoverStays DEF create_rule, update_rule
<1>3. ASSUME NEW d \in Desks, add(d) \/ update(d)
      PROVE  CoverInv'
  <2>1. UNCHANGED <<models, req>> \/ \E x, r : SetRule(x, r)
    BY <1>3 DEF add, update
  <2> QED
    BY <2>1, CoverStays, SetRuleCover
<1>4. CASE delete_rule
    BY <1>4, SetRuleCover DEF delete_rule
<1>5. CASE update_model
    BY <1>5, UpdateModelCover
<1>6. CASE change_grant \/ Expire \/ UNCHANGED requestVars
    BY <1>6, CoverStays DEF change_grant, Expire, requestVars
<1> QED
    BY <1>1, <1>2, <1>3, <1>4, <1>5, <1>6 DEF RequestsNext, Operate

LEMMA CoverStart ==
    ASSUME RequestsInit
    PROVE  CoverInv
<1>1. ModelsOK
    BY ConfAssumption DEF RequestsInit, ModelsOK
<1>2. \A p \in Procs : ~Open(p)
    BY DEF RequestsInit, Open, Idle, Clients, Client
<1> QED
    BY <1>1, <1>2 DEF CoverInv

LEMMA CoveredState ==
    ASSUME RequestsInv, CoverInv
    PROVE  ReservedCovers
<1> SUFFICES ASSUME NEW p \in Procs, NEW q, q = req[p], Open(p), q.called, q.in.via.type = "chat",
                    Cardinality(DOMAIN q.in.caps) <= 1, q.body.n >= 0,
                    SaysZero(q) => ModelProvider(q.model) \notin Translated \/ IsNative(q)
             PROVE  Covered(q)
    BY DEF ReservedCovers, Covered
<1>1. ReqOK(q) /\ CoverOK(q)
    BY OpenOK DEF CoverInv
<1>2. q.called = TRUE
    BY <1>1 DEF ReqOK, RowsOK
<1>3. q.in \in Inputs /\ OneLimit(q)
    BY <1>1 DEF ReqOK, TypesOK, OneLimit
<1>4. Fits(q) /\ Home(q) /\ q.reserved = Reserves(q) /\ q.asked = AskedOf(q)
    BY <1>1, <1>2 DEF CoverOK
<1> QED
    BY <1>3, <1>4, OpenAICovered, NativeCovered

\* Whatever an admin sets a model's ceiling to while the request is under way,
\* what was reserved for it covers the output the provider was asked for, on
\* every surface and through every adapter (clamp_output_tokens,
\* native_reservation_view, _reservation_cost).
THEOREM ReservationCovers == RequestsSpec => []ReservedCovers
<1>1. RequestsInit => CoverInv
    BY CoverStart
<1>2. RequestsInv /\ RequestsInv' /\ CoverInv /\ [RequestsNext]_requestVars => CoverInv'
    BY CoverStep
<1>3. RequestsInv /\ CoverInv => ReservedCovers
    BY CoveredState
<1> QED
    BY <1>1, <1>2, <1>3, RequestsInvariant, PTL DEF RequestsSpec

-----------------------------------------------------------------------------
(* The ledger.                                                             *)

Inv == TypeOK /\ LedgerInv /\ SettledIsDurable /\ TwiceOnlyIfAmbiguous

-----------------------------------------------------------------------------
(* The initial state.                                                      *)

\* The invariant holds before anything was settled.
LEMMA InitInv == Init => Inv
<1> SUFFICES ASSUME Init PROVE Inv
    OBVIOUS
<1> USE ConstantsOK DEF Init
<1>1. TypeOK
    BY DEF TypeOK, DbTypeOK, FlowTypeOK, LoopTypeOK
<1>2. \A r \in Reconcilers : Held(r) = {}
    BY DEF Held
<1>3. LedgerInv
    BY <1>2 DEF LedgerInv, HeldBelowBound, RowInHand, IdleHandsEmpty,
       OutboxIsSettled,
       HeldRowsAreDurable, FoundIsRecorded, LedgerHasTeam, UnknownIsAmbiguous
<1>4. SettledIsDurable /\ TwiceOnlyIfAmbiguous
    BY DEF SettledIsDurable, TwiceOnlyIfAmbiguous
<1> QED
    BY <1>1, <1>3, <1>4 DEF Inv

-----------------------------------------------------------------------------
(* Type correctness.                                                       *)

\* The row in hand after the idempotence check is an event.
LEMMA HandIsEvent ==
    ASSUME RowInHand, NEW r \in Reconcilers, rpc[r] \in {"commit", "mark"}
    PROVE  row[r] \in Events
BY DEF RowInHand

\* NextRow leaves the loop variables well typed.
LEMMA NextRowType ==
    ASSUME LoopTypeOK, NEW r \in Reconcilers, NextRow(r)
    PROVE  LoopTypeOK'
<1>1. /\ row' \in [Reconcilers -> Events \cup {NoRow}]
      /\ found' \in [Reconcilers -> BOOLEAN]
    BY DEF LoopTypeOK, NextRow
<1>2. /\ rpc' \in [Reconcilers -> {"idle", "row", "commit", "mark"}]
      /\ batch' \in [Reconcilers -> SUBSET Events]
    BY DEF LoopTypeOK, NextRow, EndBatch
<1>3. snap' \in [Reconcilers -> [Events -> 0..MaxAttempts]]
    <2>1. [e \in Events |-> 0] \in [Events -> 0..MaxAttempts]
        BY ConstantsOK
    <2> QED
        BY <2>1 DEF LoopTypeOK, NextRow, EndBatch
<1> QED
    BY <1>1, <1>2, <1>3 DEF LoopTypeOK

\* Every step keeps the types of the tables: in particular the attempts column
\* never passes MaxAttempts, because a reconciler only marks rows it selected
\* below it.
LEMMA DbTypeStep ==
    ASSUME TypeOK, HeldBelowBound, RowInHand, Next
    PROVE  DbTypeOK'
<1>1. ASSUME NEW e \in Events, Settlement(e) PROVE DbTypeOK'
    BY <1>1, ConstantsOK DEF Settlement, Record, EnqueuePending, AbortSettlement,
       dbVars, TypeOK, DbTypeOK
<1>2. ASSUME NEW r \in Reconcilers,
             SelectBatch(r) \/ CheckRow(r) \/ MarkFails(r) \/ CycleAborts(r)
      PROVE  DbTypeOK'
    BY <1>2 DEF SelectBatch, CheckRow, MarkFails, CycleAborts, dbVars, TypeOK,
       DbTypeOK
<1>3. ASSUME NEW r \in Reconcilers, CommitRow(r) \/ FailRow(r)
      PROVE  DbTypeOK'
    <2>1. row[r] \in Events
        BY <1>3, HandIsEvent DEF CommitRow, FailRow
    <2> QED
        BY <1>3, <2>1 DEF CommitRow, FailRow, MoveRow, TypeOK, DbTypeOK
<1>4. ASSUME NEW r \in Reconcilers, MarkFailedAttempt(r) PROVE DbTypeOK'
    <2>1. row[r] \in Events
        BY <1>4, HandIsEvent DEF MarkFailedAttempt
    <2>2. snap[r][row[r]] + 1 \in 0..MaxAttempts
        BY <2>1, ConstantsOK DEF HeldBelowBound, Held, TypeOK, LoopTypeOK
    <2> QED
        BY <1>4, <2>1, <2>2 DEF MarkFailedAttempt, TypeOK, DbTypeOK
<1>5. ASSUME NEW t \in Teams, Lifecycle(t) PROVE DbTypeOK'
    BY <1>5 DEF Lifecycle, DeleteTeam, HardDeleteTeam, DeleteRollsBack,
       PurgeTeam, EraseTeam, dbVars, TypeOK, DbTypeOK
<1> QED
    BY <1>1, <1>2, <1>3, <1>4, <1>5 DEF Next, Reconcile

\* Every step keeps the types of the settlement and team states.
LEMMA FlowTypeStep ==
    ASSUME TypeOK, Next
    PROVE  FlowTypeOK'
<1> USE DEF TypeOK, FlowTypeOK
<1>1. ASSUME NEW e \in Events, Settlement(e) PROVE FlowTypeOK'
    BY <1>1 DEF Settlement, Record, EnqueuePending, AbortSettlement
<1>2. ASSUME NEW r \in Reconcilers, Reconcile(r) PROVE FlowTypeOK'
    BY <1>2 DEF Reconcile, SelectBatch, CheckRow, CommitRow, FailRow,
       MarkFailedAttempt, MarkFails, CycleAborts
<1>3. ASSUME NEW t \in Teams, Lifecycle(t) PROVE FlowTypeOK'
    BY <1>3 DEF Lifecycle, DeleteTeam, HardDeleteTeam, DeleteRollsBack,
       PurgeTeam, EraseTeam
<1> QED
    BY <1>1, <1>2, <1>3 DEF Next

\* Every step keeps the types of the reconcilers' local state.
LEMMA LoopTypeStep ==
    ASSUME TypeOK, Next
    PROVE  LoopTypeOK'
<1>1. ASSUME UNCHANGED loopVars PROVE LoopTypeOK'
    BY <1>1 DEF loopVars, TypeOK, LoopTypeOK
<1>2. ASSUME NEW r \in Reconcilers, SelectBatch(r) PROVE LoopTypeOK'
    <2>1. Oldest \subseteq Events
        BY DEF Oldest, Selectable, TypeOK, DbTypeOK
    <2>2. [e \in Events |-> IF e \in Oldest THEN attempts[e] ELSE 0]
              \in [Events -> 0..MaxAttempts]
        BY ConstantsOK DEF TypeOK, DbTypeOK
    <2> QED
        BY <1>2, <2>1, <2>2 DEF SelectBatch, TypeOK, LoopTypeOK
<1>3. ASSUME NEW r \in Reconcilers, CheckRow(r) PROVE LoopTypeOK'
    BY <1>3 DEF CheckRow, TypeOK, LoopTypeOK
<1>4. ASSUME NEW r \in Reconcilers, FailRow(r) PROVE LoopTypeOK'
    BY <1>4 DEF FailRow, TypeOK, LoopTypeOK
<1>5. ASSUME NEW r \in Reconcilers,
             CommitRow(r) \/ MarkFailedAttempt(r) \/ MarkFails(r)
      PROVE  LoopTypeOK'
    BY <1>5, NextRowType DEF CommitRow, MarkFailedAttempt, MarkFails, TypeOK
<1>6. ASSUME NEW r \in Reconcilers, CycleAborts(r) PROVE LoopTypeOK'
    BY <1>6, ConstantsOK DEF CycleAborts, EndBatch, TypeOK, LoopTypeOK
<1>7. ASSUME NEW e \in Events, Settlement(e) PROVE LoopTypeOK'
    BY <1>7, <1>1 DEF Settlement, Record, EnqueuePending, AbortSettlement
<1>8. ASSUME NEW t \in Teams, Lifecycle(t) PROVE LoopTypeOK'
    BY <1>8, <1>1 DEF Lifecycle, DeleteTeam, HardDeleteTeam, DeleteRollsBack,
       PurgeTeam, EraseTeam
<1> QED
    BY <1>2, <1>3, <1>4, <1>5, <1>6, <1>7, <1>8 DEF Next, Reconcile

-----------------------------------------------------------------------------
(* What an action does to the rows the reconcilers hold.                   *)

\* No reconciler gets hold of a row or of an idempotence answer.
LetsGo ==
    \A q \in Reconcilers :
        /\ Held(q)' \subseteq Held(q)
        /\ \A e \in Held(q)' : snap'[q][e] = snap[q][e]
        /\ found'[q] => found[q] /\ row'[q] = row[q]
        /\ rpc'[q] \in {"commit", "mark"} =>
                rpc[q] \in {"commit", "mark"} /\ row'[q] = row[q]
        /\ rpc'[q] \in {"idle", "row"} =>
                \/ row'[q] = NoRow
                \/ rpc[q] \in {"idle", "row"} /\ row'[q] = row[q]

\* Ending or continuing a batch adds no row to anyone's hands, and empties the
\* reconciler's own.
LEMMA NextRowLetsGo ==
    ASSUME TypeOK, NEW r \in Reconcilers, NextRow(r)
    PROVE  /\ LetsGo
           /\ Held(r)' \subseteq batch[r] /\ ~found'[r]
<1>1. row' = [row EXCEPT ![r] = NoRow] /\ found' = [found EXCEPT ![r] = FALSE]
    BY DEF NextRow
<1>2. \/ /\ rpc' = [rpc EXCEPT ![r] = "row"]
         /\ batch' = batch /\ snap' = snap
      \/ /\ rpc' = [rpc EXCEPT ![r] = "idle"]
         /\ batch' = [batch EXCEPT ![r] = {}]
         /\ snap' = [snap EXCEPT ![r] = [e \in Events |-> 0]]
    BY DEF NextRow, EndBatch
<1> USE DEF TypeOK, LoopTypeOK
<1>3. \A q \in Reconcilers : Held(q)' \subseteq Held(q)
    BY <1>1, <1>2, ConstantsOK DEF Held
<1>4. \A q \in Reconcilers : \A e \in Held(q)' : snap'[q][e] = snap[q][e]
    BY <1>1, <1>2, ConstantsOK DEF Held
<1>5. \A q \in Reconcilers : found'[q] => found[q] /\ row'[q] = row[q]
    BY <1>1
<1>6. \A q \in Reconcilers : rpc'[q] \in {"commit", "mark"} =>
            rpc[q] \in {"commit", "mark"} /\ row'[q] = row[q]
    BY <1>1, <1>2
<1>7. \A q \in Reconcilers : rpc'[q] \in {"idle", "row"} =>
            \/ row'[q] = NoRow
            \/ rpc[q] \in {"idle", "row"} /\ row'[q] = row[q]
    BY <1>1, <1>2
<1>8. Held(r)' \subseteq batch[r] /\ ~found'[r]
    BY <1>1, <1>2, ConstantsOK DEF Held
<1> QED
    BY <1>3, <1>4, <1>5, <1>6, <1>7, <1>8 DEF LetsGo

-----------------------------------------------------------------------------
(* The invariant, one lemma per action (or group of alike actions).        *)

Rest == LedgerInv /\ SettledIsDurable /\ TwiceOnlyIfAmbiguous

\* A settlement step: what it adds to the tables is not held by anyone yet.
LEMMA SettlementStep ==
    ASSUME Inv, NEW e \in Events, Settlement(e)
    PROVE  Rest'
<1> USE ConstantsOK DEF Inv, TypeOK, DbTypeOK, FlowTypeOK, LoopTypeOK
<1>1. UNCHANGED <<team, rpc, batch, snap, row, found>>
    BY DEF Settlement, Record, EnqueuePending, AbortSettlement, loopVars
<1>2. /\ ledger \subseteq ledger' /\ ledger' \subseteq ledger \cup {e}
      /\ pending \subseteq pending' /\ pending' \subseteq pending \cup {e}
      /\ ambiguous \subseteq ambiguous'
      /\ \A f \in Events \ {e} : settle'[f] = settle[f]
      /\ settle[e] \in {"calling", "record_failed"}
    BY DEF Settlement, Record, EnqueuePending, AbortSettlement, dbVars
<1>3. \A r \in Reconcilers : Held(r)' = Held(r)
    BY <1>1 DEF Held
<1>4. e \notin pending /\ \A r \in Reconcilers : e \notin Held(r)
    BY <1>2 DEF LedgerInv, OutboxIsSettled
<1>5. HeldBelowBound' /\ RowInHand' /\ IdleHandsEmpty'
    BY <1>1, <1>3 DEF LedgerInv, HeldBelowBound, RowInHand, IdleHandsEmpty
<1>6. OutboxIsSettled'
    <2>1. e \in pending' => settle'[e] \in {"settled", "dropped"}
        BY <1>4 DEF Settlement, Record, EnqueuePending, AbortSettlement, dbVars
    <2> QED
        BY <2>1, <1>2, <1>3, <1>4 DEF LedgerInv, OutboxIsSettled
<1>7. HeldRowsAreDurable'
    BY <1>1, <1>2, <1>3 DEF LedgerInv, HeldRowsAreDurable, Durable, Exists
<1>8. FoundIsRecorded'
    <2> SUFFICES ASSUME NEW r \in Reconcilers, found'[r]
                 PROVE  /\ row'[r] \in Events
                        /\ \/ row'[r] \in ledger'
                           \/ ~Exists(TeamOf[row[r]])' /\ row'[r] \notin pending'
        BY <1>1 DEF FoundIsRecorded
    <2>1. row[r] \in Events /\ row[r] \in Held(r)
        BY <1>1 DEF LedgerInv, FoundIsRecorded, Held
    <2> QED
        BY <2>1, <1>1, <1>2, <1>4 DEF LedgerInv, FoundIsRecorded, Exists
<1>9. LedgerHasTeam'
    <2>1. e \in ledger' => e \in ledger \/ Exists(TeamOf[e])
        BY DEF Settlement, Record, EnqueuePending, AbortSettlement, dbVars
    <2> QED
        BY <2>1, <1>1, <1>2 DEF LedgerInv, LedgerHasTeam, Exists
<1>10. UnknownIsAmbiguous'
    <2>1. e \in ledger' => /\ settle'[e] # "calling"
                           /\ settle'[e] = "record_failed" => e \in ambiguous'
        BY DEF Settlement, Record, EnqueuePending, AbortSettlement, dbVars,
           LedgerInv, UnknownIsAmbiguous
    <2> QED
        BY <2>1, <1>2 DEF LedgerInv, UnknownIsAmbiguous
<1>11. SettledIsDurable'
    <2>1. settle'[e] = "settled" => e \in ledger' \cup pending'
        BY DEF Settlement, Record, EnqueuePending, AbortSettlement
    <2> QED
        BY <2>1, <1>1, <1>2 DEF SettledIsDurable, Durable, Exists
<1>12. TwiceOnlyIfAmbiguous'
    <2>1. e \in ledger' /\ e \in pending' => e \in ambiguous'
        BY <1>4 DEF Settlement, Record, EnqueuePending, AbortSettlement, dbVars,
           LedgerInv, UnknownIsAmbiguous
    <2> QED
        BY <2>1, <1>2 DEF TwiceOnlyIfAmbiguous
<1> QED
    BY <1>5, <1>6, <1>7, <1>8, <1>9, <1>10, <1>11, <1>12 DEF Rest, LedgerInv

\* Steps that change no table but possibly `attempts`, and put no new row into
\* a reconciler's hands.
LEMMA LetGoStep ==
    ASSUME Inv, LetsGo,
           UNCHANGED <<ledger, pending, settle, team, ambiguous>>
    PROVE  Rest'
<1> USE DEF LetsGo
<1> USE DEF Inv, LedgerInv
<1>1. HeldBelowBound'
    BY DEF HeldBelowBound
<1>2. RowInHand' /\ IdleHandsEmpty'
    BY DEF RowInHand, IdleHandsEmpty
<1>3. OutboxIsSettled'
    BY DEF OutboxIsSettled
<1>4. HeldRowsAreDurable'
    BY DEF HeldRowsAreDurable, Durable, Exists
<1>5. FoundIsRecorded'
    BY DEF FoundIsRecorded, Exists
<1>6. LedgerHasTeam' /\ UnknownIsAmbiguous'
    BY DEF LedgerHasTeam, UnknownIsAmbiguous, Exists
<1>7. SettledIsDurable' /\ TwiceOnlyIfAmbiguous'
    BY DEF SettledIsDurable, TwiceOnlyIfAmbiguous, Durable, Exists
<1> QED
    BY <1>1, <1>2, <1>3, <1>4, <1>5, <1>6, <1>7 DEF Rest

\* Selecting a batch: the rows it takes are selectable outbox rows.
LEMMA SelectBatchStep ==
    ASSUME Inv, NEW r \in Reconcilers, SelectBatch(r)
    PROVE  Rest'
<1> USE ConstantsOK DEF Inv, TypeOK, DbTypeOK, LoopTypeOK
<1>1. /\ UNCHANGED <<ledger, pending, settle, team, ambiguous, row, found>>
      /\ batch' = [batch EXCEPT ![r] = Oldest]
      /\ rpc' = [rpc EXCEPT ![r] = "row"]
      /\ snap' = [snap EXCEPT ![r] = [e \in Events |->
                        IF e \in Oldest THEN attempts[e] ELSE 0]]
    BY DEF SelectBatch, dbVars
<1>2. /\ Oldest \subseteq pending
      /\ \A e \in Oldest : attempts[e] < MaxAttempts
    BY DEF Oldest, Selectable, Quarantined
<1>3. \A q \in Reconcilers \ {r} : Held(q)' = Held(q) /\ snap'[q] = snap[q]
    BY <1>1 DEF Held
<1>4. Held(r)' = Oldest \cup ({row[r]} \cap Events)
    BY <1>1 DEF Held
<1>5. SUFFICES row[r] \notin Events
    <2>1. ASSUME row[r] \notin Events PROVE Rest'
        <3>1. Held(r)' = Oldest
            BY <1>4, <2>1
        <3>2. HeldBelowBound'
            BY <1>1, <1>2, <1>3, <3>1 DEF LedgerInv, HeldBelowBound
        <3>3. RowInHand' /\ IdleHandsEmpty'
            BY <1>1 DEF LedgerInv, RowInHand, IdleHandsEmpty, SelectBatch
        <3>4. OutboxIsSettled'
            BY <1>1, <1>2, <1>3, <3>1 DEF LedgerInv, OutboxIsSettled
        <3>5. HeldRowsAreDurable'
            BY <1>1, <1>2, <1>3, <3>1
               DEF LedgerInv, HeldRowsAreDurable, Durable, Exists
        <3>6. FoundIsRecorded' /\ LedgerHasTeam' /\ UnknownIsAmbiguous'
            BY <1>1 DEF LedgerInv, FoundIsRecorded, LedgerHasTeam,
               UnknownIsAmbiguous, Exists
        <3>7. SettledIsDurable' /\ TwiceOnlyIfAmbiguous'
            BY <1>1 DEF SettledIsDurable, TwiceOnlyIfAmbiguous, Durable, Exists
        <3> QED
            BY <3>2, <3>3, <3>4, <3>5, <3>6, <3>7 DEF Rest, LedgerInv
    <2> QED
        BY <2>1
<1> QED
    BY DEF SelectBatch, LedgerInv, IdleHandsEmpty

\* Taking the next row of the batch in hand and looking it up in the ledger.
LEMMA CheckRowStep ==
    ASSUME Inv, NEW r \in Reconcilers, CheckRow(r)
    PROVE  Rest'
<1> USE ConstantsOK DEF Inv, TypeOK, DbTypeOK, LoopTypeOK
<1>1. PICK e \in batch[r] :
        /\ row' = [row EXCEPT ![r] = e]
        /\ found' = [found EXCEPT ![r] = e \in ledger]
        /\ batch' = [batch EXCEPT ![r] = @ \ {e}]
    BY DEF CheckRow
<1>2. /\ UNCHANGED <<ledger, pending, settle, team, ambiguous, snap>>
      /\ rpc' = [rpc EXCEPT ![r] = "commit"]
    BY DEF CheckRow, dbVars
<1>3. \A q \in Reconcilers : Held(q)' \subseteq Held(q)
    BY <1>1 DEF Held
<1>4. HeldBelowBound' /\ OutboxIsSettled'
    BY <1>2, <1>3 DEF LedgerInv, HeldBelowBound, OutboxIsSettled
<1>5. HeldRowsAreDurable'
    BY <1>2, <1>3 DEF LedgerInv, HeldRowsAreDurable, Durable, Exists
<1>6. RowInHand' /\ IdleHandsEmpty'
    BY <1>1, <1>2 DEF LedgerInv, RowInHand, IdleHandsEmpty
<1>7. FoundIsRecorded'
    BY <1>1, <1>2 DEF LedgerInv, FoundIsRecorded, Exists
<1>8. LedgerHasTeam' /\ UnknownIsAmbiguous'
    BY <1>2 DEF LedgerInv, LedgerHasTeam, UnknownIsAmbiguous, Exists
<1>9. SettledIsDurable' /\ TwiceOnlyIfAmbiguous'
    BY <1>2 DEF SettledIsDurable, TwiceOnlyIfAmbiguous, Durable, Exists
<1> QED
    BY <1>4, <1>5, <1>6, <1>7, <1>8, <1>9 DEF Rest, LedgerInv

\* The heart of the reconciler: moving a row leaves the union of the two tables
\* as it was, however stale the row and the idempotence answer are.
LEMMA MoveKeepsDurable ==
    ASSUME Inv, NEW r \in Reconcilers, rpc[r] = "commit",
           InsertValid(r), MoveRow(r)
    PROVE  /\ row[r] \in Events
           /\ Durable' = Durable
           /\ ledger \subseteq ledger' /\ ledger' \subseteq ledger \cup {row[r]}
           /\ row[r] \in ledger' => Exists(TeamOf[row[r]])
           /\ pending' = pending \ {row[r]}
<1> USE DEF Inv, LedgerInv
<1>1. row[r] \in Events
    BY HandIsEvent
<1>2. CASE found[r]
    <2>1. row[r] \in ledger \/ row[r] \notin pending
        BY <1>2 DEF FoundIsRecorded
    <2> QED
        BY <1>1, <1>2, <2>1 DEF MoveRow, Durable, LedgerHasTeam
<1>3. CASE ~found[r]
    <2>1. Exists(TeamOf[row[r]])
        BY <1>3 DEF InsertValid
    <2>2. row[r] \in Durable
        BY <1>1, <2>1 DEF HeldRowsAreDurable, Held
    <2> QED
        BY <1>1, <1>3, <2>1, <2>2 DEF MoveRow, Durable
<1> QED
    BY <1>2, <1>3

\* A step that moves the row in hand and lets go of it, or fails after that.
LEMMA MoveStep ==
    ASSUME Inv, NEW r \in Reconcilers, rpc[r] = "commit",
           InsertValid(r), MoveRow(r), LetsGo, UNCHANGED <<settle, team, ambiguous>>
    PROVE  Rest'
<1> USE DEF Inv, LedgerInv, LetsGo
<1>1. /\ row[r] \in Events
      /\ Durable' = Durable
      /\ ledger \subseteq ledger' /\ ledger' \subseteq ledger \cup {row[r]}
      /\ row[r] \in ledger' => Exists(TeamOf[row[r]])
      /\ pending' = pending \ {row[r]}
    BY MoveKeepsDurable
<1>2. row[r] \in Held(r)
    BY <1>1 DEF Held
<1>3. HeldBelowBound'
    BY DEF HeldBelowBound
<1>4. RowInHand' /\ IdleHandsEmpty'
    BY DEF RowInHand, IdleHandsEmpty
<1>5. OutboxIsSettled'
    BY <1>1 DEF OutboxIsSettled
<1>6. HeldRowsAreDurable' /\ SettledIsDurable'
    BY <1>1 DEF HeldRowsAreDurable, SettledIsDurable, Exists
<1>7. FoundIsRecorded'
    BY <1>1 DEF FoundIsRecorded, Exists
<1>8. LedgerHasTeam'
    BY <1>1 DEF LedgerHasTeam, Exists
<1>9. UnknownIsAmbiguous'
    BY <1>1, <1>2 DEF UnknownIsAmbiguous, OutboxIsSettled
<1>10. TwiceOnlyIfAmbiguous'
    BY <1>1 DEF TwiceOnlyIfAmbiguous
<1> QED
    BY <1>3, <1>4, <1>5, <1>6, <1>7, <1>8, <1>9, <1>10 DEF Rest

\* A step that touches no reconciler lets go of nothing.
LEMMA IdleLetsGo ==
    ASSUME UNCHANGED <<batch, row, found, snap>>,
           \/ rpc' = rpc
           \/ \E r \in Reconcilers : rpc[r] = "commit" /\ rpc' = [rpc EXCEPT ![r] = "mark"],
           TypeOK
    PROVE  LetsGo
<1>1. \A q \in Reconcilers : Held(q)' = Held(q)
    BY DEF Held
<1>2. \A q \in Reconcilers :
        /\ rpc'[q] \in {"commit", "mark"} => rpc[q] \in {"commit", "mark"}
        /\ rpc'[q] \in {"idle", "row"} => rpc[q] \in {"idle", "row"}
    BY DEF TypeOK, LoopTypeOK
<1> QED
    BY <1>1, <1>2 DEF LetsGo

\* Every step of a reconciler.
LEMMA ReconcileStep ==
    ASSUME Inv, NEW r \in Reconcilers, Reconcile(r)
    PROVE  Rest'
<1> USE DEF Inv
<1>1. CASE SelectBatch(r)
    BY <1>1, SelectBatchStep
<1>2. CASE CheckRow(r)
    BY <1>2, CheckRowStep
<1>3. CASE CommitRow(r)
    BY <1>3, NextRowLetsGo, MoveStep DEF CommitRow
<1>4. CASE FailRow(r)
    <2>1. LetsGo
        BY <1>4, IdleLetsGo DEF FailRow
    <2>2. CASE InsertValid(r) /\ MoveRow(r)
        BY <1>4, <2>1, <2>2, MoveStep DEF FailRow
    <2>3. CASE UNCHANGED <<ledger, pending>>
        BY <1>4, <2>1, <2>3, LetGoStep DEF FailRow
    <2> QED
        BY <1>4, <2>2, <2>3 DEF FailRow
<1>5. CASE MarkFailedAttempt(r)
    BY <1>5, NextRowLetsGo, LetGoStep DEF MarkFailedAttempt
<1>6. CASE MarkFails(r)
    BY <1>6, NextRowLetsGo, LetGoStep DEF MarkFails, dbVars
<1>7. CASE CycleAborts(r)
    <2>1. NextRow(r)
        BY <1>7 DEF CycleAborts, NextRow
    <2> QED
        BY <1>7, <2>1, NextRowLetsGo, LetGoStep DEF CycleAborts, dbVars
<1> QED
    BY <1>1, <1>2, <1>3, <1>4, <1>5, <1>6, <1>7 DEF Reconcile

\* Erasing a team: what reconcilers still hold of it becomes harmless.
LEMMA EraseStep ==
    ASSUME Inv, NEW t \in Teams, EraseTeam(t)
    PROVE  Rest'
<1> USE ConstantsOK DEF Inv, TypeOK, DbTypeOK, FlowTypeOK
<1>1. /\ UNCHANGED <<settle, rpc, batch, snap, row, found, ambiguous>>
      /\ ledger' = ledger \ EventsOf(t) /\ pending' = pending \ EventsOf(t)
      /\ team' = [team EXCEPT ![t] = "gone"]
    BY DEF EraseTeam, loopVars
<1>2. \A r \in Reconcilers : Held(r)' = Held(r) /\ Held(r) \subseteq Events
    BY <1>1 DEF Held, LoopTypeOK
<1>3. \A e \in Events : /\ Exists(TeamOf[e])' <=> Exists(TeamOf[e]) /\ TeamOf[e] # t
                        /\ e \in EventsOf(t) <=> TeamOf[e] = t
    BY <1>1 DEF Exists, EventsOf
<1> USE DEF LedgerInv
<1>4. HeldBelowBound' /\ RowInHand' /\ IdleHandsEmpty'
    BY <1>1, <1>2 DEF HeldBelowBound, RowInHand, IdleHandsEmpty
<1>5. OutboxIsSettled'
    BY <1>1, <1>2 DEF OutboxIsSettled
<1>6. HeldRowsAreDurable' /\ SettledIsDurable'
    BY <1>1, <1>2, <1>3 DEF HeldRowsAreDurable, SettledIsDurable, Durable
<1>7. FoundIsRecorded'
    BY <1>1, <1>3 DEF FoundIsRecorded
<1>8. LedgerHasTeam' /\ UnknownIsAmbiguous' /\ TwiceOnlyIfAmbiguous'
    BY <1>1, <1>3 DEF LedgerHasTeam, UnknownIsAmbiguous, TwiceOnlyIfAmbiguous
<1> QED
    BY <1>4, <1>5, <1>6, <1>7, <1>8 DEF Rest

\* Every lifecycle step of a team.
LEMMA LifecycleStep ==
    ASSUME Inv, NEW t \in Teams, Lifecycle(t)
    PROVE  Rest'
<1>1. CASE HardDeleteTeam(t) \/ PurgeTeam(t)
    BY <1>1, EraseStep DEF HardDeleteTeam, PurgeTeam
<1>2. CASE DeleteTeam(t) \/ DeleteRollsBack(t)
    <2> USE DEF Inv, LedgerInv
    <2>1. /\ UNCHANGED <<ledger, pending, settle, rpc, batch, snap, row, found, ambiguous>>
          /\ \A u \in Teams : Exists(u)' <=> Exists(u)
        BY <1>2 DEF DeleteTeam, DeleteRollsBack, dbVars, loopVars, Exists, TypeOK,
           FlowTypeOK
    <2>2. \A r \in Reconcilers : Held(r)' = Held(r) /\ Held(r) \subseteq Events
        BY <2>1 DEF Held, TypeOK, LoopTypeOK
    <2>3. \A e \in Events : TeamOf[e] \in Teams
        BY ConstantsOK
    <2>4. HeldBelowBound' /\ RowInHand' /\ IdleHandsEmpty' /\ OutboxIsSettled'
        BY <2>1, <2>2 DEF HeldBelowBound, RowInHand, IdleHandsEmpty, OutboxIsSettled
    <2>5. HeldRowsAreDurable' /\ SettledIsDurable'
        BY <2>1, <2>2, <2>3 DEF HeldRowsAreDurable, SettledIsDurable, Durable
    <2>6. FoundIsRecorded'
        BY <2>1, <2>3 DEF FoundIsRecorded
    <2>7. LedgerHasTeam' /\ UnknownIsAmbiguous' /\ TwiceOnlyIfAmbiguous'
        BY <2>1, <2>3 DEF LedgerHasTeam, UnknownIsAmbiguous, TwiceOnlyIfAmbiguous,
           TypeOK, DbTypeOK
    <2> QED
        BY <2>4, <2>5, <2>6, <2>7 DEF Rest
<1> QED
    BY <1>1, <1>2 DEF Lifecycle

\* The invariant is inductive.
LEMMA InvStep == Inv /\ [Next]_vars => Inv'
<1> SUFFICES ASSUME Inv, [Next]_vars PROVE Inv'
    OBVIOUS
<1>1. CASE Next
    <2>1. TypeOK'
        BY <1>1, DbTypeStep, FlowTypeStep, LoopTypeStep DEF Inv, LedgerInv, TypeOK
    <2>2. Rest'
        BY <1>1, SettlementStep, ReconcileStep, LifecycleStep DEF Next
    <2> QED
        BY <2>1, <2>2 DEF Inv, Rest
<1>2. CASE UNCHANGED vars
    <2>1. UNCHANGED <<ledger, pending, arrived, clock, attempts, settle, team, rpc,
                      batch, snap, row, found, ambiguous>>
        BY <1>2 DEF vars, dbVars, loopVars
    <2>2. TypeOK'
        BY <2>1 DEF Inv, TypeOK, DbTypeOK, FlowTypeOK, LoopTypeOK
    <2>3. LetsGo
        BY <2>1, IdleLetsGo DEF Inv
    <2> QED
        BY <2>1, <2>2, <2>3, LetGoStep DEF Inv, Rest
<1> QED
    BY <1>1, <1>2

-----------------------------------------------------------------------------
(* Theorems.                                                               *)

\* In every reachable state the types hold, every settled event is on record,
\* and the reconcilers hold nothing they could misuse (UsageMeter._record_usage,
\* reconcile_pending, delete_team and purge_team, in any interleaving).
THEOREM LedgerInvariant == Spec => []Inv
<1>1. Init => Inv
    BY InitInv
<1>2. Inv /\ [Next]_vars => Inv'
    BY InvStep
<1> QED
    BY <1>1, <1>2, PTL DEF Spec

\* The types, and with them the bound on the attempts column of the outbox.
THEOREM TypeCorrect == Spec => []TypeOK
<1>1. Inv => TypeOK
    BY DEF Inv
<1> QED
    BY <1>1, LedgerInvariant, PTL

\* _record_usage: a settlement that returned left a billing record behind.
THEOREM SettledStaysDurable == Spec => []SettledIsDurable
<1>1. Inv => SettledIsDurable
    BY DEF Inv
<1> QED
    BY <1>1, LedgerInvariant, PTL

\* record() and reconcile_pending: only an ambiguous commit puts an event into
\* both tables.
THEOREM TwiceOnlyAmbiguous == Spec => []TwiceOnlyIfAmbiguous
<1>1. Inv => TwiceOnlyIfAmbiguous
    BY DEF Inv
<1> QED
    BY <1>1, LedgerInvariant, PTL

\* _record_usage: a settled call is on record, once unless its commit was
\* ambiguous.
THEOREM SettledOnRecordOnce == Spec => []RecordedOnce
<1>1. Inv => RecordedOnce
    BY DEF Inv, RecordedOnce
<1> QED
    BY <1>1, LedgerInvariant, PTL

\* reconcile_pending: what every reconciler may rely on about the row in its
\* hands, at every point of its batch.
THEOREM HandsAreSafe == Spec => []LedgerInv
<1>1. Inv => LedgerInv
    BY DEF Inv
<1> QED
    BY <1>1, LedgerInvariant, PTL

-----------------------------------------------------------------------------
(* Action properties and refinement.                                       *)

Acked == {e \in Events : settle[e] = "settled"}
Erased == {t \in Teams : team[t] = "gone"}

\* A reconciler's step leaves the abstract state alone.
LEMMA ReconcileStutters ==
    ASSUME Inv, NEW r \in Reconcilers, Reconcile(r)
    PROVE  Durable' = Durable /\ UNCHANGED <<settle, team>>
<1>1. CASE SelectBatch(r) \/ CheckRow(r) \/ MarkFailedAttempt(r) \/ MarkFails(r)
            \/ CycleAborts(r)
    BY <1>1 DEF SelectBatch, CheckRow, MarkFailedAttempt, MarkFails, CycleAborts,
       dbVars, Durable
<1>2. CASE CommitRow(r)
    BY <1>2, MoveKeepsDurable DEF CommitRow
<1>3. CASE FailRow(r)
    <2>1. CASE InsertValid(r) /\ MoveRow(r)
        BY <1>3, <2>1, MoveKeepsDurable DEF FailRow
    <2>2. CASE UNCHANGED <<ledger, pending>>
        BY <1>3, <2>2 DEF FailRow, Durable
    <2> QED
        BY <1>3, <2>1, <2>2 DEF FailRow
<1> QED
    BY <1>1, <1>2, <1>3 DEF Reconcile

\* A settlement step only adds its own event to the record.
LEMMA SettlementAdds ==
    ASSUME Inv, NEW e \in Events, Settlement(e)
    PROVE  /\ UNCHANGED team
           /\ settle[e] # "settled"
           /\ \/ Durable' = Durable /\ Acked' = Acked
              \/ Durable' = Durable \cup {e} /\ Acked' = Acked
              \/ Durable' = Durable \cup {e} /\ Acked' = Acked \cup {e}
<1> USE DEF Inv, TypeOK, FlowTypeOK, Durable, Acked
<1>1. CASE Record(e)
    BY <1>1 DEF Record
<1>2. CASE EnqueuePending(e)
    BY <1>2 DEF EnqueuePending
<1>3. CASE AbortSettlement(e)
    BY <1>3 DEF AbortSettlement, dbVars
<1> QED
    BY <1>1, <1>2, <1>3 DEF Settlement

\* A lifecycle step erases the record of one team that still existed, or
\* nothing at all.
LEMMA LifecycleErases ==
    ASSUME Inv, NEW t \in Teams, Lifecycle(t)
    PROVE  /\ UNCHANGED settle
           /\ \/ Durable' = Durable /\ Erased' = Erased
              \/ /\ t \notin Erased /\ Erased' = Erased \cup {t}
                 /\ Durable' = {e \in Durable : TeamOf[e] # t}
                 /\ Exists(t) /\ ~Exists(t)'
<1> USE DEF Inv, TypeOK, FlowTypeOK, DbTypeOK, Durable, Erased, Exists
<1>1. CASE DeleteTeam(t) \/ DeleteRollsBack(t)
    BY <1>1 DEF DeleteTeam, DeleteRollsBack, dbVars
<1>2. CASE HardDeleteTeam(t) \/ PurgeTeam(t)
    BY <1>2 DEF HardDeleteTeam, PurgeTeam, EraseTeam, EventsOf
<1> QED
    BY <1>1, <1>2 DEF Lifecycle

\* No step but the one that erases its team takes an event off the record:
\* reconcile races, failed commits, crashes and quarantine lose nothing.
THEOREM NothingLost == Spec => NeverLost
<1>1. Inv /\ [Next]_vars =>
        [\A e \in Durable : \/ e \in Durable'
                            \/ Exists(TeamOf[e]) /\ ~Exists(TeamOf[e])']_vars
    <2> SUFFICES ASSUME Inv, Next, NEW e \in Durable
                 PROVE  \/ e \in Durable'
                        \/ Exists(TeamOf[e]) /\ ~Exists(TeamOf[e])'
        OBVIOUS
    <2>1. ASSUME NEW f \in Events, Settlement(f) PROVE e \in Durable'
        BY <2>1, SettlementAdds
    <2>2. ASSUME NEW r \in Reconcilers, Reconcile(r) PROVE e \in Durable'
        BY <2>2, ReconcileStutters
    <2>3. ASSUME NEW t \in Teams, Lifecycle(t)
          PROVE  \/ e \in Durable'
                 \/ Exists(TeamOf[e]) /\ ~Exists(TeamOf[e])'
        BY <2>3, LifecycleErases
    <2> QED
        BY <2>1, <2>2, <2>3 DEF Next
<1> QED
    BY <1>1, LedgerInvariant, PTL DEF Spec, NeverLost

\* Ledger, outbox and reconcilers implement the abstract record of BillingRecord.
THEOREM LedgerImplementsRecord == Spec => RefinesBillingRecord
<1>1. Init => Abstract!Init
    BY DEF Init, Abstract!Init, Durable
<1>2. Inv /\ [Next]_vars => [Abstract!Next]_(Abstract!vars)
    <2> SUFFICES ASSUME Inv, [Next]_vars
                 PROVE  Abstract!Next \/ UNCHANGED Abstract!vars
        OBVIOUS
    <2> USE DEF Acked, Erased
    <2>1. ASSUME NEW e \in Events, Settlement(e)
          PROVE  Abstract!Next \/ UNCHANGED Abstract!vars
        <3>1. Erased' = Erased /\ e \notin Acked
            BY <2>1, SettlementAdds
        <3>2. CASE Durable' = Durable /\ Acked' = Acked
            BY <3>1, <3>2 DEF Abstract!vars
        <3>3. CASE Durable' = Durable \cup {e} /\ Acked' = Acked
            BY <3>1, <3>3 DEF Abstract!Next, Abstract!RecordUnacknowledged
        <3>4. CASE Durable' = Durable \cup {e} /\ Acked' = Acked \cup {e}
            BY <3>1, <3>4 DEF Abstract!Next, Abstract!Settle
        <3> QED
            BY <2>1, SettlementAdds, <3>2, <3>3, <3>4
    <2>2. ASSUME NEW r \in Reconcilers, Reconcile(r) PROVE UNCHANGED Abstract!vars
        BY <2>2, ReconcileStutters DEF Abstract!vars
    <2>3. ASSUME NEW t \in Teams, Lifecycle(t)
          PROVE  Abstract!Next \/ UNCHANGED Abstract!vars
        <3>1. Acked' = Acked
            BY <2>3, LifecycleErases
        <3>2. CASE Durable' = Durable /\ Erased' = Erased
            BY <3>1, <3>2 DEF Abstract!vars
        <3>3. CASE /\ t \notin Erased /\ Erased' = Erased \cup {t}
                   /\ Durable' = {e \in Durable : TeamOf[e] # t}
            BY <3>1, <3>3 DEF Abstract!Next, Abstract!Erase
        <3> QED
            BY <2>3, LifecycleErases, <3>2, <3>3
    <2>4. CASE UNCHANGED vars
        BY <2>4 DEF vars, dbVars, Durable, Abstract!vars
    <2> QED
        BY <2>1, <2>2, <2>3, <2>4 DEF Next
<1> QED
    BY <1>1, <1>2, LedgerInvariant, PTL DEF Spec, RefinesBillingRecord, Abstract!Spec

-----------------------------------------------------------------------------
(* The budget gate's read of the spend.                                    *)

ReadTypeOK ==
    /\ gate \in [Teams -> {"idle", "summing", "read"}]
    /\ owed \in [Teams -> SUBSET Events]
    /\ readLedger \in [Teams -> SUBSET Events]
    /\ readPending \in [Teams -> SUBSET Events]

\* The outbox has not been summed before the second SELECT.
NotReadYet == \A t \in Teams : gate[t] # "read" => readPending[t] = {}

\* An event the first SELECT counted is in the outbox, or will be put there,
\* only if its commit was ambiguous: EnqueuePending follows a record() that
\* raised, and record() of this event had committed.
CountedIsKnown ==
    \A t \in Teams : \A e \in readLedger[t] :
        /\ settle[e] # "calling"
        /\ settle[e] = "record_failed" \/ e \in pending => e \in ambiguous

\* An event owed when the read began was counted by the first SELECT, or was in
\* the outbox and is past its settlement: it is never enqueued again.
OwedIsSettled ==
    \A t \in Teams : \A e \in owed[t] :
        e \in readLedger[t] \/ settle[e] \in {"settled", "dropped"}

\* Only the team's own events are owed.
OwedIsTeams == \A t \in Teams : owed[t] \subseteq EventsOf(t)

\* What the second SELECT missed has left the outbox or is quarantined.
MissedIsGone ==
    \A t \in Teams : gate[t] = "read" =>
        \A e \in owed[t] \ (readLedger[t] \cup readPending[t]) :
            e \notin pending \/ attempts[e] > 0

ReadInv ==
    /\ ReadTypeOK /\ NotReadYet /\ CountedIsKnown /\ OwedIsSettled /\ MissedIsGone
    /\ CountedTwiceOnlyIfAmbiguous /\ OwedIsTeams

\* What a step of the ledger cannot undo: a settlement does not start over, an
\* ambiguous commit stays one, only a record() that raised leads to the outbox,
\* and the attempts of a settled event are never reset.
LEMMA LedgerMonotone ==
    ASSUME Inv, Next, NEW e \in Events
    PROVE  /\ settle[e] # "calling" => settle'[e] # "calling"
           /\ settle'[e] = "record_failed" => settle[e] \in {"calling", "record_failed"}
           /\ settle[e] \in {"settled", "dropped"} => settle'[e] = settle[e]
           /\ ambiguous \subseteq ambiguous'
           /\ e \in pending' => e \in pending \/ settle[e] = "record_failed"
           /\ settle[e] \in {"settled", "dropped"} /\ attempts[e] > 0
                => attempts'[e] > 0
<1> USE DEF Inv, TypeOK, DbTypeOK, FlowTypeOK
<1>1. ASSUME NEW f \in Events, Settlement(f)
      PROVE  /\ settle[e] # "calling" => settle'[e] # "calling"
             /\ settle'[e] = "record_failed" => settle[e] \in {"calling", "record_failed"}
             /\ settle[e] \in {"settled", "dropped"} => settle'[e] = settle[e]
             /\ ambiguous \subseteq ambiguous'
             /\ e \in pending' => e \in pending \/ settle[e] = "record_failed"
             /\ settle[e] \in {"settled", "dropped"} => attempts'[e] = attempts[e]
    <2>1. CASE Record(f)
        BY <2>1 DEF Record
    <2>2. CASE EnqueuePending(f)
        BY <2>2 DEF EnqueuePending
    <2>3. CASE AbortSettlement(f)
        BY <2>3 DEF AbortSettlement, dbVars
    <2> QED
        BY <1>1, <2>1, <2>2, <2>3 DEF Settlement
<1>2. ASSUME NEW r \in Reconcilers, Reconcile(r)
      PROVE  /\ UNCHANGED <<settle, ambiguous>>
             /\ pending' \subseteq pending
             /\ attempts[e] > 0 => attempts'[e] > 0
    <2>1. CASE SelectBatch(r) \/ CheckRow(r) \/ MarkFails(r) \/ CycleAborts(r)
        BY <2>1 DEF SelectBatch, CheckRow, MarkFails, CycleAborts, dbVars
    <2>2. CASE CommitRow(r) \/ FailRow(r)
        BY <2>2 DEF CommitRow, FailRow, MoveRow
    <2>3. CASE MarkFailedAttempt(r)
        <3>1. row[r] \in Events
            BY <2>3, HandIsEvent DEF MarkFailedAttempt, LedgerInv
        <3>2. snap[r][row[r]] \in 0..MaxAttempts
            BY <3>1 DEF LoopTypeOK
        <3>3. /\ UNCHANGED <<settle, ambiguous, pending>>
              /\ \/ attempts' = attempts
                 \/ attempts' = [attempts EXCEPT ![row[r]] = snap[r][row[r]] + 1]
            BY <2>3 DEF MarkFailedAttempt
        <3> QED
            BY <3>1, <3>2, <3>3, ConstantsOK
    <2> QED
        BY <1>2, <2>1, <2>2, <2>3 DEF Reconcile
<1>3. ASSUME NEW t \in Teams, Lifecycle(t)
      PROVE  UNCHANGED <<settle, ambiguous, attempts>> /\ pending' \subseteq pending
    BY <1>3 DEF Lifecycle, DeleteTeam, HardDeleteTeam, DeleteRollsBack, PurgeTeam,
       EraseTeam, dbVars
<1> QED
    BY <1>1, <1>2, <1>3 DEF Next

\* A step of the ledger beside a read in progress.
LEMMA LedgerBesideRead ==
    ASSUME Inv, ReadInv, Next, UNCHANGED gateVars
    PROVE  ReadInv'
<1> USE DEF ReadInv, gateVars
<1>1. ReadTypeOK' /\ NotReadYet' /\ OwedIsTeams'
    BY DEF ReadTypeOK, NotReadYet, OwedIsTeams
<1>2. CountedIsKnown'
    <2> SUFFICES ASSUME NEW t \in Teams, NEW e \in readLedger[t]
                 PROVE  /\ settle'[e] # "calling"
                        /\ settle'[e] = "record_failed" \/ e \in pending'
                              => e \in ambiguous'
        BY DEF CountedIsKnown
    <2>1. e \in Events
        BY DEF ReadTypeOK
    <2> QED
        BY <2>1, LedgerMonotone DEF CountedIsKnown
<1>3. OwedIsSettled'
    <2> SUFFICES ASSUME NEW t \in Teams, NEW e \in owed[t], e \notin readLedger[t]
                 PROVE  settle'[e] \in {"settled", "dropped"}
        BY DEF OwedIsSettled
    <2>1. e \in Events
        BY DEF ReadTypeOK
    <2> QED
        BY <2>1, LedgerMonotone DEF OwedIsSettled
<1>4. MissedIsGone'
    <2> SUFFICES ASSUME NEW t \in Teams, gate[t] = "read",
                        NEW e \in owed[t] \ (readLedger[t] \cup readPending[t])
                 PROVE  e \notin pending' \/ attempts'[e] > 0
        BY DEF MissedIsGone
    <2>1. e \in Events /\ settle[e] \in {"settled", "dropped"}
        BY DEF ReadTypeOK, OwedIsSettled
    <2> QED
        BY <2>1, LedgerMonotone DEF MissedIsGone
<1>5. CountedTwiceOnlyIfAmbiguous'
    <2> SUFFICES ASSUME NEW t \in Teams, NEW e \in readLedger[t] \cap readPending[t]
                 PROVE  e \in ambiguous'
        BY DEF CountedTwiceOnlyIfAmbiguous
    <2>1. e \in Events
        BY DEF ReadTypeOK
    <2> QED
        BY <2>1, LedgerMonotone DEF CountedTwiceOnlyIfAmbiguous
<1> QED
    BY <1>1, <1>2, <1>3, <1>4, <1>5

\* The first SELECT: what it counts is in the ledger, what else is owed waits
\* in the outbox.
LEMMA SumLedgerStep ==
    ASSUME Inv, ReadInv, NEW t \in Teams, SumLedger(t)
    PROVE  ReadInv'
<1> USE DEF ReadInv, Inv
<1>1. UNCHANGED <<ledger, pending, attempts, settle, ambiguous, readPending>>
      /\ gate[t] = "idle"
    BY DEF SumLedger, vars, dbVars
<1>2. /\ gate' = [gate EXCEPT ![t] = "summing"]
      /\ owed' = [owed EXCEPT ![t] = (ledger \cup Selectable) \cap EventsOf(t)]
      /\ readLedger' = [readLedger EXCEPT ![t] = ledger \cap EventsOf(t)]
    BY DEF SumLedger, LedgerSum
<1>3. ReadTypeOK' /\ NotReadYet' /\ OwedIsTeams'
    BY <1>1, <1>2 DEF ReadTypeOK, NotReadYet, OwedIsTeams, EventsOf
<1>4. \A e \in ledger : /\ settle[e] # "calling"
                        /\ settle[e] = "record_failed" \/ e \in pending
                              => e \in ambiguous
    BY DEF LedgerInv, UnknownIsAmbiguous, TwiceOnlyIfAmbiguous
<1>5. CountedIsKnown'
    BY <1>1, <1>2, <1>4 DEF CountedIsKnown, ReadTypeOK
<1>6. \A e \in Selectable : settle[e] \in {"settled", "dropped"}
    BY DEF Selectable, LedgerInv, OutboxIsSettled, TypeOK, DbTypeOK
<1>7. OwedIsSettled'
    BY <1>1, <1>2, <1>6 DEF OwedIsSettled, ReadTypeOK
<1>8. MissedIsGone'
    BY <1>1, <1>2 DEF MissedIsGone, ReadTypeOK
<1>9. CountedTwiceOnlyIfAmbiguous'
    BY <1>1, <1>2 DEF CountedTwiceOnlyIfAmbiguous, ReadTypeOK, NotReadYet
<1> QED
    BY <1>3, <1>5, <1>7, <1>8, <1>9

\* The second SELECT: an event already counted is there only if ambiguous, and
\* one it does not see is not in the outbox or is quarantined.
LEMMA SumPendingStep ==
    ASSUME Inv, ReadInv, NEW t \in Teams, SumPending(t)
    PROVE  ReadInv'
<1> USE DEF ReadInv
<1>1. UNCHANGED <<ledger, pending, attempts, settle, ambiguous, owed, readLedger>>
      /\ gate[t] = "summing"
    BY DEF SumPending, vars, dbVars
<1>2. /\ gate' = [gate EXCEPT ![t] = "read"]
      /\ readPending' = [readPending EXCEPT ![t] = Selectable \cap EventsOf(t)]
    BY DEF SumPending, PendingSum
<1>3. ReadTypeOK' /\ NotReadYet' /\ OwedIsTeams'
    BY <1>1, <1>2 DEF ReadTypeOK, NotReadYet, OwedIsTeams, EventsOf
<1>4. CountedIsKnown' /\ OwedIsSettled'
    BY <1>1 DEF CountedIsKnown, OwedIsSettled
<1>5. MissedIsGone'
    <2> SUFFICES ASSUME NEW u \in Teams, gate'[u] = "read",
                        NEW e \in owed[u] \ (readLedger[u] \cup readPending'[u])
                 PROVE  e \notin pending \/ attempts[e] > 0
        BY <1>1 DEF MissedIsGone
    <2>1. CASE u # t
        BY <1>1, <1>2, <2>1 DEF MissedIsGone, ReadTypeOK
    <2>2. CASE u = t
        <3>1. e \in EventsOf(t) => e \notin Selectable
            BY <1>2, <2>2 DEF ReadTypeOK
        <3>2. e \in Events /\ attempts[e] \in 0..MaxAttempts
            BY DEF ReadTypeOK, Inv, TypeOK, DbTypeOK
        <3>3. e \in EventsOf(t)
            BY <2>2 DEF OwedIsTeams
        <3> QED
            BY <3>1, <3>2, <3>3, ConstantsOK DEF Selectable, Quarantined
    <2> QED
        BY <2>1, <2>2
<1>6. CountedTwiceOnlyIfAmbiguous'
    BY <1>1, <1>2 DEF CountedTwiceOnlyIfAmbiguous, CountedIsKnown, ReadTypeOK,
       Selectable
<1> QED
    BY <1>3, <1>4, <1>5, <1>6

\* The gate forgets what it has read.
LEMMA ReadDoneStep ==
    ASSUME ReadInv, NEW t \in Teams, ReadDone(t)
    PROVE  ReadInv'
<1> USE DEF ReadInv, ReadDone, vars, dbVars
<1>1. ReadTypeOK' /\ NotReadYet' /\ OwedIsTeams'
    BY DEF ReadTypeOK, NotReadYet, OwedIsTeams
<1>2. CountedIsKnown' /\ OwedIsSettled'
    BY DEF CountedIsKnown, OwedIsSettled, ReadTypeOK
<1>3. MissedIsGone' /\ CountedTwiceOnlyIfAmbiguous'
    BY DEF MissedIsGone, CountedTwiceOnlyIfAmbiguous, ReadTypeOK
<1> QED
    BY <1>1, <1>2, <1>3

\* The ledger's invariant and the read's hold together in every state of the
\* ledger with reads beside it.
THEOREM ReadInvariant == ReadSpec => [](Inv /\ ReadInv)
<1>1. ReadInit => Inv /\ ReadInv
    BY InitInv DEF ReadInit, ReadInv, ReadTypeOK, NotReadYet, CountedIsKnown,
       OwedIsSettled, MissedIsGone, CountedTwiceOnlyIfAmbiguous, OwedIsTeams
<1>2. (Inv /\ ReadInv) /\ [ReadNext]_readVars => (Inv /\ ReadInv)'
    <2> SUFFICES ASSUME Inv, ReadInv, [ReadNext]_readVars
                 PROVE  Inv' /\ ReadInv'
        OBVIOUS
    <2>1. CASE Next /\ UNCHANGED gateVars
        BY <2>1, InvStep, LedgerBesideRead
    <2>2. ASSUME NEW t \in Teams, SumLedger(t) \/ SumPending(t) \/ ReadDone(t)
          PROVE  Inv' /\ ReadInv'
        <3>1. UNCHANGED vars
            BY <2>2 DEF SumLedger, SumPending, ReadDone
        <3>2. Inv'
            BY <3>1, InvStep
        <3> QED
            BY <2>2, <3>2, SumLedgerStep, SumPendingStep, ReadDoneStep
    <2>3. CASE UNCHANGED readVars
        <3>1. UNCHANGED vars /\ UNCHANGED gateVars
            BY <2>3 DEF readVars
        <3>2. Inv'
            BY <3>1, InvStep
        <3>3. ReadInv'
            BY <3>1 DEF vars, dbVars, gateVars, ReadInv, ReadTypeOK, NotReadYet,
               CountedIsKnown, OwedIsSettled, MissedIsGone,
               CountedTwiceOnlyIfAmbiguous, OwedIsTeams
        <3> QED
            BY <3>2, <3>3
    <2> QED
        BY <2>1, <2>2, <2>3 DEF ReadNext
<1> QED
    BY <1>1, <1>2, PTL DEF ReadSpec

\* spend_since: the sum a budget decision uses counts no charge twice and
\* misses none, but for an ambiguous commit and for rows the reconcilers touch
\* between its two SELECTs, whatever else happens in between.
THEOREM ReadsAreCountedOnce == ReadSpec => []ReadsCountOnce
<1>1. ReadInv => ReadsCountOnce
    BY DEF ReadInv, ReadsCountOnce, MissedIsGone, MissedOnlyIfMoved
<1> QED
    BY <1>1, ReadInvariant, PTL

=============================================================================
