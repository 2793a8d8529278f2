---------------------------- MODULE ProcessProofs ----------------------------
(***************************************************************************)
(* Proofs about what one process of the gateway keeps in memory, and what  *)
(* its adapters make of a provider's answer.                               *)
(*                                                                         *)
(* The circuit breaker, for any set of requests, any failure threshold and *)
(* any cooldown.  The three invariants are inductive only together: the    *)
(* counter stays within its type because a closed breaker is below the     *)
(* threshold, and a re-opened breaker is on a full counter because it was  *)
(* half-open before.                                                       *)
(*                                                                         *)
(* The registry of provider clients, for any number of tasks and keys and  *)
(* any capacity, under failed and cancelled constructions, expiry and      *)
(* shutdown.  OneClientPerKey is far from inductive: it holds because who  *)
(* constructs holds the lock that is in the key's slot, and who has built  *)
(* stands ahead of whoever looks again in the line at the guard.           *)
(*                                                                         *)
(* The translation of answers, for answers of any number of blocks and     *)
(* fragments.  A reader of the stream is at a spot, so many fragments into *)
(* a block; what it has put together is what the blocks hold up to there.  *)
(* At the last spot that is the whole answer, and the messages of a        *)
(* Responses stream are measured against the calls at each spot.           *)
(***************************************************************************)
EXTENDS CircuitBreaker, ClientRegistry, Answers, FiniteSetTheorems, SequenceTheorems, WellFoundedInduction, TLAPS

-----------------------------------------------------------------------------
(* The circuit breaker: the invariant.                                     *)

Inv == TypeOK /\ OneTrial /\ CountMatchesStatus

-----------------------------------------------------------------------------
(* The breaker methods as functions of the state.                          *)

\* A breaker value the methods can be called on.
Sound(b) ==
    /\ b \in BreakerStates(Requests)
    /\ b.status = "half_open" <=> b.trial # NoToken
    /\ b.status = "closed" <=> b.failures < Threshold
    /\ b.cool > 0 => b.status = "open"

\* A breaker no request has touched is sound.
LEMMA FreshSound == Sound(Fresh)
  BY BreakerConstants DEF Sound, Fresh, BreakerStates

\* Field by field, for the methods that build a new state.
LEMMA FieldsSound ==
  ASSUME NEW s \in {"closed", "open", "half_open"}, NEW f \in 0..Threshold,
         NEW c \in 0..Cooldown, NEW t \in Requests \cup {NoToken},
         s = "half_open" <=> t # NoToken,
         s = "closed" <=> f < Threshold,
         c > 0 => s = "open"
  PROVE  Sound([status |-> s, failures |-> f, cool |-> c, trial |-> t])
  BY DEF Sound, BreakerStates

\* A sound breaker's counter is full unless it is closed.
LEMMA SoundFields ==
  ASSUME NEW b, Sound(b)
  PROVE  /\ b.failures \in 0..Threshold /\ b.cool \in 0..Cooldown
         /\ b.status # "closed" => ~(b.failures < Threshold)
         /\ b.status = "closed" => b.failures + 1 \in 0..Threshold
  BY BreakerConstants DEF Sound, BreakerStates

\* allow: a sound breaker stays sound, whether it grants a trial or not.
LEMMA AllowSound ==
  ASSUME NEW b, Sound(b), NEW r \in Requests
  PROVE  Sound(AfterAllow(b, r))
<1>1. CASE TrialDue(b)
  <2>1. AfterAllow(b, r) = [status |-> "half_open", failures |-> b.failures,
                            cool |-> b.cool, trial |-> r]
    BY <1>1 DEF AfterAllow, Sound, BreakerStates
  <2>2. b.status = "open" /\ ~(b.cool > 0) /\ r # NoToken
    BY <1>1, NoTokenIsNoRequest DEF TrialDue
  <2> QED BY <2>1, <2>2, SoundFields, FieldsSound
<1>2. CASE ~TrialDue(b)
  BY <1>2 DEF AfterAllow
<1> QED BY <1>1, <1>2

\* Opening the breaker on a full counter f.
LEMMA TrippedSound ==
  ASSUME NEW f \in 0..Threshold, ~(f < Threshold)
  PROVE  Sound(Tripped(f))
<1>1. Cooldown \in 0..Cooldown
  BY BreakerConstants
<1> QED BY <1>1, FieldsSound DEF Tripped

\* record_failure, with any token.
LEMMA FailureSound ==
  ASSUME NEW b, Sound(b), NEW t
  PROVE  Sound(AfterFailure(b, t))
<1>1. CASE b.status = "closed"
  <2>1. AfterFailure(b, t) = Counted(b)
    BY <1>1 DEF AfterFailure
  <2>2. CASE b.failures + 1 >= Threshold
    <3>1. b.failures + 1 \in 0..Threshold /\ ~(b.failures + 1 < Threshold)
      BY <1>1, <2>2, SoundFields, BreakerConstants
    <3> QED BY <2>1, <2>2, <3>1, TrippedSound DEF Counted
  <2>3. CASE ~(b.failures + 1 >= Threshold)
    <3>1. Counted(b) = [status |-> "closed", failures |-> b.failures + 1,
                        cool |-> b.cool, trial |-> b.trial]
      BY <1>1, <2>3 DEF Counted, Sound, BreakerStates
    <3>2. b.trial = NoToken /\ ~(b.cool > 0)
      BY <1>1 DEF Sound
    <3>3. b.failures + 1 \in 0..Threshold /\ b.failures + 1 < Threshold
      BY <1>1, <2>3, SoundFields, BreakerConstants
    <3> QED BY <2>1, <3>1, <3>2, <3>3, SoundFields, FieldsSound
  <2> QED BY <2>2, <2>3
<1>2. CASE b.status = "open"
  BY <1>2 DEF AfterFailure
<1>3. CASE b.status = "half_open"
  BY <1>3, SoundFields, TrippedSound DEF AfterFailure
<1>4. b.status \in {"closed", "open", "half_open"}
  BY DEF Sound, BreakerStates
<1> QED BY <1>1, <1>2, <1>3, <1>4

\* record_success, with any token.
LEMMA SuccessSound ==
  ASSUME NEW b, Sound(b), NEW t
  PROVE  Sound(AfterSuccess(b, t))
  BY FreshSound DEF AfterSuccess

\* The clock.
LEMMA AgedSound ==
  ASSUME NEW b, Sound(b)
  PROVE  Sound(Aged(b))
  BY BreakerConstants DEF Sound, BreakerStates, Aged

\* Only the holder's outcome moves a half-open breaker, and no outcome closes
\* an open one.
LEMMA OutcomeEffect ==
  ASSUME NEW b, Sound(b), NEW t, NEW c,
         c = AfterFailure(b, t) \/ c = AfterSuccess(b, t)
  PROVE  /\ b.status = "half_open" =>
               IF t # NoToken /\ t = b.trial
                 THEN c.status # "half_open" ELSE c = b
         /\ b.status = "open" => c = b
         /\ b.status = "closed" => c.status # "half_open"
<1> USE BreakerConstants DEF Sound, BreakerStates
<1>1. CASE c = AfterFailure(b, t)
  <2>1. CASE b.status = "closed"
    BY <1>1, <2>1 DEF AfterFailure, Counted, Tripped
  <2>2. CASE b.status # "closed"
    BY <1>1, <2>2 DEF AfterFailure, OwnsTrial, Tripped
  <2> QED BY <2>1, <2>2
<1>2. CASE c = AfterSuccess(b, t)
  BY <1>2 DEF AfterSuccess, OwnsTrial, Fresh
<1> QED BY <1>1, <1>2

-----------------------------------------------------------------------------
(* The invariant.                                                          *)

LeaseTypeOK == held \in [Requests -> {"none", "plain", "trial", "lost"}]

\* Who holds the trial, as the model states it.
HolderOK == Holders = IF breaker.status = "half_open" THEN {breaker.trial} ELSE {}

LEMMA InvParts == Inv <=> Sound(breaker) /\ LeaseTypeOK /\ HolderOK
  BY DEF Inv, TypeOK, OneTrial, CountMatchesStatus, Sound, LeaseTypeOK, HolderOK

LEMMA InitInv == Init => Inv
<1> SUFFICES ASSUME Init PROVE Inv
  OBVIOUS
<1>1. Sound(breaker)
  BY FreshSound DEF Init
<1>2. LeaseTypeOK /\ HolderOK
  BY DEF Init, LeaseTypeOK, HolderOK, Holders, Fresh
<1> QED BY <1>1, <1>2, InvParts

\* An outcome of request r is recorded: r held the trial or it did not.
LEMMA OutcomeInv ==
  ASSUME Inv, NEW r \in Requests, held[r] \in {"plain", "trial"},
         breaker' = AfterFailure(breaker, Token(r))
           \/ breaker' = AfterSuccess(breaker, Token(r)),
         held' = [held EXCEPT ![r] = "none"]
  PROVE  Inv'
<1>1. Sound(breaker) /\ LeaseTypeOK /\ HolderOK
  BY InvParts
<1>2. Sound(breaker')
  BY <1>1, FailureSound, SuccessSound
<1>3. LeaseTypeOK'
  BY <1>1 DEF LeaseTypeOK
<1>4. HolderOK'
  <2>1. CASE breaker.status = "half_open"
    <3>1. CASE held[r] = "trial"
      <4>1. r = breaker.trial /\ Holders = {r}
        BY <1>1, <2>1, <3>1 DEF HolderOK, Holders
      <4>2. breaker'.status # "half_open"
        BY <1>1, <2>1, <3>1, <4>1, OutcomeEffect, NoTokenIsNoRequest DEF Token
      <4>3. Holders' = {}
        BY <1>1, <4>1 DEF Holders, LeaseTypeOK
      <4> QED BY <4>2, <4>3 DEF HolderOK
    <3>2. CASE held[r] # "trial"
      <4>1. breaker' = breaker
        BY <1>1, <2>1, <3>2, OutcomeEffect DEF Token
      <4>2. Holders' = Holders
        BY <1>1, <3>2 DEF Holders, LeaseTypeOK
      <4> QED BY <1>1, <4>1, <4>2 DEF HolderOK
    <3> QED BY <3>1, <3>2
  <2>2. CASE breaker.status # "half_open"
    <3>1. Holders = {}
      BY <1>1, <2>2 DEF HolderOK
    <3>2. Holders' = {}
      BY <1>1, <3>1 DEF Holders, LeaseTypeOK
    <3>3. breaker.status \in {"open", "closed"}
      BY <1>1, <2>2 DEF Sound, BreakerStates
    <3>4. breaker'.status # "half_open"
      BY <1>1, <2>2, <3>3, OutcomeEffect
    <3> QED BY <3>2, <3>4 DEF HolderOK
  <2> QED BY <2>1, <2>2
<1>5. (Sound(breaker) /\ LeaseTypeOK /\ HolderOK)'
  BY <1>2, <1>3, <1>4
<1> QED BY <1>5, InvParts DEF Inv, TypeOK, OneTrial, CountMatchesStatus, Sound,
          LeaseTypeOK, HolderOK

LEMMA NextInv == Inv /\ [Next]_vars => Inv'
<1> SUFFICES ASSUME Inv, [Next]_vars PROVE Inv'
  OBVIOUS
<1>0. Sound(breaker) /\ LeaseTypeOK /\ HolderOK
  BY InvParts
<1> USE DEF Inv, TypeOK, OneTrial, CountMatchesStatus
<1>1. ASSUME NEW r \in Requests, CallFirst(r) PROVE Inv'
  BY <1>1 DEF CallFirst, Holders, BreakerStates
<1>2. ASSUME NEW r \in Requests, Probe(r) PROVE Inv'
  <2>1. Sound(breaker')
    BY <1>0, <1>2, AllowSound DEF Probe
  <2>2. LeaseTypeOK'
    BY <1>0, <1>2 DEF Probe, LeaseTypeOK
  <2>3. CASE TrialDue(breaker)
    <3>1. breaker'.status = "half_open" /\ breaker'.trial = r
      BY <1>0, <1>2, <2>3 DEF Probe, AfterAllow, Sound, BreakerStates
    <3>2. Holders = {}
      BY <1>0, <2>3 DEF TrialDue, HolderOK
    <3>3. held' = [held EXCEPT ![r] = "trial"]
      BY <1>2, <2>3 DEF Probe, TokenGranted
    <3>4. Holders' = {r}
      BY <1>0, <3>2, <3>3 DEF Holders, LeaseTypeOK
    <3> QED BY <2>1, <2>2, <3>1, <3>4 DEF Sound, LeaseTypeOK
  <2>4. CASE ~TrialDue(breaker)
    <3>1. breaker' = breaker
      BY <1>2, <2>4 DEF Probe, AfterAllow
    <3>2. held' = [held EXCEPT ![r] = "plain"]
      BY <1>2, <2>4, NoTokenIsNoRequest DEF Probe, TokenGranted
    <3>3. Holders' = Holders
      BY <1>0, <1>2, <3>2 DEF Probe, Holders, LeaseTypeOK
    <3> QED BY <1>0, <2>1, <2>2, <3>1, <3>3 DEF Sound, LeaseTypeOK, HolderOK
  <2> QED BY <2>3, <2>4
<1>3. ASSUME NEW r \in Requests, RecordFailure(r) \/ RecordSuccess(r) PROVE Inv'
  BY <1>3, OutcomeInv DEF RecordFailure, RecordSuccess
<1>4. ASSUME NEW r \in Requests, Abandon(r) PROVE Inv'
  <2>1. breaker' = breaker /\ LeaseTypeOK'
    BY <1>0, <1>4 DEF Abandon, LeaseTypeOK
  <2>2. Holders' = Holders
    BY <1>0, <1>4 DEF Abandon, Holders, LeaseTypeOK
  <2> QED BY <1>0, <2>1, <2>2 DEF Sound, LeaseTypeOK, HolderOK
<1>5. ASSUME Tick PROVE Inv'
  <2>1. Sound(breaker')
    BY <1>0, <1>5, AgedSound DEF Tick
  <2>2. breaker'.status = breaker.status /\ breaker'.trial = breaker.trial
    BY <1>0, <1>5 DEF Tick, Aged, Sound, BreakerStates
  <2>3. Holders' = Holders
    BY <1>5 DEF Tick, Holders
  <2> QED BY <1>0, <1>5, <2>1, <2>2, <2>3 DEF Sound, Tick, LeaseTypeOK, HolderOK
<1>6. CASE UNCHANGED vars
  BY <1>6 DEF vars, Holders
<1> QED BY <1>1, <1>2, <1>3, <1>4, <1>5, <1>6 DEF Next, Outcome

\* The inductive invariant holds in every reachable state.
THEOREM BreakerInvariant == Spec => []Inv
  BY InitInv, NextInv, PTL DEF Spec

\* At any time at most one request holds the half-open trial, the breaker
\* knows which one, and no one holds a trial of a breaker that is not
\* half-open: for any number of requests.
THEOREM SingleTrial == Spec => []OneTrial
<1>1. Inv => OneTrial
  BY DEF Inv
<1> QED BY BreakerInvariant, <1>1, PTL

\* The breaker is closed exactly below the threshold.
THEOREM CountAndStatusAgree == Spec => []CountMatchesStatus
<1>1. Inv => CountMatchesStatus
  BY DEF Inv
<1> QED BY BreakerInvariant, <1>1, PTL

-----------------------------------------------------------------------------
\* Stale outcomes decide nothing: a half-open breaker is left only on its
\* holder's outcome, and an open breaker never closes directly.
THEOREM StaleOutcomesDecideNothing == Spec => OnlyTrialResolves
<1> DEFINE Resolves ==
      /\ breaker.status = "half_open" /\ breaker'.status # "half_open"
            => \E r \in Requests :
                  held[r] = "trial" /\ held'[r] = "none" /\ r = breaker.trial
      /\ breaker.status = "open" => breaker'.status # "closed"
<1>1. Inv /\ [Next]_vars => [Resolves]_vars
  <2> SUFFICES ASSUME Inv, Next PROVE Resolves
    OBVIOUS
  <2>0. Sound(breaker) /\ LeaseTypeOK /\ HolderOK
    BY InvParts
  <2>1. ASSUME NEW r \in Requests, CallFirst(r) \/ Abandon(r) PROVE Resolves
    BY <2>1 DEF CallFirst, Abandon
  <2>2. ASSUME NEW r \in Requests, Probe(r) PROVE Resolves
    BY <2>0, <2>2 DEF Probe, AfterAllow, Sound, BreakerStates
  <2>3. ASSUME NEW r \in Requests, RecordFailure(r) \/ RecordSuccess(r) PROVE Resolves
    <3>1. /\ held[r] \in {"plain", "trial"} /\ held'[r] = "none"
          /\ breaker' = AfterFailure(breaker, Token(r))
               \/ breaker' = AfterSuccess(breaker, Token(r))
      BY <2>0, <2>3 DEF RecordFailure, RecordSuccess, LeaseTypeOK
    <3>2. CASE breaker.status = "half_open" /\ breaker'.status # "half_open"
      <4>1. Token(r) # NoToken /\ Token(r) = breaker.trial
        BY <2>0, <3>1, <3>2, OutcomeEffect
      <4>2. held[r] = "trial" /\ r = breaker.trial
        BY <4>1 DEF Token
      <4> QED BY <3>1, <3>2, <4>2
    <3>3. CASE breaker.status = "open"
      BY <2>0, <3>1, <3>3, OutcomeEffect
    <3> QED BY <3>2, <3>3
  <2>4. ASSUME Tick PROVE Resolves
    BY <2>0, <2>4 DEF Tick, Aged, Sound, BreakerStates
  <2> QED BY <2>1, <2>2, <2>3, <2>4 DEF Next, Outcome
<1> QED BY <1>1, BreakerInvariant, PTL DEF Spec, OnlyTrialResolves

-----------------------------------------------------------------------------
(* The client registry: the invariant.                                     *)

\* u is in the sequence before t.
Ahead(s, u, t) == \E i, j \in 1..Len(s) : i < j /\ s[i] = u /\ s[j] = t

InLine == {"hit", "slot", "again", "built", "broken", "insert", "release"}

Holding == {"again", "built", "broken", "insert"}

Lockless == {"idle", "hit", "slot", "refused"}

Leasing == {"using", "release"}

TaskPlaces == {"idle", "hit", "slot", "wait", "again", "built", "broken", "insert", "using", "release",
               "done", "refused", "failed", "cancelled"}

TaskRecords == [pc : TaskPlaces, key : ClientKeys, on : Tasks \cup {NoEntry}, lock : Tasks \cup {NoEntry}]

EntryRecords ==
    [key : ClientKeys \cup {NoEntry}, leases : Nat, closing : BOOLEAN, closes : {0, 1},
     expired : BOOLEAN, made : BOOLEAN]

RegistryTypes ==
    /\ entries \in [ClientKeys -> Tasks \cup {NoEntry}]
    /\ retired \subseteq Tasks
    /\ entry \in [Tasks -> EntryRecords]
    /\ slots \in [ClientKeys -> Tasks \cup {NoEntry}]
    /\ task \in [Tasks -> TaskRecords]
    /\ used \subseteq Tasks \X Tasks
    /\ shut \in [pc : {"open", "asked", "closing"}, todo : Seq(Tasks), seen : SUBSET Tasks]
    /\ loose \subseteq ClientKeys

\* Who stands at the guard.
LineOK ==
    /\ line \in Seq(Tasks \cup {Closer})
    /\ IsInjective(line)
    /\ \A t \in Tasks : t \in ToSet(line) <=> task[t].pc \in InLine
    /\ Closer \in ToSet(line) => shut.pc = "asked" \/ (shut.pc = "closing" /\ shut.todo # <<>>)
    /\ shut.pc # "closing" => shut.todo = <<>>

\* Who stands at a creation lock, and whose the locks are.
LocksOK ==
    /\ queue \in [Tasks -> Seq(Tasks)]
    /\ \A t \in Tasks : task[t].pc \in Lockless => task[t].lock = NoEntry
    /\ \A t \in Tasks : task[t].lock # NoEntry => task[task[t].lock].lock = task[t].lock
    /\ \A k \in ClientKeys : slots[k] # NoEntry => task[slots[k]].lock = slots[k]
    /\ \A t \in Tasks : task[t].pc \in Holding \cup {"wait"} =>
         task[t].lock \in Tasks /\ t \in ToSet(queue[task[t].lock])
    /\ \A t \in Tasks : task[t].pc \in Holding => queue[task[t].lock][1] = t

\* One construction of a key at a time, unless it is loose: who constructs
\* holds the lock in the slot, who inserts is ahead of whoever looks again
\* under the lock that came after, and there is no client to reuse.
SoloOK ==
    \A t \in Tasks : task[t].key \notin loose =>
        /\ task[t].pc \in {"built", "broken"} => task[t].lock = slots[task[t].key]
        /\ task[t].pc \in {"built", "insert"} => ~Reusable(task[t].key)
        /\ \A u \in Tasks : task[u].pc = "insert" /\ task[u].key = task[t].key =>
             /\ task[t].pc \in {"built", "insert"} => u = t
             /\ task[t].pc = "again" /\ task[t].lock = slots[task[t].key] => Ahead(line, u, t)

\* A client that can be handed out is in the cache.
FoundOK ==
    \A e \in Tasks :
        Unclosed(e) /\ ~entry[e].closing /\ entry[e].key \notin loose => entries[entry[e].key] = e

Lessees(e) == {t \in Tasks : task[t].pc \in Leasing /\ task[t].on = e}

EntriesOK ==
    /\ \A e \in Tasks : entry[e].made => task[e].pc \in {"using", "release", "done"} /\ entry[e].key \in ClientKeys
    /\ \A k \in ClientKeys : entries[k] # NoEntry => Unclosed(entries[k]) /\ entry[entries[k]].key = k
    /\ \A t \in Tasks : task[t].pc \in Leasing => task[t].on \in Tasks /\ entry[task[t].on].made
    /\ \A e \in Tasks : entry[e].leases = Cardinality(Lessees(e))
    /\ \A e \in Tasks : Unclosed(e) => e \in Retained \cup retired

\* Every use of a client is dated.
UsedOK ==
    /\ \A e \in Tasks : <<e, e>> \notin used
    /\ \A a, b, c \in Tasks : <<a, b>> \in used /\ <<b, c>> \in used => <<a, c>> \in used
    /\ \A d, e \in Tasks : (entry[d].made \/ task[d].pc = "insert") /\ d # e => <<d, e>> \in used \/ <<e, d>> \in used

\* Shutdown closes what it saw and has yet to close.
SeenOK ==
    \A e \in shut.seen : entry[e].made /\ (entry[e].closes = 1 \/ e \in ToSet(shut.todo))

RegistryInv ==
    /\ RegistryTypes /\ LineOK /\ LocksOK /\ SoloOK /\ FoundOK /\ EntriesOK /\ UsedOK /\ SeenOK
    /\ HeldStaysOpen /\ Bounded

-----------------------------------------------------------------------------
(* Sequences of waiters.                                                   *)

\* Who joins at the end.
LEMMA JoinsLast ==
  ASSUME NEW S, NEW s \in Seq(S), NEW x \in S
  PROVE  /\ Append(s, x) \in Seq(S)
         /\ Append(s, x) # <<>>
         /\ ToSet(Append(s, x)) = ToSet(s) \cup {x}
         /\ s # <<>> => Append(s, x)[1] = s[1]
         /\ s = <<>> => Append(s, x)[1] = x
         /\ x \notin ToSet(s) /\ IsInjective(s) => IsInjective(Append(s, x))
         /\ \A u, v : Ahead(s, u, v) => Ahead(Append(s, x), u, v)
         /\ \A u : u \in ToSet(s) => Ahead(Append(s, x), u, x)
<1> DEFINE a == Append(s, x)
<1>1. /\ a \in Seq(S) /\ Len(a) = Len(s) + 1 /\ Len(s) \in Nat
      /\ \A i \in 1..Len(s) : a[i] = s[i]
      /\ a[Len(s) + 1] = x
      /\ DOMAIN a = 1..(Len(s) + 1) /\ DOMAIN s = 1..Len(s)
  OBVIOUS
<1>2. s = <<>> <=> Len(s) = 0 OBVIOUS
<1>3. a = <<>> <=> Len(a) = 0 BY <1>1
<1> HIDE DEF a
<1>4. ToSet(a) = ToSet(s) \cup {x} BY <1>1 DEF ToSet
<1>5. x \notin ToSet(s) /\ IsInjective(s) => IsInjective(a)
  BY <1>1 DEF ToSet, IsInjective
<1>6. \A u, v : Ahead(s, u, v) => Ahead(a, u, v) BY <1>1 DEF Ahead
<1>7. \A u : u \in ToSet(s) => Ahead(a, u, x)
  <2> SUFFICES ASSUME NEW u, u \in ToSet(s) PROVE Ahead(a, u, x) OBVIOUS
  <2>1. PICK i \in 1..Len(s) : s[i] = u BY <1>1 DEF ToSet
  <2>2. i \in 1..Len(a) /\ Len(s) + 1 \in 1..Len(a) /\ i < Len(s) + 1 BY <1>1
  <2> QED BY <2>1, <2>2, <1>1 DEF Ahead
<1> QED BY <1>1, <1>2, <1>3, <1>4, <1>5, <1>6, <1>7 DEF a

\* The first leaves.
LEMMA FirstLeaves ==
  ASSUME NEW S, NEW s \in Seq(S), s # <<>>
  PROVE  /\ Tail(s) \in Seq(S)
         /\ s[1] \in ToSet(s)
         /\ \A u : u \in ToSet(s) /\ u # s[1] => u \in ToSet(Tail(s))
         /\ ToSet(Tail(s)) \subseteq ToSet(s)
         /\ IsInjective(s) => IsInjective(Tail(s)) /\ ToSet(Tail(s)) = ToSet(s) \ {s[1]}
         /\ \A u, v : Ahead(s, u, v) /\ u # s[1] => Ahead(Tail(s), u, v)
         /\ IsInjective(s) => \A u : ~Ahead(s, u, s[1])
<1> DEFINE a == Tail(s)
<1>1. /\ a \in Seq(S) /\ Len(a) = Len(s) - 1 /\ Len(s) \in Nat \ {0}
      /\ \A i \in 1..Len(a) : a[i] = s[i + 1]
      /\ DOMAIN a = 1..(Len(s) - 1) /\ DOMAIN s = 1..Len(s)
  OBVIOUS
<1> HIDE DEF a
<1>2. s[1] \in ToSet(s) BY <1>1 DEF ToSet
<1>3. ASSUME NEW i \in 1..Len(s), s[i] # s[1] PROVE i - 1 \in 1..Len(a) /\ a[i - 1] = s[i]
  <2>1. i # 1 BY <1>3
  <2>2. i - 1 \in 1..Len(a) /\ (i - 1) + 1 = i BY <2>1, <1>1
  <2> QED BY <2>2, <1>1
<1>4. ASSUME NEW u, u \in ToSet(s), u # s[1] PROVE u \in ToSet(a)
  <2>1. PICK i \in 1..Len(s) : s[i] = u BY <1>4, <1>1 DEF ToSet
  <2>2. i - 1 \in 1..Len(a) /\ a[i - 1] = u BY <2>1, <1>3, <1>4
  <2>3. DOMAIN a = 1..Len(a) BY <1>1
  <2> QED BY <2>2, <2>3 DEF ToSet
<1>5. ToSet(a) \subseteq ToSet(s)
  <2>1. \A i \in 1..Len(a) : i + 1 \in 1..Len(s) /\ a[i] = s[i + 1] BY <1>1
  <2> QED BY <2>1, <1>1 DEF ToSet
<1>6. ASSUME IsInjective(s) PROVE IsInjective(a) /\ ToSet(a) = ToSet(s) \ {s[1]}
  <2>1. \A i, j \in 1..Len(s) : s[i] = s[j] => i = j BY <1>1, <1>6 DEF IsInjective
  <2>2. \A i \in 1..Len(a) : i + 1 \in 1..Len(s) /\ i + 1 # 1 /\ 1 \in 1..Len(s) /\ a[i] = s[i + 1] BY <1>1
  <2>3. \A i \in 1..Len(a) : a[i] # s[1] BY <2>1, <2>2
  <2>4. s[1] \notin ToSet(a) BY <2>3, <1>1 DEF ToSet
  <2>5. \A i, j \in 1..Len(a) : a[i] = a[j] => i = j
    <3> SUFFICES ASSUME NEW i \in 1..Len(a), NEW j \in 1..Len(a), a[i] = a[j] PROVE i = j OBVIOUS
    <3>1. i + 1 = j + 1 BY <2>1, <2>2
    <3>2. i \in Nat /\ j \in Nat BY <1>1
    <3> QED BY <3>1, <3>2
  <2>6. IsInjective(a) BY <2>5, <1>1 DEF IsInjective
  <2> QED BY <2>4, <2>6, <1>4, <1>5
<1>7. \A u, v : Ahead(s, u, v) /\ u # s[1] => Ahead(a, u, v)
  <2> SUFFICES ASSUME NEW u, NEW v, Ahead(s, u, v), u # s[1] PROVE Ahead(a, u, v) OBVIOUS
  <2>1. PICK i, j \in 1..Len(s) : i < j /\ s[i] = u /\ s[j] = v BY DEF Ahead
  <2>2. i - 1 \in 1..Len(a) /\ a[i - 1] = u BY <1>3, <2>1
  <2>3. i # 1 BY <2>1
  <2>4. j - 1 \in 1..Len(a) /\ (j - 1) + 1 = j /\ i - 1 < j - 1 BY <2>1, <2>3, <1>1
  <2>5. a[j - 1] = v BY <2>4, <2>1, <1>1
  <2> QED BY <2>2, <2>4, <2>5 DEF Ahead
<1>8. IsInjective(s) => \A u : ~Ahead(s, u, s[1])
  <2> SUFFICES ASSUME IsInjective(s), NEW u, NEW i \in 1..Len(s), NEW j \in 1..Len(s), i < j, s[j] = s[1]
               PROVE FALSE
    BY DEF Ahead
  <2>1. j = 1 BY <1>1 DEF IsInjective
  <2> QED BY <2>1, <1>1
<1> QED BY <1>1, <1>2, <1>4, <1>5, <1>6, <1>7, <1>8 DEF a

\* One of them gives up.
LEMMA OneGivesUp ==
  ASSUME NEW S, NEW s \in Seq(S), NEW x
  PROVE  /\ Dropped(s, x) \in Seq(S)
         /\ \A u : u \in ToSet(s) /\ u # x => u \in ToSet(Dropped(s, x))
         /\ ToSet(Dropped(s, x)) \subseteq ToSet(s)
         /\ IsInjective(s) => IsInjective(Dropped(s, x)) /\ x \notin ToSet(Dropped(s, x))
         /\ \A u, v : Ahead(s, u, v) /\ u # x /\ v # x => Ahead(Dropped(s, x), u, v)
         /\ s # <<>> /\ s[1] # x => Dropped(s, x)[1] = s[1]
<1>0. Len(s) \in Nat /\ DOMAIN s = 1..Len(s) OBVIOUS
<1>1. CASE ~Contains(s, x)
  <2>1. Dropped(s, x) = s BY <1>1 DEF Dropped
  <2>2. x \notin ToSet(s) BY <1>1, <1>0 DEF Contains, ToSet
  <2> QED BY <2>1, <2>2
<1>2. CASE Contains(s, x)
  <2> DEFINE n == CHOOSE i \in DOMAIN s : s[i] = x
             a == RemoveAt(s, n)
  <2>1. n \in 1..Len(s) /\ s[n] = x BY <1>2, <1>0 DEF Contains
  <2>2. Dropped(s, x) = a BY <1>2 DEF Dropped
  <2> HIDE DEF n
  <2>3. /\ a \in Seq(S) /\ Len(a) = Len(s) - 1
        /\ \A i \in 1..Len(a) : a[i] = IF i < n THEN s[i] ELSE s[i + 1]
    <3>1. \A i \in 1..(n - 1) : s[i] \in S BY <2>1, <1>0
    <3>2. \A i \in (n + 1)..Len(s) : s[i] \in S BY <2>1, <1>0
    <3> DEFINE p == SubSeq(s, 1, n - 1)
               q == SubSeq(s, n + 1, Len(s))
    <3>3. /\ p \in Seq(S) /\ Len(p) = n - 1
          /\ \A i \in 1..(n - 1) : p[i] = s[i]
      <4>1. 1 \in Int /\ n - 1 \in Int BY <2>1, <1>0
      <4>2. /\ p \in Seq(S) /\ Len(p) = (IF 1 <= n - 1 THEN n - 1 - 1 + 1 ELSE 0)
            /\ \A i \in 1..(n - 1 - 1 + 1) : p[i] = s[1 + i - 1]
        BY <4>1, <3>1, SubSeqProperties
      <4> HIDE DEF p
      <4>3. n \in Int /\ n >= 1 /\ n - 1 - 1 + 1 = n - 1 BY <2>1, <1>0
      <4>4. \A i \in 1..(n - 1) : 1 + i - 1 = i BY <4>3
      <4> QED BY <4>2, <4>3, <4>4
    <3>4. /\ q \in Seq(S) /\ Len(q) = Len(s) - n
          /\ \A i \in 1..(Len(s) - n) : q[i] = s[n + i]
      <4>1. n + 1 \in Int /\ Len(s) \in Int BY <2>1, <1>0
      <4>2. /\ q \in Seq(S) /\ Len(q) = (IF n + 1 <= Len(s) THEN Len(s) - (n + 1) + 1 ELSE 0)
            /\ \A i \in 1..(Len(s) - (n + 1) + 1) : q[i] = s[(n + 1) + i - 1]
        BY <4>1, <3>2, SubSeqProperties
      <4> HIDE DEF q
      <4>3. n \in Int /\ Len(s) \in Int /\ n <= Len(s) /\ Len(s) - (n + 1) + 1 = Len(s) - n BY <2>1, <1>0
      <4>4. \A i \in 1..(Len(s) - n) : (n + 1) + i - 1 = n + i BY <4>3
      <4>5. Len(q) = Len(s) - n
        <5>1. CASE n + 1 <= Len(s)
          <6>1. Len(q) = Len(s) - (n + 1) + 1 BY <5>1, <4>2
          <6>2. Len(s) - (n + 1) + 1 = Len(s) - n BY <4>3
          <6> QED BY ONLY <6>1, <6>2
        <5>2. CASE ~(n + 1 <= Len(s))
          <6>1. Len(q) = 0 BY <5>2, <4>2
          <6>2. n = Len(s)
            <7>1. n \in Int /\ Len(s) \in Int /\ n <= Len(s) BY <4>3
            <7> QED BY ONLY <5>2, <7>1
          <6>3. Len(s) - n = 0 BY <6>2, <4>3
          <6> QED BY <6>1, <6>3
        <5> QED BY <5>1, <5>2
      <4> QED BY <4>2, <4>3, <4>4, <4>5
    <3>5. a = p \o q BY DEF RemoveAt
    <3> HIDE DEF p, q, a
    <3>6. /\ a \in Seq(S) /\ Len(a) = Len(p) + Len(q)
          /\ \A i \in 1..(Len(p) + Len(q)) : a[i] = IF i <= Len(p) THEN p[i] ELSE q[i - Len(p)]
      <4>1. p \in Seq(S) /\ q \in Seq(S) BY <3>3, <3>4
      <4> QED BY <4>1, <3>5, ConcatProperties
    <3>7. Len(a) = Len(s) - 1 BY <3>3, <3>4, <3>6, <2>1, <1>0
    <3>8. ASSUME NEW i \in 1..Len(a) PROVE a[i] = IF i < n THEN s[i] ELSE s[i + 1]
      <4>0. i \in 1..(Len(p) + Len(q)) /\ i \in Int /\ n \in Int BY <3>6, <3>7, <2>1, <1>0
      <4>1. CASE i < n
        <5>1. i \in 1..(n - 1) /\ i <= Len(p) BY <4>0, <4>1, <3>3
        <5> QED BY <5>1, <4>0, <4>1, <3>6, <3>3
      <4>2. CASE ~(i < n)
        <5>1. ~(i <= Len(p)) /\ i - Len(p) \in 1..(Len(s) - n) /\ n + (i - Len(p)) = i + 1
          BY <4>0, <4>2, <3>3, <3>7, <1>0
        <5> QED BY <5>1, <4>0, <4>2, <3>6, <3>4
      <4> QED BY <4>1, <4>2
    <3> QED BY <3>6, <3>7, <3>8
  <2> HIDE DEF a
  <2>4. DOMAIN a = 1..Len(a) /\ n \in Nat BY <2>3, <2>1, <1>0
  \* Where the others are now.
  <2> DEFINE new(i) == IF i < n THEN i ELSE i - 1
             old(i) == IF i < n THEN i ELSE i + 1
  <2>5. ASSUME NEW i \in 1..Len(s), i # n PROVE new(i) \in 1..Len(a) /\ a[new(i)] = s[i]
    <3>1. CASE i < n
      <4>1. i \in 1..Len(a) BY <3>1, <2>3, <2>1, <1>0
      <4> QED BY <4>1, <3>1, <2>3
    <3>2. CASE ~(i < n)
      <4>1. i \in Int /\ n \in Int /\ i > n /\ n >= 1 /\ i <= Len(s) BY <3>2, <2>5, <2>1, <1>0
      <4>2. i - 1 \in 1..Len(a) /\ ~(i - 1 < n) /\ (i - 1) + 1 = i BY <4>1, <2>3, <1>0
      <4> QED BY <4>2, <3>2, <2>3
    <3> QED BY <3>1, <3>2
  <2>6. ASSUME NEW i \in 1..Len(a) PROVE old(i) \in 1..Len(s) /\ old(i) # n /\ a[i] = s[old(i)]
    <3>1. i \in Int /\ n \in Int /\ i >= 1 /\ i <= Len(s) - 1 /\ n <= Len(s) BY <2>3, <2>1, <1>0
    <3>2. old(i) \in 1..Len(s) /\ old(i) # n BY <3>1, <1>0
    <3>3. a[i] = s[old(i)] BY <2>3
    <3> QED BY <3>2, <3>3
  <2>7. \A u : u \in ToSet(s) /\ u # x => u \in ToSet(a) BY <2>5, <2>4, <2>1, <1>0 DEF ToSet
  <2>8. ToSet(a) \subseteq ToSet(s) BY <2>6, <2>4, <1>0 DEF ToSet
  <2>9. ASSUME IsInjective(s) PROVE IsInjective(a) /\ x \notin ToSet(a)
    <3>1. \A i, j \in 1..Len(s) : s[i] = s[j] => i = j BY <1>0, <2>9 DEF IsInjective
    <3>2. \A i \in 1..Len(a) : a[i] # x BY <3>1, <2>6, <2>1
    <3>3. ASSUME NEW i \in 1..Len(a), NEW j \in 1..Len(a), a[i] = a[j] PROVE i = j
      <4>1. old(i) = old(j) BY <3>1, <3>3, <2>6
      <4>2. i \in Int /\ j \in Int BY <2>3
      <4> QED BY <4>1, <4>2, <2>4
    <3> QED BY <3>2, <3>3, <2>4 DEF IsInjective, ToSet
  <2>10. ASSUME NEW u, NEW v, Ahead(s, u, v), u # x, v # x PROVE Ahead(a, u, v)
    <3>1. PICK i, j \in 1..Len(s) : i < j /\ s[i] = u /\ s[j] = v BY <2>10 DEF Ahead
    <3>2. i # n /\ j # n BY <3>1, <2>10, <2>1
    <3>3. new(i) \in 1..Len(a) /\ a[new(i)] = u /\ new(j) \in 1..Len(a) /\ a[new(j)] = v BY <3>1, <3>2, <2>5
    <3>4. new(i) < new(j)
      <4>1. i \in Int /\ j \in Int /\ n \in Int BY <1>0, <2>4
      <4> QED BY <4>1, <3>1, <3>2
    <3> HIDE DEF new
    <3> QED BY <3>3, <3>4 DEF Ahead
  <2>11. ASSUME s # <<>>, s[1] # x PROVE a[1] = s[1]
    <3>1. n # 1 /\ 1 \in 1..Len(s) /\ 1 < n BY <2>11, <2>1, <1>0
    <3>2. new(1) = 1 BY <3>1
    <3> HIDE DEF new
    <3> QED BY <3>1, <3>2, <2>5
  <2> HIDE DEF new, old
  <2> QED BY <2>2, <2>3, <2>7, <2>8, <2>9, <2>10, <2>11
<1> QED BY <1>1, <1>2

\* A finite set in some order.
LEMMA ListedAll ==
  ASSUME NEW S, IsFiniteSet(S)
  PROVE  SetToSeq(S) \in Seq(S) /\ ToSet(SetToSeq(S)) = S
<1> DEFINE n == Cardinality(S)
           q == SetToSeq(S)
<1>1. n \in Nat /\ ExistsBijection(1..n, S) BY FS_CardinalityType
<1>2. \E f \in [1..n -> S] : IsInjective(f) BY <1>1 DEF ExistsBijection, Bijection, Injection
<1>3. q \in [1..n -> S] /\ IsInjective(q) BY <1>2 DEF SetToSeq
<1> HIDE DEF q
<1>4. q \in Injection(1..n, S) BY <1>3 DEF Injection
<1>5. Cardinality(1..n) = n
  <2> HIDE DEF n
  <2>1. 1 \in Int /\ n \in Int BY <1>1
  <2>2. Cardinality(1..n) = IF 1 > n THEN 0 ELSE n - 1 + 1 BY <2>1, FS_Interval
  <2> QED BY <2>2, <1>1
<1>6. q \in Surjection(1..n, S) BY <1>4, <1>5, FS_Injection
<1>7. \A x \in S : \E i \in 1..n : q[i] = x BY <1>6 DEF Surjection
<1>8. q \in Seq(S)
  <2> HIDE DEF n
  <2> QED BY <1>1, <1>3, SeqDef
<1>9. ToSet(q) = S BY <1>3, <1>7 DEF ToSet
<1> QED BY <1>8, <1>9 DEF q

\* The n oldest are n, or all there are.
LEMMA OldestTaken ==
  ASSUME NEW P \in SUBSET Tasks, IsFiniteSet(P), NEW n \in Nat, UsedOK,
         \A d, e \in P : d # e => <<d, e>> \in used \/ <<e, d>> \in used
  PROVE  /\ n <= Cardinality(P) => Cardinality(P \ Oldest(P, n)) <= Cardinality(P) - n
         /\ n > Cardinality(P) => P \ Oldest(P, n) = {}
<1> DEFINE older(e) == {d \in P : <<d, e>> \in used}
           c == Cardinality(P)
           R == P \ Oldest(P, n)
           f == [e \in R |-> Cardinality(older(e))]
<1>1. c \in Nat BY FS_CardinalityType
<1>2. ASSUME NEW e \in P
      PROVE  IsFiniteSet(older(e)) /\ Cardinality(older(e)) \in Nat /\ Cardinality(older(e)) < c
  <2>1. older(e) \in SUBSET P OBVIOUS
  <2>2. IsFiniteSet(older(e)) /\ Cardinality(older(e)) <= c /\ (c = Cardinality(older(e)) => P = older(e))
    <3> HIDE DEF older
    <3> QED BY <2>1, FS_Subset
  <2>3. e \notin older(e) BY DEF UsedOK
  <2>4. Cardinality(older(e)) \in Nat BY <2>2, FS_CardinalityType
  <2>5. c # Cardinality(older(e)) BY <2>2, <2>3
  <2> QED
    <3> HIDE DEF older, c
    <3> QED BY <2>2, <2>4, <2>5, <1>1
<1>3. ASSUME NEW d \in P, NEW e \in P, <<d, e>> \in used
      PROVE  Cardinality(older(d)) # Cardinality(older(e))
  <2>1. older(d) \in SUBSET older(e) BY <1>3 DEF UsedOK
  <2>2. d \in older(e) /\ d \notin older(d) BY <1>3 DEF UsedOK
  <2>3. IsFiniteSet(older(e)) BY <1>2
  <2>4. Cardinality(older(e)) = Cardinality(older(d)) => older(e) = older(d)
    <3> HIDE DEF older
    <3> QED BY <2>1, <2>3, FS_Subset
  <2> QED BY <2>2, <2>4
<1>4. R = {e \in P : ~(Cardinality(older(e)) < n)} BY DEF Oldest
<1>5. \A e \in R : e \in P /\ f[e] = Cardinality(older(e)) /\ f[e] \in n..(c - 1)
  <2> SUFFICES ASSUME NEW e \in R PROVE e \in P /\ f[e] = Cardinality(older(e)) /\ f[e] \in n..(c - 1) OBVIOUS
  <2>1. e \in P /\ ~(Cardinality(older(e)) < n) BY <1>4
  <2>2. f[e] = Cardinality(older(e)) OBVIOUS
  <2>3. Cardinality(older(e)) \in Nat /\ Cardinality(older(e)) < c BY <2>1, <1>2
  <2>4. Cardinality(older(e)) \in n..(c - 1)
    <3> HIDE DEF older, c
    <3> QED BY <2>1, <2>3, <1>1
  <2> QED BY <2>1, <2>2, <2>4
<1>6. f \in Injection(R, n..(c - 1))
  <2>1. f \in [R -> n..(c - 1)]
    <3> HIDE DEF R, c, older
    <3> QED BY <1>5
  <2>2. \A d, e \in R : f[d] = f[e] => d = e
    <3> SUFFICES ASSUME NEW d \in R, NEW e \in R, f[d] = f[e], d # e PROVE FALSE OBVIOUS
    <3>1. d \in P /\ e \in P BY <1>5
    <3>2. <<d, e>> \in used \/ <<e, d>> \in used BY <3>1
    <3>3. Cardinality(older(d)) # Cardinality(older(e)) BY <3>1, <3>2, <1>3
    <3> QED BY <3>3, <1>5
  <2>3. DOMAIN f = R OBVIOUS
  <2> HIDE DEF f
  <2> QED BY <2>1, <2>2, <2>3 DEF Injection, IsInjective
<1> HIDE DEF f, R, c, older
<1>7. IsFiniteSet(n..(c - 1)) /\ Cardinality(n..(c - 1)) = IF n > c - 1 THEN 0 ELSE (c - 1) - n + 1
  <2>1. n \in Int /\ c - 1 \in Int BY <1>1
  <2> QED BY <2>1, FS_Interval
<1>8. IsFiniteSet(R) /\ Cardinality(R) <= Cardinality(n..(c - 1)) BY <1>6, <1>7, FS_Injection
<1>9. Cardinality(R) \in Nat BY <1>8, FS_CardinalityType
<1>10. n <= c => Cardinality(R) <= c - n BY <1>1, <1>7, <1>8, <1>9
<1>11. n > c => R = {}
  <2>1. n > c => Cardinality(R) = 0 BY <1>1, <1>7, <1>8, <1>9
  <2> QED BY <2>1, <1>8, FS_EmptySet
<1> QED BY <1>10, <1>11 DEF R, c

-----------------------------------------------------------------------------
(* What the steps do.                                                      *)

\* The state before a step, as the steps read it.
LEMMA RegistryState ==
  ASSUME RegistryInv, NEW t \in Tasks
  PROVE  /\ task[t] \in TaskRecords
         /\ entry[t] \in EntryRecords
         /\ entries[task[t].key] \in Tasks \cup {NoEntry}
         /\ slots[task[t].key] \in Tasks \cup {NoEntry}
         /\ task[t].pc \in Leasing => task[t].on \in Tasks
         /\ NoEntry \notin Tasks
  BY RegistryAssumption DEF RegistryInv, RegistryTypes, EntriesOK, TaskRecords

\* The task at the head of the line, when it leaves and when it joins again.
LEMMA HeadOfLine ==
  ASSUME LineOK, NEW t, line # <<>>, line[1] = t
  PROVE  /\ t \in ToSet(line)
         /\ Tail(line) \in Seq(Tasks \cup {Closer})
         /\ IsInjective(Tail(line))
         /\ ToSet(Tail(line)) = ToSet(line) \ {t}
         /\ \A u, v : Ahead(line, u, v) /\ u # t => Ahead(Tail(line), u, v)
         /\ \A u : ~Ahead(line, u, t)
         /\ t \in Tasks \cup {Closer} =>
              /\ Append(Tail(line), t) \in Seq(Tasks \cup {Closer})
              /\ IsInjective(Append(Tail(line), t))
              /\ ToSet(Append(Tail(line), t)) = ToSet(line)
              /\ \A u, v : Ahead(line, u, v) /\ u # t => Ahead(Append(Tail(line), t), u, v)
              /\ \A u : u \in ToSet(line) /\ u # t => Ahead(Append(Tail(line), t), u, t)
<1> DEFINE S == Tasks \cup {Closer}
<1>1. line \in Seq(S) /\ IsInjective(line) BY DEF LineOK
<1> HIDE DEF S
<1>2. /\ Tail(line) \in Seq(S)
      /\ line[1] \in ToSet(line)
      /\ IsInjective(Tail(line)) /\ ToSet(Tail(line)) = ToSet(line) \ {line[1]}
      /\ \A u, v : Ahead(line, u, v) /\ u # line[1] => Ahead(Tail(line), u, v)
      /\ \A u : ~Ahead(line, u, line[1])
  BY <1>1, FirstLeaves
<1> DEFINE r == Tail(line)
<1>3. r \in Seq(S) /\ IsInjective(r) /\ ToSet(r) = ToSet(line) \ {t} BY <1>2
<1> HIDE DEF r
<1>4. ASSUME t \in S
      PROVE  /\ Append(r, t) \in Seq(S)
             /\ IsInjective(Append(r, t))
             /\ ToSet(Append(r, t)) = ToSet(r) \cup {t}
             /\ \A u, v : Ahead(r, u, v) => Ahead(Append(r, t), u, v)
             /\ \A u : u \in ToSet(r) => Ahead(Append(r, t), u, t)
  <2>1. t \notin ToSet(r) BY <1>3
  <2> QED BY <1>3, <1>4, <2>1, JoinsLast
<1>5. t \in ToSet(line) BY <1>2
<1>6. \A u, v : Ahead(line, u, v) /\ u # t => Ahead(r, u, v) BY <1>2 DEF r
<1>7. \A u : ~Ahead(line, u, t) BY <1>2
<1>8. ASSUME t \in S
      PROVE  /\ ToSet(Append(r, t)) = ToSet(line)
             /\ \A u, v : Ahead(line, u, v) /\ u # t => Ahead(Append(r, t), u, v)
             /\ \A u : u \in ToSet(line) /\ u # t => Ahead(Append(r, t), u, t)
  BY <1>8, <1>3, <1>4, <1>5, <1>6
<1> QED BY <1>3, <1>4, <1>5, <1>6, <1>7, <1>8 DEF r, S

\* A task joins the line.
LEMMA EndOfLine ==
  ASSUME LineOK, NEW t \in Tasks \cup {Closer}, t \notin ToSet(line)
  PROVE  /\ Append(line, t) \in Seq(Tasks \cup {Closer})
         /\ IsInjective(Append(line, t))
         /\ ToSet(Append(line, t)) = ToSet(line) \cup {t}
         /\ \A u, v : Ahead(line, u, v) => Ahead(Append(line, t), u, v)
         /\ \A u : u \in ToSet(line) => Ahead(Append(line, t), u, t)
<1> DEFINE S == Tasks \cup {Closer}
<1>1. line \in Seq(S) /\ IsInjective(line) /\ t \in S BY DEF LineOK
<1> HIDE DEF S
<1>2. /\ Append(line, t) \in Seq(S)
      /\ IsInjective(Append(line, t))
      /\ ToSet(Append(line, t)) = ToSet(line) \cup {t}
      /\ \A u, v : Ahead(line, u, v) => Ahead(Append(line, t), u, v)
      /\ \A u : u \in ToSet(line) => Ahead(Append(line, t), u, t)
  BY <1>1, JoinsLast
<1> QED BY <1>2 DEF S

-----------------------------------------------------------------------------
(* The types.                                                              *)

\* A task goes to another place.
LEMMA Moves ==
  ASSUME RegistryInv, NEW t \in Tasks, NEW pc \in TaskPlaces, To(t, pc)
  PROVE  /\ task' \in [Tasks -> TaskRecords]
         /\ task'[t].pc = pc /\ task'[t].key = task[t].key
         /\ task'[t].on = task[t].on /\ task'[t].lock = task[t].lock
         /\ \A u \in Tasks : u # t => task'[u] = task[u]
<1>1. task \in [Tasks -> TaskRecords] BY DEF RegistryInv, RegistryTypes
<1> QED BY <1>1 DEF To, TaskRecords

\* A client of t is inserted: which ones that closes and which it marks, all
\* that it changes, and that what stays is within the capacity.
Inserts(t, gone, mark) ==
    /\ \A e \in gone : e # t /\ e # entries[task[t].key] /\ e \in Retained /\ entry[e].leases = 0
    /\ entries' = [j \in ClientKeys |-> IF j = task[t].key THEN t
                                        ELSE IF entries[j] \in gone THEN NoEntry ELSE entries[j]]
    /\ retired' = retired \cup ({entries[task[t].key]} \ {NoEntry})
    /\ entry' \in [Tasks -> EntryRecords]
    /\ entry'[t].key = task[t].key /\ entry'[t].leases = 1 /\ entry'[t].closes = 0 /\ entry'[t].made
    /\ \A e \in Tasks \ {t} :
         /\ entry'[e].key = entry[e].key /\ entry'[e].leases = entry[e].leases
         /\ entry'[e].made = entry[e].made
         /\ entry'[e].closes = IF e \in gone THEN 1 ELSE entry[e].closes
         /\ entry'[e].closing <=> (entry[e].closing \/ e \in mark)
    /\ Cardinality({e \in Retained' : ~entry'[e].closing}) <= Capacity
    /\ ~entry[t].made

\* That is what insertion does.
LEMMA InsertDoes ==
  ASSUME RegistryInv, NEW t \in Tasks, insert(t)
  PROVE  \E gone, mark \in SUBSET Tasks : Inserts(t, gone, mark)
<1> DEFINE k    == task[t].key
           was  == entries[k]
           s    == [entries EXCEPT ![k] = t]
           en   == [entry EXCEPT ![t] = [Blank EXCEPT !.key = k, !.leases = 1, !.made = TRUE]]
           gone == Evicted(s, en)
           mark == _evict_locked(s, en)
           kept == InSlots(s) \ gone
           P    == {e \in kept : ~en[e].closing}
<1>1. /\ k \in ClientKeys /\ entries \in [ClientKeys -> Tasks \cup {NoEntry}]
      /\ entry \in [Tasks -> EntryRecords]
      /\ NoEntry \notin Tasks
  BY RegistryState DEF RegistryInv, RegistryTypes, TaskRecords
<1>2. ~entry[t].made
  BY DEF insert, Turn, RegistryInv, EntriesOK
<1>3. /\ s \in [ClientKeys -> Tasks \cup {NoEntry}] /\ s[k] = t
      /\ \A j \in ClientKeys \ {k} : s[j] = entries[j]
  BY <1>1
<1>4. /\ en[t] = [Blank EXCEPT !.key = k, !.leases = 1, !.made = TRUE]
      /\ \A e \in Tasks \ {t} : en[e] = entry[e]
  BY <1>1
<1>5. en[t].leases = 1 /\ ~en[t].closing /\ en[t].made BY <1>4 DEF Blank
<1> HIDE DEF s, en
<1>6. InSlots(s) \in SUBSET Tasks BY <1>3 DEF InSlots
<1>7. ASSUME NEW e \in InSlots(s), e # t
      PROVE  e \in Tasks /\ e \in Retained /\ e # was /\ Unclosed(e) /\ en[e] = entry[e]
  <2>1. PICK j \in ClientKeys : e = s[j] /\ e # NoEntry BY DEF InSlots
  <2>2. j # k /\ e = entries[j] BY <2>1, <1>3, <1>7
  <2>3. Unclosed(e) /\ entry[e].key = j BY <2>1, <2>2 DEF RegistryInv, EntriesOK
  <2>4. e # was BY <2>1, <2>2, <2>3, <1>1 DEF RegistryInv, EntriesOK
  <2>5. e \in Tasks BY <1>6
  <2>6. e \in Retained BY <2>1, <2>2 DEF Retained
  <2>7. en[e] = entry[e] BY <2>5, <1>4, <1>7
  <2> QED BY <2>3, <2>4, <2>5, <2>6, <2>7
<1>8. gone \subseteq Unleased(s, en) BY DEF Evicted, Expired, Oldest
<1>9. \A e \in gone : e \in InSlots(s) /\ en[e].leases = 0 BY <1>8 DEF Unleased
<1>10. \A e \in gone : e # t /\ e # was /\ e \in Retained /\ entry[e].leases = 0 /\ entry[e].closes = 0
  BY <1>9, <1>7, <1>5 DEF Unclosed
<1>11. gone \in SUBSET Tasks BY <1>9, <1>6
<1>12. mark = Oldest(P, Overage(kept)) BY DEF _evict_locked
<1>13. mark \in SUBSET Tasks BY <1>12, <1>6 DEF Oldest
<1> HIDE DEF gone, mark
<1>14. entries' = Without(s, gone) BY DEF insert, s, en, gone
<1>15. entries' = [j \in ClientKeys |-> IF j = k THEN t ELSE IF entries[j] \in gone THEN NoEntry ELSE entries[j]]
  <2>1. \A j \in ClientKeys : entries'[j] = IF j = k THEN t ELSE IF entries[j] \in gone THEN NoEntry ELSE entries[j]
    BY <1>14, <1>3, <1>10 DEF Without
  <2>2. entries' = [j \in ClientKeys |-> entries'[j]] BY <1>14 DEF Without
  <2> QED BY <2>1, <2>2
<1>16. retired' = retired \cup ({was} \ {NoEntry})
  <2>1. was # NoEntry => entry[was].closes = 0 BY <1>1 DEF RegistryInv, EntriesOK, Unclosed
  <2>2. retired' = IF was # NoEntry /\ entry[was].closes = 0 THEN retired \cup {was} ELSE retired BY DEF insert
  <2> QED BY <2>1, <2>2
<1>17. entry' = [e \in Tasks |-> IF e \in mark THEN [Close(en, gone)[e] EXCEPT !.closing = TRUE] ELSE Close(en, gone)[e]]
  BY DEF insert, s, en, gone, mark
<1>18. \A e \in Tasks : Close(en, gone)[e] = IF e \in gone THEN [en[e] EXCEPT !.closes = @ + 1] ELSE en[e]
  BY DEF Close
<1> HIDE DEF P, kept
<1>19. /\ entry' \in [Tasks -> EntryRecords]
       /\ entry'[t].key = k /\ entry'[t].leases = 1 /\ entry'[t].closes = 0 /\ entry'[t].made
       /\ entry'[t].closing <=> t \in mark
       /\ \A e \in Tasks \ {t} :
            /\ entry'[e].key = entry[e].key /\ entry'[e].leases = entry[e].leases
            /\ entry'[e].made = entry[e].made
            /\ entry'[e].closes = IF e \in gone THEN 1 ELSE entry[e].closes
            /\ entry'[e].closing <=> (entry[e].closing \/ e \in mark)
  <2>1. ASSUME NEW e \in Tasks \ {t}
        PROVE  /\ entry'[e] \in EntryRecords
               /\ entry'[e].key = entry[e].key /\ entry'[e].leases = entry[e].leases
               /\ entry'[e].made = entry[e].made
               /\ entry'[e].closes = IF e \in gone THEN 1 ELSE entry[e].closes
               /\ entry'[e].closing <=> (entry[e].closing \/ e \in mark)
    <3>1. en[e] = entry[e] /\ (e \in gone => entry[e].closes + 1 = 1) BY <1>4, <1>10
    <3>2. entry[e] \in EntryRecords BY <1>1
    <3>3. entry'[e] = IF e \in mark THEN [Close(en, gone)[e] EXCEPT !.closing = TRUE] ELSE Close(en, gone)[e]
      BY <1>17
    <3>4. Close(en, gone)[e] = IF e \in gone THEN [entry[e] EXCEPT !.closes = entry[e].closes + 1] ELSE entry[e]
      BY <3>1, <1>18
    <3>5. Close(en, gone)[e] = IF e \in gone THEN [entry[e] EXCEPT !.closes = 1] ELSE entry[e]
      BY <3>1, <3>4
    <3> DEFINE c == Close(en, gone)[e]
    <3>6. /\ c \in EntryRecords
          /\ c.key = entry[e].key /\ c.leases = entry[e].leases /\ c.made = entry[e].made
          /\ c.closes = IF e \in gone THEN 1 ELSE entry[e].closes
          /\ c.closing = entry[e].closing
      <4> HIDE DEF c
      <4>1. CASE e \in gone
        <5>1. c = [entry[e] EXCEPT !.closes = 1] BY <4>1, <3>5 DEF c
        <5> QED BY <5>1, <4>1, <3>2 DEF EntryRecords
      <4>2. CASE e \notin gone
        <5>1. c = entry[e] BY <4>2, <3>5 DEF c
        <5> QED BY <5>1, <4>2, <3>2
      <4> QED BY <4>1, <4>2
    <3> HIDE DEF c
    <3>7. CASE e \in mark
      <4>1. entry'[e] = [c EXCEPT !.closing = TRUE] BY <3>7, <3>3 DEF c
      <4> QED BY <4>1, <3>6, <3>7 DEF EntryRecords
    <3>8. CASE e \notin mark
      <4>1. entry'[e] = c BY <3>8, <3>3 DEF c
      <4> QED BY <4>1, <3>6, <3>8
    <3> QED BY <3>7, <3>8
  <2>2. /\ entry'[t] \in EntryRecords
        /\ entry'[t].key = k /\ entry'[t].leases = 1 /\ entry'[t].closes = 0 /\ entry'[t].made
        /\ entry'[t].closing <=> t \in mark
    <3>1. t \notin gone BY <1>10
    <3>2. entry'[t] = IF t \in mark THEN [en[t] EXCEPT !.closing = TRUE] ELSE en[t] BY <3>1, <1>17, <1>18
    <3>3. /\ en[t] \in EntryRecords
          /\ en[t].key = k /\ en[t].leases = 1 /\ en[t].closes = 0 /\ en[t].made /\ ~en[t].closing
      <4> HIDE DEF k
      <4>1. en[t] = [key |-> k, leases |-> 1, closing |-> FALSE, closes |-> 0, expired |-> FALSE, made |-> TRUE]
        BY <1>4 DEF Blank
      <4> QED BY <4>1, <1>1 DEF EntryRecords
    <3> HIDE DEF k
    <3> QED BY <3>2, <3>3 DEF EntryRecords
  <2>3. entry' = [e \in Tasks |-> entry'[e]] BY <1>17
  <2>4. \A e \in Tasks : entry'[e] \in EntryRecords BY <2>1, <2>2
  <2>5. entry' \in [Tasks -> EntryRecords] BY ONLY <2>3, <2>4
  <2> QED BY <2>1, <2>2, <2>5
<1> USE DEF kept, P
<1>20. Retained' = kept
  <2>1. Retained' = {entries'[j] : j \in ClientKeys} \ {NoEntry} BY DEF Retained
  <2>2. \A j \in ClientKeys : entries'[j] = IF s[j] \in gone THEN NoEntry ELSE s[j] BY <1>14 DEF Without
  <2>3. kept = ({s[j] : j \in ClientKeys} \ {NoEntry}) \ gone BY DEF InSlots
  <2> QED BY <2>1, <2>2, <2>3
<1>21. {e \in Retained' : ~entry'[e].closing} = P \ mark
  <2>1. \A e \in kept : e \in Tasks BY <1>6
  <2>2. \A e \in kept : entry'[e].closing <=> (e \in mark \/ en[e].closing)
    <3> SUFFICES ASSUME NEW e \in kept PROVE entry'[e].closing <=> (e \in mark \/ en[e].closing) OBVIOUS
    <3>1. e \in Tasks BY <2>1
    <3>2. CASE e = t
      <4>1. entry'[t].closing <=> t \in mark BY <1>19
      <4> QED BY <4>1, <3>2, <1>5
    <3>3. CASE e # t
      <4>1. entry'[e].closing <=> (entry[e].closing \/ e \in mark) BY <3>1, <3>3, <1>19
      <4>2. en[e] = entry[e] BY <3>1, <3>3, <1>4
      <4> QED BY <4>1, <4>2
    <3> QED BY <3>2, <3>3
  <2> QED BY <2>2, <1>20
<1>22. IsFiniteSet(Tasks) /\ Capacity \in Nat BY RegistryAssumption
<1>23. kept \in SUBSET Tasks /\ P \in SUBSET kept BY <1>6
<1>24. IsFiniteSet(kept) /\ Cardinality(kept) \in Nat
  <2> HIDE DEF kept
  <2> QED BY <1>22, <1>23, FS_Subset, FS_CardinalityType
<1>25. IsFiniteSet(P) /\ Cardinality(P) \in Nat /\ Cardinality(P) <= Cardinality(kept)
  <2> HIDE DEF kept, P
  <2> QED BY <1>23, <1>24, FS_Subset, FS_CardinalityType
<1>26. \A d, e \in P : d # e => <<d, e>> \in used \/ <<e, d>> \in used
  <2>1. \A d \in P : d \in Tasks /\ (entry[d].made \/ task[d].pc = "insert")
    <3>1. task[t].pc = "insert" BY DEF insert, Turn
    <3> QED BY <3>1, <1>6, <1>7 DEF Unclosed
  <2> HIDE DEF P
  <2> QED BY <2>1 DEF RegistryInv, UsedOK
<1>27. Cardinality({e \in Retained' : ~entry'[e].closing}) <= Capacity
  <2> DEFINE n == Overage(kept)
  <2>1. n = IF Cardinality(kept) > Capacity THEN Cardinality(kept) - Capacity ELSE 0 BY DEF Overage
  <2>2. n \in Nat BY <2>1, <1>22, <1>24
  <2>3. P \in SUBSET Tasks /\ UsedOK BY <1>23 DEF RegistryInv
  <2> HIDE DEF n, P, kept
  <2>4. /\ n <= Cardinality(P) => Cardinality(P \ Oldest(P, n)) <= Cardinality(P) - n
        /\ n > Cardinality(P) => P \ Oldest(P, n) = {}
    BY <2>2, <2>3, <1>25, <1>26, OldestTaken
  <2>5. P \ mark = P \ Oldest(P, n) BY <1>12 DEF n
  <2>6. IsFiniteSet(P \ mark) /\ Cardinality(P \ mark) \in Nat
    <3>1. IsFiniteSet(P \ mark) BY <1>25, FS_Difference
    <3> QED BY <3>1, FS_CardinalityType
  <2>7. CASE n <= Cardinality(P)
    <3>1. Cardinality(P \ mark) <= Cardinality(P) - n BY <2>4, <2>5, <2>7
    <3> QED BY <3>1, <2>1, <2>2, <2>6, <1>21, <1>22, <1>24, <1>25
  <2>8. CASE n > Cardinality(P)
    <3>1. Cardinality(P \ mark) = 0 BY <2>4, <2>5, <2>8, FS_EmptySet
    <3>2. 0 <= Capacity BY <1>22
    <3> QED BY <3>1, <3>2, <1>21
  <2> QED BY <2>7, <2>8, <2>2, <1>25
<1>28. Inserts(t, gone, mark) BY <1>2, <1>10, <1>15, <1>16, <1>19, <1>27 DEF Inserts
<1> QED BY <1>11, <1>13, <1>28

\* A task leases the client that is there.
LEMMA LeasedDoes ==
  ASSUME RegistryInv, NEW t \in Tasks, Reusable(task[t].key), Leased(t)
  PROVE  LET e == entries[task[t].key]
         IN /\ e \in Tasks /\ Unclosed(e) /\ ~entry[e].closing
            /\ entry' \in [Tasks -> EntryRecords]
            /\ entry'[e].leases = entry[e].leases + 1
            /\ \A d \in Tasks : d # e => entry'[d].leases = entry[d].leases
            /\ \A d \in Tasks :
                 /\ entry'[d].key = entry[d].key /\ entry'[d].closing = entry[d].closing
                 /\ entry'[d].closes = entry[d].closes /\ entry'[d].made = entry[d].made
            /\ used' = Touched(e)
            /\ task'[t].pc = "using" /\ task'[t].on = e
            /\ task'[t].key = task[t].key /\ task'[t].lock = task[t].lock
            /\ \A u \in Tasks : u # t => task'[u] = task[u]
            /\ task' \in [Tasks -> TaskRecords]
<1> DEFINE e == entries[task[t].key]
<1>1. e \in Tasks /\ ~entry[e].closing /\ entry \in [Tasks -> EntryRecords]
  BY RegistryState DEF Reusable, RegistryInv, RegistryTypes
<1>2. Unclosed(e)
  <2>1. task[t].key \in ClientKeys BY RegistryState DEF TaskRecords
  <2> QED BY <2>1, <1>1, RegistryState DEF RegistryInv, EntriesOK
<1>3. /\ entry' = [entry EXCEPT ![e].leases = @ + 1]
      /\ used' = Touched(e)
      /\ task' = [task EXCEPT ![t].pc = "using", ![t].on = e]
  BY DEF Leased
<1>0. task \in [Tasks -> TaskRecords]
  BY DEF RegistryInv, RegistryTypes
<1> HIDE DEF e
<1>4. /\ entry' \in [Tasks -> EntryRecords]
      /\ entry'[e].leases = entry[e].leases + 1
      /\ \A d \in Tasks : d # e => entry'[d].leases = entry[d].leases
      /\ \A d \in Tasks :
           /\ entry'[d].key = entry[d].key /\ entry'[d].closing = entry[d].closing
           /\ entry'[d].closes = entry[d].closes /\ entry'[d].made = entry[d].made
  BY <1>1, <1>3 DEF EntryRecords
<1>5. /\ task'[t].pc = "using" /\ task'[t].on = e
      /\ task'[t].key = task[t].key /\ task'[t].lock = task[t].lock
      /\ \A u \in Tasks : u # t => task'[u] = task[u]
      /\ task' \in [Tasks -> TaskRecords]
  <2>1. "using" \in TaskPlaces BY DEF TaskPlaces
  <2> QED BY <2>1, <1>0, <1>1, <1>3 DEF TaskRecords
<1> QED BY <1>1, <1>2, <1>3, <1>4, <1>5 DEF e

\* The clients in S are closed, and nothing else changes but the leases.
ClosesJust(S) ==
    /\ entry' \in [Tasks -> EntryRecords]
    /\ \A d \in Tasks :
         /\ entry'[d].key = entry[d].key /\ entry'[d].closing = entry[d].closing /\ entry'[d].made = entry[d].made
         /\ entry'[d].closes = IF d \in S THEN 1 ELSE entry[d].closes
    /\ entries' = [j \in ClientKeys |-> IF entries[j] \in S THEN NoEntry ELSE entries[j]]
    /\ retired' = retired \ S

\* A lease goes back.
LEMMA ReleaseDoes ==
  ASSUME RegistryInv, NEW t \in Tasks, _release(t)
  PROVE  /\ task[t].on \in Tasks /\ entry[task[t].on].made /\ t \in Lessees(task[t].on)
         /\ entry'[task[t].on].leases = entry[task[t].on].leases - 1
         /\ \A d \in Tasks : d # task[t].on => entry'[d].leases = entry[d].leases
         /\ \E S \in SUBSET {task[t].on} :
              ClosesJust(S) /\ (task[t].on \in S => Lessees(task[t].on) = {t})
<1> DEFINE e == task[t].on
           n == entry[e].leases - 1
           over == n = 0 /\ (entry[e].closing \/ entry[e].expired) /\ entry[e].closes = 0
           en == [entry EXCEPT ![e].leases = n]
<1>1. task[t].pc = "release" BY DEF _release, Turn
<1>2. e \in Tasks /\ entry[e].made BY <1>1 DEF Leasing, RegistryInv, EntriesOK
<1>3. t \in Lessees(e) BY <1>1 DEF Lessees, Leasing
<1>4. IsFiniteSet(Lessees(e)) /\ entry[e].leases = Cardinality(Lessees(e)) /\ Cardinality(Lessees(e)) \in Nat
  <2>1. Lessees(e) \in SUBSET Tasks BY DEF Lessees
  <2>2. IsFiniteSet(Tasks) BY RegistryAssumption
  <2>3. IsFiniteSet(Lessees(e)) BY <2>1, <2>2, FS_Subset
  <2>4. entry[e].leases = Cardinality(Lessees(e)) BY <1>2 DEF RegistryInv, EntriesOK
  <2> QED BY <2>3, <2>4, FS_CardinalityType
<1>5. n \in Nat
  <2>1. Cardinality(Lessees(e)) # 0 BY <1>3, <1>4, FS_EmptySet
  <2> QED BY <2>1, <1>4
<1>6. n = 0 => Lessees(e) = {t}
  <2>1. ASSUME n = 0 PROVE Cardinality(Lessees(e)) = 1 BY <2>1, <1>4
  <2>2. ASSUME n = 0 PROVE \E u : Lessees(e) = {u} BY <2>1, <2>2, <1>4, FS_Singleton
  <2> QED BY <2>2, <1>3
<1>7. entry \in [Tasks -> EntryRecords] BY DEF RegistryInv, RegistryTypes
<1>8. /\ entry' = IF over THEN Close(en, {e}) ELSE en
      /\ entries' = IF over THEN Without(entries, {e}) ELSE entries
      /\ retired' = IF over THEN retired \ {e} ELSE retired
  BY DEF _release
<1>9. /\ en \in [Tasks -> EntryRecords]
      /\ en[e].leases = n /\ \A d \in Tasks : d # e => en[d].leases = entry[d].leases
      /\ \A d \in Tasks : /\ en[d].key = entry[d].key /\ en[d].closing = entry[d].closing
                          /\ en[d].made = entry[d].made /\ en[d].closes = entry[d].closes
  <2> HIDE DEF e, n
  <2> QED BY <1>2, <1>5, <1>7 DEF EntryRecords
<1>10. CASE over
  <2> HIDE DEF en, e, n
  <2>1. entry' = [d \in Tasks |-> IF d \in {e} THEN [en[d] EXCEPT !.closes = @ + 1] ELSE en[d]]
    BY <1>8, <1>10 DEF Close
  <2>2. en[e].closes + 1 = 1 BY <1>2, <1>9, <1>10
  <2>3. ASSUME NEW d \in Tasks
        PROVE  /\ entry'[d] \in EntryRecords
               /\ entry'[d].leases = en[d].leases /\ entry'[d].key = en[d].key /\ entry'[d].closing = en[d].closing
               /\ entry'[d].made = en[d].made /\ entry'[d].closes = IF d \in {e} THEN 1 ELSE en[d].closes
    <3>1. entry'[d] = IF d = e THEN [en[d] EXCEPT !.closes = 1] ELSE en[d] BY <2>1, <2>2
    <3>2. en[d] \in EntryRecords BY <1>9
    <3> QED BY <3>1, <3>2 DEF EntryRecords
  <2>4. entry' \in [Tasks -> EntryRecords]
    <3>1. entry' = [d \in Tasks |-> entry'[d]] BY <2>1
    <3> QED BY <3>1, <2>3
  <2>5. entries' = [j \in ClientKeys |-> IF entries[j] \in {e} THEN NoEntry ELSE entries[j]]
    BY <1>8, <1>10 DEF Without
  <2>6. retired' = retired \ {e} BY <1>8, <1>10
  <2>7. ClosesJust({e}) BY <2>3, <2>4, <2>5, <2>6, <1>9 DEF ClosesJust
  <2>8. entry'[e].leases = n /\ \A d \in Tasks : d # e => entry'[d].leases = entry[d].leases BY <2>3, <1>9, <1>2
  <2>9. Lessees(e) = {t} BY <1>6, <1>10
  <2> QED BY <2>7, <2>8, <2>9, <1>2, <1>3 DEF e, n
<1>11. CASE ~over
  <2> HIDE DEF en, e, n
  <2>1. entry' = en /\ entries' = entries /\ retired' = retired BY <1>8, <1>11
  <2>2. entries = [j \in ClientKeys |-> IF entries[j] \in {} THEN NoEntry ELSE entries[j]]
    BY DEF RegistryInv, RegistryTypes
  <2>3. ClosesJust({}) BY <2>1, <2>2, <1>9 DEF ClosesJust
  <2>4. entry'[e].leases = n /\ \A d \in Tasks : d # e => entry'[d].leases = entry[d].leases BY <2>1, <1>9
  <2> QED BY <2>3, <2>4, <1>2, <1>3 DEF e, n
<1> QED BY <1>10, <1>11

\* Shutdown closes the next client.
LEMMA AcloseDoes ==
  ASSUME RegistryInv, aclose
  PROVE  /\ shut.todo # <<>> /\ shut.todo[1] \in Tasks
         /\ ClosesJust({shut.todo[1]})
         /\ \A d \in Tasks : entry'[d].leases = entry[d].leases
<1> DEFINE e == shut.todo[1]
<1>1. shut.todo \in Seq(Tasks) /\ entry \in [Tasks -> EntryRecords] BY DEF RegistryInv, RegistryTypes
<1>2. shut.todo # <<>>
  <2>1. line # <<>> /\ line[1] = Closer /\ shut.pc = "closing" BY DEF aclose, CloserTurn
  <2>2. Closer \in ToSet(line) BY <2>1, HeadOfLine DEF RegistryInv
  <2> QED BY <2>1, <2>2 DEF RegistryInv, LineOK
<1>3. e \in Tasks BY <1>1, <1>2
<1>4. entry[e].closes \in {0, 1} BY <1>1, <1>3 DEF EntryRecords
<1>5. /\ entry' = IF entry[e].closes > 0 THEN entry ELSE Close(entry, {e})
      /\ entries' = Without(entries, {e})
      /\ retired' = retired \ {e}
  BY DEF aclose
<1> HIDE DEF e
<1>6. ASSUME NEW d \in Tasks
      PROVE  /\ entry'[d] \in EntryRecords
             /\ entry'[d].leases = entry[d].leases /\ entry'[d].key = entry[d].key
             /\ entry'[d].closing = entry[d].closing /\ entry'[d].made = entry[d].made
             /\ entry'[d].closes = IF d \in {e} THEN 1 ELSE entry[d].closes
  <2>0. entry[d] \in EntryRecords BY <1>1
  <2>1. CASE entry[e].closes > 0
    <3>1. entry'[d] = entry[d] /\ entry[e].closes = 1 BY <2>1, <1>4, <1>5
    <3> QED BY <3>1, <2>0
  <2>2. CASE ~(entry[e].closes > 0)
    <3>1. entry[e].closes + 1 = 1 BY <2>2, <1>4
    <3>2. entry'[d] = IF d \in {e} THEN [entry[d] EXCEPT !.closes = @ + 1] ELSE entry[d] BY <2>2, <1>5 DEF Close
    <3>3. entry'[d] = IF d \in {e} THEN [entry[d] EXCEPT !.closes = 1] ELSE entry[d] BY <3>1, <3>2
    <3> QED BY <3>3, <2>0 DEF EntryRecords
  <2> QED BY <2>1, <2>2
<1>7. entry' \in [Tasks -> EntryRecords]
  <2>1. entry' = [d \in Tasks |-> entry'[d]] BY <1>1, <1>5 DEF Close
  <2> QED BY <2>1, <1>6
<1>8. entries' = [j \in ClientKeys |-> IF entries[j] \in {e} THEN NoEntry ELSE entries[j]]
  BY <1>5 DEF Without
<1>9. ClosesJust({e}) BY <1>5, <1>6, <1>7, <1>8 DEF ClosesJust
<1> QED BY <1>2, <1>3, <1>6, <1>9 DEF e

\* Every step keeps the types.
LEMMA TypesKept ==
  ASSUME RegistryInv, RegistryNext
  PROVE  RegistryTypes'
<1>0. /\ RegistryTypes
      /\ \A e : e \in Tasks => Touched(e) \subseteq Tasks \X Tasks
  <2>1. RegistryTypes BY DEF RegistryInv
  <2>3. ASSUME NEW e \in Tasks PROVE Touched(e) \subseteq Tasks \X Tasks BY <2>1 DEF RegistryTypes, Touched
  <2> QED BY <2>1, <2>3
<1>1. ASSUME NEW t \in Tasks, lease(t) \/ LockGranted(t) \/ finish(t) \/ Cancel(t) PROVE RegistryTypes'
  <2>1. PICK pc \in TaskPlaces : To(t, pc)
    BY <1>1 DEF lease, LockGranted, finish, Cancel, TaskPlaces
  <2>2. UNCHANGED <<entries, retired, entry, slots, used, shut, loose>>
    BY <1>1 DEF lease, LockGranted, finish, Cancel
  <2>3. task' \in [Tasks -> TaskRecords] BY <2>1, Moves
  <2> QED BY <2>3, <2>2, <1>0 DEF RegistryTypes
<1>2. ASSUME NEW t \in Tasks, _try_hit(t) PROVE RegistryTypes'
  <2>0. UNCHANGED <<entries, retired, slots, shut, loose>> BY <1>2 DEF _try_hit
  <2>1. CASE Reusable(task[t].key)
    <3>1. Leased(t) BY <2>1, <1>2 DEF _try_hit
    <3>2. task' \in [Tasks -> TaskRecords] /\ entry' \in [Tasks -> EntryRecords] /\ used' \subseteq Tasks \X Tasks
      BY <2>1, <3>1, <1>0, LeasedDoes
    <3> QED BY <2>0, <3>2, <1>0 DEF RegistryTypes
  <2>2. CASE ~Reusable(task[t].key)
    <3>1. To(t, "slot") /\ UNCHANGED <<entry, used>> BY <2>2, <1>2 DEF _try_hit
    <3>2. task' \in [Tasks -> TaskRecords] BY <3>1, Moves DEF TaskPlaces
    <3> QED BY <2>0, <3>1, <3>2, <1>0 DEF RegistryTypes
  <2> QED BY <2>1, <2>2
<1>3. ASSUME NEW t \in Tasks, _creation_lock(t) PROVE RegistryTypes'
  <2> DEFINE k == task[t].key
             l == IF slots[k] = NoEntry THEN t ELSE slots[k]
             p == IF queue[l] = <<>> THEN "again" ELSE "wait"
  <2>1. k \in ClientKeys /\ l \in Tasks /\ p \in TaskPlaces
    BY RegistryState DEF TaskRecords, TaskPlaces
  <2>2. /\ slots' = [slots EXCEPT ![k] = l]
        /\ task' = [task EXCEPT ![t].pc = p, ![t].lock = l]
        /\ UNCHANGED <<entries, retired, entry, used, shut, loose>>
    BY <1>3 DEF _creation_lock
  <2> HIDE DEF k, l, p
  <2>3. task' \in [Tasks -> TaskRecords]
    <3>1. task \in [Tasks -> TaskRecords] BY <1>0 DEF RegistryTypes
    <3> QED BY <3>1, <2>1, <2>2 DEF TaskRecords
  <2> QED BY <2>1, <2>2, <2>3, <1>0 DEF RegistryTypes
<1>4. ASSUME NEW t \in Tasks, _acquire(t) PROVE RegistryTypes'
  <2>0. UNCHANGED <<entries, retired, slots, shut>> BY <1>4 DEF _acquire
  <2>1. CASE Reusable(task[t].key)
    <3>1. Leased(t) /\ loose' = loose BY <2>1, <1>4 DEF _acquire
    <3>2. task' \in [Tasks -> TaskRecords] /\ entry' \in [Tasks -> EntryRecords] /\ used' \subseteq Tasks \X Tasks
      BY <2>1, <3>1, <1>0, LeasedDoes
    <3> QED BY <2>0, <3>1, <3>2, <1>0 DEF RegistryTypes
  <2>2. CASE ~Reusable(task[t].key)
    <3>1. /\ To(t, "built") \/ To(t, "broken")
          /\ loose' = loose \/ loose' = loose \cup {task[t].key}
          /\ UNCHANGED <<entry, used>>
      BY <2>2, <1>4 DEF _acquire
    <3>2. task' \in [Tasks -> TaskRecords] BY <3>1, Moves DEF TaskPlaces
    <3>3. task[t].key \in ClientKeys BY RegistryState DEF TaskRecords
    <3> QED BY <2>0, <3>1, <3>2, <3>3, <1>0 DEF RegistryTypes
  <2> QED BY <2>1, <2>2
<1>5. ASSUME NEW t \in Tasks, drop_slot(t) PROVE RegistryTypes'
  <2>1. /\ To(t, "insert") \/ To(t, "failed")
        /\ used' = Touched(t) \/ used' = used
        /\ slots' = [slots EXCEPT ![task[t].key] = NoEntry]
        /\ UNCHANGED <<entries, retired, entry, shut, loose>>
    BY <1>5 DEF drop_slot
  <2>2. task' \in [Tasks -> TaskRecords] BY <2>1, Moves DEF TaskPlaces
  <2> QED BY <2>1, <2>2, <1>0 DEF RegistryTypes
<1>6. ASSUME NEW t \in Tasks, insert(t) PROVE RegistryTypes'
  <2>0. PICK gone, mark \in SUBSET Tasks : Inserts(t, gone, mark) BY <1>6, InsertDoes
  <2>1. /\ entries' = [j \in ClientKeys |-> IF j = task[t].key THEN t
                                              ELSE IF entries[j] \in gone THEN NoEntry ELSE entries[j]]
        /\ retired' = retired \cup ({entries[task[t].key]} \ {NoEntry})
        /\ entry' \in [Tasks -> EntryRecords]
    BY <2>0 DEF Inserts
  <2>2. /\ task' = [task EXCEPT ![t].pc = "using", ![t].on = t]
        /\ UNCHANGED <<slots, used, shut, loose>>
    BY <1>6 DEF insert
  <2>3. task' \in [Tasks -> TaskRecords]
    <3>1. task \in [Tasks -> TaskRecords] BY <1>0 DEF RegistryTypes
    <3> QED BY <3>1, <2>2 DEF TaskRecords, TaskPlaces
  <2>4. entries[task[t].key] \in Tasks \cup {NoEntry} BY RegistryState
  <2>5. retired' \subseteq Tasks BY <2>1, <2>4, <1>0 DEF RegistryTypes
  <2>6. entries' \in [ClientKeys -> Tasks \cup {NoEntry}] BY <2>1, <1>0 DEF RegistryTypes
  <2> QED BY <2>1, <2>2, <2>3, <2>5, <2>6, <1>0 DEF RegistryTypes
<1>7. ASSUME NEW t \in Tasks, _release(t) PROVE RegistryTypes'
  <2>1. PICK S \in SUBSET {task[t].on} : ClosesJust(S) BY <1>7, ReleaseDoes
  <2>2. To(t, "done") /\ UNCHANGED <<slots, used, shut, loose>> BY <1>7 DEF _release
  <2>3. task' \in [Tasks -> TaskRecords] BY <2>2, Moves DEF TaskPlaces
  <2> QED BY <2>1, <2>2, <2>3, <1>0 DEF RegistryTypes, ClosesJust
<1>8. ASSUME NEW t \in Tasks, Expire(t) PROVE RegistryTypes'
  <2>1. entry \in [Tasks -> EntryRecords] BY <1>0 DEF RegistryTypes
  <2>2. entry' \in [Tasks -> EntryRecords] BY <2>1, <1>8 DEF Expire, EntryRecords
  <2> QED BY <2>2, <1>8, <1>0 DEF Expire, RegistryTypes
<1>9. ASSUME close_registry \/ next_entry PROVE RegistryTypes'
  <2>1. UNCHANGED <<entries, retired, entry, slots, task, used, loose>> BY <1>9 DEF close_registry, next_entry
  <2>2. shut' = shut \/ shut' = [shut EXCEPT !.pc = "asked"] BY <1>9 DEF close_registry, next_entry
  <2> QED BY <2>1, <2>2, <1>0 DEF RegistryTypes
<1>10. ASSUME list_entries PROVE RegistryTypes'
  <2> DEFINE todo == Retained \cup retired
  <2>1. /\ shut' = [pc |-> "closing", todo |-> SetToSeq(todo), seen |-> {e \in Tasks : Unclosed(e)}]
        /\ UNCHANGED <<entries, retired, entry, slots, task, used, loose>>
    BY <1>10 DEF list_entries
  <2>2. todo \in SUBSET Tasks BY <1>0 DEF RegistryTypes, Retained
  <2>3. SetToSeq(todo) \in Seq(Tasks)
    <3> HIDE DEF todo
    <3>1. IsFiniteSet(todo) BY <2>2, RegistryAssumption, FS_Subset
    <3>2. SetToSeq(todo) \in Seq(todo) BY <3>1, ListedAll
    <3> QED BY <2>2, <3>2, SeqMonotonic
  <2> QED BY <2>1, <2>3, <1>0 DEF RegistryTypes
<1>11. ASSUME aclose PROVE RegistryTypes'
  <2>1. shut.todo # <<>> /\ ClosesJust({shut.todo[1]}) BY <1>11, AcloseDoes
  <2>2. shut' = [shut EXCEPT !.todo = Tail(@)] /\ UNCHANGED <<slots, task, used, loose>> BY <1>11 DEF aclose
  <2>3. shut.todo \in Seq(Tasks) BY <1>0 DEF RegistryTypes
  <2>4. Tail(shut.todo) \in Seq(Tasks) BY <2>1, <2>3
  <2> QED BY <2>1, <2>2, <2>4, <1>0 DEF RegistryTypes, ClosesJust
<1> QED BY <1>1, <1>2, <1>3, <1>4, <1>5, <1>6, <1>7, <1>8, <1>9, <1>10, <1>11 DEF RegistryNext, Run, Shutdown

-----------------------------------------------------------------------------
(* Who stands at the guard.                                                *)

\* One task moves, and the line with it.
LEMMA LineMoves ==
  ASSUME RegistryInv, NEW t \in Tasks, shut' = shut,
         line' \in Seq(Tasks \cup {Closer}), IsInjective(line'),
         \A u \in (Tasks \cup {Closer}) \ {t} : u \in ToSet(line') <=> u \in ToSet(line),
         \A u \in Tasks \ {t} : task'[u] = task[u],
         t \in ToSet(line') <=> task'[t].pc \in InLine
  PROVE  LineOK'
<1>1. \A u \in Tasks : u \in ToSet(line') <=> task'[u].pc \in InLine BY DEF RegistryInv, LineOK
<1>2. Closer # t BY RegistryAssumption
<1>3. Closer \in ToSet(line') => Closer \in ToSet(line) BY <1>2
<1> QED BY <1>1, <1>3 DEF RegistryInv, LineOK

\* Every step keeps the line in order.
LEMMA LineKept ==
  ASSUME RegistryInv, RegistryNext
  PROVE  LineOK'
<1>0. LineOK /\ line \in Seq(Tasks \cup {Closer}) /\ IsInjective(line) /\ Closer \notin Tasks
  BY RegistryAssumption DEF RegistryInv, LineOK
<1>a. ASSUME NEW t \in Tasks, NEW pc \in TaskPlaces \ InLine, line # <<>>, line[1] = t, Leaves,
             shut' = shut, task'[t].pc = pc, \A u \in Tasks : u # t => task'[u] = task[u]
      PROVE  LineOK'
  <2>1. /\ line' \in Seq(Tasks \cup {Closer}) /\ IsInjective(line')
        /\ ToSet(line') = ToSet(line) \ {t}
    BY <1>0, <1>a, HeadOfLine DEF Leaves
  <2> QED BY <2>1, <1>a, LineMoves
<1>b. ASSUME NEW t \in Tasks, NEW pc \in InLine, line # <<>>, line[1] = t, Rejoins(t),
             shut' = shut, task'[t].pc = pc, \A u \in Tasks : u # t => task'[u] = task[u]
      PROVE  LineOK'
  <2>1. /\ line' \in Seq(Tasks \cup {Closer}) /\ IsInjective(line')
        /\ ToSet(line') = ToSet(line) /\ t \in ToSet(line)
    BY <1>0, <1>b, HeadOfLine DEF Rejoins
  <2> QED BY <2>1, <1>b, LineMoves
<1>c. ASSUME NEW t \in Tasks, NEW pc \in InLine, task[t].pc \notin InLine, line' = Append(line, t),
             shut' = shut, task'[t].pc = pc, \A u \in Tasks : u # t => task'[u] = task[u]
      PROVE  LineOK'
  <2>1. t \notin ToSet(line) BY <1>0, <1>c DEF LineOK
  <2>2. /\ line' \in Seq(Tasks \cup {Closer}) /\ IsInjective(line')
        /\ ToSet(line') = ToSet(line) \cup {t}
    BY <1>0, <1>c, <2>1, EndOfLine
  <2> QED BY <2>2, <1>c, LineMoves
<1>1. ASSUME NEW t \in Tasks, lease(t) PROVE LineOK'
  <2>1. CASE shut.pc \notin {"open", "asked"}
    <3>1. To(t, "refused") /\ line' = line /\ shut' = shut /\ task[t].pc = "idle" BY <1>1, <2>1 DEF lease, At
    <3>2. task'[t].pc = "refused" /\ \A u \in Tasks : u # t => task'[u] = task[u]
      BY <3>1, Moves DEF TaskPlaces
    <3>3. t \notin ToSet(line) BY <1>0, <3>1 DEF LineOK, InLine
    <3> QED BY <3>1, <3>2, <3>3, <1>0, LineMoves DEF InLine
  <2>2. CASE shut.pc \in {"open", "asked"}
    <3>1. To(t, "hit") /\ line' = Append(line, t) /\ shut' = shut /\ task[t].pc = "idle"
      BY <1>1, <2>2 DEF lease, At
    <3>2. task'[t].pc = "hit" /\ \A u \in Tasks : u # t => task'[u] = task[u]
      BY <3>1, Moves DEF TaskPlaces
    <3> QED BY <3>1, <3>2, <1>c DEF InLine
  <2> QED BY <2>1, <2>2
<1>2. ASSUME NEW t \in Tasks, LockGranted(t) \/ finish(t) PROVE LineOK'
  <2>1. PICK pc \in {"again", "release"} : To(t, pc) BY <1>2 DEF LockGranted, finish
  <2>2. line' = Append(line, t) /\ shut' = shut /\ task[t].pc \notin InLine
    BY <1>2 DEF LockGranted, finish, At, InLine
  <2>3. task'[t].pc = pc /\ \A u \in Tasks : u # t => task'[u] = task[u]
    BY <2>1, Moves DEF TaskPlaces
  <2>4. pc \in InLine BY DEF InLine
  <2> QED BY <2>2, <2>3, <2>4, <1>c
<1>3. ASSUME NEW t \in Tasks, _try_hit(t) PROVE LineOK'
  <2>0. line # <<>> /\ line[1] = t /\ shut' = shut BY <1>3 DEF _try_hit, Turn
  <2>1. CASE Reusable(task[t].key)
    <3>1. Leaves /\ Leased(t) BY <2>1, <1>3 DEF _try_hit
    <3>2. task'[t].pc = "using" /\ \A u \in Tasks : u # t => task'[u] = task[u] BY <2>1, <3>1, LeasedDoes
    <3>3. "using" \in TaskPlaces \ InLine BY DEF TaskPlaces, InLine
    <3> QED BY <2>0, <3>1, <3>2, <3>3, <1>a
  <2>2. CASE ~Reusable(task[t].key)
    <3>1. Rejoins(t) /\ To(t, "slot") BY <2>2, <1>3 DEF _try_hit
    <3>2. task'[t].pc = "slot" /\ \A u \in Tasks : u # t => task'[u] = task[u] BY <3>1, Moves DEF TaskPlaces
    <3>3. "slot" \in InLine BY DEF InLine
    <3> QED BY <2>0, <3>1, <3>2, <3>3, <1>b
  <2> QED BY <2>1, <2>2
<1>4. ASSUME NEW t \in Tasks, _creation_lock(t) PROVE LineOK'
  <2> DEFINE k == task[t].key
             l == IF slots[k] = NoEntry THEN t ELSE slots[k]
  <2>1. line # <<>> /\ line[1] = t /\ shut' = shut BY <1>4 DEF _creation_lock, Turn
  <2>2. /\ task' = [task EXCEPT ![t].pc = IF queue[l] = <<>> THEN "again" ELSE "wait", ![t].lock = l]
        /\ IF queue[l] = <<>> THEN Rejoins(t) ELSE Leaves
    BY <1>4 DEF _creation_lock
  <2> HIDE DEF l
  <2>3. task \in [Tasks -> TaskRecords] BY DEF RegistryInv, RegistryTypes
  <2>4. \A u \in Tasks : u # t => task'[u] = task[u] BY <2>2, <2>3
  <2>5. CASE queue[l] = <<>>
    <3>1. Rejoins(t) /\ task'[t].pc = "again" BY <2>2, <2>3, <2>5 DEF TaskRecords
    <3>2. "again" \in InLine BY DEF InLine
    <3> QED BY <2>1, <2>4, <3>1, <3>2, <1>b
  <2>6. CASE queue[l] # <<>>
    <3>1. Leaves /\ task'[t].pc = "wait" BY <2>2, <2>3, <2>6 DEF TaskRecords
    <3>2. "wait" \in TaskPlaces \ InLine BY DEF InLine, TaskPlaces
    <3> QED BY <2>1, <2>4, <3>1, <3>2, <1>a
  <2> QED BY <2>5, <2>6
<1>5. ASSUME NEW t \in Tasks, _acquire(t) PROVE LineOK'
  <2>0. line # <<>> /\ line[1] = t /\ shut' = shut BY <1>5 DEF _acquire, Turn
  <2>1. CASE Reusable(task[t].key)
    <3>1. Leaves /\ Leased(t) BY <2>1, <1>5 DEF _acquire
    <3>2. task'[t].pc = "using" /\ \A u \in Tasks : u # t => task'[u] = task[u] BY <2>1, <3>1, LeasedDoes
    <3>3. "using" \in TaskPlaces \ InLine BY DEF TaskPlaces, InLine
    <3> QED BY <2>0, <3>1, <3>2, <3>3, <1>a
  <2>2. CASE ~Reusable(task[t].key)
    <3>1. PICK pc \in {"built", "broken"} : Rejoins(t) /\ To(t, pc) BY <2>2, <1>5 DEF _acquire
    <3>2. task'[t].pc = pc /\ \A u \in Tasks : u # t => task'[u] = task[u] BY <3>1, Moves DEF TaskPlaces
    <3>3. pc \in InLine BY DEF InLine
    <3> QED BY <2>0, <3>1, <3>2, <3>3, <1>b
  <2> QED BY <2>1, <2>2
<1>6. ASSUME NEW t \in Tasks, drop_slot(t) PROVE LineOK'
  <2>0. line # <<>> /\ line[1] = t /\ shut' = shut BY <1>6 DEF drop_slot, Turn
  <2>1. CASE At(t, "built")
    <3>1. Rejoins(t) /\ To(t, "insert") BY <2>1, <1>6 DEF drop_slot
    <3>2. task'[t].pc = "insert" /\ \A u \in Tasks : u # t => task'[u] = task[u] BY <3>1, Moves DEF TaskPlaces
    <3>3. "insert" \in InLine BY DEF InLine
    <3> QED BY <2>0, <3>1, <3>2, <3>3, <1>b
  <2>2. CASE ~At(t, "built")
    <3>1. Leaves /\ To(t, "failed") BY <2>2, <1>6 DEF drop_slot
    <3>2. task'[t].pc = "failed" /\ \A u \in Tasks : u # t => task'[u] = task[u] BY <3>1, Moves DEF TaskPlaces
    <3>3. "failed" \in TaskPlaces \ InLine BY DEF InLine, TaskPlaces
    <3> QED BY <2>0, <3>1, <3>2, <3>3, <1>a
  <2> QED BY <2>1, <2>2
<1>7. ASSUME NEW t \in Tasks, insert(t) PROVE LineOK'
  <2>1. /\ line # <<>> /\ line[1] = t /\ shut' = shut /\ Leaves
        /\ task' = [task EXCEPT ![t].pc = "using", ![t].on = t]
    BY <1>7 DEF insert, Turn
  <2>2. task \in [Tasks -> TaskRecords] BY DEF RegistryInv, RegistryTypes
  <2>3. task'[t].pc = "using" /\ \A u \in Tasks : u # t => task'[u] = task[u] BY <2>1, <2>2 DEF TaskRecords
  <2>4. "using" \in TaskPlaces \ InLine BY DEF TaskPlaces, InLine
  <2> QED BY <2>1, <2>3, <2>4, <1>a
<1>8. ASSUME NEW t \in Tasks, _release(t) PROVE LineOK'
  <2>1. line # <<>> /\ line[1] = t /\ shut' = shut /\ Leaves /\ To(t, "done") BY <1>8 DEF _release, Turn
  <2>2. task'[t].pc = "done" /\ \A u \in Tasks : u # t => task'[u] = task[u] BY <2>1, Moves DEF TaskPlaces
  <2>3. "done" \in TaskPlaces \ InLine BY DEF TaskPlaces, InLine
  <2> QED BY <2>1, <2>2, <2>3, <1>a
<1>9. ASSUME NEW t \in Tasks, Cancel(t) PROVE LineOK'
  <2>1. To(t, "cancelled") /\ line' = Dropped(line, t) /\ shut' = shut BY <1>9 DEF Cancel
  <2>2. task'[t].pc = "cancelled" /\ \A u \in Tasks : u # t => task'[u] = task[u] BY <2>1, Moves DEF TaskPlaces
  <2>3. /\ line' \in Seq(Tasks \cup {Closer})
        /\ \A u : u \in ToSet(line) /\ u # t => u \in ToSet(line')
        /\ ToSet(line') \subseteq ToSet(line)
        /\ IsInjective(line') /\ t \notin ToSet(line')
    BY <2>1, <1>0, OneGivesUp
  <2>4. "cancelled" \notin InLine BY DEF InLine
  <2> QED BY <2>1, <2>2, <2>3, <2>4, LineMoves
<1>10. ASSUME NEW t \in Tasks, Expire(t) PROVE LineOK'
  <2>1. UNCHANGED <<line, task, shut>> BY <1>10 DEF Expire
  <2> QED BY <2>1, <1>0 DEF LineOK
<1>11. ASSUME close_registry PROVE LineOK'
  <2>1. /\ shut.pc = "open" /\ shut' = [shut EXCEPT !.pc = "asked"] /\ line' = Append(line, Closer)
        /\ task' = task
    BY <1>11 DEF close_registry
  <2>2. shut'.pc = "asked" /\ shut'.todo = shut.todo BY <2>1 DEF RegistryInv, RegistryTypes
  <2>3. Closer \notin ToSet(line) BY <2>1, <1>0 DEF LineOK
  <2>4. /\ line' \in Seq(Tasks \cup {Closer}) /\ IsInjective(line')
        /\ ToSet(line') = ToSet(line) \cup {Closer}
    BY <2>1, <2>3, <1>0, EndOfLine
  <2> QED BY <2>1, <2>2, <2>4, <1>0 DEF LineOK
<1>12. ASSUME list_entries PROVE LineOK'
  <2>1. line # <<>> /\ line[1] = Closer /\ Leaves /\ task' = task /\ shut'.pc = "closing"
    BY <1>12 DEF list_entries, CloserTurn
  <2>2. /\ line' \in Seq(Tasks \cup {Closer}) /\ IsInjective(line')
        /\ ToSet(line') = ToSet(line) \ {Closer}
    BY <2>1, <1>0, HeadOfLine DEF Leaves
  <2> QED BY <2>1, <2>2, <1>0 DEF LineOK
<1>13. ASSUME next_entry PROVE LineOK'
  <2>1. /\ shut.todo # <<>> /\ ~Contains(line, Closer) /\ line' = Append(line, Closer)
        /\ task' = task /\ shut' = shut
    BY <1>13 DEF next_entry
  <2>2. Closer \notin ToSet(line)
    <3>1. DOMAIN line = 1..Len(line) BY <1>0
    <3> QED BY <3>1, <2>1 DEF Contains, ToSet
  <2>3. shut.pc = "closing" BY <2>1, <1>0 DEF LineOK
  <2>4. /\ line' \in Seq(Tasks \cup {Closer}) /\ IsInjective(line')
        /\ ToSet(line') = ToSet(line) \cup {Closer}
    BY <2>1, <2>2, <1>0, EndOfLine
  <2> QED BY <2>1, <2>3, <2>4, <1>0 DEF LineOK
<1>14. ASSUME aclose PROVE LineOK'
  <2>1. /\ line # <<>> /\ line[1] = Closer /\ Leaves /\ task' = task /\ shut.pc = "closing"
        /\ shut' = [shut EXCEPT !.todo = Tail(@)]
    BY <1>14 DEF aclose, CloserTurn
  <2>2. shut'.pc = "closing" BY <2>1 DEF RegistryInv, RegistryTypes
  <2>3. /\ line' \in Seq(Tasks \cup {Closer}) /\ IsInjective(line')
        /\ ToSet(line') = ToSet(line) \ {Closer}
    BY <2>1, <1>0, HeadOfLine DEF Leaves
  <2> QED BY <2>1, <2>2, <2>3, <1>0 DEF LineOK
<1> QED BY <1>1, <1>2, <1>3, <1>4, <1>5, <1>6, <1>7, <1>8, <1>9, <1>10, <1>11, <1>12, <1>13, <1>14
        DEF RegistryNext, Run, Shutdown

-----------------------------------------------------------------------------
(* Who stands at the creation locks.                                       *)

\* One task moves and keeps its lock, and whoever is at a lock is still there.
LEMMA LocksMove ==
  ASSUME RegistryInv, NEW t \in Tasks,
         queue' \in [Tasks -> Seq(Tasks)],
         \A k \in ClientKeys : slots'[k] \in {slots[k], NoEntry},
         \A u \in Tasks : u # t => task'[u] = task[u],
         task'[t].lock = task[t].lock,
         task'[t].pc \in Lockless => task[t].pc \in Lockless,
         \A u \in Tasks : task'[u].pc \in Holding \cup {"wait"} =>
           task[u].pc \in Holding \cup {"wait"} /\ u \in ToSet(queue'[task[u].lock]),
         \A u \in Tasks : task'[u].pc \in Holding => queue'[task[u].lock][1] = u
  PROVE  LocksOK'
<1>1. \A u \in Tasks : task'[u].lock = task[u].lock OBVIOUS
<1>2. \A u \in Tasks : task'[u].pc \in Lockless => task[u].pc \in Lockless OBVIOUS
<1>3. LocksOK BY DEF RegistryInv
<1>4. \A u \in Tasks : task[u].lock \in Tasks \cup {NoEntry} BY RegistryState DEF TaskRecords
<1>5. \A k \in ClientKeys : slots[k] \in Tasks \cup {NoEntry} BY DEF RegistryInv, RegistryTypes
<1>6. \A u \in Tasks : task'[u].lock # NoEntry => task'[task'[u].lock].lock = task'[u].lock
  <2> SUFFICES ASSUME NEW u \in Tasks, task'[u].lock # NoEntry PROVE task'[task'[u].lock].lock = task'[u].lock
    OBVIOUS
  <2>1. task'[u].lock = task[u].lock /\ task[u].lock \in Tasks BY <1>1, <1>4
  <2>2. task[task[u].lock].lock = task[u].lock BY <2>1, <1>3 DEF LocksOK
  <2> QED BY <2>1, <2>2, <1>1
<1>7. \A k \in ClientKeys : slots'[k] # NoEntry => task'[slots'[k]].lock = slots'[k]
  <2> SUFFICES ASSUME NEW k \in ClientKeys, slots'[k] # NoEntry PROVE task'[slots'[k]].lock = slots'[k]
    OBVIOUS
  <2>1. slots'[k] = slots[k] /\ slots[k] \in Tasks BY <1>5
  <2>2. task[slots[k]].lock = slots[k] BY <2>1, <1>3 DEF LocksOK
  <2> QED BY <2>1, <2>2, <1>1
<1>8. \A u \in Tasks : task'[u].pc \in Lockless => task'[u].lock = NoEntry BY <1>1, <1>2, <1>3 DEF LocksOK
<1>9. \A u \in Tasks : task'[u].pc \in Holding \cup {"wait"} =>
        task'[u].lock \in Tasks /\ u \in ToSet(queue'[task'[u].lock])
  BY <1>1, <1>3 DEF LocksOK
<1>10. \A u \in Tasks : task'[u].pc \in Holding => queue'[task'[u].lock][1] = u BY <1>1
<1> QED BY <1>6, <1>7, <1>8, <1>9, <1>10 DEF LocksOK

\* The holder of a lock lets it go: the others stay, and none of them holds it.
LEMMA LockFreed ==
  ASSUME RegistryInv, NEW t \in Tasks, task[t].pc \in Holding, queue' = Unlocked(t)
  PROVE  /\ queue' \in [Tasks -> Seq(Tasks)]
         /\ \A u \in Tasks : u # t /\ task[u].pc \in Holding \cup {"wait"} => u \in ToSet(queue'[task[u].lock])
         /\ \A u \in Tasks : u # t /\ task[u].pc \in Holding => queue'[task[u].lock][1] = u
<1> DEFINE l == task[t].lock
<1>1. /\ l \in Tasks /\ t \in ToSet(queue[l]) /\ queue[l][1] = t /\ queue \in [Tasks -> Seq(Tasks)]
      /\ \A u \in Tasks : task[u].pc \in Holding \cup {"wait"} =>
           task[u].lock \in Tasks /\ u \in ToSet(queue[task[u].lock])
      /\ \A u \in Tasks : task[u].pc \in Holding => queue[task[u].lock][1] = u
  BY DEF RegistryInv, LocksOK
<1>2. queue' = [queue EXCEPT ![l] = Tail(@)] BY DEF Unlocked
<1> HIDE DEF l
<1>3. queue[l] \in Seq(Tasks) /\ queue[l] # <<>> BY <1>1 DEF ToSet
<1>4. Tail(queue[l]) \in Seq(Tasks) /\ \A u : u \in ToSet(queue[l]) /\ u # t => u \in ToSet(Tail(queue[l]))
  BY <1>1, <1>3, FirstLeaves
<1>5. queue' \in [Tasks -> Seq(Tasks)] BY <1>1, <1>2, <1>4
<1>6. queue'[l] = Tail(queue[l]) /\ \A m \in Tasks : m # l => queue'[m] = queue[m] BY <1>1, <1>2
<1>7. ASSUME NEW u \in Tasks, u # t, task[u].pc \in Holding \cup {"wait"}
      PROVE  u \in ToSet(queue'[task[u].lock])
  BY <1>1, <1>4, <1>6, <1>7
<1>8. ASSUME NEW u \in Tasks, u # t, task[u].pc \in Holding
      PROVE  queue'[task[u].lock][1] = u
  <2>1. task[u].lock \in Tasks /\ queue[task[u].lock][1] = u BY <1>1, <1>8
  <2>2. task[u].lock # l BY <2>1, <1>1, <1>8
  <2> QED BY <2>1, <2>2, <1>6
<1> QED BY <1>5, <1>7, <1>8

\* Two tasks never hold one lock.
LEMMA OneHolds ==
  ASSUME RegistryInv, NEW t \in Tasks, NEW u \in Tasks, task[t].pc \in Holding, task[u].pc \in Holding,
         task[t].lock = task[u].lock
  PROVE  t = u
<1>1. queue[task[t].lock][1] = t /\ queue[task[u].lock][1] = u BY DEF RegistryInv, LocksOK
<1> QED BY <1>1

\* Every step keeps the locks in order.
LEMMA LocksKept ==
  ASSUME RegistryInv, RegistryNext
  PROVE  LocksOK'
<1>0. /\ queue \in [Tasks -> Seq(Tasks)] /\ LocksOK
      /\ \A u \in Tasks : task[u].pc \in Holding \cup {"wait"} =>
           task[u].lock \in Tasks /\ u \in ToSet(queue[task[u].lock])
      /\ \A u \in Tasks : task[u].pc \in Holding => queue[task[u].lock][1] = u
  BY DEF RegistryInv, LocksOK
<1>1. ASSUME NEW t \in Tasks, lease(t) \/ finish(t) PROVE LocksOK'
  <2>1. PICK pc \in {"hit", "refused", "release"} : To(t, pc) /\ (pc # "release" => task[t].pc = "idle")
    BY <1>1 DEF lease, finish, At
  <2>2. UNCHANGED <<queue, slots>> BY <1>1 DEF lease, finish
  <2>3. /\ task'[t].pc = pc /\ task'[t].lock = task[t].lock
        /\ \A u \in Tasks : u # t => task'[u] = task[u]
    BY <2>1, Moves DEF TaskPlaces
  <2>4. pc \notin Holding \cup {"wait"} /\ (pc \in Lockless => task[t].pc \in Lockless)
    BY <2>1 DEF Holding, Lockless
  <2> QED BY <2>2, <2>3, <2>4, <1>0, LocksMove
<1>2. ASSUME NEW t \in Tasks, LockGranted(t) PROVE LocksOK'
  <2>1. To(t, "again") /\ task[t].pc = "wait" /\ queue[task[t].lock][1] = t /\ UNCHANGED <<queue, slots>>
    BY <1>2 DEF LockGranted, At
  <2>2. /\ task'[t].pc = "again" /\ task'[t].lock = task[t].lock
        /\ \A u \in Tasks : u # t => task'[u] = task[u]
    BY <2>1, Moves DEF TaskPlaces
  <2>3. "again" \notin Lockless BY DEF Lockless
  <2> QED BY <2>1, <2>2, <2>3, <1>0, LocksMove
<1>3. ASSUME NEW t \in Tasks, _try_hit(t) PROVE LocksOK'
  <2>0. task[t].pc = "hit" /\ UNCHANGED <<queue, slots>> BY <1>3 DEF _try_hit, Turn
  <2>1. CASE Reusable(task[t].key)
    <3>1. Leased(t) BY <2>1, <1>3 DEF _try_hit
    <3>2. /\ task'[t].pc = "using" /\ task'[t].lock = task[t].lock
          /\ \A u \in Tasks : u # t => task'[u] = task[u]
      BY <2>1, <3>1, LeasedDoes
    <3>3. "using" \notin Lockless \cup Holding \cup {"wait"} BY DEF Lockless, Holding
    <3> QED BY <2>0, <3>2, <3>3, <1>0, LocksMove
  <2>2. CASE ~Reusable(task[t].key)
    <3>1. To(t, "slot") BY <2>2, <1>3 DEF _try_hit
    <3>2. /\ task'[t].pc = "slot" /\ task'[t].lock = task[t].lock
          /\ \A u \in Tasks : u # t => task'[u] = task[u]
      BY <3>1, Moves DEF TaskPlaces
    <3>3. "slot" \notin Holding \cup {"wait"} /\ "hit" \in Lockless BY DEF Lockless, Holding
    <3> QED BY <2>0, <3>2, <3>3, <1>0, LocksMove
  <2> QED BY <2>1, <2>2
<1>4. ASSUME NEW t \in Tasks, _creation_lock(t) PROVE LocksOK'
  <2> DEFINE k == task[t].key
             l == IF slots[k] = NoEntry THEN t ELSE slots[k]
             p == IF queue[l] = <<>> THEN "again" ELSE "wait"
  <2>1. /\ k \in ClientKeys /\ l \in Tasks
        /\ task \in [Tasks -> TaskRecords] /\ slots \in [ClientKeys -> Tasks \cup {NoEntry}]
        /\ NoEntry \notin Tasks
    BY RegistryState DEF TaskRecords, RegistryInv, RegistryTypes
  <2>2. /\ task[t].pc = "slot" /\ slots' = [slots EXCEPT ![k] = l]
        /\ queue' = [queue EXCEPT ![l] = Append(@, t)]
        /\ task' = [task EXCEPT ![t].pc = p, ![t].lock = l]
    BY <1>4 DEF _creation_lock, Turn
  <2>3. task[t].lock = NoEntry BY <2>2, <1>0 DEF LocksOK, Lockless
  <2>4. \A u \in Tasks : u # t => task[u].lock # t
    <3>1. \A u \in Tasks : task[u].lock = t => task[t].lock = t BY <2>1, <1>0 DEF LocksOK
    <3> QED BY <3>1, <2>1, <2>3
  <2>5. l # t => task[l].lock = l
    <3>1. l # t => l = slots[k] /\ slots[k] # NoEntry OBVIOUS
    <3> QED BY <3>1, <2>1, <1>0 DEF LocksOK
  <2>p. p \in {"again", "wait"} /\ (p = "again" => queue[l] = <<>>) OBVIOUS
  <2> HIDE DEF k, l, p
  <2>6. /\ task'[t].pc = p /\ task'[t].lock = l
        /\ \A u \in Tasks : u # t => task'[u] = task[u]
    BY <2>1, <2>2 DEF TaskRecords
  <2>7. /\ slots'[k] = l /\ \A j \in ClientKeys : j # k => slots'[j] = slots[j]
    BY <2>1, <2>2
  <2>8. /\ Append(queue[l], t) \in Seq(Tasks) /\ ToSet(Append(queue[l], t)) = ToSet(queue[l]) \cup {t}
        /\ queue[l] # <<>> => Append(queue[l], t)[1] = queue[l][1]
        /\ queue[l] = <<>> => Append(queue[l], t)[1] = t
    BY <2>1, <1>0, JoinsLast
  <2>9. /\ queue' \in [Tasks -> Seq(Tasks)] /\ queue'[l] = Append(queue[l], t)
        /\ \A m \in Tasks : m # l => queue'[m] = queue[m]
    BY <2>1, <2>2, <2>8, <1>0
  <2>10. \A u \in Tasks : task'[u].pc \in Lockless => task'[u].lock = NoEntry
    BY <2>6, <2>p, <1>0 DEF LocksOK, Lockless
  <2>11. task'[l].lock = l BY <2>5, <2>6, <2>1
  <2>12. \A u \in Tasks : task'[u].lock # NoEntry => task'[task'[u].lock].lock = task'[u].lock
    <3> SUFFICES ASSUME NEW u \in Tasks, task'[u].lock # NoEntry
                 PROVE  task'[task'[u].lock].lock = task'[u].lock OBVIOUS
    <3>1. CASE u = t BY <3>1, <2>6, <2>11
    <3>2. CASE u # t
      <4>1. task'[u].lock = task[u].lock BY <3>2, <2>6
      <4>2. task[u].lock \in Tasks /\ task[u].lock # t BY <4>1, <3>2, <2>1, <2>4 DEF TaskRecords
      <4>3. task[task[u].lock].lock = task[u].lock BY <4>1, <1>0 DEF LocksOK
      <4> QED BY <4>1, <4>2, <4>3, <2>6
    <3> QED BY <3>1, <3>2
  <2>13. \A j \in ClientKeys : slots'[j] # NoEntry => task'[slots'[j]].lock = slots'[j]
    <3> SUFFICES ASSUME NEW j \in ClientKeys, slots'[j] # NoEntry PROVE task'[slots'[j]].lock = slots'[j] OBVIOUS
    <3>1. CASE j = k BY <3>1, <2>7, <2>11
    <3>2. CASE j # k
      <4>1. slots'[j] = slots[j] /\ slots[j] \in Tasks BY <3>2, <2>7, <2>1
      <4>2. task[slots[j]].lock = slots[j] BY <4>1, <1>0 DEF LocksOK
      <4>3. slots[j] # t BY <4>1, <4>2, <2>3, <2>1
      <4> QED BY <4>1, <4>2, <4>3, <2>6
    <3> QED BY <3>1, <3>2
  <2>14. \A u \in Tasks : task'[u].pc \in Holding \cup {"wait"} =>
           task'[u].lock \in Tasks /\ u \in ToSet(queue'[task'[u].lock])
    <3> SUFFICES ASSUME NEW u \in Tasks, task'[u].pc \in Holding \cup {"wait"}
                 PROVE  task'[u].lock \in Tasks /\ u \in ToSet(queue'[task'[u].lock])
      OBVIOUS
    <3>1. CASE u = t BY <3>1, <2>1, <2>6, <2>8, <2>9
    <3>2. CASE u # t
      <4>1. task'[u] = task[u] /\ task[u].lock \in Tasks /\ u \in ToSet(queue[task[u].lock]) BY <3>2, <2>6, <1>0
      <4> QED BY <4>1, <2>8, <2>9
    <3> QED BY <3>1, <3>2
  <2>15. \A u \in Tasks : task'[u].pc \in Holding => queue'[task'[u].lock][1] = u
    <3> SUFFICES ASSUME NEW u \in Tasks, task'[u].pc \in Holding PROVE queue'[task'[u].lock][1] = u OBVIOUS
    <3>1. CASE u = t
      <4>1. p = "again" BY <3>1, <2>6, <2>p DEF Holding
      <4> QED BY <4>1, <3>1, <2>p, <2>6, <2>8, <2>9
    <3>2. CASE u # t
      <4>1. /\ task'[u] = task[u] /\ task[u].lock \in Tasks /\ u \in ToSet(queue[task[u].lock])
            /\ queue[task[u].lock][1] = u
        BY <3>2, <2>6, <1>0
      <4>2. queue[task[u].lock] # <<>> BY <4>1 DEF ToSet
      <4> QED BY <4>1, <4>2, <2>8, <2>9
    <3> QED BY <3>1, <3>2
  <2> QED BY <2>9, <2>10, <2>12, <2>13, <2>14, <2>15 DEF LocksOK
<1>5. ASSUME NEW t \in Tasks, _acquire(t) PROVE LocksOK'
  <2>0. task[t].pc = "again" /\ UNCHANGED slots BY <1>5 DEF _acquire, Turn
  <2>1. "again" \in Holding BY DEF Holding
  <2>2. CASE Reusable(task[t].key)
    <3>1. Leased(t) /\ queue' = Unlocked(t) BY <2>2, <1>5 DEF _acquire
    <3>2. /\ task'[t].pc = "using" /\ task'[t].lock = task[t].lock
          /\ \A u \in Tasks : u # t => task'[u] = task[u]
      BY <2>2, <3>1, LeasedDoes
    <3>3. /\ queue' \in [Tasks -> Seq(Tasks)]
          /\ \A u \in Tasks : u # t /\ task[u].pc \in Holding \cup {"wait"} => u \in ToSet(queue'[task[u].lock])
          /\ \A u \in Tasks : u # t /\ task[u].pc \in Holding => queue'[task[u].lock][1] = u
      BY <2>0, <2>1, <3>1, LockFreed
    <3>4. "using" \notin Lockless \cup Holding \cup {"wait"} BY DEF Lockless, Holding
    <3> QED BY <2>0, <3>2, <3>3, <3>4, LocksMove
  <2>3. CASE ~Reusable(task[t].key)
    <3>1. PICK pc \in {"built", "broken"} : To(t, pc) /\ queue' = queue BY <2>3, <1>5 DEF _acquire
    <3>2. /\ task'[t].pc = pc /\ task'[t].lock = task[t].lock
          /\ \A u \in Tasks : u # t => task'[u] = task[u]
      BY <3>1, Moves DEF TaskPlaces
    <3>3. pc \notin Lockless /\ pc \in Holding BY DEF Lockless, Holding
    <3> QED BY <2>0, <2>1, <3>1, <3>2, <3>3, <1>0, LocksMove
  <2> QED BY <2>2, <2>3
<1>6. ASSUME NEW t \in Tasks, drop_slot(t) PROVE LocksOK'
  <2>0. /\ task[t].pc \in {"built", "broken"} /\ slots' = [slots EXCEPT ![task[t].key] = NoEntry]
    BY <1>6 DEF drop_slot, Turn
  <2>1. task[t].pc \in Holding BY <2>0 DEF Holding
  <2>2. \A k \in ClientKeys : slots'[k] \in {slots[k], NoEntry} BY <2>0 DEF RegistryInv, RegistryTypes
  <2>3. CASE At(t, "built")
    <3>1. To(t, "insert") /\ queue' = queue BY <2>3, <1>6 DEF drop_slot
    <3>2. /\ task'[t].pc = "insert" /\ task'[t].lock = task[t].lock
          /\ \A u \in Tasks : u # t => task'[u] = task[u]
      BY <3>1, Moves DEF TaskPlaces
    <3>3. "insert" \notin Lockless BY DEF Lockless
    <3> QED BY <2>1, <2>2, <3>1, <3>2, <3>3, <1>0, LocksMove
  <2>4. CASE ~At(t, "built")
    <3>1. To(t, "failed") /\ queue' = Unlocked(t) BY <2>4, <1>6 DEF drop_slot
    <3>2. /\ task'[t].pc = "failed" /\ task'[t].lock = task[t].lock
          /\ \A u \in Tasks : u # t => task'[u] = task[u]
      BY <3>1, Moves DEF TaskPlaces
    <3>3. /\ queue' \in [Tasks -> Seq(Tasks)]
          /\ \A u \in Tasks : u # t /\ task[u].pc \in Holding \cup {"wait"} => u \in ToSet(queue'[task[u].lock])
          /\ \A u \in Tasks : u # t /\ task[u].pc \in Holding => queue'[task[u].lock][1] = u
      BY <2>1, <3>1, LockFreed
    <3>4. "failed" \notin Lockless \cup Holding \cup {"wait"} BY DEF Lockless, Holding
    <3> QED BY <2>2, <3>2, <3>3, <3>4, LocksMove
  <2> QED BY <2>3, <2>4
<1>7. ASSUME NEW t \in Tasks, insert(t) PROVE LocksOK'
  <2>1. /\ task[t].pc = "insert" /\ queue' = Unlocked(t) /\ UNCHANGED slots
        /\ task' = [task EXCEPT ![t].pc = "using", ![t].on = t]
    BY <1>7 DEF insert, Turn
  <2>2. task \in [Tasks -> TaskRecords] BY DEF RegistryInv, RegistryTypes
  <2>3. /\ task'[t].pc = "using" /\ task'[t].lock = task[t].lock
        /\ \A u \in Tasks : u # t => task'[u] = task[u]
    BY <2>1, <2>2 DEF TaskRecords
  <2>4. /\ queue' \in [Tasks -> Seq(Tasks)]
        /\ \A u \in Tasks : u # t /\ task[u].pc \in Holding \cup {"wait"} => u \in ToSet(queue'[task[u].lock])
        /\ \A u \in Tasks : u # t /\ task[u].pc \in Holding => queue'[task[u].lock][1] = u
    BY <2>1, LockFreed DEF Holding
  <2>5. "using" \notin Lockless \cup Holding \cup {"wait"} BY DEF Lockless, Holding
  <2>6. \A k \in ClientKeys : slots'[k] \in {slots[k], NoEntry} BY <2>1
  <2>7. /\ task'[t].lock = task[t].lock
        /\ task'[t].pc \in Lockless => task[t].pc \in Lockless
    BY <2>3, <2>5
  <2>8. \A u \in Tasks : task'[u].pc \in Holding => queue'[task[u].lock][1] = u BY <2>3, <2>4, <2>5
  <2>9. \A u \in Tasks : task'[u].pc \in Holding \cup {"wait"} =>
           task[u].pc \in Holding \cup {"wait"} /\ u \in ToSet(queue'[task[u].lock])
    BY <2>3, <2>4, <2>5
  <2> QED BY <2>3, <2>4, <2>6, <2>7, <2>8, <2>9, LocksMove
<1>8. ASSUME NEW t \in Tasks, _release(t) PROVE LocksOK'
  <2>1. To(t, "done") /\ UNCHANGED <<queue, slots>> BY <1>8 DEF _release
  <2>2. /\ task'[t].pc = "done" /\ task'[t].lock = task[t].lock
        /\ \A u \in Tasks : u # t => task'[u] = task[u]
    BY <2>1, Moves DEF TaskPlaces
  <2>3. "done" \notin Lockless \cup Holding \cup {"wait"} BY DEF Lockless, Holding
  <2> QED BY <2>1, <2>2, <2>3, <1>0, LocksMove
<1>9. ASSUME NEW t \in Tasks, Cancel(t) PROVE LocksOK'
  <2>1. To(t, "cancelled") /\ queue' = [l \in Tasks |-> Dropped(queue[l], t)] /\ UNCHANGED slots
    BY <1>9 DEF Cancel
  <2>2. /\ task'[t].pc = "cancelled" /\ task'[t].lock = task[t].lock
        /\ \A u \in Tasks : u # t => task'[u] = task[u]
    BY <2>1, Moves DEF TaskPlaces
  <2>3. ASSUME NEW l \in Tasks
        PROVE  /\ queue'[l] \in Seq(Tasks)
               /\ \A u : u \in ToSet(queue[l]) /\ u # t => u \in ToSet(queue'[l])
               /\ queue[l] # <<>> /\ queue[l][1] # t => queue'[l][1] = queue[l][1]
    <3>1. queue'[l] = Dropped(queue[l], t) /\ queue[l] \in Seq(Tasks) BY <2>1, <1>0
    <3> QED BY <3>1, OneGivesUp
  <2>4. queue' \in [Tasks -> Seq(Tasks)] BY <2>1, <2>3
  <2>5. "cancelled" \notin Lockless \cup Holding \cup {"wait"} BY DEF Lockless, Holding
  <2>6. \A u \in Tasks : task'[u].pc \in Holding \cup {"wait"} =>
           task[u].pc \in Holding \cup {"wait"} /\ u \in ToSet(queue'[task[u].lock])
    BY <2>2, <2>3, <2>5, <1>0
  <2>7. ASSUME NEW u \in Tasks, task'[u].pc \in Holding PROVE queue'[task[u].lock][1] = u
    <3>1. u # t /\ task[u].pc \in Holding BY <2>2, <2>5, <2>7
    <3>2. task[u].lock \in Tasks /\ u \in ToSet(queue[task[u].lock]) /\ queue[task[u].lock][1] = u BY <3>1, <1>0
    <3>3. queue[task[u].lock] # <<>> BY <3>2 DEF ToSet
    <3> QED BY <3>1, <3>2, <3>3, <2>3
  <2> QED BY <2>1, <2>2, <2>4, <2>5, <2>6, <2>7, LocksMove
<1>10. ASSUME NEW t \in Tasks, Expire(t) PROVE LocksOK'
  <2>1. UNCHANGED <<slots, queue, task>> BY <1>10 DEF Expire
  <2> QED BY <2>1, <1>0 DEF LocksOK
<1>11. ASSUME close_registry \/ list_entries \/ next_entry \/ aclose PROVE LocksOK'
  <2>1. UNCHANGED <<slots, queue, task>> BY <1>11 DEF close_registry, list_entries, next_entry, aclose
  <2> QED BY <2>1, <1>0 DEF LocksOK
<1> QED BY <1>1, <1>2, <1>3, <1>4, <1>5, <1>6, <1>7, <1>8, <1>9, <1>10, <1>11
        DEF RegistryNext, Run, Shutdown

-----------------------------------------------------------------------------
(* What a step does to the clients.                                        *)

\* Nothing but their age.
ClientsSame ==
    /\ entries' = entries /\ retired' = retired
    /\ \A d \in Tasks : /\ entry'[d].key = entry[d].key /\ entry'[d].leases = entry[d].leases
                        /\ entry'[d].closing = entry[d].closing /\ entry'[d].closes = entry[d].closes
                        /\ entry'[d].made = entry[d].made

\* No task takes a client or gives one back.
LeasesSame ==
    \A u \in Tasks : /\ task'[u].on = task[u].on
                     /\ task'[u].pc \in Leasing <=> task[u].pc \in Leasing
                     /\ task[u].pc = "done" => task'[u].pc = "done"

\* The dates of use are kept, or a task that is about to insert takes the latest.
DatesKept ==
    /\ used' = used \/ \E t \in Tasks : used' = Touched(t)
    /\ \A u \in Tasks : task'[u].pc = "insert" => task[u].pc = "insert" \/ used' = Touched(u)

\* A step leaves the clients alone, or leases, inserts, releases or shuts one down.
LEMMA ClientSteps ==
  ASSUME RegistryInv, RegistryNext
  PROVE  \/ ClientsSame /\ LeasesSame /\ DatesKept
         \/ \E t \in Tasks : /\ Reusable(task[t].key) /\ Leased(t) /\ task[t].pc \in {"hit", "again"}
                             /\ UNCHANGED <<entries, retired, shut>>
         \/ \E t \in Tasks : insert(t)
         \/ \E t \in Tasks : _release(t)
         \/ aclose
<1> DEFINE Quiet == ClientsSame /\ LeasesSame /\ DatesKept
<1>a. ASSUME NEW t \in Tasks, NEW pc \in TaskPlaces \ {"insert"}, To(t, pc),
             pc \in Leasing <=> task[t].pc \in Leasing, task[t].pc # "done",
             UNCHANGED <<entries, retired, entry, used>>
      PROVE  Quiet
  <2>1. /\ task'[t].pc = pc /\ task'[t].on = task[t].on
        /\ \A u \in Tasks : u # t => task'[u] = task[u]
    BY <1>a, Moves
  <2>2. LeasesSame BY <2>1, <1>a DEF LeasesSame
  <2>3. DatesKept BY <2>1, <1>a DEF DatesKept
  <2>4. ClientsSame BY <1>a DEF ClientsSame
  <2> QED BY <2>2, <2>3, <2>4
<1>1. ASSUME NEW t \in Tasks, lease(t) PROVE Quiet
  <2>1. PICK pc \in {"hit", "refused"} : To(t, pc) /\ task[t].pc = "idle" BY <1>1 DEF lease, At
  <2>2. UNCHANGED <<entries, retired, entry, used>> BY <1>1 DEF lease
  <2>3. pc \in TaskPlaces \ {"insert"} /\ pc \notin Leasing /\ "idle" \notin Leasing BY DEF TaskPlaces, Leasing
  <2> QED BY <2>1, <2>2, <2>3, <1>a
<1>2. ASSUME NEW t \in Tasks, LockGranted(t) PROVE Quiet
  <2>1. To(t, "again") /\ task[t].pc = "wait" /\ UNCHANGED <<entries, retired, entry, used>>
    BY <1>2 DEF LockGranted, At
  <2>2. "again" \in TaskPlaces \ {"insert"} /\ "again" \notin Leasing /\ "wait" \notin Leasing
    BY DEF TaskPlaces, Leasing
  <2> QED BY <2>1, <2>2, <1>a
<1>3. ASSUME NEW t \in Tasks, finish(t) PROVE Quiet
  <2>1. To(t, "release") /\ task[t].pc = "using" /\ UNCHANGED <<entries, retired, entry, used>>
    BY <1>3 DEF finish, At
  <2>2. "release" \in TaskPlaces \ {"insert"} /\ "release" \in Leasing /\ "using" \in Leasing
    BY DEF TaskPlaces, Leasing
  <2> QED BY <2>1, <2>2, <1>a
<1>4. ASSUME NEW t \in Tasks, Cancel(t) PROVE Quiet
  <2>1. /\ To(t, "cancelled") /\ UNCHANGED <<entries, retired, entry, used>>
        /\ task[t].pc \notin Leasing /\ task[t].pc # "done"
    BY <1>4 DEF Cancel, Leasing
  <2>2. "cancelled" \in TaskPlaces \ {"insert"} /\ "cancelled" \notin Leasing BY DEF TaskPlaces, Leasing
  <2> QED BY <2>1, <2>2, <1>a
<1>5. ASSUME NEW t \in Tasks, _try_hit(t)
      PROVE  Quiet \/ (/\ Reusable(task[t].key) /\ Leased(t) /\ task[t].pc \in {"hit", "again"}
                       /\ UNCHANGED <<entries, retired, shut>>)
  <2>1. CASE Reusable(task[t].key) BY <2>1, <1>5 DEF _try_hit, Turn
  <2>2. CASE ~Reusable(task[t].key)
    <3>1. To(t, "slot") /\ task[t].pc = "hit" /\ UNCHANGED <<entries, retired, entry, used>>
      BY <2>2, <1>5 DEF _try_hit, Turn
    <3>2. "slot" \in TaskPlaces \ {"insert"} /\ "slot" \notin Leasing /\ "hit" \notin Leasing
      BY DEF TaskPlaces, Leasing
    <3> QED BY <3>1, <3>2, <1>a
  <2> QED BY <2>1, <2>2
<1>6. ASSUME NEW t \in Tasks, _creation_lock(t) PROVE Quiet
  <2> DEFINE l == IF slots[task[t].key] = NoEntry THEN t ELSE slots[task[t].key]
             p == IF queue[l] = <<>> THEN "again" ELSE "wait"
  <2>1. /\ task[t].pc = "slot" /\ UNCHANGED <<entries, retired, entry, used>>
        /\ task' = [task EXCEPT ![t].pc = p, ![t].lock = l]
    BY <1>6 DEF _creation_lock, Turn
  <2>2. p \in {"again", "wait"} OBVIOUS
  <2>3. task \in [Tasks -> TaskRecords] BY DEF RegistryInv, RegistryTypes
  <2> HIDE DEF p, l
  <2>4. task'[t].pc = p /\ task'[t].on = task[t].on /\ \A u \in Tasks : u # t => task'[u] = task[u]
    BY <2>1, <2>3 DEF TaskRecords
  <2>5. p \notin Leasing /\ "slot" \notin Leasing /\ p # "insert" BY <2>2 DEF Leasing
  <2>6. LeasesSame BY <2>1, <2>4, <2>5 DEF LeasesSame
  <2>7. DatesKept BY <2>1, <2>4, <2>5 DEF DatesKept
  <2> QED BY <2>1, <2>6, <2>7 DEF ClientsSame
<1>7. ASSUME NEW t \in Tasks, _acquire(t)
      PROVE  Quiet \/ (/\ Reusable(task[t].key) /\ Leased(t) /\ task[t].pc \in {"hit", "again"}
                       /\ UNCHANGED <<entries, retired, shut>>)
  <2>1. CASE Reusable(task[t].key) BY <2>1, <1>7 DEF _acquire, Turn
  <2>2. CASE ~Reusable(task[t].key)
    <3>1. PICK pc \in {"built", "broken"} :
            To(t, pc) /\ task[t].pc = "again" /\ UNCHANGED <<entries, retired, entry, used>>
      BY <2>2, <1>7 DEF _acquire, Turn
    <3>2. pc \in TaskPlaces \ {"insert"} /\ pc \notin Leasing /\ "again" \notin Leasing
      BY DEF TaskPlaces, Leasing
    <3> QED BY <3>1, <3>2, <1>a
  <2> QED BY <2>1, <2>2
<1>8. ASSUME NEW t \in Tasks, drop_slot(t) PROVE Quiet
  <2>0. task[t].pc \in {"built", "broken"} /\ UNCHANGED <<entries, retired, entry>> BY <1>8 DEF drop_slot, Turn
  <2>1. CASE At(t, "built")
    <3>1. To(t, "insert") /\ used' = Touched(t) BY <2>1, <1>8 DEF drop_slot
    <3>2. /\ task'[t].pc = "insert" /\ task'[t].on = task[t].on
          /\ \A u \in Tasks : u # t => task'[u] = task[u]
      BY <3>1, Moves DEF TaskPlaces
    <3>3. LeasesSame BY <2>0, <3>2 DEF LeasesSame, Leasing
    <3>4. DatesKept BY <3>1, <3>2 DEF DatesKept
    <3> QED BY <2>0, <3>3, <3>4 DEF ClientsSame
  <2>2. CASE ~At(t, "built")
    <3>1. To(t, "failed") /\ used' = used BY <2>2, <1>8 DEF drop_slot
    <3>2. /\ "failed" \in TaskPlaces \ {"insert"} /\ "failed" \notin Leasing
          /\ task[t].pc \notin Leasing /\ task[t].pc # "done"
      BY <2>0 DEF TaskPlaces, Leasing
    <3> QED BY <2>0, <3>1, <3>2, <1>a
  <2> QED BY <2>1, <2>2
<1>9. ASSUME NEW t \in Tasks, Expire(t) PROVE Quiet
  <2>1. entry \in [Tasks -> EntryRecords] BY DEF RegistryInv, RegistryTypes
  <2>2. entry' = [entry EXCEPT ![t].expired = TRUE] /\ UNCHANGED <<entries, retired, task, used>> BY <1>9 DEF Expire
  <2>3. ClientsSame BY <2>1, <2>2 DEF ClientsSame, EntryRecords
  <2> QED BY <2>2, <2>3 DEF LeasesSame, DatesKept
<1>10. ASSUME close_registry \/ list_entries \/ next_entry PROVE Quiet
  BY <1>10 DEF close_registry, list_entries, next_entry, ClientsSame, LeasesSame, DatesKept
<1> HIDE DEF Quiet
<1>11. Quiet \/ (\E t \in Tasks : /\ Reusable(task[t].key) /\ Leased(t) /\ task[t].pc \in {"hit", "again"}
                                  /\ UNCHANGED <<entries, retired, shut>>)
             \/ (\E t \in Tasks : insert(t)) \/ (\E t \in Tasks : _release(t)) \/ aclose
  BY <1>1, <1>2, <1>3, <1>4, <1>5, <1>6, <1>7, <1>8, <1>9, <1>10 DEF RegistryNext, Run, Shutdown
<1> QED BY <1>11 DEF Quiet

\* What is loose stays loose, and a registry that closes goes on closing.
LEMMA OneWay ==
  ASSUME RegistryInv, RegistryNext
  PROVE  /\ loose \subseteq loose'
         /\ shut.pc = "closing" => shut'.pc = "closing"
         /\ \A u \in Tasks : task'[u].key = task[u].key
<1>0. task \in [Tasks -> TaskRecords] /\ shut.pc \in {"open", "asked", "closing"} BY DEF RegistryInv, RegistryTypes
<1>1. loose \subseteq loose'
  BY DEF RegistryNext, Run, Shutdown, lease, _try_hit, _creation_lock, LockGranted, _acquire, drop_slot, insert,
         finish, _release, Cancel, Expire, close_registry, list_entries, next_entry, aclose
<1>2. shut.pc = "closing" => shut'.pc = "closing"
  <2>1. ASSUME aclose PROVE shut'.pc = shut.pc BY <2>1 DEF aclose, RegistryInv, RegistryTypes
  <2>2. ASSUME list_entries PROVE shut'.pc = "closing" BY <2>2 DEF list_entries
  <2>3. ASSUME close_registry PROVE shut.pc = "open" BY <2>3 DEF close_registry
  <2> QED BY <2>1, <2>2, <2>3 DEF RegistryNext, Run, Shutdown, lease, _try_hit, _creation_lock, LockGranted,
        _acquire, drop_slot, insert, finish, _release, Cancel, Expire, next_entry
<1>3. ASSUME NEW u \in Tasks PROVE task'[u].key = task[u].key
  <2>a. \A t \in Tasks : \A pc : To(t, pc) => task'[u].key = task[u].key BY <1>0 DEF To, TaskRecords
  <2>b. \A t \in Tasks : Leased(t) => task'[u].key = task[u].key BY <1>0 DEF Leased, TaskRecords
  <2>c. \A t \in Tasks : insert(t) => task'[u].key = task[u].key BY <1>0 DEF insert, TaskRecords
  <2>d. \A t \in Tasks : _creation_lock(t) => task'[u].key = task[u].key BY <1>0 DEF _creation_lock, TaskRecords
  <2>1. ASSUME NEW t \in Tasks, lease(t) \/ LockGranted(t) \/ finish(t) \/ _release(t) \/ Cancel(t)
        PROVE  \E pc : To(t, pc)
    BY <2>1 DEF lease, LockGranted, finish, _release, Cancel
  <2>2. ASSUME NEW t \in Tasks, _try_hit(t) \/ _acquire(t) \/ drop_slot(t) PROVE Leased(t) \/ \E pc : To(t, pc)
    BY <2>2 DEF _try_hit, _acquire, drop_slot
  <2>3. ASSUME NEW t \in Tasks, Expire(t) PROVE task' = task BY <2>3 DEF Expire
  <2>4. ASSUME close_registry \/ Shutdown PROVE task' = task
    BY <2>4 DEF close_registry, Shutdown, list_entries, next_entry, aclose
  <2> QED BY <2>a, <2>b, <2>c, <2>d, <2>1, <2>2, <2>3, <2>4 DEF RegistryNext, Run
<1> QED BY <1>1, <1>2, <1>3

-----------------------------------------------------------------------------
(* The clients and their leases.                                           *)

\* A client that is leased has its lessee among its lessees, and a client with
\* none has no lease.
LEMMA NoLessee ==
  ASSUME RegistryInv, NEW e \in Tasks, entry[e].leases = 0
  PROVE  Lessees(e) = {}
<1>1. Lessees(e) \in SUBSET Tasks BY DEF Lessees
<1>2. IsFiniteSet(Lessees(e)) BY <1>1, RegistryAssumption, FS_Subset
<1>3. Cardinality(Lessees(e)) = 0 BY DEF RegistryInv, EntriesOK
<1> QED BY <1>2, <1>3, FS_EmptySet

\* Every step keeps the clients and their leases in order.
LEMMA EntriesKept ==
  ASSUME RegistryInv, RegistryNext
  PROVE  EntriesOK'
<1>0. /\ EntriesOK /\ RegistryTypes /\ NoEntry \notin Tasks
      /\ entries \in [ClientKeys -> Tasks \cup {NoEntry}] /\ entry \in [Tasks -> EntryRecords]
      /\ task \in [Tasks -> TaskRecords]
  BY RegistryAssumption DEF RegistryInv, RegistryTypes
<1>1. ASSUME ClientsSame, LeasesSame PROVE EntriesOK'
  <2>1. \A e \in Tasks : entry'[e].made =>
          task'[e].pc \in {"using", "release", "done"} /\ entry'[e].key \in ClientKeys
    BY <1>0, <1>1 DEF EntriesOK, ClientsSame, LeasesSame, Leasing
  <2>2. \A e \in Tasks : Unclosed(e)' <=> Unclosed(e) BY <1>1 DEF Unclosed, ClientsSame
  <2>3. ASSUME NEW k \in ClientKeys, entries'[k] # NoEntry
        PROVE  entry'[entries'[k]].made /\ entry'[entries'[k]].closes = 0 /\ entry'[entries'[k]].key = k
    <3>1. entries'[k] = entries[k] /\ entries[k] \in Tasks BY <1>0, <1>1, <2>3 DEF ClientsSame
    <3>2. Unclosed(entries[k]) /\ entry[entries[k]].key = k BY <3>1, <1>0 DEF EntriesOK
    <3> QED BY <3>1, <3>2, <1>1 DEF ClientsSame, Unclosed
  <2>4. ASSUME NEW t \in Tasks, task'[t].pc \in Leasing PROVE task'[t].on \in Tasks /\ entry'[task'[t].on].made
    BY <1>0, <1>1, <2>4 DEF EntriesOK, ClientsSame, LeasesSame
  <2>5. ASSUME NEW e \in Tasks PROVE entry'[e].leases = Cardinality(Lessees(e)')
    <3>1. Lessees(e)' = Lessees(e) BY <1>1 DEF Lessees, LeasesSame
    <3> QED BY <3>1, <1>0, <1>1 DEF EntriesOK, ClientsSame
  <2>6. Retained' = Retained /\ retired' = retired BY <1>1 DEF Retained, ClientsSame
  <2>7. \A e \in Tasks : Unclosed(e)' => e \in Retained' \cup retired' BY <2>2, <2>6, <1>0 DEF EntriesOK
  <2> QED BY <2>1, <2>3, <2>4, <2>5, <2>7 DEF EntriesOK, Unclosed
<1>2. ASSUME NEW t \in Tasks, Reusable(task[t].key), Leased(t), task[t].pc \in {"hit", "again"},
             UNCHANGED <<entries, retired, shut>>
      PROVE  EntriesOK'
  <2>0. entries[task[t].key] \in Tasks BY <1>2, LeasedDoes
  <2>c. PICK c \in Tasks : c = entries[task[t].key] BY <2>0
  <2>1. /\ Unclosed(c)
        /\ entry'[c].leases = entry[c].leases + 1
        /\ \A d \in Tasks : d # c => entry'[d].leases = entry[d].leases
        /\ \A d \in Tasks : /\ entry'[d].key = entry[d].key /\ entry'[d].closing = entry[d].closing
                            /\ entry'[d].closes = entry[d].closes /\ entry'[d].made = entry[d].made
        /\ task'[t].pc = "using" /\ task'[t].on = c
        /\ \A u \in Tasks : u # t => task'[u] = task[u]
    BY <1>2, <2>c, LeasedDoes
  <2>2. task[t].pc \notin Leasing /\ task[t].pc # "done" /\ "using" \in Leasing BY <1>2 DEF Leasing
  <2>3. \A e \in Tasks : entry'[e].made =>
          task'[e].pc \in {"using", "release", "done"} /\ entry'[e].key \in ClientKeys
    BY <2>1, <1>0 DEF EntriesOK
  <2>4. \A e \in Tasks : Unclosed(e)' <=> Unclosed(e) BY <2>1 DEF Unclosed
  <2>5. ASSUME NEW k \in ClientKeys, entries'[k] # NoEntry
        PROVE  entry'[entries'[k]].made /\ entry'[entries'[k]].closes = 0 /\ entry'[entries'[k]].key = k
    <3>1. entries'[k] = entries[k] /\ entries[k] \in Tasks BY <1>0, <1>2, <2>5
    <3>2. Unclosed(entries[k]) /\ entry[entries[k]].key = k BY <3>1, <1>0 DEF EntriesOK
    <3> QED BY <3>1, <3>2, <2>1 DEF Unclosed
  <2>6. ASSUME NEW u \in Tasks, task'[u].pc \in Leasing PROVE task'[u].on \in Tasks /\ entry'[task'[u].on].made
    <3>1. CASE u = t BY <3>1, <2>1 DEF Unclosed
    <3>2. CASE u # t BY <3>2, <2>1, <2>6, <1>0 DEF EntriesOK
    <3> QED BY <3>1, <3>2
  <2>7. ASSUME NEW e \in Tasks PROVE entry'[e].leases = Cardinality(Lessees(e)')
    <3>1. CASE e = c
      <4>1. Lessees(c)' = Lessees(c) \cup {t} BY <2>1, <2>2 DEF Lessees
      <4>2. t \notin Lessees(c) BY <2>2 DEF Lessees
      <4>3. Lessees(c) \in SUBSET Tasks BY DEF Lessees
      <4>4. IsFiniteSet(Lessees(c)) BY <4>3, RegistryAssumption, FS_Subset
      <4>5. Cardinality(Lessees(c) \cup {t}) = Cardinality(Lessees(c)) + 1 BY <4>2, <4>4, FS_AddElement
      <4> QED BY <3>1, <4>1, <4>5, <2>1, <1>0 DEF EntriesOK
    <3>2. CASE e # c
      <4>1. Lessees(e)' = Lessees(e) BY <3>2, <2>1, <2>2 DEF Lessees
      <4> QED BY <3>2, <4>1, <2>1, <1>0 DEF EntriesOK
    <3> QED BY <3>1, <3>2
  <2>8. Retained' = Retained /\ retired' = retired BY <1>2 DEF Retained
  <2>9. \A e \in Tasks : Unclosed(e)' => e \in Retained' \cup retired' BY <2>4, <2>8, <1>0 DEF EntriesOK
  <2> QED BY <2>3, <2>5, <2>6, <2>7, <2>9 DEF EntriesOK, Unclosed
<1>3. ASSUME NEW t \in Tasks, insert(t) PROVE EntriesOK'
  <2> DEFINE k == task[t].key
  <2>1. PICK gone, mark \in SUBSET Tasks : Inserts(t, gone, mark) BY <1>3, InsertDoes
  <2>2. task[t].pc = "insert" /\ task' = [task EXCEPT ![t].pc = "using", ![t].on = t] BY <1>3 DEF insert, Turn
  <2>3. task'[t].pc = "using" /\ task'[t].on = t /\ \A u \in Tasks : u # t => task'[u] = task[u]
    BY <2>2, <1>0 DEF TaskRecords
  <2>4. k \in ClientKeys BY <1>0 DEF TaskRecords
  <2> HIDE DEF k
  <2>5. /\ \A e \in gone : e # t /\ e # entries[k] /\ e \in Retained /\ entry[e].leases = 0
        /\ entries' = [j \in ClientKeys |-> IF j = k THEN t ELSE IF entries[j] \in gone THEN NoEntry ELSE entries[j]]
        /\ retired' = retired \cup ({entries[k]} \ {NoEntry})
        /\ entry'[t].key = k /\ entry'[t].leases = 1 /\ entry'[t].closes = 0 /\ entry'[t].made
        /\ \A e \in Tasks \ {t} :
             /\ entry'[e].key = entry[e].key /\ entry'[e].leases = entry[e].leases
             /\ entry'[e].made = entry[e].made
             /\ entry'[e].closes = IF e \in gone THEN 1 ELSE entry[e].closes
        /\ ~entry[t].made
    BY <2>1 DEF Inserts, k
  <2>6. ASSUME NEW e \in Tasks, entry'[e].made
        PROVE  task'[e].pc \in {"using", "release", "done"} /\ entry'[e].key \in ClientKeys
    <3>1. CASE e = t BY <3>1, <2>3, <2>4, <2>5
    <3>2. CASE e # t BY <3>2, <2>6, <2>3, <2>5, <1>0 DEF EntriesOK
    <3> QED BY <3>1, <3>2
  <2>7. ASSUME NEW j \in ClientKeys, entries'[j] # NoEntry
        PROVE  entry'[entries'[j]].made /\ entry'[entries'[j]].closes = 0 /\ entry'[entries'[j]].key = j
    <3>1. CASE j = k
      <4>1. entries'[j] = t BY <3>1, <2>5
      <4> QED BY <3>1, <4>1, <2>5 DEF Unclosed
    <3>2. CASE j # k
      <4>1. entries'[j] = entries[j] /\ entries[j] \in Tasks /\ entries[j] \notin gone BY <3>2, <2>5, <2>7, <1>0
      <4>2. Unclosed(entries[j]) /\ entry[entries[j]].key = j BY <4>1, <1>0 DEF EntriesOK
      <4>3. entries[j] # t BY <4>2, <2>5 DEF Unclosed
      <4> QED BY <4>1, <4>2, <4>3, <2>5 DEF Unclosed
    <3> QED BY <3>1, <3>2
  <2>8. ASSUME NEW u \in Tasks, task'[u].pc \in Leasing PROVE task'[u].on \in Tasks /\ entry'[task'[u].on].made
    <3>1. CASE u = t BY <3>1, <2>3, <2>5
    <3>2. CASE u # t
      <4>1. task'[u].on = task[u].on /\ task[u].on \in Tasks /\ entry[task[u].on].made
        BY <3>2, <2>3, <2>8, <1>0 DEF EntriesOK
      <4>2. task[u].on # t BY <4>1, <2>5
      <4> QED BY <4>1, <4>2, <2>5
    <3> QED BY <3>1, <3>2
  <2>9. ASSUME NEW e \in Tasks PROVE entry'[e].leases = Cardinality(Lessees(e)')
    <3>1. \A u \in Tasks : task[u].pc \in Leasing => task[u].on # t BY <2>5, <1>0 DEF EntriesOK
    <3>2. task[t].pc \notin Leasing /\ "using" \in Leasing BY <2>2 DEF Leasing
    <3>3. CASE e = t
      <4>1. Lessees(t)' = {t} BY <3>1, <3>2, <2>3 DEF Lessees
      <4>2. Cardinality({t}) = 1 BY FS_Singleton
      <4> QED BY <3>3, <4>1, <4>2, <2>5
    <3>4. CASE e # t
      <4>1. Lessees(e)' = Lessees(e) BY <3>4, <3>2, <2>3 DEF Lessees
      <4> QED BY <3>4, <4>1, <2>5, <1>0 DEF EntriesOK
    <3> QED BY <3>3, <3>4
  <2>10. ASSUME NEW e \in Tasks, Unclosed(e)' PROVE e \in Retained' \cup retired'
    <3>0. Retained' = {entries'[j] : j \in ClientKeys} \ {NoEntry} BY DEF Retained
    <3>1. CASE e = t
      <4>1. entries'[k] = t BY <2>4, <2>5
      <4> QED BY <3>0, <3>1, <4>1, <2>4, <1>0
    <3>2. CASE e # t
      <4>1. Unclosed(e) /\ e \notin gone BY <3>2, <2>10, <2>5 DEF Unclosed
      <4>2. CASE e \in retired BY <4>2, <2>5
      <4>3. CASE e \notin retired
        <5>1. e \in Retained BY <4>1, <4>3, <1>0 DEF EntriesOK
        <5>2. PICK j \in ClientKeys : e = entries[j] BY <5>1 DEF Retained
        <5>3. CASE j = k BY <5>2, <5>3, <2>5, <1>0
        <5>4. CASE j # k
          <6>1. entries'[j] = e BY <5>2, <5>4, <4>1, <2>5
          <6> QED BY <6>1, <3>0, <1>0
        <5> QED BY <5>3, <5>4
      <4> QED BY <4>2, <4>3
    <3> QED BY <3>1, <3>2
  <2> QED BY <2>6, <2>7, <2>8, <2>9, <2>10 DEF EntriesOK, Unclosed
\* Clients that close leave the cache and the list of the retired.
<1>a. ASSUME NEW S \in SUBSET Tasks, ClosesJust(S)
      PROVE  /\ \A k \in ClientKeys : entries'[k] # NoEntry => entry'[entries'[k]].made /\ entry'[entries'[k]].closes = 0 /\ entry'[entries'[k]].key = k
             /\ \A e \in Tasks : Unclosed(e)' => e \in Retained' \cup retired'
  <2>1. \A e \in Tasks : Unclosed(e)' <=> Unclosed(e) /\ e \notin S BY <1>a DEF ClosesJust, Unclosed
  <2>2. ASSUME NEW k \in ClientKeys, entries'[k] # NoEntry
        PROVE  entry'[entries'[k]].made /\ entry'[entries'[k]].closes = 0 /\ entry'[entries'[k]].key = k
    <3>1. entries'[k] = entries[k] /\ entries[k] \in Tasks \ S BY <1>0, <1>a, <2>2 DEF ClosesJust
    <3>2. Unclosed(entries[k]) /\ entry[entries[k]].key = k BY <3>1, <1>0 DEF EntriesOK
    <3> QED BY <3>1, <3>2, <1>a DEF ClosesJust, Unclosed
  <2>3. ASSUME NEW e \in Tasks, Unclosed(e)' PROVE e \in Retained' \cup retired'
    <3>1. Unclosed(e) /\ e \notin S BY <2>1, <2>3
    <3>2. CASE e \in retired BY <3>1, <3>2, <1>a DEF ClosesJust
    <3>3. CASE e \notin retired
      <4>1. e \in Retained BY <3>1, <3>3, <1>0 DEF EntriesOK
      <4>2. PICK j \in ClientKeys : e = entries[j] BY <4>1 DEF Retained
      <4>3. entries'[j] = e BY <4>2, <3>1, <1>a DEF ClosesJust
      <4> QED BY <4>3, <1>0 DEF Retained
    <3> QED BY <3>2, <3>3
  <2> QED BY <2>2, <2>3
<1>4. ASSUME NEW t \in Tasks, _release(t) PROVE EntriesOK'
  <2>0. task[t].on \in Tasks BY <1>4, ReleaseDoes
  <2>c. PICK c \in Tasks : c = task[t].on BY <2>0
  <2>1. /\ entry[c].made /\ t \in Lessees(c)
        /\ entry'[c].leases = entry[c].leases - 1
        /\ \A d \in Tasks : d # c => entry'[d].leases = entry[d].leases
    BY <1>4, <2>c, ReleaseDoes
  <2>2. PICK S \in SUBSET {c} : ClosesJust(S) BY <1>4, <2>c, ReleaseDoes
  <2>3. task[t].pc = "release" /\ To(t, "done") BY <1>4 DEF _release, Turn
  <2>4. task'[t].pc = "done" /\ \A u \in Tasks : u # t => task'[u] = task[u] BY <2>3, Moves DEF TaskPlaces
  <2>5. S \in SUBSET Tasks BY <2>1, <2>2
  <2>6. \A e \in Tasks : entry'[e].made = entry[e].made /\ entry'[e].key = entry[e].key BY <2>2 DEF ClosesJust
  <2>7. \A e \in Tasks : entry'[e].made =>
          task'[e].pc \in {"using", "release", "done"} /\ entry'[e].key \in ClientKeys
    BY <2>4, <2>6, <1>0 DEF EntriesOK
  <2>8. "done" \notin Leasing BY DEF Leasing
  <2>9. \A u \in Tasks : task'[u].pc \in Leasing => task'[u].on \in Tasks /\ entry'[task'[u].on].made
    BY <2>4, <2>6, <2>8, <1>0 DEF EntriesOK
  <2>10. ASSUME NEW e \in Tasks PROVE entry'[e].leases = Cardinality(Lessees(e)')
    <3>1. CASE e = c
      <4>1. Lessees(c)' = Lessees(c) \ {t} BY <2>4, <2>8 DEF Lessees
      <4>2. Lessees(c) \in SUBSET Tasks BY DEF Lessees
      <4>3. IsFiniteSet(Lessees(c)) BY <4>2, RegistryAssumption, FS_Subset
      <4>4. Cardinality(Lessees(c) \ {t}) = Cardinality(Lessees(c)) - 1 BY <2>1, <4>3, FS_RemoveElement
      <4> QED BY <3>1, <4>1, <4>4, <2>1, <1>0 DEF EntriesOK
    <3>2. CASE e # c
      <4>1. t \notin Lessees(e) BY <3>2, <2>c DEF Lessees
      <4>2. Lessees(e)' = Lessees(e) BY <4>1, <2>4, <2>8 DEF Lessees
      <4> QED BY <3>2, <4>2, <2>1, <1>0 DEF EntriesOK
    <3> QED BY <3>1, <3>2
  <2>11. /\ \A k \in ClientKeys : entries'[k] # NoEntry =>
              entry'[entries'[k]].made /\ entry'[entries'[k]].closes = 0 /\ entry'[entries'[k]].key = k
         /\ \A e \in Tasks : Unclosed(e)' => e \in Retained' \cup retired'
    BY <2>2, <2>5, <1>a
  <2> QED BY <2>7, <2>9, <2>10, <2>11 DEF EntriesOK, Unclosed
<1>5. ASSUME aclose PROVE EntriesOK'
  <2>1. /\ shut.todo[1] \in Tasks /\ ClosesJust({shut.todo[1]})
        /\ \A d \in Tasks : entry'[d].leases = entry[d].leases
    BY <1>5, AcloseDoes
  <2>2. task' = task BY <1>5 DEF aclose
  <2>3. \A e \in Tasks : entry'[e].made = entry[e].made /\ entry'[e].key = entry[e].key BY <2>1 DEF ClosesJust
  <2>4. \A e \in Tasks : entry'[e].made =>
          task'[e].pc \in {"using", "release", "done"} /\ entry'[e].key \in ClientKeys
    BY <2>2, <2>3, <1>0 DEF EntriesOK
  <2>5. \A u \in Tasks : task'[u].pc \in Leasing => task'[u].on \in Tasks /\ entry'[task'[u].on].made
    BY <2>2, <2>3, <1>0 DEF EntriesOK
  <2>6. ASSUME NEW e \in Tasks PROVE entry'[e].leases = Cardinality(Lessees(e)')
    <3>1. Lessees(e)' = Lessees(e) BY <2>2 DEF Lessees
    <3> QED BY <3>1, <2>1, <1>0 DEF EntriesOK
  <2>7. {shut.todo[1]} \in SUBSET Tasks BY <2>1
  <2>8. /\ \A k \in ClientKeys : entries'[k] # NoEntry =>
             entry'[entries'[k]].made /\ entry'[entries'[k]].closes = 0 /\ entry'[entries'[k]].key = k
        /\ \A e \in Tasks : Unclosed(e)' => e \in Retained' \cup retired'
    BY <2>1, <2>7, <1>a
  <2> QED BY <2>4, <2>5, <2>6, <2>8 DEF EntriesOK, Unclosed
<1> QED BY <1>1, <1>2, <1>3, <1>4, <1>5, ClientSteps

\* Of the steps, only insertion adds a client; closing and marking take some away.
LEMMA FewerClients ==
  ASSUME RegistryInv, RegistryNext
  PROVE  \/ /\ retired' \subseteq retired
            /\ \A k \in ClientKeys : entries'[k] \in {entries[k], NoEntry}
            /\ \A d \in Tasks : /\ entry'[d].key = entry[d].key /\ entry'[d].made = entry[d].made
                                /\ entry'[d].closing = entry[d].closing
                                /\ entry'[d].closes = entry[d].closes \/ entry'[d].closes = 1
            /\ \A k \in ClientKeys : entries[k] \in Tasks /\ entry'[entries[k]].closes = 0 => entries'[k] = entries[k]
         \/ \E t \in Tasks : insert(t)
<1>1. ASSUME ClientsSame
      PROVE  /\ retired' \subseteq retired
             /\ \A k \in ClientKeys : entries'[k] \in {entries[k], NoEntry}
             /\ \A d \in Tasks : /\ entry'[d].key = entry[d].key /\ entry'[d].made = entry[d].made
                                 /\ entry'[d].closing = entry[d].closing
                                 /\ entry'[d].closes = entry[d].closes \/ entry'[d].closes = 1
             /\ \A k \in ClientKeys : entries[k] \in Tasks /\ entry'[entries[k]].closes = 0 => entries'[k] = entries[k]
  BY <1>1 DEF ClientsSame
<1>2. ASSUME NEW t \in Tasks, Reusable(task[t].key), Leased(t), UNCHANGED <<entries, retired, shut>>
      PROVE  /\ retired' \subseteq retired
             /\ \A k \in ClientKeys : entries'[k] \in {entries[k], NoEntry}
             /\ \A d \in Tasks : /\ entry'[d].key = entry[d].key /\ entry'[d].made = entry[d].made
                                 /\ entry'[d].closing = entry[d].closing
                                 /\ entry'[d].closes = entry[d].closes \/ entry'[d].closes = 1
             /\ \A k \in ClientKeys : entries[k] \in Tasks /\ entry'[entries[k]].closes = 0 => entries'[k] = entries[k]
  BY <1>2, LeasedDoes
<1>3. ASSUME NEW S \in SUBSET Tasks, ClosesJust(S)
      PROVE  /\ retired' \subseteq retired
             /\ \A k \in ClientKeys : entries'[k] \in {entries[k], NoEntry}
             /\ \A d \in Tasks : /\ entry'[d].key = entry[d].key /\ entry'[d].made = entry[d].made
                                 /\ entry'[d].closing = entry[d].closing
                                 /\ entry'[d].closes = entry[d].closes \/ entry'[d].closes = 1
             /\ \A k \in ClientKeys : entries[k] \in Tasks /\ entry'[entries[k]].closes = 0 => entries'[k] = entries[k]
  BY <1>3 DEF ClosesJust
<1>4. ASSUME NEW t \in Tasks, _release(t) PROVE \E S \in SUBSET Tasks : ClosesJust(S)
  <2>1. task[t].on \in Tasks /\ \E S \in SUBSET {task[t].on} : ClosesJust(S) BY <1>4, ReleaseDoes
  <2>2. PICK S \in SUBSET {task[t].on} : ClosesJust(S) BY <2>1
  <2>3. S \in SUBSET Tasks BY <2>1, <2>2
  <2> QED BY <2>2, <2>3
<1>5. ASSUME aclose PROVE \E S \in SUBSET Tasks : ClosesJust(S)
  <2>1. {shut.todo[1]} \in SUBSET Tasks /\ ClosesJust({shut.todo[1]}) BY <1>5, AcloseDoes
  <2> QED BY <2>1
<1>6. ClientsSame \/ (\E t \in Tasks : Reusable(task[t].key) /\ Leased(t) /\ UNCHANGED <<entries, retired, shut>>)
      \/ (\E t \in Tasks : insert(t)) \/ (\E t \in Tasks : _release(t)) \/ aclose
  BY ClientSteps
<1>7. CASE ClientsSame BY <1>1, <1>7
<1>8. CASE \E t \in Tasks : Reusable(task[t].key) /\ Leased(t) /\ UNCHANGED <<entries, retired, shut>> BY <1>2, <1>8
<1>9. CASE \E t \in Tasks : insert(t) BY <1>9
<1>10. CASE (\E t \in Tasks : _release(t)) \/ aclose BY <1>3, <1>4, <1>5, <1>10
<1> QED BY <1>6, <1>7, <1>8, <1>9, <1>10

\* Every step keeps what can be handed out in the cache.
LEMMA FoundKept ==
  ASSUME RegistryInv, RegistryNext
  PROVE  FoundOK'
<1>0. /\ loose \subseteq loose' /\ FoundOK /\ EntriesOK
      /\ entry \in [Tasks -> EntryRecords] /\ entries \in [ClientKeys -> Tasks \cup {NoEntry}]
      /\ NoEntry \notin Tasks /\ \A e \in Tasks : entry[e].closes \in {0, 1}
  BY OneWay, RegistryAssumption DEF RegistryInv, RegistryTypes, EntryRecords
<1> SUFFICES ASSUME NEW e \in Tasks, entry'[e].made, entry'[e].closes = 0, ~entry'[e].closing,
                    entry'[e].key \notin loose'
             PROVE  entries'[entry'[e].key] = e
  BY DEF FoundOK, Unclosed
<1>1. ASSUME NEW t \in Tasks, insert(t) PROVE entries'[entry'[e].key] = e
  <2> DEFINE k == task[t].key
  <2>1. PICK gone, mark \in SUBSET Tasks : Inserts(t, gone, mark) BY <1>1, InsertDoes
  <2>2. k \in ClientKeys BY RegistryState DEF TaskRecords
  <2> HIDE DEF k
  <2>3. /\ \A d \in gone : d # t
        /\ entries' = [j \in ClientKeys |-> IF j = k THEN t ELSE IF entries[j] \in gone THEN NoEntry ELSE entries[j]]
        /\ entry'[t].key = k
        /\ \A d \in Tasks \ {t} :
             /\ entry'[d].key = entry[d].key /\ entry'[d].made = entry[d].made
             /\ entry'[d].closes = IF d \in gone THEN 1 ELSE entry[d].closes
             /\ entry'[d].closing <=> (entry[d].closing \/ d \in mark)
    BY <2>1 DEF Inserts, k
  <2>4. CASE e = t BY <2>4, <2>2, <2>3
  <2>5. CASE e # t
    <3>1. /\ Unclosed(e) /\ ~entry[e].closing /\ entry[e].key \notin loose /\ e \notin gone
          /\ entry'[e].key = entry[e].key /\ entry[e].key \in ClientKeys
      BY <2>5, <2>3, <1>0 DEF Unclosed, EntriesOK
    <3>2. entries[entry[e].key] = e BY <3>1, <1>0 DEF FoundOK
    <3>3. entry[e].key # k
      <4>1. SUFFICES ASSUME entry[e].key = k PROVE FALSE OBVIOUS
      <4>2. Reusable(k) BY <4>1, <3>1, <3>2, <1>0 DEF Reusable
      <4>3. task[t].pc = "insert" BY <1>1 DEF insert, Turn
      <4>4. ~Reusable(task[t].key) BY <4>1, <4>3, <3>1 DEF RegistryInv, SoloOK, k
      <4> QED BY <4>2, <4>4 DEF k
    <3> QED BY <3>1, <3>2, <3>3, <2>3
  <2> QED BY <2>4, <2>5
<1>2. ASSUME /\ \A d \in Tasks : /\ entry'[d].key = entry[d].key /\ entry'[d].made = entry[d].made
                                 /\ entry'[d].closing = entry[d].closing
                                 /\ entry'[d].closes = entry[d].closes \/ entry'[d].closes = 1
             /\ \A k \in ClientKeys : entries[k] \in Tasks /\ entry'[entries[k]].closes = 0 => entries'[k] = entries[k]
      PROVE  entries'[entry'[e].key] = e
  <2>1. /\ Unclosed(e) /\ ~entry[e].closing /\ entry[e].key \notin loose
        /\ entry'[e].key = entry[e].key /\ entry[e].key \in ClientKeys
    BY <1>0, <1>2 DEF Unclosed, EntriesOK
  <2>2. entries[entry[e].key] = e BY <2>1, <1>0 DEF FoundOK
  <2> QED BY <2>1, <2>2, <1>2
<1> QED BY <1>1, <1>2, FewerClients

\* Every step keeps the clients that are to stay within the capacity.
LEMMA BoundKept ==
  ASSUME RegistryInv, RegistryNext
  PROVE  Bounded'
<1>1. ASSUME NEW t \in Tasks, insert(t) PROVE Bounded'
  <2>1. PICK gone, mark \in SUBSET Tasks : Inserts(t, gone, mark) BY <1>1, InsertDoes
  <2> QED BY <2>1 DEF Inserts, Bounded
<1>2. ASSUME \A k \in ClientKeys : entries'[k] \in {entries[k], NoEntry},
             \A d \in Tasks : entry'[d].closing = entry[d].closing
      PROVE  Bounded'
  <2> DEFINE A == {e \in Retained : ~entry[e].closing}
             B == {e \in Retained' : ~entry'[e].closing}
  <2>0. entries \in [ClientKeys -> Tasks \cup {NoEntry}] BY DEF RegistryInv, RegistryTypes
  <2>1. Retained' \subseteq Retained /\ Retained \subseteq Tasks BY <2>0, <1>2 DEF Retained
  <2>2. B \in SUBSET A BY <2>1, <1>2
  <2>3. IsFiniteSet(A) BY <2>1, RegistryAssumption, FS_Subset
  <2>4. Cardinality(A) <= Capacity BY DEF RegistryInv, Bounded
  <2> HIDE DEF A, B
  <2>5. Cardinality(B) <= Cardinality(A) /\ IsFiniteSet(B) BY <2>2, <2>3, FS_Subset
  <2>6. Cardinality(A) \in Nat /\ Cardinality(B) \in Nat /\ Capacity \in Nat
    BY <2>3, <2>5, FS_CardinalityType, RegistryAssumption
  <2>7. Cardinality(B) <= Capacity BY <2>4, <2>5, <2>6
  <2> QED BY <2>7 DEF B, Bounded
<1> QED BY <1>1, <1>2, FewerClients

\* The latest use comes after all others.
LEMMA TouchedOrders ==
  ASSUME UsedOK, used \subseteq Tasks \X Tasks, NEW e \in Tasks
  PROVE  /\ \A d \in Tasks : <<d, d>> \notin Touched(e)
         /\ \A a, b, c \in Tasks : <<a, b>> \in Touched(e) /\ <<b, c>> \in Touched(e) => <<a, c>> \in Touched(e)
         /\ \A a, b \in Tasks : a # b /\ (<<a, b>> \in used \/ <<b, a>> \in used \/ a = e) =>
              <<a, b>> \in Touched(e) \/ <<b, a>> \in Touched(e)
<1>1. \A a, b \in Tasks : <<a, b>> \in Touched(e) <=> (a # e /\ (b = e \/ <<a, b>> \in used))
  BY DEF Touched
<1> QED BY <1>1 DEF UsedOK

\* Every step keeps the order of use.
LEMMA UsedKept ==
  ASSUME RegistryInv, RegistryNext
  PROVE  UsedOK'
<1>0. UsedOK /\ used \subseteq Tasks \X Tasks BY DEF RegistryInv, RegistryTypes
<1> DEFINE Dated(d) == entry[d].made \/ task[d].pc = "insert"
           Dated2(d) == entry'[d].made \/ task'[d].pc = "insert"
<1>1. ASSUME used' = used, \A d \in Tasks : Dated2(d) => Dated(d)
      PROVE  UsedOK'
  BY <1>0, <1>1 DEF UsedOK
<1>2. ASSUME NEW e \in Tasks, used' = Touched(e), \A d \in Tasks : Dated2(d) => Dated(d) \/ d = e
      PROVE  UsedOK'
  <2>1. \A d, f \in Tasks : Dated2(d) /\ d # f => <<d, f>> \in used' \/ <<f, d>> \in used'
    <3> SUFFICES ASSUME NEW d \in Tasks, NEW f \in Tasks, Dated2(d), d # f
                 PROVE  <<d, f>> \in used' \/ <<f, d>> \in used'
      OBVIOUS
    <3>1. d = e \/ <<d, f>> \in used \/ <<f, d>> \in used BY <1>0, <1>2 DEF UsedOK
    <3> QED BY <3>1, <1>0, <1>2, TouchedOrders
  <2>2. /\ \A d \in Tasks : <<d, d>> \notin used'
        /\ \A a, b, c \in Tasks : <<a, b>> \in used' /\ <<b, c>> \in used' => <<a, c>> \in used'
    BY <1>0, <1>2, TouchedOrders
  <2> QED BY <2>1, <2>2 DEF UsedOK
<1>3. ASSUME ClientsSame, DatesKept PROVE UsedOK'
  <2>1. CASE used' = used /\ \A u \in Tasks : task'[u].pc = "insert" => task[u].pc = "insert"
    BY <2>1, <1>1, <1>3 DEF ClientsSame
  <2>2. CASE used' = used /\ ~\A u \in Tasks : task'[u].pc = "insert" => task[u].pc = "insert"
    <3>1. PICK u \in Tasks : task'[u].pc = "insert" /\ task[u].pc # "insert" BY <2>2
    <3>2. used' = Touched(u) BY <3>1, <1>3 DEF DatesKept
    <3>3. \A d \in Tasks : task'[d].pc = "insert" => task[d].pc = "insert" \/ d = u
      <4> SUFFICES ASSUME NEW d \in Tasks, task'[d].pc = "insert", task[d].pc # "insert", d # u PROVE FALSE OBVIOUS
      <4>1. used' = Touched(d) BY <1>3 DEF DatesKept
      <4>2. <<u, d>> \in Touched(d) /\ <<u, d>> \notin Touched(u) BY DEF Touched
      <4> QED BY <4>1, <4>2, <3>2
    <3> QED BY <3>2, <3>3, <1>2, <1>3 DEF ClientsSame
  <2>3. CASE used' # used
    <3>1. PICK u \in Tasks : used' = Touched(u) BY <2>3, <1>3 DEF DatesKept
    <3>2. \A d \in Tasks : task'[d].pc = "insert" => task[d].pc = "insert" \/ d = u
      <4> SUFFICES ASSUME NEW d \in Tasks, task'[d].pc = "insert", task[d].pc # "insert", d # u PROVE FALSE OBVIOUS
      <4>1. used' = Touched(d) BY <1>3 DEF DatesKept
      <4>2. <<u, d>> \in Touched(d) /\ <<u, d>> \notin Touched(u) BY DEF Touched
      <4> QED BY <4>1, <4>2, <3>1
    <3> QED BY <3>1, <3>2, <1>2, <1>3 DEF ClientsSame
  <2> QED BY <2>1, <2>2, <2>3
<1>4. ASSUME NEW t \in Tasks, Reusable(task[t].key), Leased(t) PROVE UsedOK'
  <2>1. /\ entries[task[t].key] \in Tasks /\ used' = Touched(entries[task[t].key])
        /\ \A d \in Tasks : entry'[d].made = entry[d].made
        /\ task'[t].pc = "using" /\ \A u \in Tasks : u # t => task'[u] = task[u]
    BY <1>4, LeasedDoes
  <2>2. \A d \in Tasks : Dated2(d) => Dated(d) BY <2>1
  <2> QED BY <2>1, <2>2, <1>2
<1>5. ASSUME NEW t \in Tasks, insert(t) PROVE UsedOK'
  <2>1. PICK gone, mark \in SUBSET Tasks : Inserts(t, gone, mark) BY <1>5, InsertDoes
  <2>2. \A d \in Tasks \ {t} : entry'[d].made = entry[d].made BY <2>1 DEF Inserts
  <2>3. task[t].pc = "insert" /\ used' = used /\ task' = [task EXCEPT ![t].pc = "using", ![t].on = t]
    BY <1>5 DEF insert, Turn
  <2>6. task \in [Tasks -> TaskRecords] BY DEF RegistryInv, RegistryTypes
  <2>4. task'[t].pc = "using" /\ \A u \in Tasks : u # t => task'[u] = task[u] BY <2>3, <2>6 DEF TaskRecords
  <2>5. \A d \in Tasks : Dated2(d) => Dated(d) BY <2>2, <2>3, <2>4
  <2> QED BY <2>3, <2>5, <1>1
<1>6. ASSUME NEW t \in Tasks, _release(t) PROVE UsedOK'
  <2>1. PICK S \in SUBSET {task[t].on} : ClosesJust(S) BY <1>6, ReleaseDoes
  <2>2. To(t, "done") /\ used' = used BY <1>6 DEF _release
  <2>3. task'[t].pc = "done" /\ \A u \in Tasks : u # t => task'[u] = task[u] BY <2>2, Moves DEF TaskPlaces
  <2>4. \A d \in Tasks : Dated2(d) => Dated(d) BY <2>1, <2>3 DEF ClosesJust
  <2> QED BY <2>2, <2>4, <1>1
<1>7. ASSUME aclose PROVE UsedOK'
  <2>1. ClosesJust({shut.todo[1]}) BY <1>7, AcloseDoes
  <2>2. used' = used /\ task' = task BY <1>7 DEF aclose
  <2>3. \A d \in Tasks : Dated2(d) => Dated(d) BY <2>1, <2>2 DEF ClosesJust
  <2> QED BY <2>2, <2>3, <1>1
<1> HIDE DEF Dated, Dated2
<1> QED BY <1>3, <1>4, <1>5, <1>6, <1>7, ClientSteps

\* Every step keeps shutdown's list: what it saw is closed or still on it.
LEMMA SeenKept ==
  ASSUME RegistryInv, RegistryNext
  PROVE  SeenOK'
<1>0. /\ SeenOK /\ EntriesOK /\ shut.todo \in Seq(Tasks) /\ shut.seen \subseteq Tasks
      /\ entry \in [Tasks -> EntryRecords]
      /\ shut \in [pc : {"open", "asked", "closing"}, todo : Seq(Tasks), seen : SUBSET Tasks]
  BY DEF RegistryInv, RegistryTypes
<1>1. ASSUME shut'.todo = shut.todo, shut'.seen = shut.seen,
             \A d \in Tasks : entry[d].made => entry'[d].made /\ (entry'[d].closes = entry[d].closes \/ entry'[d].closes = 1)
      PROVE  SeenOK'
  BY <1>0, <1>1 DEF SeenOK
<1>2. CASE list_entries
  <2> DEFINE S == Retained \cup retired
  <2>1. shut' = [pc |-> "closing", todo |-> SetToSeq(S), seen |-> {e \in Tasks : Unclosed(e)}] /\ entry' = entry
    BY <1>2 DEF list_entries
  <2>2. S \in SUBSET Tasks BY DEF RegistryInv, RegistryTypes, Retained
  <2>3. ToSet(SetToSeq(S)) = S
    <3> HIDE DEF S
    <3> QED BY <2>2, RegistryAssumption, FS_Subset, ListedAll
  <2>4. \A e \in Tasks : Unclosed(e) => e \in S BY <1>0 DEF EntriesOK
  <2>5. shut'.todo = SetToSeq(S) /\ shut'.seen = {e \in Tasks : Unclosed(e)} BY <2>1
  <2> HIDE DEF S
  <2> QED BY <2>1, <2>3, <2>4, <2>5 DEF SeenOK, Unclosed
<1>3. CASE aclose
  <2> DEFINE c == shut.todo[1]
  <2>1. /\ shut.todo # <<>> /\ c \in Tasks /\ ClosesJust({c}) BY <1>3, AcloseDoes
  <2>2. shut' = [shut EXCEPT !.todo = Tail(@)] BY <1>3 DEF aclose
  <2>3. shut'.todo = Tail(shut.todo) /\ shut'.seen = shut.seen BY <1>0, <2>2
  <2>4. \A u : u \in ToSet(shut.todo) /\ u # c => u \in ToSet(Tail(shut.todo)) BY <1>0, <2>1, FirstLeaves
  <2>5. \A e \in Tasks : /\ entry'[e].made = entry[e].made
                         /\ entry'[e].closes = IF e = c THEN 1 ELSE entry[e].closes
    BY <2>1 DEF ClosesJust
  <2> HIDE DEF c
  <2> QED BY <1>0, <2>3, <2>4, <2>5 DEF SeenOK
<1>4. CASE ~list_entries /\ ~aclose
  <2>1. shut'.todo = shut.todo /\ shut'.seen = shut.seen
    <3>1. shut' = shut \/ shut' = [shut EXCEPT !.pc = "asked"]
      BY <1>4 DEF RegistryNext, Run, Shutdown, lease, _try_hit, _creation_lock, LockGranted, _acquire, drop_slot,
         insert, finish, _release, Cancel, Expire, close_registry, next_entry
    <3> QED BY <3>1, <1>0
  <2>2. \A d \in Tasks : entry[d].made => entry'[d].made /\ (entry'[d].closes = entry[d].closes \/ entry'[d].closes = 1)
    <3>1. ASSUME NEW t \in Tasks, insert(t), NEW d \in Tasks, entry[d].made
          PROVE  entry'[d].made /\ (entry'[d].closes = entry[d].closes \/ entry'[d].closes = 1)
      <4>1. PICK gone, mark \in SUBSET Tasks : Inserts(t, gone, mark) BY <3>1, InsertDoes
      <4>2. d # t BY <4>1, <3>1 DEF Inserts
      <4> QED BY <4>1, <4>2, <3>1 DEF Inserts
    <3> QED BY <3>1, FewerClients
  <2> QED BY <2>1, <2>2, <1>1
<1> QED BY <1>2, <1>3, <1>4

\* Every step keeps a held client open.
LEMMA HeldKept ==
  ASSUME RegistryInv, RegistryNext
  PROVE  HeldStaysOpen'
<1>0. /\ EntriesOK /\ RegistryTypes /\ \A u \in Tasks : task[u].pc \in Leasing => task[u].on \in Tasks
      /\ task \in [Tasks -> TaskRecords]
  BY DEF RegistryInv, EntriesOK, RegistryTypes
<1>1. \A e \in Tasks : entry'[e].closes <= 1
  <2>1. \A e \in Tasks : entry'[e].closes \in {0, 1} BY TypesKept DEF RegistryTypes, EntryRecords
  <2> QED BY <2>1
<1> SUFFICES ASSUME NEW u \in Tasks, shut'.pc # "closing", task'[u].pc \in Leasing
             PROVE  entry'[task'[u].on].made /\ entry'[task'[u].on].closes = 0
  BY <1>1 DEF HeldStaysOpen, Unclosed, Leasing
<1>2. shut.pc # "closing" BY OneWay
<1>3. task[u].pc \in Leasing => entry[task[u].on].made /\ entry[task[u].on].closes = 0
  BY <1>2 DEF RegistryInv, HeldStaysOpen, Unclosed, Leasing
<1>4. CASE ClientsSame /\ LeasesSame
  BY <1>0, <1>3, <1>4 DEF ClientsSame, LeasesSame
<1>5. ASSUME NEW t \in Tasks, Reusable(task[t].key), Leased(t) PROVE entry'[task'[u].on].made /\ entry'[task'[u].on].closes = 0
  <2> DEFINE e == entries[task[t].key]
  <2>1. /\ e \in Tasks /\ Unclosed(e) /\ task'[t].on = e
        /\ \A d \in Tasks : entry'[d].made = entry[d].made /\ entry'[d].closes = entry[d].closes
        /\ \A v \in Tasks : v # t => task'[v] = task[v]
    BY <1>5, LeasedDoes
  <2> HIDE DEF e
  <2>2. CASE u = t BY <2>1, <2>2 DEF Unclosed
  <2>3. CASE u # t BY <2>1, <2>3, <1>0, <1>3
  <2> QED BY <2>2, <2>3
<1>6. ASSUME NEW t \in Tasks, insert(t) PROVE entry'[task'[u].on].made /\ entry'[task'[u].on].closes = 0
  <2>1. PICK gone, mark \in SUBSET Tasks : Inserts(t, gone, mark) BY <1>6, InsertDoes
  <2>2. task' = [task EXCEPT ![t].pc = "using", ![t].on = t] BY <1>6 DEF insert
  <2>3. task'[t].on = t /\ \A v \in Tasks : v # t => task'[v] = task[v] BY <2>2, <1>0 DEF TaskRecords
  <2>4. CASE u = t BY <2>1, <2>3, <2>4 DEF Inserts
  <2>5. CASE u # t
    <3> DEFINE e == task[u].on
    <3>1. task'[u] = task[u] /\ e \in Tasks /\ entry[e].made /\ entry[e].closes = 0 BY <2>3, <2>5, <1>0, <1>3
    <3>2. u \in Lessees(e) BY <3>1 DEF Lessees
    <3> HIDE DEF e
    <3>3. entry[e].leases # 0 BY <3>1, <3>2, NoLessee
    <3>4. e \notin gone /\ e # t BY <2>1, <3>1, <3>3 DEF Inserts
    <3>5. entry'[e].made = entry[e].made /\ entry'[e].closes = entry[e].closes BY <2>1, <3>1, <3>4 DEF Inserts
    <3> QED BY <3>1, <3>5 DEF e
  <2> QED BY <2>4, <2>5
<1>7. ASSUME NEW t \in Tasks, _release(t) PROVE entry'[task'[u].on].made /\ entry'[task'[u].on].closes = 0
  <2> DEFINE c == task[t].on
  <2>1. PICK S \in SUBSET {c} : ClosesJust(S) /\ (c \in S => Lessees(c) = {t}) BY <1>7, ReleaseDoes
  <2>2. To(t, "done") BY <1>7 DEF _release
  <2>3. task'[t].pc = "done" /\ \A v \in Tasks : v # t => task'[v] = task[v] BY <2>2, Moves DEF TaskPlaces
  <2>4. u # t BY <2>3 DEF Leasing
  <2> DEFINE e == task[u].on
  <2>5. task'[u] = task[u] /\ e \in Tasks /\ entry[e].made /\ entry[e].closes = 0 BY <2>3, <2>4, <1>0, <1>3
  <2>6. u \in Lessees(e) BY <2>5 DEF Lessees
  <2>7. e \notin S BY <2>1, <2>4, <2>6
  <2> HIDE DEF e, c
  <2>8. entry'[e].made = entry[e].made /\ entry'[e].closes = entry[e].closes BY <2>1, <2>5, <2>7 DEF ClosesJust
  <2> QED BY <2>5, <2>8 DEF e
<1>8. CASE aclose BY <1>8, <1>2 DEF aclose, CloserTurn
<1> QED BY <1>4, <1>5, <1>6, <1>7, <1>8, ClientSteps

-----------------------------------------------------------------------------
(* One construction of a key at a time.                                    *)

\* Without an insertion, a client that cannot be reused stays so.
LEMMA ReusedLess ==
  ASSUME RegistryInv, RegistryNext, \A t \in Tasks : ~insert(t), NEW k \in ClientKeys, ~Reusable(k)
  PROVE  ~Reusable(k)'
<1>1. /\ \A j \in ClientKeys : entries'[j] \in {entries[j], NoEntry}
      /\ \A d \in Tasks : entry'[d].closing = entry[d].closing
  BY FewerClients
<1>2. entries[k] \in Tasks \cup {NoEntry} BY DEF RegistryInv, RegistryTypes
<1>3. CASE entries'[k] = NoEntry BY <1>3 DEF Reusable
<1>4. CASE entries'[k] # NoEntry
  <2>1. entries'[k] = entries[k] /\ entries[k] \in Tasks BY <1>1, <1>2, <1>4
  <2>2. entry[entries[k]].closing BY <2>1, <1>4 DEF Reusable
  <2>3. entry'[entries'[k]].closing BY <2>1, <2>2, <1>1
  <2> QED BY <2>3 DEF Reusable
<1> QED BY <1>3, <1>4

\* One task moves.
LEMMA SoloMoves ==
  ASSUME RegistryInv, NEW x \in Tasks, loose \subseteq loose',
         task'[x].key = task[x].key,
         \A u \in Tasks : u # x => task'[u] = task[u],
         \A t \in Tasks : t # x /\ task[t].key \notin loose' /\ task[t].pc \in {"built", "broken"} =>
           task[t].lock = slots'[task[t].key],
         \A t \in Tasks : t # x /\ task[t].key \notin loose' /\ task[t].pc = "again"
                          /\ task[t].lock = slots'[task[t].key] => task[t].lock = slots[task[t].key],
         \A t \in Tasks : task[t].key \notin loose' /\ task'[t].pc \in {"built", "insert"} =>
           ~Reusable(task[t].key)',
         \A u, t \in Tasks : u # x /\ t # x /\ Ahead(line, u, t) => Ahead(line', u, t),
         task[x].key \notin loose' /\ task'[x].pc \in {"built", "broken"} => task'[x].lock = slots'[task[x].key],
         \A t \in Tasks : task'[x].pc = "insert" /\ t # x /\ task[t].key = task[x].key /\ task[x].key \notin loose' =>
           task[t].pc \notin {"built", "insert"} /\ ~(task[t].pc = "again" /\ task[t].lock = slots'[task[t].key]),
         \A u \in Tasks : u # x /\ task[u].pc = "insert" /\ task[u].key = task[x].key /\ task[x].key \notin loose' =>
           task'[x].pc \notin {"built", "insert"} /\ (task'[x].pc = "again" => Ahead(line', u, x))
  PROVE  SoloOK'
<1>0. SoloOK BY DEF RegistryInv
<1>k. \A u \in Tasks : task'[u].key = task[u].key OBVIOUS
<1>1. \A t \in Tasks : task'[t].key \notin loose' /\ task'[t].pc \in {"built", "broken"} =>
        task'[t].lock = slots'[task'[t].key]
  OBVIOUS
<1>2. \A t \in Tasks : task'[t].key \notin loose' /\ task'[t].pc \in {"built", "insert"} => ~Reusable(task[t].key)'
  BY <1>k
<1>3. ASSUME NEW t \in Tasks, task'[t].key \notin loose', NEW u \in Tasks, task'[u].pc = "insert",
             task'[u].key = task'[t].key
      PROVE  /\ task'[t].pc \in {"built", "insert"} => u = t
             /\ task'[t].pc = "again" /\ task'[t].lock = slots'[task'[t].key] => Ahead(line', u, t)
  <2>1. CASE u # x /\ t # x
    <3>1. /\ task'[t] = task[t] /\ task'[u] = task[u] /\ task[t].key \notin loose' /\ task[t].key \notin loose
      BY <2>1, <1>3
    <3>2. /\ task[t].pc \in {"built", "insert"} => u = t
          /\ task[t].pc = "again" /\ task[t].lock = slots[task[t].key] => Ahead(line, u, t)
      BY <1>0, <1>3, <3>1 DEF SoloOK
    <3> QED BY <2>1, <3>1, <3>2
  <2>2. CASE u = x /\ t # x
    BY <2>2, <1>3, <1>k
  <2>3. CASE u # x /\ t = x
    BY <2>3, <1>3, <1>k
  <2>4. CASE u = x /\ t = x BY <2>4, <1>3
  <2> QED BY <2>1, <2>2, <2>3, <2>4
<1> QED BY <1>1, <1>2, <1>3, <1>k DEF SoloOK

\* A task moves to where nothing is constructed, and keeps the others' order.
LEMMA SoloLeaves ==
  ASSUME RegistryInv, RegistryNext, NEW x \in Tasks, \A t \in Tasks : ~insert(t),
         task'[x].pc \notin {"again", "built", "broken", "insert"},
         \A u \in Tasks : u # x => task'[u] = task[u],
         slots' = slots,
         \A u, t \in Tasks : u # x /\ t # x /\ Ahead(line, u, t) => Ahead(line', u, t)
  PROVE  SoloOK'
<1>1. SoloOK /\ loose \subseteq loose' /\ task'[x].key = task[x].key BY OneWay DEF RegistryInv
<1>2. \A t \in Tasks : task[t].key \in ClientKeys BY RegistryState DEF TaskRecords
<1>3. \A t \in Tasks : task[t].key \notin loose' /\ task'[t].pc \in {"built", "insert"} => ~Reusable(task[t].key)'
  <2> SUFFICES ASSUME NEW t \in Tasks, task[t].key \notin loose', task'[t].pc \in {"built", "insert"}
               PROVE  ~Reusable(task[t].key)'
    OBVIOUS
  <2>1. t # x /\ task'[t] = task[t] OBVIOUS
  <2>2. ~Reusable(task[t].key) BY <2>1, <1>1 DEF SoloOK
  <2> QED BY <2>2, <1>2, ReusedLess
<1>4. \A t \in Tasks : task[t].key \notin loose' /\ task[t].pc \in {"built", "broken"} => task[t].lock = slots'[task[t].key]
  BY <1>1 DEF SoloOK
<1> QED BY <1>1, <1>3, <1>4, SoloMoves

\* Every step keeps constructions alone.
LEMMA SoloKept ==
  ASSUME RegistryInv, RegistryNext
  PROVE  SoloOK'
<1>0. /\ SoloOK /\ LineOK /\ LocksOK /\ loose \subseteq loose' /\ task \in [Tasks -> TaskRecords]
      /\ slots \in [ClientKeys -> Tasks \cup {NoEntry}] /\ NoEntry \notin Tasks
      /\ \A u \in Tasks : task'[u].key = task[u].key
  BY OneWay, RegistryAssumption DEF RegistryInv, RegistryTypes
<1>k. \A t \in Tasks : task[t].key \in ClientKeys BY RegistryState DEF TaskRecords
<1>l. \A t \in Tasks : task[t].pc \in Holding => task[t].lock \in Tasks BY <1>0 DEF LocksOK
\* Whoever is at the head leaves or rejoins, and the others stay in order.
<1>h. ASSUME NEW x \in Tasks, line # <<>>, line[1] = x, Leaves \/ Rejoins(x)
      PROVE  \A u, t \in Tasks : u # x /\ t # x /\ Ahead(line, u, t) => Ahead(line', u, t)
  <2>1. CASE Leaves BY <2>1, <1>0, <1>h, HeadOfLine DEF Leaves
  <2>2. CASE Rejoins(x) BY <2>2, <1>0, <1>h, HeadOfLine DEF Rejoins
  <2> QED BY <2>1, <2>2, <1>h
<1>e. ASSUME NEW x \in Tasks, line' = Append(line, x), task[x].pc \notin InLine
      PROVE  /\ \A u, t \in Tasks : u # x /\ t # x /\ Ahead(line, u, t) => Ahead(line', u, t)
             /\ \A u \in Tasks : task[u].pc \in InLine => Ahead(line', u, x)
  <2>1. x \notin ToSet(line) /\ \A u \in Tasks : task[u].pc \in InLine => u \in ToSet(line)
    BY <1>0, <1>e DEF LineOK
  <2> QED BY <2>1, <1>0, <1>e, EndOfLine
\* The places before insertion are left in turn.
<1>1. ASSUME NEW x \in Tasks, insert(x) PROVE SoloOK'
  <2>0. /\ line # <<>> /\ line[1] = x /\ task[x].pc = "insert" /\ Leaves /\ slots' = slots /\ loose' = loose
        /\ task' = [task EXCEPT ![x].pc = "using", ![x].on = x]
    BY <1>1 DEF insert, Turn
  <2>1. /\ task'[x].pc = "using" /\ \A u \in Tasks : u # x => task'[u] = task[u]
    BY <2>0, <1>0 DEF TaskRecords
  <2>2. \A u, t \in Tasks : u # x /\ t # x /\ Ahead(line, u, t) => Ahead(line', u, t) BY <2>0, <1>h
  <2>3. PICK gone, mark \in SUBSET Tasks : Inserts(x, gone, mark) BY <1>1, InsertDoes
  <2>4. ASSUME NEW t \in Tasks, task[t].key \notin loose', task'[t].pc \in {"built", "insert"}
        PROVE  ~Reusable(task[t].key)'
    <3> DEFINE k == task[t].key
    <3>1. t # x /\ task[t].pc \in {"built", "insert"} /\ k \notin loose /\ k \in ClientKeys
      BY <2>0, <2>1, <2>4, <1>k
    <3>2. k # task[x].key /\ ~Reusable(k) BY <3>1, <2>0, <1>0 DEF SoloOK
    <3>3. task'[t].key = k BY <1>0
    <3>4. entries[k] = NoEntry \/ (entries[k] \in Tasks /\ entry[entries[k]].made /\ entry[entries[k]].closing)
      BY <3>1, <3>2, <1>0 DEF Reusable, RegistryInv, RegistryTypes, EntriesOK, Unclosed
    <3> HIDE DEF k
    <3>5. entries'[k] = IF entries[k] \in gone THEN NoEntry ELSE entries[k] BY <2>3, <3>1, <3>2 DEF Inserts
    <3>6. entries'[k] # NoEntry => entries[k] \in Tasks \ {x} /\ entry[entries[k]].closing /\ entries'[k] = entries[k]
      BY <3>4, <3>5, <2>3 DEF Inserts
    <3>7. entries'[k] # NoEntry => entry'[entries'[k]].closing BY <3>6, <2>3 DEF Inserts
    <3> QED BY <3>3, <3>7 DEF Reusable, k
  <2>5. \A t \in Tasks : task[t].key \notin loose' /\ task[t].pc \in {"built", "broken"} =>
          task[t].lock = slots'[task[t].key]
    BY <2>0, <1>0 DEF SoloOK
  <2> QED BY <2>0, <2>1, <2>2, <2>4, <2>5, <1>0, SoloMoves
<1> SUFFICES ASSUME \A t \in Tasks : ~insert(t) PROVE SoloOK' BY <1>1
<1>r. ASSUME NEW t \in Tasks, ~Reusable(task[t].key) PROVE ~Reusable(task[t].key)'
  <2>1. ~Reusable(task[t].key) /\ task[t].key \in ClientKeys BY <1>r, <1>k
  <2> QED BY <2>1, <1>0, ReusedLess
\* Nobody moves.
<1>2. ASSUME task' = task, slots' = slots,
             \/ line' = line
             \/ line' = Append(line, Closer) /\ Closer \notin ToSet(line)
             \/ line' = Tail(line) /\ line # <<>> /\ line[1] = Closer
      PROVE  SoloOK'
  <2>1. Closer \notin Tasks BY RegistryAssumption
  <2>2. \A u, t \in Tasks : Ahead(line, u, t) => Ahead(line', u, t)
    <3>1. CASE line' = Append(line, Closer) /\ Closer \notin ToSet(line) BY <3>1, <1>0, EndOfLine
    <3>2. CASE line' = Tail(line) /\ line # <<>> /\ line[1] = Closer BY <3>2, <2>1, <1>0, HeadOfLine
    <3> QED BY <3>1, <3>2, <1>2
  <2>3. \A t \in Tasks : ~Reusable(task[t].key) => ~Reusable(task[t].key)' BY <1>r
  <2> QED BY <2>2, <2>3, <1>2, <1>0 DEF SoloOK
<1>3. CASE \/ \E e \in Tasks : Expire(e)
           \/ close_registry \/ Shutdown
  <2>1. ASSUME close_registry PROVE SoloOK'
    <3>1. line' = Append(line, Closer) /\ UNCHANGED <<task, slots>> /\ shut.pc = "open" BY <2>1 DEF close_registry
    <3>2. Closer \notin ToSet(line) BY <3>1, <1>0 DEF LineOK
    <3> QED BY <3>1, <3>2, <1>2
  <2>2. ASSUME next_entry PROVE SoloOK'
    <3>1. line' = Append(line, Closer) /\ UNCHANGED <<task, slots>> /\ ~Contains(line, Closer) BY <2>2 DEF next_entry
    <3>2. Closer \notin ToSet(line)
      <4>1. line \in Seq(Tasks \cup {Closer}) BY <1>0 DEF LineOK
      <4>2. DOMAIN line = 1..Len(line) BY <4>1
      <4> QED BY <4>2, <3>1 DEF Contains, ToSet
    <3> QED BY <3>1, <3>2, <1>2
  <2>3. ASSUME list_entries \/ aclose PROVE SoloOK'
    <3>1. line' = Tail(line) /\ line # <<>> /\ line[1] = Closer /\ UNCHANGED <<task, slots>>
      BY <2>3 DEF list_entries, aclose, CloserTurn, Leaves
    <3> QED BY <3>1, <1>2
  <2>4. ASSUME NEW e \in Tasks, Expire(e) PROVE SoloOK' BY <2>4, <1>2 DEF Expire
  <2> QED BY <2>1, <2>2, <2>3, <2>4, <1>3 DEF Shutdown

\* A task moves to where nothing is constructed.
<1>4. ASSUME NEW x \in Tasks, lease(x) \/ finish(x) PROVE SoloOK'
  <2>1. PICK pc \in {"hit", "refused", "release"} :
          /\ To(x, pc) /\ task[x].pc \in {"idle", "using"} /\ slots' = slots
          /\ line' = line \/ line' = Append(line, x)
    BY <1>4 DEF lease, finish, At
  <2>2. /\ task'[x].pc = pc /\ \A u \in Tasks : u # x => task'[u] = task[u] BY <2>1, Moves DEF TaskPlaces
  <2>3. task[x].pc \notin InLine /\ pc \notin {"again", "built", "broken", "insert"} BY <2>1 DEF InLine
  <2>4. \A u, t \in Tasks : u # x /\ t # x /\ Ahead(line, u, t) => Ahead(line', u, t) BY <2>1, <2>3, <1>e
  <2> QED BY <2>1, <2>2, <2>3, <2>4, SoloLeaves
<1>5. ASSUME NEW x \in Tasks, line # <<>>, line[1] = x, Leaves \/ Rejoins(x), slots' = slots,
             \A u \in Tasks : u # x => task'[u] = task[u],
             task'[x].pc \notin {"again", "built", "broken", "insert"}
      PROVE  SoloOK'
  BY <1>5, <1>h, SoloLeaves
<1>6. ASSUME NEW x \in Tasks, _try_hit(x) PROVE SoloOK'
  <2>0. line # <<>> /\ line[1] = x /\ slots' = slots BY <1>6 DEF _try_hit, Turn
  <2>1. CASE Reusable(task[x].key)
    <3>1. Leaves /\ Leased(x) BY <2>1, <1>6 DEF _try_hit
    <3>2. task'[x].pc = "using" /\ \A u \in Tasks : u # x => task'[u] = task[u] BY <2>1, <3>1, LeasedDoes
    <3> QED BY <2>0, <3>1, <3>2, <1>5
  <2>2. CASE ~Reusable(task[x].key)
    <3>1. Rejoins(x) /\ To(x, "slot") BY <2>2, <1>6 DEF _try_hit
    <3>2. task'[x].pc = "slot" /\ \A u \in Tasks : u # x => task'[u] = task[u] BY <3>1, Moves DEF TaskPlaces
    <3> QED BY <2>0, <3>1, <3>2, <1>5
  <2> QED BY <2>1, <2>2
<1>7. ASSUME NEW x \in Tasks, _release(x) PROVE SoloOK'
  <2>1. line # <<>> /\ line[1] = x /\ slots' = slots /\ Leaves /\ To(x, "done") BY <1>7 DEF _release, Turn
  <2>2. task'[x].pc = "done" /\ \A u \in Tasks : u # x => task'[u] = task[u] BY <2>1, Moves DEF TaskPlaces
  <2> QED BY <2>1, <2>2, <1>5
<1>8. ASSUME NEW x \in Tasks, Cancel(x) PROVE SoloOK'
  <2>1. To(x, "cancelled") /\ line' = Dropped(line, x) /\ slots' = slots BY <1>8 DEF Cancel
  <2>2. task'[x].pc = "cancelled" /\ \A u \in Tasks : u # x => task'[u] = task[u] BY <2>1, Moves DEF TaskPlaces
  <2>3. line \in Seq(Tasks \cup {Closer}) BY <1>0 DEF LineOK
  <2>4. \A u, t \in Tasks : u # x /\ t # x /\ Ahead(line, u, t) => Ahead(line', u, t) BY <2>1, <2>3, OneGivesUp
  <2> QED BY <2>1, <2>2, <2>4, SoloLeaves
\* What is to be reused after a step that inserts nothing.
<1>u. ASSUME NEW x \in Tasks, \A u \in Tasks : u # x => task'[u] = task[u],
             task[x].key \notin loose' /\ task'[x].pc \in {"built", "insert"} => ~Reusable(task[x].key)
      PROVE  \A t \in Tasks : task[t].key \notin loose' /\ task'[t].pc \in {"built", "insert"} => ~Reusable(task[t].key)'
  <2> SUFFICES ASSUME NEW t \in Tasks, task[t].key \notin loose', task'[t].pc \in {"built", "insert"}
               PROVE  ~Reusable(task[t].key)'
    OBVIOUS
  <2>1. ~Reusable(task[t].key)
    <3>1. CASE t = x BY <3>1, <1>u
    <3>2. CASE t # x
      <4>1. task[t].pc \in {"built", "insert"} /\ task[t].key \notin loose BY <3>2, <1>u, <1>0
      <4> QED BY <4>1, <1>0 DEF SoloOK
    <3> QED BY <3>1, <3>2
  <2> QED BY <2>1, <1>r
\* A task gets its lock, or waits for it.
<1>9. ASSUME NEW x \in Tasks, _creation_lock(x) PROVE SoloOK'
  <2> DEFINE k == task[x].key
             l == IF slots[k] = NoEntry THEN x ELSE slots[k]
             free == queue[l] = <<>>
  <2>0. /\ line # <<>> /\ line[1] = x /\ task[x].pc = "slot" /\ slots' = [slots EXCEPT ![k] = l]
        /\ task' = [task EXCEPT ![x].pc = IF free THEN "again" ELSE "wait", ![x].lock = l]
        /\ IF free THEN Rejoins(x) ELSE Leaves
    BY <1>9 DEF _creation_lock, Turn
  <2>1. k \in ClientKeys /\ l \in Tasks BY <1>0, <1>k
  <2>l. slots[k] # NoEntry => l = slots[k] OBVIOUS
  <2>n. slots[k] = NoEntry => l = x OBVIOUS
  <2> HIDE DEF l, free, k
  <2>2. /\ task'[x].pc \in {"again", "wait"}
        /\ task'[x].pc = "again" => Rejoins(x)
        /\ \A u \in Tasks : u # x => task'[u] = task[u]
    BY <2>0, <1>0 DEF TaskRecords
  <2>3. slots'[k] = l /\ \A j \in ClientKeys : j # k => slots'[j] = slots[j] BY <2>0, <2>1, <1>0
  <2>4. \A u \in Tasks : task[u].lock # x
    <3>1. task[x].lock = NoEntry BY <2>0, <1>0 DEF LocksOK, Lockless
    <3>2. \A u \in Tasks : task[u].lock = x => task[x].lock = x BY <1>0 DEF LocksOK
    <3> QED BY <3>1, <3>2, <1>0
  <2>5. \A t \in Tasks : task[t].key \notin loose' /\ task[t].pc \in {"built", "broken"} =>
          task[t].lock = slots'[task[t].key]
    <3> SUFFICES ASSUME NEW t \in Tasks, task[t].key \notin loose', task[t].pc \in {"built", "broken"}
                 PROVE  task[t].lock = slots'[task[t].key]
      OBVIOUS
    <3>1. task[t].lock = slots[task[t].key] /\ task[t].lock \in Tasks BY <1>0, <1>l DEF SoloOK, Holding
    <3>2. CASE task[t].key = k BY <3>1, <3>2, <2>3, <2>l, <1>0
    <3>3. CASE task[t].key # k BY <3>1, <3>3, <2>3, <1>k
    <3> QED BY <3>2, <3>3
  <2>6. \A t \in Tasks : task[t].lock = slots'[task[t].key] /\ task[t].pc = "again" => task[t].lock = slots[task[t].key]
    <3> SUFFICES ASSUME NEW t \in Tasks, task[t].lock = slots'[task[t].key] PROVE task[t].lock = slots[task[t].key]
      OBVIOUS
    <3>1. CASE task[t].key = k BY <3>1, <2>3, <2>4, <2>l, <2>n
    <3>2. CASE task[t].key # k BY <3>2, <2>3, <1>k
    <3> QED BY <3>1, <3>2
  <2>7. \A t \in Tasks : task[t].key \notin loose' /\ task'[t].pc \in {"built", "insert"} => ~Reusable(task[t].key)'
    BY <2>2, <1>u
  <2>8. \A u, t \in Tasks : u # x /\ t # x /\ Ahead(line, u, t) => Ahead(line', u, t) BY <2>0, <1>h
  <2>9. \A u \in Tasks : u # x /\ task[u].pc = "insert" /\ task'[x].pc = "again" => Ahead(line', u, x)
    <3> SUFFICES ASSUME NEW u \in Tasks, u # x, task[u].pc = "insert", task'[x].pc = "again" PROVE Ahead(line', u, x)
      OBVIOUS
    <3>1. u \in ToSet(line) BY <1>0 DEF LineOK, InLine
    <3>2. Rejoins(x) BY <2>2
    <3> QED BY <3>1, <3>2, <2>0, <1>0, HeadOfLine DEF Rejoins
  <2>10. task'[x].pc \notin {"built", "broken", "insert"} BY <2>2
  <2> QED BY <2>2, <2>5, <2>6, <2>7, <2>8, <2>9, <2>10, <1>0, SoloMoves
<1>10. ASSUME NEW x \in Tasks, LockGranted(x) PROVE SoloOK'
  <2>1. To(x, "again") /\ line' = Append(line, x) /\ slots' = slots /\ task[x].pc = "wait"
    BY <1>10 DEF LockGranted, At
  <2>2. task'[x].pc = "again" /\ \A u \in Tasks : u # x => task'[u] = task[u] BY <2>1, Moves DEF TaskPlaces
  <2>3. task[x].pc \notin InLine /\ "insert" \in InLine BY <2>1 DEF InLine
  <2>4. /\ \A u, t \in Tasks : u # x /\ t # x /\ Ahead(line, u, t) => Ahead(line', u, t)
        /\ \A u \in Tasks : task[u].pc = "insert" => Ahead(line', u, x)
    BY <2>1, <2>3, <1>e
  <2>5. \A t \in Tasks : task[t].key \notin loose' /\ task[t].pc \in {"built", "broken"} =>
          task[t].lock = slots'[task[t].key]
    BY <2>1, <1>0 DEF SoloOK
  <2>6. \A t \in Tasks : task[t].key \notin loose' /\ task'[t].pc \in {"built", "insert"} => ~Reusable(task[t].key)'
    BY <2>2, <1>u
  <2> QED BY <2>1, <2>2, <2>4, <2>5, <2>6, <1>0, SoloMoves
\* The second look: whoever inserts would be ahead in the line.
<1>11. ASSUME NEW x \in Tasks, _acquire(x) PROVE SoloOK'
  <2>0. /\ line # <<>> /\ line[1] = x /\ task[x].pc = "again" /\ slots' = slots
    BY <1>11 DEF _acquire, Turn
  <2>1. CASE Reusable(task[x].key)
    <3>1. Leaves /\ Leased(x) BY <2>1, <1>11 DEF _acquire
    <3>2. task'[x].pc = "using" /\ \A u \in Tasks : u # x => task'[u] = task[u] BY <2>1, <3>1, LeasedDoes
    <3> QED BY <2>0, <3>1, <3>2, <1>5
  <2>2. CASE ~Reusable(task[x].key)
    <3>1. PICK pc \in {"built", "broken"} : To(x, pc) BY <2>2, <1>11 DEF _acquire
    <3>2. /\ Rejoins(x)
          /\ loose' = IF task[x].lock = slots[task[x].key] THEN loose ELSE loose \cup {task[x].key}
      BY <2>2, <1>11 DEF _acquire
    <3>3. /\ task'[x].pc = pc /\ task'[x].lock = task[x].lock /\ \A u \in Tasks : u # x => task'[u] = task[u]
      BY <3>1, Moves DEF TaskPlaces
    <3>4. task[x].key \notin loose' => task[x].lock = slots[task[x].key] /\ task[x].key \notin loose BY <3>2
    <3>5. \A u, t \in Tasks : u # x /\ t # x /\ Ahead(line, u, t) => Ahead(line', u, t) BY <2>0, <3>2, <1>h
    <3>6. \A t \in Tasks : task[t].key \notin loose' /\ task'[t].pc \in {"built", "insert"} => ~Reusable(task[t].key)'
      BY <2>2, <3>3, <1>u
    <3>7. \A t \in Tasks : task[t].key \notin loose' /\ task[t].pc \in {"built", "broken"} =>
            task[t].lock = slots'[task[t].key]
      BY <2>0, <1>0 DEF SoloOK
    <3>8. \A u \in Tasks : ~(u # x /\ task[u].pc = "insert" /\ task[u].key = task[x].key /\ task[x].key \notin loose')
      <4> SUFFICES ASSUME NEW u \in Tasks, task[u].pc = "insert", task[u].key = task[x].key, task[x].key \notin loose'
                   PROVE  FALSE
        OBVIOUS
      <4>1. Ahead(line, u, x) BY <2>0, <3>4, <1>0 DEF SoloOK
      <4> QED BY <4>1, <2>0, <1>0, HeadOfLine
    <3>9. task'[x].pc # "insert" BY <3>3
    <3> QED BY <2>0, <3>3, <3>4, <3>5, <3>6, <3>7, <3>8, <3>9, <1>0, SoloMoves
  <2> QED BY <2>1, <2>2
\* The lock's slot is dropped: nobody else holds that lock.
<1>12. ASSUME NEW x \in Tasks, drop_slot(x) PROVE SoloOK'
  <2> DEFINE k == task[x].key
  <2>0. /\ line # <<>> /\ line[1] = x /\ task[x].pc \in {"built", "broken"} /\ slots' = [slots EXCEPT ![k] = NoEntry]
        /\ loose' = loose
        /\ Leaves \/ Rejoins(x)
    BY <1>12 DEF drop_slot, Turn
  <2>1. PICK pc \in {"insert", "failed"} : To(x, pc) /\ (pc = "insert" => task[x].pc = "built")
    BY <1>12 DEF drop_slot, At
  <2>2. /\ task'[x].pc = pc /\ \A u \in Tasks : u # x => task'[u] = task[u]
    BY <2>1, Moves DEF TaskPlaces
  <2>k. k \in ClientKeys BY <1>k
  <2>3. slots'[k] = NoEntry /\ \A j \in ClientKeys : j # k => slots'[j] = slots[j] BY <2>0, <2>k, <1>0
  <2>4. \A t \in Tasks : t # x /\ task[t].key = k /\ k \notin loose => task[t].pc \notin {"built", "broken"}
    <3> SUFFICES ASSUME NEW t \in Tasks, task[t].key = k, k \notin loose, task[t].pc \in {"built", "broken"}
                 PROVE  t = x
      OBVIOUS
    <3>1. task[t].lock = slots[k] /\ task[x].lock = slots[k] BY <2>0, <1>0 DEF SoloOK
    <3>2. task[t].pc \in Holding /\ task[x].pc \in Holding BY <2>0 DEF Holding
    <3> QED BY <3>1, <3>2, OneHolds
  <2>5. \A t \in Tasks : pc = "insert" /\ t # x /\ task[t].key = k /\ k \notin loose => task[t].pc # "insert"
    BY <2>1, <1>0 DEF SoloOK
  <2>h. \A u, t \in Tasks : u # x /\ t # x /\ Ahead(line, u, t) => Ahead(line', u, t) BY <2>0, <1>h
  <2>b. pc = "insert" /\ k \notin loose => ~Reusable(k) BY <2>1, <1>0 DEF SoloOK
  <2> HIDE DEF k
  <2>6. \A t \in Tasks : t # x /\ task[t].key \notin loose' /\ task[t].pc \in {"built", "broken"} =>
          task[t].lock = slots'[task[t].key]
    <3> SUFFICES ASSUME NEW t \in Tasks, t # x, task[t].key \notin loose', task[t].pc \in {"built", "broken"}
                 PROVE  task[t].lock = slots'[task[t].key]
      OBVIOUS
    <3>1. task[t].key # k BY <2>0, <2>4
    <3>2. task[t].lock = slots[task[t].key] BY <2>0, <1>0 DEF SoloOK
    <3> QED BY <3>1, <3>2, <2>3, <1>k
  <2>7. \A t \in Tasks : task[t].pc = "again" /\ task[t].lock = slots'[task[t].key] =>
          task[t].key # k /\ task[t].lock = slots[task[t].key]
    <3> SUFFICES ASSUME NEW t \in Tasks, task[t].pc = "again", task[t].lock = slots'[task[t].key]
                 PROVE  task[t].key # k /\ task[t].lock = slots[task[t].key]
      OBVIOUS
    <3>1. task[t].lock # NoEntry BY <1>l, <1>0 DEF Holding
    <3>2. task[t].key # k BY <3>1, <2>3
    <3> QED BY <3>2, <2>3, <1>k
  <2>8. \A t \in Tasks : task[t].key \notin loose' /\ task'[t].pc \in {"built", "insert"} => ~Reusable(task[t].key)'
    <3>1. task[x].key \notin loose' /\ task'[x].pc \in {"built", "insert"} => ~Reusable(task[x].key)
      BY <2>0, <2>2, <2>b DEF k
    <3> QED BY <2>2, <3>1, <1>u
  <2>9. \A t \in Tasks : task'[x].pc = "insert" /\ t # x /\ task[t].key = task[x].key /\ task[x].key \notin loose' =>
          task[t].pc \notin {"built", "insert"} /\ ~(task[t].pc = "again" /\ task[t].lock = slots'[task[t].key])
    BY <2>0, <2>2, <2>4, <2>5, <2>7 DEF k
  <2>10. \A u \in Tasks : u # x /\ task[u].pc = "insert" /\ task[u].key = task[x].key /\ task[x].key \notin loose' =>
           task'[x].pc \notin {"built", "insert"} /\ task'[x].pc # "again"
    BY <2>0, <2>2, <2>5 DEF k
  <2>11. task'[x].pc \notin {"built", "broken"} BY <2>2
  <2> QED BY <2>0, <2>2, <2>h, <2>6, <2>7, <2>8, <2>9, <2>10, <2>11, <1>0, SoloMoves
<1> QED BY <1>3, <1>4, <1>6, <1>7, <1>8, <1>9, <1>10, <1>11, <1>12 DEF RegistryNext, Run

-----------------------------------------------------------------------------
(* The theorems.                                                           *)

\* At the start nothing is cached, held or waited for.
LEMMA RegistryStart ==
  ASSUME RegistryInit
  PROVE  RegistryInv
<1>1. /\ Closer \notin Tasks /\ NoEntry \notin Tasks /\ Capacity \in Nat BY RegistryAssumption
<1>2. /\ entries = [k \in ClientKeys |-> NoEntry] /\ retired = {} /\ entry = [t \in Tasks |-> Blank]
      /\ slots = [k \in ClientKeys |-> NoEntry] /\ queue = [t \in Tasks |-> <<>>] /\ line = <<>>
      /\ used = {} /\ shut = [pc |-> "open", todo |-> <<>>, seen |-> {}] /\ loose = {}
  BY DEF RegistryInit
<1>3. task \in [Tasks -> {[pc |-> "idle", key |-> k, on |-> NoEntry, lock |-> NoEntry] : k \in ClientKeys}]
  BY DEF RegistryInit
<1>4. \A t \in Tasks : /\ task[t] \in TaskRecords
                       /\ task[t].pc = "idle" /\ task[t].lock = NoEntry
  BY <1>3 DEF TaskRecords, TaskPlaces
<1>5. RegistryTypes
  <2>1. task \in [Tasks -> TaskRecords] BY <1>3, <1>4
  <2>2. entry \in [Tasks -> EntryRecords] BY <1>2 DEF Blank, EntryRecords
  <2>3. shut \in [pc : {"open", "asked", "closing"}, todo : Seq(Tasks), seen : SUBSET Tasks] BY <1>2
  <2> QED BY <2>1, <2>2, <2>3, <1>2 DEF RegistryTypes
<1>6. LineOK
  <2>1. line \in Seq(Tasks \cup {Closer}) /\ ToSet(line) = {} /\ IsInjective(line) BY <1>2 DEF ToSet, IsInjective
  <2> QED BY <2>1, <1>2, <1>4 DEF LineOK, InLine
<1>7. LocksOK
  <2>1. queue \in [Tasks -> Seq(Tasks)] BY <1>2
  <2> QED BY <2>1, <1>2, <1>4 DEF LocksOK, Holding, Lockless
<1>8. SoloOK BY <1>4 DEF SoloOK
<1>9. \A e \in Tasks : ~entry[e].made /\ entry[e].leases = 0 /\ entry[e].closes = 0 BY <1>2 DEF Blank
<1>10. FoundOK BY <1>9 DEF FoundOK, Unclosed
<1>11. EntriesOK
  <2>1. \A e \in Tasks : entry[e].leases = Cardinality(Lessees(e))
    <3>1. \A e \in Tasks : Lessees(e) = {} BY <1>4 DEF Lessees, Leasing
    <3> QED BY <3>1, <1>9, FS_EmptySet
  <2> QED BY <2>1, <1>2, <1>4, <1>9 DEF EntriesOK, Unclosed, Leasing
<1>12. UsedOK BY <1>2, <1>4, <1>9 DEF UsedOK
<1>13. SeenOK BY <1>2 DEF SeenOK
<1>14. HeldStaysOpen BY <1>4, <1>9 DEF HeldStaysOpen
<1>15. Bounded
  <2>1. {e \in Retained : ~entry[e].closing} = {} BY <1>2 DEF Retained
  <2>2. Cardinality({e \in Retained : ~entry[e].closing}) = 0 BY <2>1, FS_EmptySet
  <2>3. 0 <= Capacity BY <1>1
  <2> QED BY <2>2, <2>3 DEF Bounded
<1> QED BY <1>5, <1>6, <1>7, <1>8, <1>10, <1>11, <1>12, <1>13, <1>14, <1>15 DEF RegistryInv

\* Every step keeps the invariant.
LEMMA RegistryStep ==
  ASSUME RegistryInv, [RegistryNext]_regVars
  PROVE  RegistryInv'
<1>1. CASE RegistryNext
  BY <1>1, TypesKept, LineKept, LocksKept, SoloKept, FoundKept, EntriesKept, UsedKept, SeenKept, HeldKept, BoundKept
     DEF RegistryInv
<1>2. CASE UNCHANGED regVars
  BY <1>2 DEF regVars, RegistryInv, RegistryTypes, LineOK, LocksOK, SoloOK, FoundOK, EntriesOK, UsedOK, SeenOK,
     HeldStaysOpen, Bounded, Reusable, Retained, Lessees, Unclosed
<1> QED BY <1>1, <1>2

\* The registry's invariant: the queues at the guard and the creation locks,
\* one construction of a key at a time, the counts of leases and the order of
\* use, and what shutdown has yet to close.
THEOREM RegistryInvariant == RegistrySpec => []RegistryInv
<1>1. RegistryInit => RegistryInv BY RegistryStart
<1>2. RegistryInv /\ [RegistryNext]_regVars => RegistryInv' BY RegistryStep
<1> QED BY <1>1, <1>2, PTL DEF RegistrySpec

\* A leased client stays open, a key has one client, the cache keeps to its
\* capacity, and shutdown closes every client, for any number of tasks.
THEOREM ClientsSoundHolds == RegistrySpec => []ClientsSound
<1>1. RegistryInv => ClientsSound
  <2> SUFFICES ASSUME RegistryInv PROVE ClientsSound OBVIOUS
  <2>1. OneClientPerKey BY DEF RegistryInv, FoundOK, OneClientPerKey
  <2>2. ShutdownClosesAll
    <3>1. shut.todo = <<>> => ToSet(shut.todo) = {} BY DEF ToSet
    <3> QED BY <3>1 DEF RegistryInv, SeenOK, ShutdownClosesAll
  <2> QED BY <2>1, <2>2 DEF RegistryInv, ClientsSound
<1> QED BY <1>1, RegistryInvariant, PTL

-----------------------------------------------------------------------------
(* The translation of answers: counting upwards.                           *)

\* A non-empty set of naturals has a least element.
LEMMA NatMin ==
    ASSUME NEW S \in SUBSET Nat, S # {}
    PROVE  \E m \in S : \A x \in S : m <= x
<1>1. PICK m \in S : \A x \in S : ~(<<x, m>> \in OpToRel(<, Nat))
    BY WFMin, NatLessThanWellFounded
<1>2. ASSUME NEW x \in S PROVE m <= x
  <2>1. x \in Nat /\ m \in Nat
    OBVIOUS
  <2>2. ~(x < m)
    BY <1>1, <2>1 DEF OpToRel
  <2> QED
    BY <2>1, <2>2
<1> QED
    BY <1>2

\* A set of naturals up to a bound that holds 0 and, with each, the next, holds them all.
LEMMA Climb ==
    ASSUME NEW n \in Nat, NEW S, 0 \in S, \A i \in 1 .. n : i - 1 \in S => i \in S
    PROVE  \A i \in 0 .. n : i \in S
<1> DEFINE T == {i \in 0 .. n : i \notin S}
<1> SUFFICES T = {}
    OBVIOUS
<1> SUFFICES ASSUME T # {} PROVE FALSE
    OBVIOUS
<1>1. T \in SUBSET Nat
    OBVIOUS
<1>2. PICK m \in T : \A x \in T : m <= x
  <2> HIDE DEF T
  <2> QED
    BY <1>1, NatMin
<1>3. m \in 1 .. n /\ m - 1 \in 0 .. n
    OBVIOUS
<1>4. m - 1 \notin T
  <2>1. m - 1 \in T => m <= m - 1
    BY <1>2
  <2> QED
    BY <2>1, <1>3
<1> QED
    BY <1>3, <1>4

-----------------------------------------------------------------------------
(* FlattenSeq, one part after the other.                                   *)

\* What FlattenSeq builds up along ss.
Built(ss) ==
    CHOOSE f : f = [i \in 1 .. Len(ss) |-> IF i = 1 THEN ss[i] ELSE f[i - 1] \o ss[i]]

\* The first i parts, joined.
Part(ss, i) == IF i = 0 THEN <<>> ELSE Built(ss)[i]

\* The recursive function exists: there is one up to every length.
LEMMA BuiltExists ==
    ASSUME NEW ss, Len(ss) \in Nat
    PROVE  Built(ss) = [i \in 1 .. Len(ss) |-> IF i = 1 THEN ss[i] ELSE Built(ss)[i - 1] \o ss[i]]
<1> DEFINE R(n, f) == f = [i \in 1 .. n |-> IF i = 1 THEN ss[i] ELSE f[i - 1] \o ss[i]]
           T == {n \in 0 .. Len(ss) : \E f : R(n, f)}
<1>1. 0 \in T
  <2>1. [i \in 1 .. 0 |-> ss[i]] =
        [i \in 1 .. 0 |-> IF i = 1 THEN ss[i] ELSE [k \in 1 .. 0 |-> ss[k]][i - 1] \o ss[i]]
    OBVIOUS
  <2>2. \E f : R(0, f)
    BY <2>1
  <2>3. 0 \in 0 .. Len(ss)
    OBVIOUS
  <2> HIDE DEF R
  <2> QED
    BY <2>2, <2>3
<1>2. ASSUME NEW n \in 1 .. Len(ss), n - 1 \in T PROVE n \in T
  <2>1. PICK f : R(n - 1, f)
    BY <1>2
  <2> DEFINE g == [i \in 1 .. n |-> IF i < n THEN f[i] ELSE IF n = 1 THEN ss[1] ELSE f[n - 1] \o ss[n]]
  <2>2. ASSUME NEW i \in 1 .. n
        PROVE  g[i] = IF i = 1 THEN ss[i] ELSE g[i - 1] \o ss[i]
    <3>1. CASE i < n
      <4>1. i \in 1 .. n - 1 /\ (i # 1 => i - 1 \in 1 .. n /\ i - 1 < n)
        BY <3>1
      <4>2. f[i] = IF i = 1 THEN ss[i] ELSE f[i - 1] \o ss[i]
        BY <2>1, <4>1
      <4>3. i # 1 => g[i - 1] = f[i - 1]
        BY <4>1
      <4> QED
        BY <3>1, <4>2, <4>3
    <3>2. CASE i = n
      <4>1. i # 1 => n - 1 \in 1 .. n /\ n - 1 < n
        BY <3>2
      <4>2. i # 1 => g[n - 1] = f[n - 1]
        BY <4>1
      <4> QED
        BY <3>2, <4>2
    <3> QED
      BY <3>1, <3>2
  <2>3. R(n, g)
    <3> HIDE DEF g
    <3>1. g = [i \in 1 .. n |-> g[i]]
      BY DEF g
    <3> QED
      BY <3>1, <2>2
  <2>4. n \in 0 .. Len(ss)
    OBVIOUS
  <2> HIDE DEF R, g
  <2> QED
    BY <2>3, <2>4
<1>3. \A n \in 0 .. Len(ss) : n \in T
  <2> HIDE DEF T
  <2> QED
    BY <1>1, <1>2, Climb
<1>4. \E f : R(Len(ss), f)
  <2> HIDE DEF R
  <2>1. Len(ss) \in T
    <3>1. Len(ss) \in 0 .. Len(ss)
      OBVIOUS
    <3> HIDE DEF T
    <3> QED
      BY <1>3, <3>1
  <2> QED
    BY <2>1
<1> QED
    BY <1>4 DEF Built

\* FlattenSeq is the last of the parts.
LEMMA FlattenIsPart ==
    ASSUME NEW S, NEW ss \in Seq(S)
    PROVE  FlattenSeq(ss) = Part(ss, Len(ss))
<1>1. Len(ss) = 0 => ss = <<>>
    OBVIOUS
<1> QED
    BY <1>1 DEF FlattenSeq, Part, Built

\* Part by part, and each is a sequence.
LEMMA PartSteps ==
    ASSUME NEW S, NEW ss \in Seq(Seq(S))
    PROVE  /\ Part(ss, 0) = <<>>
           /\ \A i \in 0 .. Len(ss) : Part(ss, i) \in Seq(S)
           /\ \A i \in 1 .. Len(ss) : Part(ss, i) = Part(ss, i - 1) \o ss[i]
<1>1. Len(ss) \in Nat /\ \A i \in 1 .. Len(ss) : ss[i] \in Seq(S)
    BY LenProperties, ElementOfSeq
<1>2. Part(ss, 0) = <<>>
    BY DEF Part
<1>3. ASSUME NEW i \in 1 .. Len(ss) PROVE Part(ss, i) = Part(ss, i - 1) \o ss[i]
  <2>1. Built(ss)[i] = IF i = 1 THEN ss[i] ELSE Built(ss)[i - 1] \o ss[i]
    BY <1>1, BuiltExists
  <2>2. i # 0 /\ (i - 1 = 0 <=> i = 1)
    OBVIOUS
  <2>3. <<>> \o ss[i] = ss[i]
    BY <1>1, ConcatEmptySeq
  <2> QED
    BY <2>1, <2>2, <2>3 DEF Part
<1> DEFINE T == {i \in 0 .. Len(ss) : Part(ss, i) \in Seq(S)}
<1>4. 0 \in T
  <2>1. 0 \in 0 .. Len(ss)
    BY <1>1
  <2>2. <<>> \in Seq(S)
    OBVIOUS
  <2> QED
    BY <1>2, <2>1, <2>2
<1>5. ASSUME NEW i \in 1 .. Len(ss), i - 1 \in T PROVE i \in T
  <2>1. Part(ss, i - 1) \in Seq(S) /\ ss[i] \in Seq(S) /\ i \in 0 .. Len(ss)
    BY <1>1, <1>5
  <2>2. Part(ss, i - 1) \o ss[i] \in Seq(S)
    BY <2>1, ConcatProperties
  <2> QED
    BY <1>3, <2>1, <2>2
<1>6. \A i \in 0 .. Len(ss) : i \in T
  <2> HIDE DEF T
  <2> QED
    BY <1>1, <1>4, <1>5, Climb
<1> QED
    BY <1>2, <1>3, <1>6

\* The parts of a longer sequence are those of its beginning.
LEMMA PartAgree ==
    ASSUME NEW S, NEW ss \in Seq(Seq(S)), NEW tt \in Seq(Seq(S)),
           NEW n \in Nat, n <= Len(ss), n <= Len(tt), \A i \in 1 .. n : ss[i] = tt[i]
    PROVE  Part(ss, n) = Part(tt, n)
<1> DEFINE T == {i \in 0 .. n : Part(ss, i) = Part(tt, i)}
<1>1. 0 \in T
  <2>1. Part(ss, 0) = <<>> /\ Part(tt, 0) = <<>> /\ 0 \in 0 .. n
    BY DEF Part
  <2> QED
    BY <2>1
<1>2. ASSUME NEW i \in 1 .. n, i - 1 \in T PROVE i \in T
  <2>1. i \in 1 .. Len(ss) /\ i \in 1 .. Len(tt)
    BY LenProperties
  <2>2. Part(ss, i) = Part(ss, i - 1) \o ss[i] /\ Part(tt, i) = Part(tt, i - 1) \o tt[i]
    BY <2>1, PartSteps
  <2>3. Part(ss, i - 1) = Part(tt, i - 1) /\ ss[i] = tt[i] /\ i \in 0 .. n
    BY <1>2
  <2> QED
    BY <2>2, <2>3
<1>3. \A i \in 0 .. n : i \in T
  <2> HIDE DEF T
  <2> QED
    BY <1>1, <1>2, Climb
<1> QED
    BY <1>3

\* Where the elements of one part are in the whole.
LEMMA PartAt ==
    ASSUME NEW S, NEW ss \in Seq(Seq(S)), NEW j \in 1 .. Len(ss), NEW n \in j .. Len(ss)
    PROVE  /\ Len(Part(ss, j - 1)) \in Nat /\ Len(Part(ss, n)) \in Nat
           /\ Len(Part(ss, j - 1)) + Len(ss[j]) = Len(Part(ss, j))
           /\ Len(Part(ss, j)) <= Len(Part(ss, n))
           /\ \A k \in 1 .. Len(ss[j]) : Part(ss, n)[Len(Part(ss, j - 1)) + k] = ss[j][k]
<1>1. Len(ss) \in Nat /\ \A i \in 1 .. Len(ss) : ss[i] \in Seq(S) /\ Len(ss[i]) \in Nat
    BY LenProperties, ElementOfSeq
<1>2. \A i \in 0 .. Len(ss) : Part(ss, i) \in Seq(S) /\ Len(Part(ss, i)) \in Nat
    BY PartSteps, LenProperties
<1> DEFINE at == Len(Part(ss, j - 1))
           Fine(i) == /\ Len(Part(ss, j)) <= Len(Part(ss, i))
                      /\ \A k \in 1 .. Len(ss[j]) : Part(ss, i)[at + k] = ss[j][k]
           T == {d \in 0 .. Len(ss) - j : Fine(j + d)}
<1>3. at \in Nat /\ Len(ss[j]) \in Nat /\ Part(ss, j) = Part(ss, j - 1) \o ss[j]
  <2>1. j - 1 \in 0 .. Len(ss) /\ j \in 1 .. Len(ss)
    BY <1>1
  <2>2. Part(ss, j) = Part(ss, j - 1) \o ss[j]
    BY <2>1, PartSteps
  <2> QED
    BY <1>1, <1>2, <2>1, <2>2
<1>4. /\ Len(Part(ss, j)) = at + Len(ss[j])
      /\ \A k \in 1 .. Len(ss[j]) : Part(ss, j)[at + k] = ss[j][k]
  <2>1. Part(ss, j - 1) \in Seq(S) /\ ss[j] \in Seq(S)
    BY <1>1, <1>2
  <2>2. /\ Len(Part(ss, j)) = at + Len(ss[j])
        /\ \A i \in 1 .. at + Len(ss[j]) :
             Part(ss, j)[i] = IF i <= at THEN Part(ss, j - 1)[i] ELSE ss[j][i - at]
    <3> DEFINE s1 == Part(ss, j - 1)
               s2 == ss[j]
               s3 == Part(ss, j)
    <3>1. s1 \in Seq(S) /\ s2 \in Seq(S) /\ s3 = s1 \o s2 /\ at = Len(s1)
      BY <1>3, <2>1
    <3> HIDE DEF s1, s2, s3, at
    <3>2. /\ Len(s3) = Len(s1) + Len(s2)
          /\ \A i \in 1 .. Len(s1) + Len(s2) : s3[i] = IF i <= Len(s1) THEN s1[i] ELSE s2[i - Len(s1)]
      BY <3>1, ConcatProperties
    <3>3. /\ Len(s3) = at + Len(s2)
          /\ \A i \in 1 .. at + Len(s2) : s3[i] = IF i <= at THEN s1[i] ELSE s2[i - at]
      BY <3>1, <3>2
    <3> QED
      BY <3>3 DEF s1, s2, s3
  <2> HIDE DEF at
  <2>3. ASSUME NEW k \in 1 .. Len(ss[j]) PROVE Part(ss, j)[at + k] = ss[j][k]
    <3>1. at + k \in 1 .. at + Len(ss[j]) /\ ~(at + k <= at) /\ (at + k) - at = k
      BY <1>3
    <3> QED
      BY <2>2, <3>1
  <2> QED
    BY <2>2, <2>3
<1>5. 0 \in T
  <2>1. Len(Part(ss, j)) \in Nat /\ j + 0 = j /\ 0 \in 0 .. Len(ss) - j
    BY <1>1, <1>2
  <2>2. Fine(j)
    <3> HIDE DEF at
    <3> QED
      BY <1>4, <2>1
  <2>3. Fine(j + 0)
    BY <2>1, <2>2
  <2> HIDE DEF Fine
  <2> QED
    BY <2>1, <2>3
<1>6. ASSUME NEW d \in 1 .. Len(ss) - j, d - 1 \in T PROVE d \in T
  <2> DEFINE i == j + d
  <2>1. i \in 1 .. Len(ss) /\ i - 1 \in 0 .. Len(ss) /\ j + (d - 1) = i - 1
    BY <1>1
  <2>2. Fine(i - 1)
    BY <1>6, <2>1
  <2> HIDE DEF i
  <2>3. Part(ss, i) = Part(ss, i - 1) \o ss[i]
    BY <2>1, PartSteps
  <2>4. /\ Len(Part(ss, i)) = Len(Part(ss, i - 1)) + Len(ss[i])
        /\ \A p \in 1 .. Len(Part(ss, i - 1)) : Part(ss, i)[p] = Part(ss, i - 1)[p]
    <3>1. /\ Part(ss, i - 1) \in Seq(S) /\ ss[i] \in Seq(S)
          /\ Len(Part(ss, i - 1)) \in Nat /\ Len(ss[i]) \in Nat
      BY <1>1, <1>2, <2>1
    <3> QED
      BY <2>3, <3>1, ConcatProperties
  <2>5. Len(ss[i]) \in Nat /\ Len(Part(ss, i - 1)) \in Nat /\ Len(Part(ss, j)) \in Nat
    BY <1>1, <1>2, <2>1
  <2>8. Len(Part(ss, j)) <= Len(Part(ss, i - 1))
    BY <2>2
  <2>9. Len(Part(ss, i)) = Len(Part(ss, i - 1)) + Len(ss[i])
    BY <2>4
  <2>6. Len(Part(ss, j)) <= Len(Part(ss, i))
    <3> DEFINE u == Len(Part(ss, i))
               v == Len(Part(ss, i - 1))
               w == Len(ss[i])
               z == Len(Part(ss, j))
    <3>1. w \in Nat /\ v \in Nat /\ z \in Nat /\ z <= v /\ u = v + w
      BY <2>5, <2>8, <2>9
    <3> HIDE DEF u, v, w, z
    <3>2. z <= u
      BY <3>1
    <3> QED
      BY <3>2 DEF u, z
  <2>7. ASSUME NEW k \in 1 .. Len(ss[j]) PROVE Part(ss, i)[at + k] = ss[j][k]
    <3> HIDE DEF at
    <3>1. at + k \in 1 .. Len(Part(ss, i - 1))
      <4>1. Len(Part(ss, j)) = at + Len(ss[j]) /\ at \in Nat /\ Len(ss[j]) \in Nat
        BY <1>3, <1>4
      <4> QED
        BY ONLY <4>1, <2>5, <2>8, k \in 1 .. Len(ss[j])
    <3>2. Part(ss, i - 1)[at + k] = ss[j][k]
      BY <2>2
    <3> QED
      BY <2>4, <3>1, <3>2
  <2>10. d \in 0 .. Len(ss) - j /\ Fine(j + d)
    BY <2>6, <2>7 DEF i
  <2> HIDE DEF Fine
  <2> QED
    BY <2>10
<1>7. \A d \in 0 .. Len(ss) - j : d \in T
  <2>1. Len(ss) - j \in Nat
    BY <1>1
  <2> HIDE DEF T
  <2> QED
    BY <2>1, <1>5, <1>6, Climb
<1>8. n - j \in 0 .. Len(ss) - j /\ j + (n - j) = n
    BY <1>1
<1>9. Fine(n)
  <2>1. n - j \in T
    BY <1>7, <1>8
  <2> HIDE DEF Fine
  <2>2. Fine(j + (n - j))
    BY <2>1
  <2> QED
    BY <1>8, <2>2
<1>10. n \in 0 .. Len(ss)
    BY <1>1
<1> HIDE DEF T
<1> QED
    BY <1>2, <1>3, <1>4, <1>9, <1>10

\* One part more.
LEMMA FlattenLonger ==
    ASSUME NEW S, NEW ss \in Seq(Seq(S)), NEW tt \in Seq(Seq(S)), Len(tt) = Len(ss) + 1,
           \A i \in 1 .. Len(ss) : tt[i] = ss[i]
    PROVE  FlattenSeq(tt) = FlattenSeq(ss) \o tt[Len(tt)]
<1>1. Len(ss) \in Nat /\ Len(tt) \in 1 .. Len(tt) /\ Len(tt) - 1 = Len(ss)
    BY LenProperties
<1>2. Part(tt, Len(tt)) = Part(tt, Len(tt) - 1) \o tt[Len(tt)]
    BY <1>1, PartSteps
<1>3. Part(ss, Len(ss)) = Part(tt, Len(ss))
  <2>1. Len(ss) <= Len(ss) /\ Len(ss) <= Len(tt)
    BY <1>1
  <2> QED
    BY <1>1, <2>1, PartAgree
<1> QED
    BY <1>1, <1>2, <1>3, FlattenIsPart

\* Parts that are empty add nothing.
LEMMA FlattenPadded ==
    ASSUME NEW S, NEW ss \in Seq(Seq(S)), NEW tt \in Seq(Seq(S)), Len(ss) <= Len(tt),
           \A i \in 1 .. Len(ss) : tt[i] = ss[i],
           \A i \in Len(ss) + 1 .. Len(tt) : tt[i] = <<>>
    PROVE  FlattenSeq(tt) = FlattenSeq(ss)
<1>1. Len(ss) \in Nat /\ Len(tt) \in Nat /\ Len(tt) - Len(ss) \in Nat
    BY LenProperties
<1> DEFINE T == {d \in 0 .. Len(tt) - Len(ss) : Part(tt, Len(ss) + d) = Part(ss, Len(ss))}
<1>2. 0 \in T
  <2>1. Part(ss, Len(ss)) = Part(tt, Len(ss))
    BY <1>1, PartAgree
  <2>2. Len(ss) + 0 = Len(ss) /\ 0 \in 0 .. Len(tt) - Len(ss)
    BY <1>1
  <2> QED
    BY <2>1, <2>2
<1>3. ASSUME NEW d \in 1 .. Len(tt) - Len(ss), d - 1 \in T PROVE d \in T
  <2> DEFINE i == Len(ss) + d
  <2>1. i \in 1 .. Len(tt) /\ i \in Len(ss) + 1 .. Len(tt) /\ i - 1 \in 0 .. Len(tt) /\ Len(ss) + (d - 1) = i - 1
    BY <1>1
  <2>2. Part(tt, i - 1) = Part(ss, Len(ss))
    BY <1>3, <2>1
  <2> HIDE DEF i
  <2>3. Part(tt, i) = Part(tt, i - 1) \o tt[i] /\ tt[i] = <<>> /\ Part(tt, i - 1) \in Seq(S)
    BY <2>1, PartSteps
  <2>4. Part(tt, i - 1) \o <<>> = Part(tt, i - 1)
    BY <2>3, ConcatEmptySeq
  <2>5. d \in 0 .. Len(tt) - Len(ss)
    OBVIOUS
  <2> QED
    BY <2>2, <2>3, <2>4, <2>5 DEF i
<1>4. \A d \in 0 .. Len(tt) - Len(ss) : d \in T
  <2> HIDE DEF T
  <2> QED
    BY <1>1, <1>2, <1>3, Climb
<1>5. Part(tt, Len(tt)) = Part(ss, Len(ss))
  <2>1. Len(tt) - Len(ss) \in 0 .. Len(tt) - Len(ss) /\ Len(ss) + (Len(tt) - Len(ss)) = Len(tt)
    BY <1>1
  <2>2. Len(tt) - Len(ss) \in T
    <3> HIDE DEF T
    <3> QED
      BY <1>4, <2>1
  <2> QED
    BY <2>1, <2>2
<1> QED
    BY <1>5, FlattenIsPart

-----------------------------------------------------------------------------
(* The provider's stream, event by event.                                  *)

Words(a) == UNION {Range(a.blocks[i].x) : i \in DOMAIN a.blocks}

Events(a) ==
    [t : {"start", "open", "fragment", "stop", "usage"}, i : Nat, b : Range(a.blocks) \cup {NoBlock},
     x : Seq(Words(a)), stop : {"none", a.stop}, out : {0, a.out}]

Segments(a) == [i \in DOMAIN a.blocks |-> BlockEvents(i, a.blocks[i])]

OpenEvent(a, j) == Event("open", j, a.blocks[j], <<>>, "none", 0)

FragmentEvent(a, j, n) == Event("fragment", j, a.blocks[j], <<a.blocks[j].x[n]>>, "none", 0)

StopEvent(a) == Event("stop", 0, NoBlock, <<>>, a.stop, a.out)

UsageEvent(a) == Event("usage", 0, NoBlock, <<>>, a.stop, a.out)

\* The blocks of an answer and their fragments.
LEMMA AnswerShape ==
    ASSUME NEW a \in ProviderAnswers
    PROVE  /\ a.provider \in {"anthropic", "bedrock", "vertex"}
           /\ a.ask.forced => a.provider = "anthropic"
           /\ Named(a.ask) => a.ask.choice \in a.ask.tools
           /\ Len(a.blocks) \in Nat /\ DOMAIN a.blocks = 1 .. Len(a.blocks)
           /\ \A i \in DOMAIN a.blocks :
                /\ a.blocks[i] \in Range(a.blocks)
                /\ a.blocks[i].x \in Seq(Words(a))
                /\ Len(a.blocks[i].x) \in Nat
                /\ DOMAIN a.blocks[i].x = 1 .. Len(a.blocks[i].x)
                /\ \A n \in DOMAIN a.blocks[i].x : a.blocks[i].x[n] \in Words(a)
<1>1. a.blocks \in Seq(Range(a.blocks))
    BY AnswersAssumption DEF AnswersOK
<1>2. Len(a.blocks) \in Nat /\ DOMAIN a.blocks = 1 .. Len(a.blocks)
    BY <1>1, LenProperties
<1>3. ASSUME NEW i \in DOMAIN a.blocks
      PROVE  /\ a.blocks[i] \in Range(a.blocks)
             /\ a.blocks[i].x \in Seq(Words(a))
             /\ Len(a.blocks[i].x) \in Nat
             /\ DOMAIN a.blocks[i].x = 1 .. Len(a.blocks[i].x)
             /\ \A n \in DOMAIN a.blocks[i].x : a.blocks[i].x[n] \in Words(a)
  <2> DEFINE x == a.blocks[i].x
  <2>1. x \in Seq(Range(x))
    BY AnswersAssumption DEF AnswersOK
  <2>2. Range(x) \subseteq Words(a)
    BY DEF Words
  <2>3. a.blocks[i] \in Range(a.blocks)
    BY DEF Range
  <2> HIDE DEF x
  <2>4. x \in Seq(Words(a))
    BY <2>1, <2>2, SeqMonotonic
  <2>5. Len(x) \in Nat /\ DOMAIN x = 1 .. Len(x)
    BY <2>1, LenProperties
  <2>6. \A n \in DOMAIN x : x[n] \in Words(a)
    BY <2>4, <2>5, ElementOfSeq
  <2> QED
    BY <2>3, <2>4, <2>5, <2>6 DEF x
<1>4. /\ a.provider \in {"anthropic", "bedrock", "vertex"}
      /\ a.ask.forced => a.provider = "anthropic"
      /\ Named(a.ask) => a.ask.choice \in a.ask.tools
    BY AnswersAssumption DEF AnswersOK
<1> QED
    BY <1>2, <1>3, <1>4

\* What is streamed of one block: it is opened, then its fragments.
LEMMA SegmentOf ==
    ASSUME NEW a \in ProviderAnswers, NEW j \in DOMAIN a.blocks
    PROVE  LET b == a.blocks[j]
               s == Segments(a)[j]
           IN  /\ s \in Seq(Events(a)) /\ Len(s) = 1 + Len(b.x)
               /\ s[1] = OpenEvent(a, j)
               /\ \A k \in 1 .. Len(b.x) : s[k + 1] = FragmentEvent(a, j, k)
<1> DEFINE b == a.blocks[j]
           h == OpenEvent(a, j)
           f == [k \in DOMAIN b.x |-> Event("fragment", j, b, <<b.x[k]>>, "none", 0)]
           n == Len(b.x)
<1>1. n \in Nat /\ DOMAIN b.x = 1 .. n /\ j \in Nat /\ b \in Range(a.blocks)
      /\ \A k \in 1 .. n : b.x[k] \in Words(a)
    BY AnswerShape
<1>2. h \in Events(a)
  <2>1. <<>> \in Seq(Words(a))
    OBVIOUS
  <2> QED
    BY <1>1, <2>1 DEF OpenEvent, Event, Events
<1>3. \A k \in 1 .. n : f[k] = FragmentEvent(a, j, k) /\ f[k] \in Events(a)
  <2> SUFFICES ASSUME NEW k \in 1 .. n PROVE f[k] = FragmentEvent(a, j, k) /\ f[k] \in Events(a)
    OBVIOUS
  <2>1. f[k] = FragmentEvent(a, j, k)
    BY <1>1 DEF FragmentEvent
  <2>2. <<b.x[k]>> \in Seq(Words(a))
    BY <1>1
  <2> HIDE DEF f, n
  <2>3. FragmentEvent(a, j, k) \in Events(a)
    BY <1>1, <2>2 DEF FragmentEvent, Event, Events
  <2> QED
    BY <2>1, <2>3
<1>4. f \in Seq(Events(a)) /\ Len(f) = n
  <2>1. f = [k \in 1 .. n |-> f[k]]
    BY <1>1
  <2> HIDE DEF f, n
  <2> QED
    BY <1>1, <1>3, <2>1
<1>5. Segments(a)[j] = <<h>> \o f
    BY DEF Segments, BlockEvents, OpenEvent
<1> HIDE DEF b, h, f, n
<1>6. <<h>> \in Seq(Events(a)) /\ Len(<<h>>) = 1 /\ <<h>>[1] = h
    BY <1>2
<1>7. /\ <<h>> \o f \in Seq(Events(a)) /\ Len(<<h>> \o f) = 1 + n
      /\ \A i \in 1 .. 1 + n : (<<h>> \o f)[i] = IF i <= 1 THEN <<h>>[i] ELSE f[i - 1]
    BY <1>4, <1>6, ConcatProperties
<1>8. (<<h>> \o f)[1] = h
    BY <1>1, <1>6, <1>7
<1>9. ASSUME NEW k \in 1 .. n PROVE (<<h>> \o f)[k + 1] = FragmentEvent(a, j, k)
  <2>1. k + 1 \in 1 .. 1 + n /\ ~(k + 1 <= 1) /\ (k + 1) - 1 = k
    BY <1>1
  <2> QED
    BY <1>3, <1>7, <2>1
<1> QED
  BY <1>5, <1>7, <1>8, <1>9 DEF b, h, n

\* What is streamed of all blocks.
LEMMA SegmentsShape ==
    ASSUME NEW a \in ProviderAnswers
    PROVE  /\ Segments(a) \in Seq(Seq(Events(a)))
           /\ Len(Segments(a)) = Len(a.blocks)
<1>1. Len(a.blocks) \in Nat /\ DOMAIN a.blocks = 1 .. Len(a.blocks)
    BY AnswerShape
<1>2. \A j \in DOMAIN a.blocks : Segments(a)[j] \in Seq(Events(a))
    BY SegmentOf
<1>3. Segments(a) = [j \in 1 .. Len(a.blocks) |-> Segments(a)[j]]
    BY <1>1 DEF Segments
<1> QED
    BY <1>1, <1>2, <1>3

\* The whole stream: a start, the segments, a stop, and what the usage is read from.
LEMMA StreamShape ==
    ASSUME NEW a \in ProviderAnswers
    PROVE  LET p == ProviderStream(a)
               m == Part(Segments(a), Len(a.blocks))
           IN  /\ p \in Seq(Events(a)) /\ Len(m) \in Nat
               /\ Len(p) = Len(m) + IF a.provider = "bedrock" THEN 3 ELSE 2
               /\ p[1].t = "start" /\ p[1] = Event("start", 0, NoBlock, <<>>, "none", 0)
               /\ \A k \in 1 .. Len(m) : p[k + 1] = m[k]
               /\ p[Len(m) + 2] = StopEvent(a)
               /\ a.provider = "bedrock" => p[Len(m) + 3] = UsageEvent(a)
<1> DEFINE h == Event("start", 0, NoBlock, <<>>, "none", 0)
           m == Part(Segments(a), Len(a.blocks))
           z == StopEvent(a)
           u == IF a.provider = "bedrock" THEN <<UsageEvent(a)>> ELSE <<>>
           p1 == <<h>> \o m
           p2 == p1 \o <<z>>
           p == p2 \o u
           E == Events(a)
           n == Len(m)
<1>1. m \in Seq(E) /\ n \in Nat
  <2>1. Len(Segments(a)) \in 0 .. Len(Segments(a))
    BY SegmentsShape, AnswerShape
  <2>2. m \in Seq(E)
    BY <2>1, SegmentsShape, PartSteps
  <2> QED
    BY <2>2, LenProperties
<1>2. h \in E /\ z \in E /\ UsageEvent(a) \in E
  <2>1. <<>> \in Seq(Words(a)) /\ 0 \in Nat
    OBVIOUS
  <2> QED
    BY <2>1 DEF StopEvent, UsageEvent, Event, Events
<1>3. p = ProviderStream(a)
  <2>1. FlattenSeq(Segments(a)) = m
    BY SegmentsShape, FlattenIsPart
  <2> QED
    BY <2>1 DEF ProviderStream, Segments, StopEvent, UsageEvent
<1> HIDE DEF m
<1>4. /\ <<h>> \in Seq(E) /\ Len(<<h>>) = 1 /\ <<h>>[1] = h
      /\ <<z>> \in Seq(E) /\ Len(<<z>>) = 1 /\ <<z>>[1] = z
    BY <1>2
<1>5. u \in Seq(E) /\ Len(u) = (IF a.provider = "bedrock" THEN 1 ELSE 0)
      /\ (a.provider = "bedrock" => u[1] = UsageEvent(a))
    BY <1>2
<1>6. h.t = "start"
    BY DEF Event
<1> HIDE DEF h, z, u, E, n
<1>7. /\ p1 \in Seq(E) /\ Len(p1) = 1 + n
      /\ \A i \in 1 .. 1 + n : p1[i] = IF i <= 1 THEN <<h>>[i] ELSE m[i - 1]
    BY <1>1, <1>4, ConcatProperties DEF n
<1>8. p1[1] = h /\ \A k \in 1 .. n : p1[k + 1] = m[k]
  <2>1. p1[1] = h
    BY <1>1, <1>4, <1>7
  <2>2. ASSUME NEW k \in 1 .. n PROVE p1[k + 1] = m[k]
    <3>1. k + 1 \in 1 .. 1 + n /\ ~(k + 1 <= 1) /\ (k + 1) - 1 = k
      BY <1>1
    <3> QED
      BY <1>7, <3>1
  <2> QED
    BY <2>1, <2>2
<1> HIDE DEF p1
<1>9. /\ p2 \in Seq(E) /\ Len(p2) = (1 + n) + 1
      /\ \A i \in 1 .. (1 + n) + 1 : p2[i] = IF i <= 1 + n THEN p1[i] ELSE <<z>>[i - (1 + n)]
    BY <1>4, <1>7, ConcatProperties
<1>10. Len(p2) = n + 2 /\ p2[n + 2] = z /\ \A i \in 1 .. n + 1 : p2[i] = p1[i]
  <2>1. n + 2 \in 1 .. (1 + n) + 1 /\ ~(n + 2 <= 1 + n) /\ (n + 2) - (1 + n) = 1
    BY <1>1
  <2>2. p2[n + 2] = z
    BY <1>4, <1>9, <2>1
  <2>3. \A i \in 1 .. n + 1 : i \in 1 .. (1 + n) + 1 /\ i <= 1 + n
    BY <1>1
  <2>4. Len(p2) = n + 2
    BY <1>1, <1>9
  <2> QED
    BY <1>9, <2>2, <2>3, <2>4
<1> HIDE DEF p2
<1>16. /\ p \in Seq(E) /\ Len(p) = Len(p2) + Len(u)
       /\ \A i \in 1 .. Len(p2) + Len(u) : p[i] = IF i <= Len(p2) THEN p2[i] ELSE u[i - Len(p2)]
    BY <1>5, <1>9, ConcatProperties
<1>11. /\ p \in Seq(E) /\ Len(p) = (n + 2) + Len(u)
       /\ \A i \in 1 .. (n + 2) + Len(u) : p[i] = IF i <= n + 2 THEN p2[i] ELSE u[i - (n + 2)]
  <2> HIDE DEF p
  <2> QED
    BY <1>10, <1>16
<1>12. \A i \in 1 .. n + 2 : p[i] = p2[i]
  <2>1. \A i \in 1 .. n + 2 : i \in 1 .. (n + 2) + Len(u) /\ i <= n + 2
    BY <1>1, <1>5
  <2> QED
    BY <1>11, <2>1
<1>13. a.provider = "bedrock" => p[n + 3] = UsageEvent(a)
  <2> SUFFICES ASSUME a.provider = "bedrock" PROVE p[n + 3] = UsageEvent(a)
    OBVIOUS
  <2>1. n + 3 \in 1 .. (n + 2) + Len(u) /\ ~(n + 3 <= n + 2) /\ (n + 3) - (n + 2) = 1
    BY <1>1, <1>5
  <2> QED
    BY <1>5, <1>11, <2>1
<1> HIDE DEF p
<1>14. p[1] = h /\ p[n + 2] = z /\ \A k \in 1 .. n : p[k + 1] = m[k]
  <2>1. 1 \in 1 .. n + 2 /\ 1 \in 1 .. n + 1 /\ n + 2 \in 1 .. n + 2
        /\ \A k \in 1 .. n : k + 1 \in 1 .. n + 2 /\ k + 1 \in 1 .. n + 1
    BY <1>1
  <2> QED
    BY <1>8, <1>10, <1>12, <2>1
<1>15. Len(p) = n + IF a.provider = "bedrock" THEN 3 ELSE 2
    BY <1>1, <1>5, <1>11
<1> QED
    BY <1>1, <1>3, <1>6, <1>11, <1>13, <1>14, <1>15 DEF h, z, n, m, E

-----------------------------------------------------------------------------
(* Where a reader of the stream is: in block j, n of whose fragments it    *)
(* has read; before the first block j is 0.                                *)

Size(a, j) == IF j = 0 THEN 0 ELSE Len(a.blocks[j].x)

\* The events read so far.
EventsAt(a, j, n) == IF j = 0 THEN 1 ELSE Len(Part(Segments(a), j - 1)) + n + 2

\* The event after a spot, and the spot after that.
LEMMA NextOfStream ==
    ASSUME NEW a \in ProviderAnswers, NEW j \in 0 .. Len(a.blocks), NEW n \in Nat, n <= Size(a, j)
    PROVE  LET p == ProviderStream(a)
               at == EventsAt(a, j, n)
           IN  /\ at + 1 \in 1 .. Len(p)
               /\ n < Size(a, j) => p[at + 1] = FragmentEvent(a, j, n + 1) /\ EventsAt(a, j, n + 1) = at + 1
               /\ n = Size(a, j) /\ j < Len(a.blocks) =>
                    p[at + 1] = OpenEvent(a, j + 1) /\ EventsAt(a, j + 1, 0) = at + 1
               /\ n = Size(a, j) /\ j = Len(a.blocks) =>
                    /\ p[at + 1] = StopEvent(a)
                    /\ a.provider # "bedrock" => Len(p) = at + 1
                    /\ a.provider = "bedrock" => Len(p) = at + 2 /\ p[at + 2] = UsageEvent(a)
<1> DEFINE L == Len(a.blocks)
           ss == Segments(a)
           Off(i) == Len(Part(ss, i))
           p == ProviderStream(a)
           at == EventsAt(a, j, n)
           size == Size(a, j)
<1>1. L \in Nat /\ DOMAIN a.blocks = 1 .. L /\ size \in Nat
  <2>1. L \in Nat /\ DOMAIN a.blocks = 1 .. L /\ \A i \in 1 .. L : Len(a.blocks[i].x) \in Nat
    BY AnswerShape
  <2> QED
    BY <2>1 DEF Size
<1>2. /\ p \in Seq(Events(a)) /\ Off(L) \in Nat
      /\ Len(p) = Off(L) + (IF a.provider = "bedrock" THEN 3 ELSE 2)
      /\ \A k \in 1 .. Off(L) : p[k + 1] = Part(ss, L)[k]
      /\ p[Off(L) + 2] = StopEvent(a)
      /\ a.provider = "bedrock" => p[Off(L) + 3] = UsageEvent(a)
    BY StreamShape
<1>3. ss \in Seq(Seq(Events(a))) /\ Len(ss) = L
    BY SegmentsShape
<1>4. Off(0) = 0
    BY DEF Part
<1>5. ASSUME NEW i \in 1 .. L
      PROVE  /\ Off(i - 1) \in Nat /\ Off(i) = Off(i - 1) + 1 + Len(a.blocks[i].x)
             /\ Off(i) \in Nat /\ Off(i) <= Off(L)
             /\ p[Off(i - 1) + 2] = OpenEvent(a, i)
             /\ \A k \in 1 .. Len(a.blocks[i].x) : p[Off(i - 1) + k + 2] = FragmentEvent(a, i, k)
  <2> DEFINE len == Len(a.blocks[i].x)
             u == Off(i - 1)
             v == Off(L)
  <2>1. /\ Len(ss[i]) = 1 + len /\ ss[i][1] = OpenEvent(a, i)
        /\ \A k \in 1 .. len : ss[i][k + 1] = FragmentEvent(a, i, k)
    BY <1>1, SegmentOf
  <2>2. len \in Nat
    BY <1>1, AnswerShape
  <2>3. L \in i .. Len(ss) /\ i \in 1 .. Len(ss)
    BY <1>1, <1>3
  <2>4. /\ u \in Nat /\ u + Len(ss[i]) = Off(i) /\ Off(i) <= v
        /\ \A k \in 1 .. Len(ss[i]) : Part(ss, L)[u + k] = ss[i][k]
    BY <1>3, <2>3, PartAt
  <2>9. Off(i) = u + 1 + len /\ Off(i) \in Nat
    <3> DEFINE w == Off(i)
               l == Len(ss[i])
    <3>1. u \in Nat /\ len \in Nat /\ u + l = w /\ l = 1 + len
      BY <2>1, <2>2, <2>4
    <3> HIDE DEF u, w, len, l
    <3>2. w = u + 1 + len /\ w \in Nat
      BY <3>1
    <3> QED
      BY <3>2 DEF w
  <2> HIDE DEF len, u
  <2>5. \A k \in 1 .. 1 + len : u + k \in 1 .. v /\ p[(u + k) + 1] = ss[i][k]
    <3> SUFFICES ASSUME NEW k \in 1 .. 1 + len
                 PROVE  u + k \in 1 .. v /\ p[(u + k) + 1] = ss[i][k]
      OBVIOUS
    <3>1. u + k \in 1 .. v
      <4>1. v \in Nat /\ u \in Nat /\ len \in Nat /\ u + 1 + len <= v
        BY <1>2, <2>2, <2>4, <2>9
      <4> HIDE DEF v
      <4> QED
        BY <4>1
    <3>2. p[(u + k) + 1] = Part(ss, L)[u + k]
      BY <1>2, <3>1
    <3>3. Part(ss, L)[u + k] = ss[i][k]
      BY <2>1, <2>4
    <3> QED
      BY <3>1, <3>2, <3>3
  <2>6. p[u + 2] = OpenEvent(a, i)
    <3>1. 1 \in 1 .. 1 + len /\ (u + 1) + 1 = u + 2
      BY <2>2, <2>4
    <3> QED
      BY <2>1, <2>5, <3>1
  <2>7. ASSUME NEW k \in 1 .. len PROVE p[u + k + 2] = FragmentEvent(a, i, k)
    <3>1. k + 1 \in 1 .. 1 + len /\ (u + (k + 1)) + 1 = u + k + 2
      BY <2>2, <2>4
    <3> QED
      BY <2>1, <2>5, <3>1
  <2> QED
    BY <2>4, <2>6, <2>7, <2>9 DEF u, len
<1>6. at \in Nat /\ at >= 1
      /\ (n = size => at = Off(j) + 1) /\ at <= Off(L) + 1
  <2>1. CASE j = 0
    BY <1>1, <1>2, <1>4, <2>1 DEF EventsAt, Size
  <2>2. CASE j # 0
    <3>1. j \in 1 .. L /\ size = Len(a.blocks[j].x) /\ at = Off(j - 1) + n + 2
      BY <1>1, <2>2 DEF EventsAt, Size
    <3>2. Off(j - 1) \in Nat /\ Off(j) = Off(j - 1) + 1 + size /\ Off(j) <= Off(L)
      BY <1>5, <3>1
    <3> DEFINE u == Off(j - 1)
               v == Off(j)
               w == Off(L)
    <3>3. /\ u \in Nat /\ w \in Nat /\ size \in Nat /\ n <= size
          /\ at = u + n + 2 /\ v = u + 1 + size /\ v <= w
      BY <1>1, <1>2, <3>1, <3>2
    <3> HIDE DEF u, v, w, size, at
    <3>4. at \in Nat /\ at >= 1 /\ (n = size => at = v + 1) /\ at <= w + 1
      BY <3>3
    <3> QED
      BY <3>4 DEF v, w
  <2> QED
    BY <2>1, <2>2
<1>7. at + 1 \in 1 .. Len(p)
  <2> HIDE DEF at, p, Off
  <2> QED
    BY <1>2, <1>6
<1>8. ASSUME n < size
      PROVE  p[at + 1] = FragmentEvent(a, j, n + 1) /\ EventsAt(a, j, n + 1) = at + 1
  <2>1. j \in 1 .. L /\ size = Len(a.blocks[j].x) /\ at = Off(j - 1) + n + 2 /\ EventsAt(a, j, n + 1) = Off(j - 1) + (n + 1) + 2
    BY <1>1, <1>8 DEF EventsAt, Size
  <2>2. n + 1 \in 1 .. Len(a.blocks[j].x)
    BY <1>1, <1>8, <2>1
  <2>3. p[Off(j - 1) + (n + 1) + 2] = FragmentEvent(a, j, n + 1) /\ Off(j - 1) \in Nat
    BY <1>5, <2>1, <2>2
  <2> HIDE DEF Off, at, p
  <2>4. at + 1 = Off(j - 1) + (n + 1) + 2
    BY <2>1, <2>3
  <2> QED
    BY <2>1, <2>3, <2>4
<1>9. ASSUME n = size, j < L
      PROVE  p[at + 1] = OpenEvent(a, j + 1) /\ EventsAt(a, j + 1, 0) = at + 1
  <2>1. j + 1 \in 1 .. L /\ (j + 1) - 1 = j /\ j + 1 # 0
    BY <1>1, <1>9
  <2>2. Off(j) \in Nat /\ p[Off(j) + 2] = OpenEvent(a, j + 1)
    BY <1>5, <2>1
  <2>3. EventsAt(a, j + 1, 0) = Off(j) + 0 + 2
    BY <2>1 DEF EventsAt
  <2> HIDE DEF Off, at, p, size
  <2>4. at + 1 = Off(j) + 2 /\ Off(j) + 0 + 2 = Off(j) + 2
    BY <1>6, <1>9, <2>2
  <2> QED
    BY <2>2, <2>3, <2>4
<1>10. ASSUME n = size, j = L
       PROVE  /\ p[at + 1] = StopEvent(a)
              /\ a.provider # "bedrock" => Len(p) = at + 1
              /\ a.provider = "bedrock" => Len(p) = at + 2 /\ p[at + 2] = UsageEvent(a)
  <2>1. at = Off(L) + 1 /\ Off(L) \in Nat
    BY <1>2, <1>6, <1>10
  <2> HIDE DEF Off, at, p
  <2>2. at + 1 = Off(L) + 2 /\ at + 2 = Off(L) + 3
    BY <2>1
  <2> QED
    BY <1>2, <2>2
<1> QED
    BY <1>7, <1>8, <1>9, <1>10

\* Reading one event of a sequence from the p-th on.
LEMMA FeedStep ==
    ASSUME NEW S, NEW s \in Seq(S), NEW p \in 1 .. Len(s)
    PROVE  LET f == SubSeq(s, p, Len(s))
           IN  f # <<>> /\ f[1] = s[p] /\ Tail(f) = SubSeq(s, p + 1, Len(s))
<1> DEFINE f == SubSeq(s, p, Len(s))
<1>1. Len(s) \in Nat /\ Len(s) \in p .. Len(s)
    BY LenProperties
<1>2. Head(f) = s[p] /\ Tail(f) = SubSeq(s, p + 1, Len(s))
    BY <1>1, HeadTailOfSubSeq
<1>3. \A i \in p .. Len(s) : s[i] \in S
  <2>1. \A i \in p .. Len(s) : i \in 1 .. Len(s)
    BY <1>1
  <2> QED
    BY <2>1, ElementOfSeq
<1>4. f \in Seq(S) /\ Len(f) = Len(s) - p + 1 /\ \A i \in 1 .. Len(s) - p + 1 : f[i] = s[p + i - 1]
    BY <1>1, <1>3, SubSeqProperties
<1> HIDE DEF f
<1>5. f[1] = s[p]
  <2>1. 1 \in 1 .. Len(s) - p + 1 /\ p + 1 - 1 = p
    BY <1>1
  <2> QED
    BY <1>4, <2>1
<1>6. f # <<>>
  <2>1. Len(f) >= 1
    BY <1>1, <1>4
  <2> QED
    BY <2>1
<1> QED
    BY <1>2, <1>5, <1>6 DEF f

-----------------------------------------------------------------------------
(* What a reader has at a spot: the text and the calls of the blocks       *)
(* behind it, and of the block it is in as much as was streamed.           *)

IsCall(a, b) == a.provider = "anthropic" /\ b.kind = "tool" /\ ~(a.ask.forced /\ b.name = Forced)

IsText(a, b) ==
    b.kind = "text" \/ (a.provider = "anthropic" /\ b.kind = "tool" /\ a.ask.forced /\ b.name = Forced)

CallRec(a, j, y) == [i |-> j, id |-> a.blocks[j].id, name |-> a.blocks[j].name, x |-> y]

CallRecs(a) == {CallRec(a, j, y) : j \in DOMAIN a.blocks, y \in Seq(Words(a))}

CallOf(a, j, n) == IF IsCall(a, a.blocks[j]) THEN <<CallRec(a, j, SubSeq(a.blocks[j].x, 1, n))>> ELSE <<>>

TextOf(a, j, n) == IF IsText(a, a.blocks[j]) THEN SubSeq(a.blocks[j].x, 1, n) ELSE <<>>

CallParts(a) == [j \in DOMAIN a.blocks |-> CallOf(a, j, Len(a.blocks[j].x))]

TextParts(a) == [j \in DOMAIN a.blocks |-> TextOf(a, j, Len(a.blocks[j].x))]

CallsAt(a, j, n) == IF j = 0 THEN <<>> ELSE Part(CallParts(a), j - 1) \o CallOf(a, j, n)

TextAt(a, j, n) == IF j = 0 THEN <<>> ELSE Part(TextParts(a), j - 1) \o TextOf(a, j, n)

\* Fragment by fragment, up to the whole.
LEMMA Fragments ==
    ASSUME NEW a \in ProviderAnswers, NEW j \in DOMAIN a.blocks
    PROVE  LET x == a.blocks[j].x
           IN  /\ SubSeq(x, 1, 0) = <<>>
               /\ SubSeq(x, 1, Len(x)) = x
               /\ \A n \in 0 .. Len(x) : SubSeq(x, 1, n) \in Seq(Words(a))
               /\ \A n \in Nat : n < Len(x) =>
                    /\ x[n + 1] \in Words(a)
                    /\ SubSeq(x, 1, n + 1) = SubSeq(x, 1, n) \o <<x[n + 1]>>
<1> DEFINE x == a.blocks[j].x
<1>1. x \in Seq(Words(a)) /\ Len(x) \in Nat /\ \A n \in 1 .. Len(x) : x[n] \in Words(a)
    BY AnswerShape
<1> HIDE DEF x
<1>2. SubSeq(x, 1, 0) = <<>>
    BY SubSeqEmpty
<1>3. SubSeq(x, 1, Len(x)) = x
    BY <1>1, SubSeqFull
<1>4. ASSUME NEW n \in 0 .. Len(x) PROVE SubSeq(x, 1, n) \in Seq(Words(a))
  <2>1. n \in Int /\ \A i \in 1 .. n : x[i] \in Words(a)
    BY <1>1
  <2> QED
    BY <2>1, SubSeqProperties
<1>5. ASSUME NEW n \in Nat, n < Len(x)
      PROVE  x[n + 1] \in Words(a) /\ SubSeq(x, 1, n + 1) = SubSeq(x, 1, n) \o <<x[n + 1]>>
  <2>1. 1 \in 1 .. Len(x) /\ n + 1 \in 1 .. Len(x) /\ (n + 1) - 1 = n
    BY <1>1, <1>5
  <2>2. SubSeq(x, 1, n + 1) = SubSeq(x, 1, (n + 1) - 1) \o <<x[n + 1]>>
    BY <1>1, <2>1, SubSeqRecursiveSecond
  <2> QED
    BY <1>1, <2>1, <2>2
<1> QED
    BY <1>2, <1>3, <1>4, <1>5 DEF x

\* A call of the stream, with the fragments it has so far.
LEMMA RecIn ==
    ASSUME NEW a, NEW j \in DOMAIN a.blocks, NEW y \in Seq(Words(a))
    PROVE  CallRec(a, j, y) \in CallRecs(a)
BY DEF CallRecs

\* The calls and the texts of the blocks, block by block.
LEMMA PartsShape ==
    ASSUME NEW a \in ProviderAnswers
    PROVE  /\ CallParts(a) \in Seq(Seq(CallRecs(a))) /\ Len(CallParts(a)) = Len(a.blocks)
           /\ TextParts(a) \in Seq(Seq(Words(a))) /\ Len(TextParts(a)) = Len(a.blocks)
<1>1. Len(a.blocks) \in Nat /\ DOMAIN a.blocks = 1 .. Len(a.blocks)
    BY AnswerShape
<1>2. ASSUME NEW j \in DOMAIN a.blocks
      PROVE  CallParts(a)[j] \in Seq(CallRecs(a)) /\ TextParts(a)[j] \in Seq(Words(a))
  <2> DEFINE x == a.blocks[j].x
             y == SubSeq(x, 1, Len(x))
  <2>1. y \in Seq(Words(a))
    BY AnswerShape, Fragments
  <2> HIDE DEF y
  <2>2. CallRec(a, j, y) \in CallRecs(a)
    BY <2>1, RecIn
  <2>3. <<CallRec(a, j, y)>> \in Seq(CallRecs(a)) /\ <<>> \in Seq(CallRecs(a)) /\ <<>> \in Seq(Words(a))
    BY <2>2
  <2>4. CallParts(a)[j] = (IF IsCall(a, a.blocks[j]) THEN <<CallRec(a, j, y)>> ELSE <<>>)
    BY DEF CallParts, CallOf, y
  <2>5. TextParts(a)[j] = (IF IsText(a, a.blocks[j]) THEN y ELSE <<>>)
    BY DEF TextParts, TextOf, y
  <2> QED
    BY <2>1, <2>3, <2>4, <2>5
<1> DEFINE L == Len(a.blocks)
           cp == CallParts(a)
           tp == TextParts(a)
<1>3. cp = [j \in 1 .. L |-> cp[j]] /\ tp = [j \in 1 .. L |-> tp[j]]
    BY <1>1 DEF CallParts, TextParts
<1>4. \A j \in 1 .. L : cp[j] \in Seq(CallRecs(a)) /\ tp[j] \in Seq(Words(a))
    BY <1>1, <1>2
<1> HIDE DEF L, cp, tp
<1>5. L \in Nat
    BY <1>1 DEF L
<1>6. cp \in Seq(Seq(CallRecs(a))) /\ Len(cp) = L
    BY <1>3, <1>4, <1>5
<1>7. tp \in Seq(Seq(Words(a))) /\ Len(tp) = L
    BY <1>3, <1>4, <1>5
<1> QED
    BY <1>6, <1>7 DEF L, cp, tp

\* The parts so far are sequences, and the block a reader has left is one of them.
LEMMA SpotParts ==
    ASSUME NEW a \in ProviderAnswers, NEW j \in 0 .. Len(a.blocks)
    PROVE  /\ Part(CallParts(a), j) \in Seq(CallRecs(a))
           /\ Part(TextParts(a), j) \in Seq(Words(a))
           /\ CallsAt(a, j, Size(a, j)) = Part(CallParts(a), j)
           /\ TextAt(a, j, Size(a, j)) = Part(TextParts(a), j)
<1>1. /\ Part(CallParts(a), j) \in Seq(CallRecs(a)) /\ Part(TextParts(a), j) \in Seq(Words(a))
      /\ Part(CallParts(a), 0) = <<>> /\ Part(TextParts(a), 0) = <<>>
    BY PartsShape, PartSteps
<1>2. CASE j = 0
    BY <1>1, <1>2 DEF CallsAt, TextAt
<1>3. CASE j # 0
  <2>1. j \in 1 .. Len(a.blocks) /\ j \in DOMAIN a.blocks
    BY <1>3, AnswerShape
  <2>2. /\ Part(CallParts(a), j) = Part(CallParts(a), j - 1) \o CallParts(a)[j]
        /\ Part(TextParts(a), j) = Part(TextParts(a), j - 1) \o TextParts(a)[j]
    BY <2>1, PartsShape, PartSteps
  <2> QED
    BY <1>1, <1>3, <2>1, <2>2 DEF CallsAt, TextAt, CallParts, TextParts, Size
<1> QED
    BY <1>2, <1>3

\* The calls so far are whole, of blocks that are passed, and none is the hidden tool's.
LEMMA PassedCalls ==
    ASSUME NEW a \in ProviderAnswers, NEW j \in 0 .. Len(a.blocks)
    PROVE  LET c == Part(CallParts(a), j)
           IN  \A k \in 1 .. Len(c) :
                 /\ c[k].i \in 1 .. j
                 /\ c[k] = CallRec(a, c[k].i, a.blocks[c[k].i].x)
                 /\ IsCall(a, a.blocks[c[k].i])
<1> DEFINE L == Len(a.blocks)
           Fine(r, i) == r.i \in 1 .. i /\ r = CallRec(a, r.i, a.blocks[r.i].x) /\ IsCall(a, a.blocks[r.i])
           P(i) == Part(CallParts(a), i)
           T == {i \in 0 .. L : \A k \in 1 .. Len(P(i)) : Fine(P(i)[k], i)}
<1>1. L \in Nat /\ DOMAIN a.blocks = 1 .. L
    BY AnswerShape
<1>2. 0 \in T
  <2>1. P(0) = <<>> /\ Len(<<>>) = 0 /\ 0 \in 0 .. L
    BY <1>1 DEF Part
  <2> HIDE DEF Fine, P
  <2> QED
    BY <2>1
<1>3. ASSUME NEW i \in 1 .. L, i - 1 \in T PROVE i \in T
  <2> DEFINE p == P(i - 1)
             q == CallParts(a)[i]
             r == P(i)
  <2>1. i \in DOMAIN a.blocks /\ i - 1 \in 0 .. L /\ i \in 0 .. L
    BY <1>1
  <2>2. r = p \o q /\ p \in Seq(CallRecs(a)) /\ q \in Seq(CallRecs(a))
    BY <1>1, <2>1, PartsShape, PartSteps, ElementOfSeq
  <2>3. q = (IF IsCall(a, a.blocks[i]) THEN <<CallRec(a, i, a.blocks[i].x)>> ELSE <<>>)
    BY <2>1, Fragments DEF CallParts, CallOf
  <2>4. \A k \in 1 .. Len(p) : Fine(p[k], i - 1)
    BY <1>3
  <2> HIDE DEF p, q, r, P
  <2>5. \A k \in 1 .. Len(q) : Fine(q[k], i)
    <3>1. CASE IsCall(a, a.blocks[i])
      <4>1. Len(q) = 1 /\ q[1] = CallRec(a, i, a.blocks[i].x)
        BY <2>3, <3>1
      <4>2. q[1].i = i
        BY <4>1 DEF CallRec
      <4>3. Fine(q[1], i)
        BY <3>1, <4>1, <4>2
      <4> HIDE DEF Fine
      <4> QED
        BY <4>1, <4>3
    <3>2. CASE ~IsCall(a, a.blocks[i])
      <4>1. Len(q) = 0
        BY <2>3, <3>2
      <4> QED
        BY <4>1
    <3> QED
      BY <3>1, <3>2
  <2>6. \A k \in 1 .. Len(p) : Fine(p[k], i)
    <3>1. 1 .. (i - 1) \subseteq 1 .. i
      OBVIOUS
    <3> QED
      BY <2>4, <3>1
  <2> HIDE DEF Fine
  <2>7. /\ Len(p) \in Nat /\ Len(q) \in Nat /\ Len(r) = Len(p) + Len(q)
        /\ \A k \in 1 .. Len(p) + Len(q) : r[k] = IF k <= Len(p) THEN p[k] ELSE q[k - Len(p)]
    BY <2>2, ConcatProperties, LenProperties
  <2>8. ASSUME NEW k \in 1 .. Len(r) PROVE Fine(r[k], i)
    <3>1. CASE k <= Len(p)
      <4>1. k \in 1 .. Len(p) /\ r[k] = p[k]
        BY <2>7, <3>1
      <4> QED
        BY <2>6, <4>1
    <3>2. CASE ~(k <= Len(p))
      <4>1. k - Len(p) \in 1 .. Len(q) /\ r[k] = q[k - Len(p)]
        BY <2>7, <3>2
      <4> QED
        BY <2>5, <4>1
    <3> QED
      BY <3>1, <3>2
  <2> QED
    BY <2>1, <2>8 DEF r
<1>4. \A i \in 0 .. L : i \in T
  <2> HIDE DEF T
  <2> QED
    BY <1>1, <1>2, <1>3, Climb
<1>5. \A k \in 1 .. Len(P(j)) : Fine(P(j)[k], j)
  <2>1. j \in T
    BY <1>4
  <2> HIDE DEF Fine, P
  <2> QED
    BY <2>1
<1> QED
    BY <1>5

-----------------------------------------------------------------------------
(* Putting calls together.                                                 *)

\* A block is opened: a call is added behind the others.
LEMMA AddedOpen ==
    ASSUME NEW a \in ProviderAnswers, NEW j \in DOMAIN a.blocks,
           NEW pre \in Seq(CallRecs(a)), \A k \in 1 .. Len(pre) : pre[k].i # j,
           NEW c, c.i = j, c.b = a.blocks[j], c.x = <<>>
    PROVE  /\ ~Has(pre, j)
           /\ Added(pre, c) = pre \o <<CallRec(a, j, <<>>)>>
           /\ Position(Added(pre, c), j) = Len(pre) + 1
<1> DEFINE r == CallRec(a, j, <<>>)
           s == Append(pre, r)
<1>1. Len(pre) \in Nat /\ DOMAIN pre = 1 .. Len(pre)
    BY LenProperties
<1>2. r \in CallRecs(a)
  <2>1. <<>> \in Seq(Words(a))
    OBVIOUS
  <2> QED
    BY <2>1, RecIn
<1>3. r.i = j /\ r.x = <<>> /\ r = [i |-> c.i, id |-> c.b.id, name |-> c.b.name, x |-> <<>>]
    BY DEF CallRec
<1>4. [r EXCEPT !.x = @ \o <<>>] = r
  <2>1. <<>> \o <<>> = <<>>
    OBVIOUS
  <2> QED
    BY <2>1 DEF CallRec
<1>5. ~Has(pre, j)
    BY <1>1 DEF Has
<1> HIDE DEF r
<1>6. /\ s \in Seq(CallRecs(a)) /\ Len(s) = Len(pre) + 1 /\ s[Len(pre) + 1] = r
      /\ \A k \in 1 .. Len(pre) : s[k] = pre[k]
      /\ s = pre \o <<r>>
    BY <1>2, AppendProperties, AppendIsConcat
<1> HIDE DEF s
<1>7. DOMAIN s = 1 .. Len(pre) + 1
    BY <1>6, LenProperties
<1>8. Position(s, j) = Len(pre) + 1
  <2>1. \A k \in DOMAIN s : s[k].i = j <=> k = Len(pre) + 1
    BY <1>1, <1>3, <1>6, <1>7
  <2>2. Len(pre) + 1 \in DOMAIN s
    BY <1>1, <1>7
  <2> QED
    BY <2>1, <2>2 DEF Position
<1>9. Added(pre, c) = [s EXCEPT ![Position(s, j)].x = @ \o <<>>]
    BY <1>3, <1>5 DEF Added, s
<1>10. [s EXCEPT ![Len(pre) + 1] = [r EXCEPT !.x = @ \o <<>>]] = s
  <2>1. s = [k \in DOMAIN s |-> s[k]]
    BY <1>6, LenProperties
  <2> QED
    BY <1>4, <1>6, <2>1
<1>11. Added(pre, c) = s
    BY <1>6, <1>8, <1>9, <1>10
<1> QED
    BY <1>5, <1>6, <1>8, <1>11 DEF r

\* A fragment comes in: it is added to the call that is open.
LEMMA AddedMore ==
    ASSUME NEW a \in ProviderAnswers, NEW j \in DOMAIN a.blocks,
           NEW pre \in Seq(CallRecs(a)), \A k \in 1 .. Len(pre) : pre[k].i # j,
           NEW y \in Seq(Words(a)), NEW w \in Words(a), NEW c, c.i = j, c.x = <<w>>
    PROVE  LET s == pre \o <<CallRec(a, j, y)>>
           IN  /\ Has(s, j) /\ Position(s, j) = Len(pre) + 1
               /\ Added(s, c) = pre \o <<CallRec(a, j, y \o <<w>>)>>
               /\ Position(Added(s, c), j) = Len(pre) + 1
<1> DEFINE r == CallRec(a, j, y)
           v == CallRec(a, j, y \o <<w>>)
           s == pre \o <<r>>
           t == pre \o <<v>>
<1>1. Len(pre) \in Nat /\ DOMAIN pre = 1 .. Len(pre)
    BY LenProperties
<1>2. r \in CallRecs(a) /\ v \in CallRecs(a)
  <2>1. y \o <<w>> \in Seq(Words(a))
    OBVIOUS
  <2> QED
    BY <2>1, RecIn
<1>3. r.i = j /\ v.i = j /\ [r EXCEPT !.x = @ \o <<w>>] = v
  <2> DEFINE z == y \o <<w>>
  <2>1. [r EXCEPT !.x = z] = CallRec(a, j, z)
    <3> HIDE DEF z
    <3> QED
      BY DEF CallRec
  <2>2. r.x = y /\ r.i = j /\ v.i = j
    BY DEF CallRec
  <2> HIDE DEF r
  <2>3. [r EXCEPT !.x = @ \o <<w>>] = [r EXCEPT !.x = z]
    BY <2>2
  <2> QED
    BY <2>1, <2>2, <2>3
<1> HIDE DEF r, v
<1>4. /\ s \in Seq(CallRecs(a)) /\ Len(s) = Len(pre) + 1 /\ s[Len(pre) + 1] = r
      /\ \A k \in 1 .. Len(pre) : s[k] = pre[k]
    BY <1>2, AppendProperties, AppendIsConcat
<1>5. /\ t \in Seq(CallRecs(a)) /\ Len(t) = Len(pre) + 1 /\ t[Len(pre) + 1] = v
      /\ \A k \in 1 .. Len(pre) : t[k] = pre[k]
    BY <1>2, AppendProperties, AppendIsConcat
<1> HIDE DEF s, t
<1>6. DOMAIN s = 1 .. Len(pre) + 1 /\ DOMAIN t = 1 .. Len(pre) + 1
    BY <1>4, <1>5, LenProperties
<1>12. \A k \in 1 .. Len(pre) + 1 : k = Len(pre) + 1 \/ k \in 1 .. Len(pre)
    BY <1>1
<1>13. Len(pre) + 1 \in 1 .. Len(pre) + 1 /\ Len(pre) + 1 \notin 1 .. Len(pre)
    BY <1>1
<1>7. /\ \A k \in DOMAIN s : s[k].i = j <=> k = Len(pre) + 1
      /\ \A k \in DOMAIN t : t[k].i = j <=> k = Len(pre) + 1
      /\ Len(pre) + 1 \in DOMAIN s /\ Len(pre) + 1 \in DOMAIN t
  <2>1. \A k \in DOMAIN s : s[k].i = j <=> k = Len(pre) + 1
    BY <1>3, <1>4, <1>6, <1>12
  <2>2. \A k \in DOMAIN t : t[k].i = j <=> k = Len(pre) + 1
    BY <1>3, <1>5, <1>6, <1>12
  <2> QED
    BY <1>6, <1>13, <2>1, <2>2
<1>8. Has(s, j) /\ Position(s, j) = Len(pre) + 1 /\ Position(t, j) = Len(pre) + 1
    BY <1>7 DEF Has, Position
<1>9. Added(s, c) = [s EXCEPT ![Position(s, j)].x = @ \o <<w>>]
    BY <1>8 DEF Added
<1>10. [s EXCEPT ![Len(pre) + 1] = v] = t
  <2> DEFINE u == [s EXCEPT ![Len(pre) + 1] = v]
  <2>1. u \in Seq(CallRecs(a)) /\ Len(u) = Len(s) /\ \A k \in 1 .. Len(s) : u[k] = IF k = Len(pre) + 1 THEN v ELSE s[k]
    <3>1. Len(pre) + 1 \in 1 .. Len(s)
      BY <1>1, <1>4
    <3> QED
      BY <1>2, <1>4, <3>1, ExceptSeq
  <2> HIDE DEF u
  <2>2. \A k \in 1 .. Len(u) : u[k] = t[k]
    BY <1>4, <1>5, <1>12, <1>13, <2>1
  <2>3. u = t
    BY <1>4, <1>5, <2>1, <2>2, SeqEqual
  <2> QED
    BY <2>3 DEF u
<1>11. Added(s, c) = t
    BY <1>3, <1>4, <1>8, <1>9, <1>10
<1> QED
    BY <1>8, <1>11 DEF s, t, r, v

-----------------------------------------------------------------------------
(* One event read: what the chat stream has then, and what the chunk is to *)
(* the Responses emulation.                                                *)

\* The stream's fields, put together.
ChatWhole(h) == h = [text |-> h.text, calls |-> h.calls, finish |-> h.finish, usage |-> h.usage]

\* h has what there is at a spot.
ToldBy(a, h, j, n) == h.text = TextAt(a, j, n) /\ h.calls = CallsAt(a, j, n) /\ h.finish = "none"

\* The chunk opens a call, or goes on with the last one.
OpensNext(a, calls, c) ==
    \E j \in DOMAIN a.blocks :
        /\ c.i = j /\ c.x = <<>> /\ ~Has(calls, j)
        /\ Added(calls, c) = calls \o <<CallRec(a, j, <<>>)>>
        /\ Position(Added(calls, c), j) = Len(calls) + 1

GoesOn(a, calls, c) ==
    \E j \in DOMAIN a.blocks : \E pre \in Seq(CallRecs(a)) : \E y \in Seq(Words(a)) : \E w \in Words(a) :
        /\ c.i = j /\ c.x = <<w>> /\ Has(calls, j)
        /\ calls = pre \o <<CallRec(a, j, y)>>
        /\ Added(calls, c) = pre \o <<CallRec(a, j, y \o <<w>>)>>
        /\ Position(Added(calls, c), j) = Len(pre) + 1

Fits(a, calls, c) ==
    \/ c.k \in {"none", "finish", "error"}
    \/ c.k = "content" /\ c.x \in Seq(Words(a))
    \/ c.k = "call" /\ (OpensNext(a, calls, c) \/ GoesOn(a, calls, c))

\* One fragment more at a spot.
LEMMA OneMore ==
    ASSUME NEW a \in ProviderAnswers, NEW j \in DOMAIN a.blocks, NEW n \in Nat, n < Size(a, j)
    PROVE  LET b == a.blocks[j]
               w == b.x[n + 1]
               pre == Part(CallParts(a), j - 1)
               y == SubSeq(b.x, 1, n)
           IN  /\ w \in Words(a) /\ pre \in Seq(CallRecs(a)) /\ y \in Seq(Words(a))
               /\ \A k \in 1 .. Len(pre) : pre[k].i # j
               /\ TextAt(a, j, n + 1) = IF IsText(a, b) THEN TextAt(a, j, n) \o <<w>> ELSE TextAt(a, j, n)
               /\ CallsAt(a, j, n) = IF IsCall(a, b) THEN pre \o <<CallRec(a, j, y)>> ELSE pre
               /\ CallsAt(a, j, n + 1) = IF IsCall(a, b) THEN pre \o <<CallRec(a, j, y \o <<w>>)>> ELSE pre
<1> DEFINE b == a.blocks[j]
           x == b.x
           w == x[n + 1]
           pre == Part(CallParts(a), j - 1)
           txt == Part(TextParts(a), j - 1)
           y == SubSeq(x, 1, n)
           z == SubSeq(x, 1, n + 1)
<1>1. j \in 1 .. Len(a.blocks) /\ j # 0 /\ j - 1 \in 0 .. Len(a.blocks) /\ Len(x) \in Nat /\ n < Len(x)
    BY AnswerShape DEF Size
<1>2. w \in Words(a) /\ z = y \o <<w>> /\ y \in Seq(Words(a))
  <2>1. n \in 0 .. Len(x)
    BY <1>1
  <2> QED
    BY <1>1, <2>1, Fragments
<1>3. pre \in Seq(CallRecs(a)) /\ txt \in Seq(Words(a))
    BY <1>1, SpotParts
<1>4. \A k \in 1 .. Len(pre) : pre[k].i # j
  <2>1. \A k \in 1 .. Len(pre) : pre[k].i \in 1 .. j - 1
    BY <1>1, PassedCalls
  <2>2. j \notin 1 .. j - 1
    BY <1>1
  <2> QED
    BY <2>1, <2>2
<1>5. /\ TextAt(a, j, n) = txt \o (IF IsText(a, b) THEN y ELSE <<>>)
      /\ TextAt(a, j, n + 1) = txt \o (IF IsText(a, b) THEN z ELSE <<>>)
      /\ CallsAt(a, j, n) = pre \o (IF IsCall(a, b) THEN <<CallRec(a, j, y)>> ELSE <<>>)
      /\ CallsAt(a, j, n + 1) = pre \o (IF IsCall(a, b) THEN <<CallRec(a, j, z)>> ELSE <<>>)
    BY <1>1 DEF TextAt, TextOf, CallsAt, CallOf
<1> HIDE DEF b, x, w, pre, txt, y, z
<1>6. /\ txt \o (y \o <<w>>) = (txt \o y) \o <<w>>
      /\ pre \o <<>> = pre /\ txt \o <<>> = txt
  <2>1. <<w>> \in Seq(Words(a))
    BY <1>2
  <2> QED
    BY <1>2, <1>3, <2>1, ConcatAssociative, ConcatEmptySeq
<1>7. TextAt(a, j, n + 1) = IF IsText(a, b) THEN TextAt(a, j, n) \o <<w>> ELSE TextAt(a, j, n)
    BY <1>2, <1>5, <1>6
<1>8. /\ CallsAt(a, j, n) = IF IsCall(a, b) THEN pre \o <<CallRec(a, j, y)>> ELSE pre
      /\ CallsAt(a, j, n + 1) = IF IsCall(a, b) THEN pre \o <<CallRec(a, j, y \o <<w>>)>> ELSE pre
    BY <1>2, <1>5, <1>6
<1> QED
    BY <1>2, <1>3, <1>4, <1>7, <1>8 DEF b, x, w, pre, y

\* A block is opened.
LEMMA ReadsOpen ==
    ASSUME answer \in ProviderAnswers, ChatWhole(chat),
           NEW j \in DOMAIN answer.blocks, NEW e, e = OpenEvent(answer, j),
           ToldBy(answer, chat, j - 1, Size(answer, j - 1))
    PROVE  /\ Delta(e).k # "error" => ToldBy(answer, Read(Delta(e)), j, 0)
           /\ Delta(e).k = "error" => Read(Delta(e)) = chat
           /\ Fits(answer, chat.calls, Delta(e))
           /\ Delta(e).k # "finish"
<1> DEFINE a == answer
           b == a.blocks[j]
           c == Delta(e)
           pre == Part(CallParts(a), j - 1)
           txt == Part(TextParts(a), j - 1)
<1>1. j \in 1 .. Len(a.blocks) /\ j # 0 /\ j - 1 \in 0 .. Len(a.blocks)
    BY AnswerShape
<1>2. pre \in Seq(CallRecs(a)) /\ txt \in Seq(Words(a)) /\ \A k \in 1 .. Len(pre) : pre[k].i # j
  <2>1. \A k \in 1 .. Len(pre) : pre[k].i \in 1 .. j - 1
    BY <1>1, PassedCalls
  <2>2. j \notin 1 .. j - 1
    BY <1>1
  <2>3. pre \in Seq(CallRecs(a)) /\ txt \in Seq(Words(a))
    BY <1>1, SpotParts
  <2> QED
    BY <2>1, <2>2, <2>3
<1>3. chat.calls = pre /\ chat.text = txt /\ chat.finish = "none"
    BY <1>1, SpotParts DEF ToldBy
<1>4. /\ TextAt(a, j, 0) = txt
      /\ CallsAt(a, j, 0) = IF IsCall(a, b) THEN pre \o <<CallRec(a, j, <<>>)>> ELSE pre
  <2>1. SubSeq(b.x, 1, 0) = <<>>
    BY Fragments
  <2>2. pre \o <<>> = pre /\ txt \o <<>> = txt
    BY <1>2, ConcatEmptySeq
  <2> HIDE DEF pre, txt
  <2>3. TextAt(a, j, 0) = txt \o <<>>
    BY <1>1, <2>1 DEF TextAt, TextOf, txt
  <2>4. CallsAt(a, j, 0) = pre \o (IF IsCall(a, b) THEN <<CallRec(a, j, <<>>)>> ELSE <<>>)
    BY <1>1, <2>1 DEF CallsAt, CallOf, pre
  <2> QED
    BY <2>2, <2>3, <2>4
<1>5. e.t = "open" /\ e.i = j /\ e.b = b /\ e.x = <<>>
    BY DEF OpenEvent, Event
<1>6. a.provider \in {"anthropic", "bedrock", "vertex"}
    BY AnswerShape
<1> HIDE DEF pre, txt, b
<1>7. CASE IsCall(a, b)
  <2>1. c = Chunk("call", j, b, <<>>, "none")
    BY <1>5, <1>7 DEF Delta, anthropic_event_to_delta, OpensCall, IsCall
  <2>2. c.k = "call" /\ c.i = j /\ c.b = a.blocks[j] /\ c.x = <<>>
    BY <2>1 DEF Chunk, b
  <2> HIDE DEF c
  <2>3. /\ ~Has(pre, j) /\ Added(pre, c) = pre \o <<CallRec(a, j, <<>>)>>
        /\ Position(Added(pre, c), j) = Len(pre) + 1
    BY <1>2, <2>2, AddedOpen
  <2>4. Read(c) = [chat EXCEPT !.calls = pre \o <<CallRec(a, j, <<>>)>>]
    BY <1>3, <2>2, <2>3 DEF Read
  <2>5. ToldBy(a, Read(c), j, 0)
    <3> DEFINE v == pre \o <<CallRec(a, j, <<>>)>>
    <3>1. CallsAt(a, j, 0) = v /\ Read(c) = [chat EXCEPT !.calls = v]
      BY <1>4, <1>7, <2>4
    <3> HIDE DEF v
    <3>2. [chat EXCEPT !.calls = v].calls = v /\ [chat EXCEPT !.calls = v].text = chat.text
          /\ [chat EXCEPT !.calls = v].finish = chat.finish
      BY DEF ChatWhole
    <3> QED
      BY <1>3, <1>4, <3>1, <3>2 DEF ToldBy
  <2>6. OpensNext(a, chat.calls, c)
    BY <1>3, <2>2, <2>3 DEF OpensNext
  <2> QED
    BY <2>2, <2>5, <2>6 DEF c, Fits
<1>8. CASE ~IsCall(a, b)
  <2>1. c \in {NoChunk, Bad}
    <3>1. CASE a.provider = "anthropic"
      BY <1>5, <1>8, <3>1 DEF Delta, anthropic_event_to_delta, OpensCall, IsCall
    <3>2. CASE a.provider = "bedrock"
      BY <1>5, <3>2 DEF Delta, converse_event_to_delta
    <3>3. CASE a.provider = "vertex"
      BY <1>5, <3>3 DEF Delta, gemini_chunk_to_delta
    <3> QED
      BY <1>6, <3>1, <3>2, <3>3
  <2>2. c.k \in {"none", "error"}
    BY <2>1 DEF NoChunk, Bad, Chunk
  <2> HIDE DEF c
  <2>3. Read(c) = chat
    BY <2>2 DEF Read
  <2>4. ToldBy(a, chat, j, 0)
    BY <1>3, <1>4, <1>8 DEF ToldBy
  <2> QED
    BY <2>2, <2>3, <2>4 DEF c, Fits
<1> QED
    BY <1>7, <1>8

\* A fragment of a block.
LEMMA ReadsFragment ==
    ASSUME answer \in ProviderAnswers, ChatWhole(chat),
           NEW j \in DOMAIN answer.blocks, NEW n \in Nat, n < Size(answer, j),
           NEW e, e = FragmentEvent(answer, j, n + 1),
           ToldBy(answer, chat, j, n)
    PROVE  /\ Delta(e).k # "error" => ToldBy(answer, Read(Delta(e)), j, n + 1)
           /\ Delta(e).k = "error" => Read(Delta(e)) = chat
           /\ Fits(answer, chat.calls, Delta(e))
           /\ Delta(e).k # "finish"
<1> DEFINE a == answer
           b == a.blocks[j]
           c == Delta(e)
           w == b.x[n + 1]
           pre == Part(CallParts(a), j - 1)
           y == SubSeq(b.x, 1, n)
<1>1. /\ w \in Words(a) /\ pre \in Seq(CallRecs(a)) /\ y \in Seq(Words(a))
      /\ \A k \in 1 .. Len(pre) : pre[k].i # j
      /\ TextAt(a, j, n + 1) = IF IsText(a, b) THEN TextAt(a, j, n) \o <<w>> ELSE TextAt(a, j, n)
      /\ CallsAt(a, j, n) = IF IsCall(a, b) THEN pre \o <<CallRec(a, j, y)>> ELSE pre
      /\ CallsAt(a, j, n + 1) = IF IsCall(a, b) THEN pre \o <<CallRec(a, j, y \o <<w>>)>> ELSE pre
    BY OneMore
<1>2. e.t = "fragment" /\ e.i = j /\ e.b = b /\ e.x = <<w>>
    BY DEF FragmentEvent, Event
<1>3. a.provider \in {"anthropic", "bedrock", "vertex"}
    BY AnswerShape
<1>4. chat.text = TextAt(a, j, n) /\ chat.calls = CallsAt(a, j, n) /\ chat.finish = "none"
    BY DEF ToldBy
<1> HIDE DEF pre, y, w
<1>5. ~(IsCall(a, b) /\ IsText(a, b))
    BY DEF IsCall, IsText
<1>6. CASE IsCall(a, b)
  <2>1. chat.calls = pre \o <<CallRec(a, j, y)>>
    BY <1>1, <1>4, <1>6
  <2>2. Has(chat.calls, j)
    <3> DEFINE q == [i |-> j, x |-> <<w>>]
    <3>1. q.i = j /\ q.x = <<w>>
      OBVIOUS
    <3> HIDE DEF q
    <3>2. Has(pre \o <<CallRec(a, j, y)>>, j)
      BY <1>1, <3>1, AddedMore
    <3> QED
      BY <2>1, <3>2
  <2>3. j \in Opened
    BY <2>2 DEF Has, Opened
  <2>4. c = Chunk("call", j, b, <<w>>, "none")
    <3>1. a.provider = "anthropic" /\ b.kind = "tool"
      BY <1>6 DEF IsCall
    <3> HIDE DEF b
    <3> QED
      BY <1>2, <2>3, <3>1 DEF Delta, anthropic_event_to_delta
  <2>5. c.k = "call" /\ c.i = j /\ c.x = <<w>>
    BY <2>4 DEF Chunk
  <2> HIDE DEF c, b
  <2>6. /\ Added(chat.calls, c) = pre \o <<CallRec(a, j, y \o <<w>>)>>
        /\ Position(Added(chat.calls, c), j) = Len(pre) + 1
    <3> DEFINE s == pre \o <<CallRec(a, j, y)>>
    <3>3. ASSUME NEW q, q.i = j, q.x = <<w>>
          PROVE  /\ Added(s, q) = pre \o <<CallRec(a, j, y \o <<w>>)>>
                 /\ Position(Added(s, q), j) = Len(pre) + 1
      BY <1>1, <3>3, AddedMore
    <3>1. /\ Added(s, c) = pre \o <<CallRec(a, j, y \o <<w>>)>>
          /\ Position(Added(s, c), j) = Len(pre) + 1
      BY <2>5, <3>3
    <3> HIDE DEF s
    <3>2. chat.calls = s
      BY <2>1 DEF s
    <3> QED
      BY <3>1, <3>2
  <2>7. ToldBy(a, Read(c), j, n + 1)
    <3> DEFINE v == pre \o <<CallRec(a, j, y \o <<w>>)>>
    <3>1. CallsAt(a, j, n + 1) = v /\ Added(chat.calls, c) = v /\ TextAt(a, j, n + 1) = TextAt(a, j, n)
      BY <1>1, <1>5, <1>6, <2>6
    <3> HIDE DEF v
    <3>3. Read(c) = [chat EXCEPT !.calls = v]
      BY <2>5, <3>1 DEF Read
    <3>2. [chat EXCEPT !.calls = v].calls = v /\ [chat EXCEPT !.calls = v].text = chat.text
          /\ [chat EXCEPT !.calls = v].finish = chat.finish
      BY DEF ChatWhole
    <3> QED
      BY <1>4, <3>1, <3>2, <3>3 DEF ToldBy
  <2>8. GoesOn(a, chat.calls, c)
    BY <1>1, <2>1, <2>2, <2>5, <2>6 DEF GoesOn
  <2> QED
    BY <2>5, <2>7, <2>8 DEF c, Fits
<1>7. CASE ~IsCall(a, b)
  <2>1. chat.calls = pre /\ CallsAt(a, j, n + 1) = pre
    BY <1>1, <1>4, <1>7
  <2>2. j \notin Opened
    <3>1. DOMAIN pre = 1 .. Len(pre)
      BY <1>1, LenProperties
    <3> QED
      BY <1>1, <2>1, <3>1 DEF Opened
  <2>3. \/ c = Chunk("content", j, b, <<w>>, "none") /\ IsText(a, b)
        \/ c = NoChunk /\ ~IsText(a, b)
        \/ c = Bad
    <3> HIDE DEF b
    <3>1. CASE a.provider = "anthropic"
      <4>1. CASE b.kind = "text"
        BY <1>2, <3>1, <4>1 DEF Delta, anthropic_event_to_delta, IsText
      <4>2. CASE b.kind = "tool"
        BY <1>2, <1>7, <2>2, <3>1, <4>2 DEF Delta, anthropic_event_to_delta, IsText, IsCall
      <4>3. CASE b.kind \notin {"text", "tool"}
        BY <1>2, <3>1, <4>3 DEF Delta, anthropic_event_to_delta, IsText
      <4> QED
        BY <4>1, <4>2, <4>3
    <3>2. CASE a.provider = "bedrock"
      BY <1>2, <3>2 DEF Delta, converse_event_to_delta, IsText
    <3>3. CASE a.provider = "vertex"
      BY <1>2, <3>3 DEF Delta, gemini_chunk_to_delta, IsText
    <3> QED
      BY <1>3, <3>1, <3>2, <3>3
  <2>4. CASE c = Chunk("content", j, b, <<w>>, "none") /\ IsText(a, b)
    <3>1. c.k = "content" /\ c.x = <<w>> /\ <<w>> \in Seq(Words(a))
      BY <1>1, <2>4 DEF Chunk
    <3> HIDE DEF c, b
    <3> DEFINE v == chat.text \o <<w>>
    <3>2. Read(c) = [chat EXCEPT !.text = v] /\ TextAt(a, j, n + 1) = v
      BY <1>1, <1>4, <2>4, <3>1 DEF Read
    <3> HIDE DEF v
    <3>3. [chat EXCEPT !.text = v].text = v /\ [chat EXCEPT !.text = v].calls = chat.calls
          /\ [chat EXCEPT !.text = v].finish = chat.finish
      BY DEF ChatWhole
    <3>4. ToldBy(a, Read(c), j, n + 1)
      BY <1>4, <2>1, <3>2, <3>3 DEF ToldBy
    <3> QED
      BY <3>1, <3>4 DEF c, Fits
  <2>5. CASE c \in {NoChunk, Bad} /\ (c = NoChunk => ~IsText(a, b))
    <3>1. c.k \in {"none", "error"} /\ (c.k = "none" => ~IsText(a, b))
      BY <2>5 DEF NoChunk, Bad, Chunk
    <3> HIDE DEF c, b
    <3>2. Read(c) = chat
      BY <3>1 DEF Read
    <3>3. c.k # "error" => ToldBy(a, chat, j, n + 1)
      BY <1>1, <1>4, <2>1, <3>1 DEF ToldBy
    <3> QED
      BY <3>1, <3>2, <3>3 DEF c, Fits
  <2> QED
    BY <2>3, <2>4, <2>5 DEF NoChunk, Bad, Chunk
<1> QED
    BY <1>6, <1>7

\* The finish reason that ends a stream.
FinishOf(a, calls) ==
    IF a.provider = "anthropic" /\ calls # <<>> THEN "tool_calls" ELSE _FINISH_REASON(a.stop)

\* The stop, and events that say nothing.
LEMMA ReadsStop ==
    ASSUME answer \in ProviderAnswers, ChatWhole(chat), DOMAIN chat.calls = 1 .. Len(chat.calls),
           Len(chat.calls) \in Nat, NEW e, e = StopEvent(answer)
    PROVE  /\ Delta(e).k # "error" => Read(Delta(e)) = [chat EXCEPT !.finish = FinishOf(answer, chat.calls)]
           /\ Delta(e).k = "error" => Read(Delta(e)) = chat
           /\ Delta(e).k \in {"finish", "error"}
<1> DEFINE a == answer
           c == Delta(e)
           f == FinishOf(a, chat.calls)
<1>1. e.t = "stop" /\ e.stop = a.stop
    BY DEF StopEvent, Event
<1>2. a.provider \in {"anthropic", "bedrock", "vertex"}
    BY AnswerShape
<1>3. Opened # {} <=> chat.calls # <<>>
  <2>1. chat.calls # <<>> => 1 \in DOMAIN chat.calls
    <3>1. chat.calls # <<>> => Len(chat.calls) # 0
      BY DEF ChatWhole
    <3> QED
      BY <3>1
  <2>2. chat.calls = <<>> => DOMAIN chat.calls = {}
    OBVIOUS
  <2> QED
    BY <2>1, <2>2 DEF Opened
<1>4. c = Bad \/ c = Chunk("finish", 0, NoBlock, <<>>, f)
  <2>1. CASE a.provider = "anthropic"
    BY <1>1, <1>3, <2>1 DEF Delta, anthropic_event_to_delta, FinishOf
  <2>2. CASE a.provider = "bedrock"
    BY <1>1, <2>2 DEF Delta, converse_event_to_delta, FinishOf
  <2>3. CASE a.provider = "vertex"
    BY <1>1, <2>3 DEF Delta, gemini_chunk_to_delta, FinishOf
  <2> QED
    BY <1>2, <2>1, <2>2, <2>3
<1>5. c.k = "error" \/ (c.k = "finish" /\ c.finish = f)
    BY <1>4 DEF Bad, NoChunk, Chunk
<1> HIDE DEF c, f
<1>6. /\ c.k = "error" => Read(c) = chat
      /\ c.k = "finish" => Read(c) = [chat EXCEPT !.finish = f]
    BY <1>5 DEF Read
<1> QED
    BY <1>5, <1>6 DEF c, f

-----------------------------------------------------------------------------
(* What the Responses emulation has sent.                                  *)

Messages(a) == [t : {"text", "added", "args", "done"}, n : Nat, x : Seq(Words(a))]

AddedIn(s, k) == {j \in 1 .. k : s[j].t = "added"}

ArgsParts(s, n) == [k \in DOMAIN s |-> IF s[k].t = "args" /\ s[k].n = n THEN s[k].x ELSE <<>>]

ArgsIn(s, n) == FlattenSeq(ArgsParts(s, n))

\* The messages of a stream that is not over, and the calls they told of.
Announced(a, s, calls) ==
    /\ s \in Seq(Messages(a)) /\ calls \in Seq(CallRecs(a))
    /\ \A k \in 1 .. Len(s) : s[k].t # "done"
    /\ Cardinality(AddedIn(s, Len(s))) = Len(calls)
    /\ \A k \in 1 .. Len(s) : s[k].t = "added" => s[k].n = Cardinality(AddedIn(s, k))
    /\ \A k \in 1 .. Len(s) : s[k].t = "args" => \E j \in 1 .. k : s[j].t = "added" /\ s[j].n = s[k].n
    /\ \A m \in 1 .. Len(calls) : \E j \in 1 .. Len(s) : s[j].t = "added" /\ s[j].n = m
    /\ \A m \in 1 .. Len(calls) : ArgsIn(s, m) = calls[m].x
    /\ \A m \in Nat : m > Len(calls) => ArgsIn(s, m) = <<>>

\* The calls announced so far can be counted.
LEMMA AddedFinite ==
    ASSUME NEW s, NEW k \in Nat
    PROVE  IsFiniteSet(AddedIn(s, k)) /\ Cardinality(AddedIn(s, k)) \in Nat
<1>1. IsFiniteSet(1 .. k)
    BY FS_Interval
<1>2. AddedIn(s, k) \subseteq 1 .. k
    BY DEF AddedIn
<1> QED
    BY <1>1, <1>2, FS_Subset, FS_CardinalityType

\* The fragments sent under an index, message by message.
LEMMA ArgsShape ==
    ASSUME NEW a, NEW s \in Seq(Messages(a)), NEW n
    PROVE  ArgsParts(s, n) \in Seq(Seq(Words(a))) /\ Len(ArgsParts(s, n)) = Len(s)
<1>1. Len(s) \in Nat /\ DOMAIN s = 1 .. Len(s) /\ \A k \in 1 .. Len(s) : s[k] \in Messages(a)
    BY LenProperties, ElementOfSeq
<1>2. \A k \in 1 .. Len(s) : ArgsParts(s, n)[k] \in Seq(Words(a))
  <2>1. <<>> \in Seq(Words(a))
    OBVIOUS
  <2>2. \A k \in 1 .. Len(s) : s[k].x \in Seq(Words(a))
    BY <1>1 DEF Messages
  <2> QED
    BY <1>1, <2>1, <2>2 DEF ArgsParts
<1>3. ArgsParts(s, n) = [k \in 1 .. Len(s) |-> ArgsParts(s, n)[k]]
    BY <1>1 DEF ArgsParts
<1> QED
    BY <1>1, <1>2, <1>3

\* One message more.
LEMMA SentMore ==
    ASSUME NEW a, NEW s \in Seq(Messages(a)), NEW m \in Messages(a)
    PROVE  LET t == Append(s, m)
           IN  /\ t \in Seq(Messages(a)) /\ Len(t) = Len(s) + 1 /\ t[Len(s) + 1] = m
               /\ Len(s) \in Nat
               /\ \A k \in 1 .. Len(s) : t[k] = s[k]
               /\ \A k \in 0 .. Len(s) : AddedIn(t, k) = AddedIn(s, k)
               /\ Cardinality(AddedIn(t, Len(s) + 1)) =
                    Cardinality(AddedIn(s, Len(s))) + IF m.t = "added" THEN 1 ELSE 0
               /\ \A n : ArgsIn(t, n) = IF m.t = "args" /\ m.n = n THEN ArgsIn(s, n) \o m.x ELSE ArgsIn(s, n)
<1> DEFINE t == Append(s, m)
<1>1. /\ t \in Seq(Messages(a)) /\ Len(t) = Len(s) + 1 /\ t[Len(s) + 1] = m
      /\ \A k \in 1 .. Len(s) : t[k] = s[k]
      /\ Len(s) \in Nat
    BY AppendProperties, LenProperties
<1> HIDE DEF t
<1>2. \A k \in 0 .. Len(s) : AddedIn(t, k) = AddedIn(s, k)
  <2> SUFFICES ASSUME NEW k \in 0 .. Len(s) PROVE AddedIn(t, k) = AddedIn(s, k)
    OBVIOUS
  <2>1. \A j \in 1 .. k : t[j] = s[j]
    BY <1>1
  <2> QED
    BY <2>1 DEF AddedIn
<1>3. Cardinality(AddedIn(t, Len(s) + 1)) =
        Cardinality(AddedIn(s, Len(s))) + IF m.t = "added" THEN 1 ELSE 0
  <2> DEFINE N == Len(s)
             A == AddedIn(s, N)
  <2>1. 1 .. N + 1 = (1 .. N) \cup {N + 1} /\ N + 1 \notin 1 .. N /\ N \in 0 .. N
    BY <1>1
  <2>2. AddedIn(t, N + 1) = AddedIn(t, N) \cup (IF m.t = "added" THEN {N + 1} ELSE {})
    BY <1>1, <2>1 DEF AddedIn
  <2>3. AddedIn(t, N) = A /\ N + 1 \notin A
    BY <1>2, <2>1 DEF AddedIn
  <2>4. IsFiniteSet(A) /\ Cardinality(A) \in Nat
    BY <1>1, AddedFinite
  <2> HIDE DEF A, N
  <2>5. CASE m.t = "added"
    <3>1. Cardinality(A \cup {N + 1}) = Cardinality(A) + 1
      BY <2>3, <2>4, FS_AddElement
    <3> QED
      BY <2>2, <2>3, <2>5, <3>1 DEF A, N
  <2>6. CASE m.t # "added"
    <3>1. AddedIn(t, N + 1) = A
      BY <2>2, <2>3, <2>6
    <3>2. Cardinality(A) + 0 = Cardinality(A)
      BY <2>4
    <3> QED
      BY <2>6, <3>1, <3>2 DEF A, N
  <2> QED
    BY <2>5, <2>6
<1>4. ASSUME NEW n
      PROVE  ArgsIn(t, n) = IF m.t = "args" /\ m.n = n THEN ArgsIn(s, n) \o m.x ELSE ArgsIn(s, n)
  <2> DEFINE ss == ArgsParts(s, n)
             tt == ArgsParts(t, n)
  <2>1. ss \in Seq(Seq(Words(a))) /\ tt \in Seq(Seq(Words(a))) /\ Len(ss) = Len(s) /\ Len(tt) = Len(ss) + 1
    BY <1>1, ArgsShape
  <2>2. DOMAIN s = 1 .. Len(s) /\ DOMAIN t = 1 .. Len(s) + 1 /\ Len(s) + 1 \in 1 .. Len(s) + 1
    BY <1>1, LenProperties
  <2>3. \A i \in 1 .. Len(ss) : tt[i] = ss[i]
    <3>1. \A i \in 1 .. Len(s) : i \in DOMAIN s /\ i \in DOMAIN t /\ t[i] = s[i]
      BY <1>1, <2>2
    <3> QED
      BY <2>1, <3>1 DEF ArgsParts
  <2>4. tt[Len(tt)] = IF m.t = "args" /\ m.n = n THEN m.x ELSE <<>>
    <3>1. Len(tt) = Len(s) + 1 /\ Len(s) + 1 \in DOMAIN t /\ t[Len(s) + 1] = m
      BY <1>1, <2>1, <2>2
    <3>2. tt[Len(s) + 1] = IF m.t = "args" /\ m.n = n THEN m.x ELSE <<>>
      BY <3>1 DEF ArgsParts
    <3> QED
      BY <3>1, <3>2
  <2> HIDE DEF ss, tt
  <2>5. FlattenSeq(tt) = FlattenSeq(ss) \o tt[Len(tt)]
    BY <2>1, <2>3, FlattenLonger
  <2>6. FlattenSeq(ss) \o <<>> = FlattenSeq(ss)
    <3>1. Len(ss) \in 0 .. Len(ss)
      BY <1>1, <2>1
    <3>2. FlattenSeq(ss) \in Seq(Words(a))
      BY <2>1, <3>1, FlattenIsPart, PartSteps
    <3> QED
      BY <3>2, ConcatEmptySeq
  <2> QED
    BY <2>4, <2>5, <2>6 DEF ArgsIn, ss, tt
<1> QED
    BY <1>1, <1>2, <1>3, <1>4 DEF t

\* What stays true of a longer sequence, whatever the last message is.
LEMMA KeptAnnounced ==
    ASSUME NEW a, NEW s, NEW calls, Announced(a, s, calls), NEW m \in Messages(a), m.t # "done",
           m.t = "added" => m.n = Len(calls) + 1,
           m.t = "args" => m.n \in 1 .. Len(calls)
    PROVE  LET t == Append(s, m)
           IN  /\ t \in Seq(Messages(a))
               /\ \A k \in 1 .. Len(t) : t[k].t # "done"
               /\ Cardinality(AddedIn(t, Len(t))) = Len(calls) + IF m.t = "added" THEN 1 ELSE 0
               /\ \A k \in 1 .. Len(t) : t[k].t = "added" => t[k].n = Cardinality(AddedIn(t, k))
               /\ \A k \in 1 .. Len(t) : t[k].t = "args" => \E j \in 1 .. k : t[j].t = "added" /\ t[j].n = t[k].n
               /\ \A n \in 1 .. Len(calls) : \E j \in 1 .. Len(t) : t[j].t = "added" /\ t[j].n = n
               /\ m.t = "added" => \E j \in 1 .. Len(t) : t[j].t = "added" /\ t[j].n = Len(calls) + 1
<1> DEFINE t == Append(s, m)
           N == Len(s)
<1>1. s \in Seq(Messages(a)) /\ calls \in Seq(CallRecs(a)) /\ Len(calls) \in Nat
    BY LenProperties DEF Announced
<1>2. /\ t \in Seq(Messages(a)) /\ Len(t) = N + 1 /\ t[N + 1] = m /\ N \in Nat
      /\ \A k \in 1 .. N : t[k] = s[k]
      /\ \A k \in 0 .. N : AddedIn(t, k) = AddedIn(s, k)
      /\ Cardinality(AddedIn(t, N + 1)) = Cardinality(AddedIn(s, N)) + IF m.t = "added" THEN 1 ELSE 0
    BY <1>1, SentMore
<1>3. /\ \A k \in 1 .. N : s[k].t # "done"
      /\ Cardinality(AddedIn(s, N)) = Len(calls)
      /\ \A k \in 1 .. N : s[k].t = "added" => s[k].n = Cardinality(AddedIn(s, k))
      /\ \A k \in 1 .. N : s[k].t = "args" => \E j \in 1 .. k : s[j].t = "added" /\ s[j].n = s[k].n
      /\ \A n \in 1 .. Len(calls) : \E j \in 1 .. N : s[j].t = "added" /\ s[j].n = n
    BY DEF Announced
<1> HIDE DEF t, N
<1>4. /\ \A k \in 1 .. N + 1 : k = N + 1 \/ k \in 1 .. N
      /\ \A k \in 1 .. N : k \in 1 .. N + 1 /\ k \in 0 .. N /\ 1 .. k \subseteq 1 .. N
      /\ N + 1 \in 1 .. N + 1
    BY <1>2
<1>5. \A k \in 1 .. Len(t) : t[k].t # "done"
    BY <1>2, <1>3, <1>4
<1>6. Cardinality(AddedIn(t, Len(t))) = Len(calls) + IF m.t = "added" THEN 1 ELSE 0
    BY <1>2, <1>3
<1>7. \A k \in 1 .. Len(t) : t[k].t = "added" => t[k].n = Cardinality(AddedIn(t, k))
  <2>1. \A k \in 1 .. N : t[k].t = "added" => t[k].n = Cardinality(AddedIn(t, k))
    BY <1>2, <1>3, <1>4
  <2>2. m.t = "added" => m.n = Cardinality(AddedIn(t, N + 1))
    BY <1>2, <1>3
  <2> QED
    BY <1>2, <1>4, <2>1, <2>2
<1>8. \A n \in 1 .. Len(calls) : \E j \in 1 .. N : t[j].t = "added" /\ t[j].n = n
    BY <1>2, <1>3
<1>9. \A k \in 1 .. Len(t) : t[k].t = "args" => \E j \in 1 .. k : t[j].t = "added" /\ t[j].n = t[k].n
  <2>1. ASSUME NEW k \in 1 .. N, t[k].t = "args"
        PROVE  \E j \in 1 .. k : t[j].t = "added" /\ t[j].n = t[k].n
    <3>1. PICK j \in 1 .. k : s[j].t = "added" /\ s[j].n = s[k].n
      BY <1>2, <1>3, <2>1
    <3>2. t[j] = s[j] /\ t[k] = s[k]
      BY <1>2, <1>4
    <3> QED
      BY <3>1, <3>2
  <2>2. m.t = "args" => \E j \in 1 .. N + 1 : t[j].t = "added" /\ t[j].n = m.n
    BY <1>4, <1>8
  <2> QED
    BY <1>2, <1>4, <2>1, <2>2
<1>10. m.t = "added" => \E j \in 1 .. Len(t) : t[j].t = "added" /\ t[j].n = Len(calls) + 1
    BY <1>2, <1>4
<1>11. \A n \in 1 .. Len(calls) : \E j \in 1 .. Len(t) : t[j].t = "added" /\ t[j].n = n
    BY <1>2, <1>4, <1>8
<1> QED
    BY <1>2, <1>5, <1>6, <1>7, <1>9, <1>10, <1>11 DEF t

\* A text.
LEMMA AnnounceText ==
    ASSUME NEW a, NEW s, NEW calls, Announced(a, s, calls), NEW x \in Seq(Words(a))
    PROVE  Announced(a, Append(s, Sent("text", 0, x)), calls)
<1> DEFINE m == Sent("text", 0, x)
           t == Append(s, m)
<1>1. m \in Messages(a) /\ m.t = "text"
    BY DEF Sent, Messages
<1> HIDE DEF m
<1>2. s \in Seq(Messages(a)) /\ calls \in Seq(CallRecs(a)) /\ Len(calls) \in Nat
    BY LenProperties DEF Announced
<1>3. \A n : ArgsIn(t, n) = ArgsIn(s, n)
    BY <1>1, <1>2, SentMore
<1>4. /\ t \in Seq(Messages(a))
      /\ \A k \in 1 .. Len(t) : t[k].t # "done"
      /\ Cardinality(AddedIn(t, Len(t))) = Len(calls) + 0
      /\ \A k \in 1 .. Len(t) : t[k].t = "added" => t[k].n = Cardinality(AddedIn(t, k))
      /\ \A k \in 1 .. Len(t) : t[k].t = "args" => \E j \in 1 .. k : t[j].t = "added" /\ t[j].n = t[k].n
      /\ \A n \in 1 .. Len(calls) : \E j \in 1 .. Len(t) : t[j].t = "added" /\ t[j].n = n
    BY <1>1, KeptAnnounced
<1> HIDE DEF t
<1>5. Announced(a, t, calls)
    BY <1>2, <1>3, <1>4 DEF Announced
<1> QED
    BY <1>5 DEF t, m

\* A call is announced.
LEMMA AnnounceOpen ==
    ASSUME NEW a, NEW s, NEW calls, Announced(a, s, calls), NEW r \in CallRecs(a), r.x = <<>>
    PROVE  Announced(a, Append(s, Sent("added", Len(calls) + 1, <<>>)), calls \o <<r>>)
<1> DEFINE N == Len(calls)
           m == Sent("added", N + 1, <<>>)
           t == Append(s, m)
           new == calls \o <<r>>
<1>1. s \in Seq(Messages(a)) /\ calls \in Seq(CallRecs(a)) /\ N \in Nat
    BY LenProperties DEF Announced
<1>2. m \in Messages(a) /\ m.t = "added" /\ m.n = N + 1
  <2>1. <<>> \in Seq(Words(a)) /\ N + 1 \in Nat
    BY <1>1
  <2> HIDE DEF N
  <2> QED
    BY <2>1 DEF Sent, Messages
<1> HIDE DEF m
<1>3. /\ new \in Seq(CallRecs(a)) /\ Len(new) = N + 1 /\ new[N + 1] = r /\ \A k \in 1 .. N : new[k] = calls[k]
    BY <1>1, AppendProperties, AppendIsConcat
<1>4. \A n : ArgsIn(t, n) = ArgsIn(s, n)
    BY <1>1, <1>2, SentMore
<1>5. /\ t \in Seq(Messages(a))
      /\ \A k \in 1 .. Len(t) : t[k].t # "done"
      /\ Cardinality(AddedIn(t, Len(t))) = N + 1
      /\ \A k \in 1 .. Len(t) : t[k].t = "added" => t[k].n = Cardinality(AddedIn(t, k))
      /\ \A k \in 1 .. Len(t) : t[k].t = "args" => \E j \in 1 .. k : t[j].t = "added" /\ t[j].n = t[k].n
      /\ \A n \in 1 .. N : \E j \in 1 .. Len(t) : t[j].t = "added" /\ t[j].n = n
      /\ \E j \in 1 .. Len(t) : t[j].t = "added" /\ t[j].n = N + 1
    BY <1>2, KeptAnnounced
<1>6. /\ \A n \in 1 .. N : ArgsIn(s, n) = calls[n].x
      /\ \A n \in Nat : n > N => ArgsIn(s, n) = <<>>
    BY DEF Announced
<1> HIDE DEF t, new, N
<1>7. \A n \in 1 .. N + 1 : n = N + 1 \/ n \in 1 .. N
    BY <1>1
<1>8. \A n \in 1 .. N + 1 : ArgsIn(t, n) = new[n].x
  <2>1. N + 1 \in Nat /\ N + 1 > N
    BY <1>1
  <2> QED
    BY <1>3, <1>4, <1>6, <1>7, <2>1
<1>9. \A n \in Nat : n > N + 1 => ArgsIn(t, n) = <<>>
  <2>1. \A n \in Nat : n > N + 1 => n > N
    BY <1>1
  <2> QED
    BY <1>4, <1>6, <2>1
<1>10. \A n \in 1 .. N + 1 : \E j \in 1 .. Len(t) : t[j].t = "added" /\ t[j].n = n
    BY <1>5, <1>7
<1>11. Announced(a, t, new)
    BY <1>3, <1>5, <1>8, <1>9, <1>10 DEF Announced
<1> QED
    BY <1>11 DEF t, m, new, N

\* A fragment of the last call's arguments.
LEMMA AnnounceMore ==
    ASSUME NEW a, NEW s, NEW pre \in Seq(CallRecs(a)), NEW r \in CallRecs(a), NEW v \in CallRecs(a),
           Announced(a, s, pre \o <<r>>), NEW y \in Seq(Words(a)), v.x = r.x \o y
    PROVE  Announced(a, Append(s, Sent("args", Len(pre) + 1, y)), pre \o <<v>>)
<1> DEFINE N == Len(pre) + 1
           m == Sent("args", N, y)
           t == Append(s, m)
           old == pre \o <<r>>
           new == pre \o <<v>>
<1>1. s \in Seq(Messages(a)) /\ Len(pre) \in Nat /\ N \in Nat
    BY LenProperties DEF Announced
<1>2. /\ old \in Seq(CallRecs(a)) /\ Len(old) = N /\ old[N] = r /\ \A k \in 1 .. Len(pre) : old[k] = pre[k]
      /\ new \in Seq(CallRecs(a)) /\ Len(new) = N /\ new[N] = v /\ \A k \in 1 .. Len(pre) : new[k] = pre[k]
    BY <1>1, AppendProperties, AppendIsConcat
<1>3. m \in Messages(a) /\ m.t = "args" /\ m.n = N /\ m.x = y
  <2> HIDE DEF N
  <2> QED
    BY <1>1 DEF Sent, Messages
<1>10. N \in 1 .. N /\ \A n \in 1 .. N : n = N \/ n \in 1 .. Len(pre)
    BY <1>1
<1>11. Announced(a, s, old)
    OBVIOUS
<1>20. m \in Messages(a)
    BY <1>3
<1> HIDE DEF m, old, N
<1>13. \A n : ArgsIn(t, n) = IF m.t = "args" /\ m.n = n THEN ArgsIn(s, n) \o m.x ELSE ArgsIn(s, n)
    BY <1>1, <1>20, SentMore
<1>14. /\ m.t # "done" /\ m.t # "added"
       /\ m.t = "added" => m.n = Len(old) + 1
       /\ m.t = "args" => m.n \in 1 .. Len(old)
    BY <1>2, <1>3, <1>10
<1>15. /\ t \in Seq(Messages(a))
       /\ \A k \in 1 .. Len(t) : t[k].t # "done"
       /\ Cardinality(AddedIn(t, Len(t))) = Len(old) + IF m.t = "added" THEN 1 ELSE 0
       /\ \A k \in 1 .. Len(t) : t[k].t = "added" => t[k].n = Cardinality(AddedIn(t, k))
       /\ \A k \in 1 .. Len(t) : t[k].t = "args" => \E j \in 1 .. k : t[j].t = "added" /\ t[j].n = t[k].n
       /\ \A n \in 1 .. Len(old) : \E j \in 1 .. Len(t) : t[j].t = "added" /\ t[j].n = n
    BY ONLY <1>11, <1>14, <1>20, KeptAnnounced, SMTT(60)
<1> HIDE DEF t
<1>4. \A n : ArgsIn(t, n) = IF n = N THEN ArgsIn(s, n) \o y ELSE ArgsIn(s, n)
    BY <1>3, <1>13
<1>5. /\ t \in Seq(Messages(a))
      /\ \A k \in 1 .. Len(t) : t[k].t # "done"
      /\ Cardinality(AddedIn(t, Len(t))) = N + 0
      /\ \A k \in 1 .. Len(t) : t[k].t = "added" => t[k].n = Cardinality(AddedIn(t, k))
      /\ \A k \in 1 .. Len(t) : t[k].t = "args" => \E j \in 1 .. k : t[j].t = "added" /\ t[j].n = t[k].n
      /\ \A n \in 1 .. N : \E j \in 1 .. Len(t) : t[j].t = "added" /\ t[j].n = n
    BY <1>2, <1>14, <1>15
<1>6. /\ \A n \in 1 .. N : ArgsIn(s, n) = old[n].x
      /\ \A n \in Nat : n > N => ArgsIn(s, n) = <<>>
    BY <1>2, <1>11 DEF Announced
<1> HIDE DEF new
<1>7. \A n \in 1 .. N : ArgsIn(t, n) = new[n].x
  <2>1. ArgsIn(t, N) = new[N].x
    BY <1>2, <1>4, <1>6, <1>10
  <2>2. ASSUME NEW n \in 1 .. N, n # N PROVE ArgsIn(t, n) = new[n].x
    <3>1. n \in 1 .. Len(pre) /\ new[n] = old[n]
      BY <1>2, <1>10, <2>2
    <3> QED
      BY <1>4, <1>6, <2>2, <3>1
  <2> QED
    BY <2>1, <2>2
<1>8. \A n \in Nat : n > N => ArgsIn(t, n) = <<>>
  <2>1. \A n \in Nat : n > N => n # N
    BY <1>1
  <2> QED
    BY <1>4, <1>6, <2>1
<1>9. N + 0 = N
    BY <1>1
<1>12. Announced(a, t, new)
    BY <1>2, <1>5, <1>7, <1>8, <1>9 DEF Announced
<1> QED
    BY <1>12 DEF t, m, new, N

-----------------------------------------------------------------------------
(* One chunk read and passed on.                                           *)

RespWhole(r) == r = [calls |-> r.calls, sent |-> r.sent, final |-> r.final]

\* The same calls on both sides, announced, and nothing ended.
LEMMA Emits ==
    ASSUME ChatWhole(chat), RespWhole(resp), resp.calls = chat.calls,
           Announced(answer, resp.sent, chat.calls), NEW c, Fits(answer, chat.calls, c)
    PROVE  /\ ChatWhole(Read(c)) /\ RespWhole(Emulated(c))
           /\ Emulated(c).calls = Read(c).calls /\ Emulated(c).final = resp.final
           /\ Announced(answer, Emulated(c).sent, Read(c).calls)
<1> DEFINE a == answer
           s == resp.sent
           cs == chat.calls
<1>1. s \in Seq(Messages(a)) /\ cs \in Seq(CallRecs(a)) /\ Len(cs) \in Nat
    BY LenProperties DEF Announced
<1>2. CASE c.k \in {"none", "finish", "error"}
  <2>1. Emulated(c) = resp
    BY <1>2 DEF Emulated
  <2>2. Read(c) = chat \/ Read(c) = [chat EXCEPT !.finish = c.finish]
    BY <1>2 DEF Read
  <2> DEFINE f == c.finish
  <2> HIDE DEF f
  <2>3. /\ [chat EXCEPT !.finish = f].calls = chat.calls
        /\ ChatWhole([chat EXCEPT !.finish = f])
    BY DEF ChatWhole
  <2>4. Read(c) = chat \/ Read(c) = [chat EXCEPT !.finish = f]
    BY <2>2 DEF f
  <2> QED
    BY <2>1, <2>3, <2>4
<1>3. CASE c.k = "content" /\ c.x \in Seq(Words(a))
  <2> DEFINE x == c.x
             v == chat.text \o x
             t == Append(s, Sent("text", 0, x))
  <2>1. Emulated(c) = [resp EXCEPT !.sent = t] /\ Read(c) = [chat EXCEPT !.text = v]
    BY <1>3 DEF Emulated, Read
  <2>2. Announced(a, t, cs)
    <3> SUFFICES ASSUME NEW z \in Seq(Words(a)) PROVE Announced(a, Append(s, Sent("text", 0, z)), cs)
      BY <1>3
    <3> QED
      BY AnnounceText
  <2> HIDE DEF t, v
  <2>3. /\ [chat EXCEPT !.text = v].calls = cs /\ ChatWhole([chat EXCEPT !.text = v])
        /\ [resp EXCEPT !.sent = t].calls = cs /\ RespWhole([resp EXCEPT !.sent = t])
        /\ [resp EXCEPT !.sent = t].sent = t /\ [resp EXCEPT !.sent = t].final = resp.final
    BY DEF ChatWhole, RespWhole
  <2> QED
    BY <2>1, <2>2, <2>3
<1>4. ASSUME NEW new, NEW t, c.k = "call",
             Added(cs, c) = new, Announced(a, t, new), _handle_tool_call_delta(resp, c).sent = t
      PROVE  /\ ChatWhole(Read(c)) /\ RespWhole(Emulated(c))
             /\ Emulated(c).calls = Read(c).calls /\ Emulated(c).final = resp.final
             /\ Announced(answer, Emulated(c).sent, Read(c).calls)
  <2>1. Read(c) = [chat EXCEPT !.calls = new] /\ Emulated(c) = _handle_tool_call_delta(resp, c)
    BY <1>4 DEF Read, Emulated
  <2>2. PICK z : _handle_tool_call_delta(resp, c) = [resp EXCEPT !.calls = new, !.sent = z]
    BY <1>4 DEF _handle_tool_call_delta
  <2>3. [chat EXCEPT !.calls = new].calls = new /\ ChatWhole([chat EXCEPT !.calls = new])
    BY DEF ChatWhole
  <2> DEFINE q == [resp EXCEPT !.calls = new, !.sent = z]
  <2>4. q = [calls |-> new, sent |-> z, final |-> resp.final]
    <3> DEFINE r1 == [resp EXCEPT !.calls = new]
               f == resp.final
    <3>1. r1 = [calls |-> new, sent |-> s, final |-> f]
      BY DEF RespWhole
    <3>2. q = [r1 EXCEPT !.sent = z]
      OBVIOUS
    <3> HIDE DEF r1, f, q
    <3>3. [r1 EXCEPT !.sent = z] = [calls |-> new, sent |-> z, final |-> f]
      BY <3>1
    <3> QED
      BY <3>2, <3>3 DEF f
  <2> HIDE DEF q
  <2>5. q.calls = new /\ RespWhole(q) /\ q.final = resp.final
    BY <2>4 DEF RespWhole
  <2>6. Emulated(c) = q
    BY <2>1, <2>2 DEF q
  <2> QED
    BY <1>4, <2>1, <2>3, <2>5, <2>6
<1>5. ASSUME NEW n, Position(Added(cs, c), c.i) = n
      PROVE  /\ Has(cs, c.i) /\ c.x # <<>> =>
                  _handle_tool_call_delta(resp, c).sent = s \o <<>> \o <<Sent("args", n, c.x)>>
             /\ ~Has(cs, c.i) /\ c.x = <<>> =>
                  _handle_tool_call_delta(resp, c).sent = s \o <<Sent("added", n, <<>>)>> \o <<>>
  <2>1. ASSUME NEW u, NEW v PROVE [resp EXCEPT !.calls = u, !.sent = @ \o <<>> \o v].sent = s \o <<>> \o v
    BY DEF RespWhole
  <2>2. ASSUME NEW u, NEW v PROVE [resp EXCEPT !.calls = u, !.sent = @ \o v \o <<>>].sent = s \o v \o <<>>
    BY DEF RespWhole
  <2> DEFINE ad == Added(cs, c)
             m == Sent("args", n, c.x)
             o == Sent("added", n, <<>>)
  <2>3. CASE Has(cs, c.i) /\ c.x # <<>>
    <3>1. _handle_tool_call_delta(resp, c) = [resp EXCEPT !.calls = ad, !.sent = @ \o <<>> \o <<m>>]
      BY <1>5, <2>3 DEF _handle_tool_call_delta, output_index
    <3> HIDE DEF ad, m
    <3>2. [resp EXCEPT !.calls = ad, !.sent = @ \o <<>> \o <<m>>].sent = s \o <<>> \o <<m>>
      BY DEF RespWhole
    <3> QED
      BY <2>3, <3>1, <3>2 DEF m
  <2>4. CASE ~Has(cs, c.i) /\ c.x = <<>>
    <3>1. _handle_tool_call_delta(resp, c) = [resp EXCEPT !.calls = ad, !.sent = @ \o <<o>> \o <<>>]
      BY <1>5, <2>4 DEF _handle_tool_call_delta, output_index
    <3> HIDE DEF ad, o
    <3>2. [resp EXCEPT !.calls = ad, !.sent = @ \o <<o>> \o <<>>].sent = s \o <<o>> \o <<>>
      BY DEF RespWhole
    <3> QED
      BY <2>4, <3>1, <3>2 DEF o
  <2> QED
    BY <2>3, <2>4
<1>6. ASSUME NEW m \in Messages(a)
      PROVE  s \o <<>> \o <<m>> = Append(s, m) /\ s \o <<m>> \o <<>> = Append(s, m)
  <2>1. s \o <<>> = s /\ Append(s, m) = s \o <<m>>
    BY <1>1, ConcatEmptySeq, AppendIsConcat
  <2>2. s \o <<m>> \in Seq(Messages(a))
    BY <1>1
  <2>3. (s \o <<m>>) \o <<>> = s \o <<m>>
    BY <2>2, ConcatEmptySeq
  <2> QED
    BY <2>1, <2>3
<1>7. CASE c.k = "call" /\ OpensNext(a, cs, c)
  <2>1. PICK j \in DOMAIN a.blocks :
            /\ c.i = j /\ c.x = <<>> /\ ~Has(cs, j)
            /\ Added(cs, c) = cs \o <<CallRec(a, j, <<>>)>>
            /\ Position(Added(cs, c), j) = Len(cs) + 1
    BY <1>7 DEF OpensNext
  <2> DEFINE r == CallRec(a, j, <<>>)
             n == Len(cs) + 1
             m == Sent("added", n, <<>>)
  <2>2. r \in CallRecs(a) /\ r.x = <<>>
    <3>1. <<>> \in Seq(Words(a))
      OBVIOUS
    <3>2. r.x = <<>>
      BY DEF CallRec
    <3> QED
      BY <3>1, <3>2, RecIn
  <2>3. m \in Messages(a)
    <3>1. <<>> \in Seq(Words(a)) /\ n \in Nat
      BY <1>1
    <3> HIDE DEF n
    <3> QED
      BY <3>1 DEF Sent, Messages
  <2>4. _handle_tool_call_delta(resp, c).sent = s \o <<m>> \o <<>>
    <3> HIDE DEF n
    <3>1. Position(Added(cs, c), c.i) = n
      BY <2>1 DEF n
    <3>2. \A q : Position(Added(cs, c), c.i) = q => _handle_tool_call_delta(resp, c).sent = s \o <<Sent("added", q, <<>>)>> \o <<>>
      BY <1>5, <2>1
    <3> QED
      BY <3>1, <3>2
  <2>5. _handle_tool_call_delta(resp, c).sent = Append(s, m)
    <3> HIDE DEF m
    <3> QED
      BY <1>6, <2>3, <2>4
  <2>6. Announced(a, Append(s, m), cs \o <<r>>)
    <3> HIDE DEF r
    <3> QED
      BY <2>2, AnnounceOpen
  <2> HIDE DEF r, m
  <2>7. Added(cs, c) = cs \o <<r>>
    BY <2>1 DEF r
  <2> QED
    BY <1>4, <1>7, <2>5, <2>6, <2>7
<1>8. CASE c.k = "call" /\ GoesOn(a, cs, c)
  <2>1. PICK j \in DOMAIN a.blocks, pre \in Seq(CallRecs(a)), y \in Seq(Words(a)), w \in Words(a) :
            /\ c.i = j /\ c.x = <<w>> /\ Has(cs, j)
            /\ cs = pre \o <<CallRec(a, j, y)>>
            /\ Added(cs, c) = pre \o <<CallRec(a, j, y \o <<w>>)>>
            /\ Position(Added(cs, c), j) = Len(pre) + 1
    BY <1>8 DEF GoesOn
  <2> DEFINE r == CallRec(a, j, y)
             v == CallRec(a, j, y \o <<w>>)
             n == Len(pre) + 1
             m == Sent("args", n, <<w>>)
  <2>2. r \in CallRecs(a) /\ v \in CallRecs(a) /\ v.x = r.x \o <<w>> /\ <<w>> \in Seq(Words(a)) /\ <<w>> # <<>>
    <3>1. y \o <<w>> \in Seq(Words(a)) /\ <<w>> \in Seq(Words(a)) /\ <<w>> # <<>>
      OBVIOUS
    <3>2. r.x = y /\ v.x = y \o <<w>>
      BY DEF CallRec
    <3> QED
      BY <3>1, <3>2, RecIn
  <2>3. m \in Messages(a)
    <3>1. n \in Nat
      BY LenProperties
    <3> HIDE DEF n
    <3> QED
      BY <2>2, <3>1 DEF Sent, Messages
  <2>4. _handle_tool_call_delta(resp, c).sent = s \o <<>> \o <<m>>
    <3> HIDE DEF n
    <3>1. Position(Added(cs, c), c.i) = n
      BY <2>1 DEF n
    <3>2. \A q : Position(Added(cs, c), c.i) = q => _handle_tool_call_delta(resp, c).sent = s \o <<>> \o <<Sent("args", q, <<w>>)>>
      BY <1>5, <2>1, <2>2
    <3> QED
      BY <3>1, <3>2
  <2>5. _handle_tool_call_delta(resp, c).sent = Append(s, m)
    <3> HIDE DEF m
    <3> QED
      BY <1>6, <2>3, <2>4
  <2> HIDE DEF r, v
  <2>6. Announced(a, s, pre \o <<r>>)
    BY <2>1 DEF r
  <2>7. Announced(a, Append(s, m), pre \o <<v>>)
    BY <2>2, <2>6, AnnounceMore
  <2> HIDE DEF m
  <2>8. Added(cs, c) = pre \o <<v>>
    BY <2>1 DEF v
  <2> QED
    BY <1>4, <1>8, <2>5, <2>7, <2>8
<1> QED
    BY <1>2, <1>3, <1>7, <1>8 DEF Fits

-----------------------------------------------------------------------------
(* Where a stream can be, and one event read from there.                   *)

Counts(i, o, r) == [in |-> i, out |-> o, refused |-> r]

\* Not begun; in the middle; stopped, and of Converse perhaps not metered yet.
Unread(a, f, h, m) == f = ProviderStream(a) /\ ToldBy(a, h, 0, 0) /\ m = Counts(0, 0, FALSE)

MidAt(a, f, h, m, j, n) ==
    /\ f = SubSeq(ProviderStream(a), EventsAt(a, j, n) + 1, Len(ProviderStream(a)))
    /\ ToldBy(a, h, j, n)
    /\ m = Counts(IF a.provider = "anthropic" THEN 1 ELSE 0, 0, FALSE)

Mid(a, f, h, m) == \E j \in 0 .. Len(a.blocks) : \E n \in 0 .. Size(a, j) : MidAt(a, f, h, m, j, n)

Late(a, f, h, m) ==
    /\ h.text = Part(TextParts(a), Len(a.blocks)) /\ h.calls = Part(CallParts(a), Len(a.blocks))
    /\ h.finish = FinishOf(a, h.calls)
    /\ \/ a.provider = "bedrock" /\ f = <<UsageEvent(a)>> /\ m = Counts(0, 0, FALSE)
       \/ f = <<>> /\ m = Counts(1, a.out, a.provider # "bedrock" /\ a.stop = "refusal")

Placed(a, f, h, m) == Unread(a, f, h, m) \/ Mid(a, f, h, m) \/ Late(a, f, h, m)

Shown(a, calls) == \E j \in 0 .. Len(a.blocks) : \E n \in 0 .. Size(a, j) : calls = CallsAt(a, j, n)

\* The fragments of the block a reader is in.
LEMMA SizeIn ==
    ASSUME NEW a \in ProviderAnswers, NEW j \in 0 .. Len(a.blocks)
    PROVE  Size(a, j) \in Nat /\ Len(a.blocks) \in Nat /\ (j # 0 => j \in DOMAIN a.blocks)
<1>1. Len(a.blocks) \in Nat /\ DOMAIN a.blocks = 1 .. Len(a.blocks) /\ \A i \in DOMAIN a.blocks : Len(a.blocks[i].x) \in Nat
    BY AnswerShape
<1>2. j # 0 => j \in DOMAIN a.blocks
    BY <1>1
<1>3. Size(a, j) \in Nat
    BY <1>1, <1>2 DEF Size
<1> QED
    BY <1>1, <1>2, <1>3

\* The events read so far are a number.
LEMMA EventsAtNat ==
    ASSUME NEW a \in ProviderAnswers, NEW j \in 0 .. Len(a.blocks), NEW n \in Nat
    PROVE  EventsAt(a, j, n) \in Nat
<1>1. j # 0 => Len(Part(Segments(a), j - 1)) \in Nat
  <2>1. Segments(a) \in Seq(Seq(Events(a))) /\ Len(Segments(a)) = Len(a.blocks) /\ Len(a.blocks) \in Nat
    BY SegmentsShape, AnswerShape
  <2>2. j # 0 => j - 1 \in 0 .. Len(Segments(a))
    BY <2>1
  <2> QED
    BY <2>1, <2>2, PartSteps, LenProperties
<1> DEFINE u == Len(Part(Segments(a), j - 1))
<1> HIDE DEF u
<1>2. EventsAt(a, j, n) = IF j = 0 THEN 1 ELSE u + n + 2
    BY DEF EventsAt, u
<1>3. j # 0 => u \in Nat
    BY <1>1 DEF u
<1> QED
    BY <1>2, <1>3

\* The ends of a sequence.
LEMMA OneLong ==
    ASSUME NEW S, NEW s \in Seq(S), NEW i \in 1 .. Len(s)
    PROVE  SubSeq(s, i, i) = <<s[i]>>
<1> DEFINE v == SubSeq(s, i, i)
<1>1. i \in Int /\ i - i + 1 = 1 /\ i <= i + 1
    OBVIOUS
<1>2. \A k \in i .. i : s[k] \in S
    BY ElementOfSeq
<1>3. v \in Seq(S) /\ Len(v) = i - i + 1 /\ \A k \in 1 .. i - i + 1 : v[k] = s[i + k - 1]
    BY <1>1, <1>2, SubSeqProperties
<1> HIDE DEF v
<1>4. Len(v) = 1 /\ v[1] = s[i]
  <2>1. 1 \in 1 .. 1 /\ i + 1 - 1 = i
    OBVIOUS
  <2> QED
    BY <1>1, <1>3, <2>1
<1>5. v = <<s[i]>>
    BY <1>3, <1>4
<1> QED
    BY <1>5 DEF v

\* Behind the end of a sequence there is nothing.
LEMMA NoneLong ==
    ASSUME NEW s, NEW i \in Int, NEW j \in Int, j < i
    PROVE  SubSeq(s, i, j) = <<>>
BY SubSeqEmpty

\* Wherever a stream is, the calls in it are those of a spot.
LEMMA PlacedShown ==
    ASSUME NEW a \in ProviderAnswers, NEW f, NEW h, NEW m, Placed(a, f, h, m)
    PROVE  Shown(a, h.calls)
<1>1. Len(a.blocks) \in Nat /\ Size(a, 0) = 0 /\ Size(a, Len(a.blocks)) \in Nat
  <2>1. Len(a.blocks) \in Nat
    BY AnswerShape
  <2>2. Len(a.blocks) \in 0 .. Len(a.blocks)
    BY <2>1
  <2> QED
    BY <2>1, <2>2, SizeIn DEF Size
<1>2. CASE Unread(a, f, h, m)
  <2>1. 0 \in 0 .. Len(a.blocks) /\ 0 \in 0 .. Size(a, 0)
    BY <1>1
  <2> QED
    BY <1>2, <2>1 DEF Unread, ToldBy, Shown
<1>3. CASE Mid(a, f, h, m)
    BY <1>3 DEF Mid, MidAt, ToldBy, Shown
<1>4. CASE Late(a, f, h, m)
  <2> DEFINE L == Len(a.blocks)
  <2>1. L \in 0 .. L /\ Size(a, L) \in 0 .. Size(a, L)
    BY <1>1
  <2>2. h.calls = CallsAt(a, L, Size(a, L))
    BY <1>4, <2>1, SpotParts DEF Late
  <2> HIDE DEF L
  <2> QED
    BY <2>1, <2>2 DEF Shown, L
<1> QED
    BY <1>2, <1>3, <1>4 DEF Placed

\* The first event and the metering one say nothing.
LEMMA ReadsNothing ==
    ASSUME answer \in ProviderAnswers, NEW e, e.t = "start" \/ (e.t = "usage" /\ answer.provider = "bedrock")
    PROVE  Delta(e).k = "none" /\ Read(Delta(e)) = chat /\ Fits(answer, chat.calls, Delta(e))
<1>1. answer.provider \in {"anthropic", "bedrock", "vertex"}
    BY AnswerShape
<1>2. Delta(e) = NoChunk
  <2>1. CASE answer.provider = "anthropic"
    BY <2>1 DEF Delta, anthropic_event_to_delta
  <2>2. CASE answer.provider = "bedrock"
    BY <2>2 DEF Delta, converse_event_to_delta
  <2>3. CASE answer.provider = "vertex"
    BY <2>3 DEF Delta, gemini_chunk_to_delta
  <2> QED
    BY <1>1, <2>1, <2>2, <2>3
<1>3. NoChunk.k = "none"
    BY DEF NoChunk, Chunk
<1> QED
    BY <1>2, <1>3 DEF Read, Fits

\* One event.
LEMMA ReadsOne ==
    ASSUME answer \in ProviderAnswers, ChatWhole(chat), Placed(answer, feed, chat, meter), feed # <<>>,
           NEW e, e = feed[1], NEW c, c = Delta(e)
    PROVE  /\ Fits(answer, chat.calls, c)
           /\ c.k = "error" => Read(c) = chat
           /\ c.k # "error" => Placed(answer, Tail(feed), Read(c), Metered(e))
<1> DEFINE a == answer
           p == ProviderStream(a)
           L == Len(a.blocks)
           m0 == Counts(IF a.provider = "anthropic" THEN 1 ELSE 0, 0, FALSE)
<1>1. a.provider \in {"anthropic", "bedrock", "vertex"} /\ L \in Nat /\ DOMAIN a.blocks = 1 .. L
    BY AnswerShape
<1>2. p \in Seq(Events(a)) /\ Len(p) \in Nat /\ 1 \in 1 .. Len(p) /\ p[1].t = "start"
  <2> DEFINE m == Part(Segments(a), L)
  <2>1. p \in Seq(Events(a)) /\ Len(m) \in Nat /\ Len(p) = Len(m) + (IF a.provider = "bedrock" THEN 3 ELSE 2) /\ p[1].t = "start"
    BY StreamShape
  <2> HIDE DEF p, m
  <2>2. Len(p) \in Nat /\ 1 \in 1 .. Len(p)
    BY <2>1
  <2> QED
    BY <2>1, <2>2
<1>3. ASSUME NEW q \in 1 .. Len(p), feed = SubSeq(p, q, Len(p))
      PROVE  e = p[q] /\ Tail(feed) = SubSeq(p, q + 1, Len(p))
  <2> HIDE DEF p
  <2>1. LET f == SubSeq(p, q, Len(p)) IN f # <<>> /\ f[1] = p[q] /\ Tail(f) = SubSeq(p, q + 1, Len(p))
    BY <1>2, FeedStep
  <2> QED
    BY <1>3, <2>1
<1>4. CASE Unread(a, feed, chat, meter)
  <2>1. feed = SubSeq(p, 1, Len(p))
    <3> HIDE DEF p
    <3>1. SubSeq(p, 1, Len(p)) = p
      BY <1>2, SubSeqFull
    <3> QED
      BY <1>4, <3>1 DEF Unread, p
  <2>2. e.t = "start" /\ Tail(feed) = SubSeq(p, 2, Len(p))
    <3>1. e = p[1] /\ Tail(feed) = SubSeq(p, 1 + 1, Len(p))
      BY <1>2, <1>3, <2>1
    <3> QED
      BY <1>2, <3>1
  <2>3. c.k = "none" /\ Read(c) = chat /\ Fits(a, chat.calls, c)
    BY <2>2, ReadsNothing
  <2>4. Metered(e) = m0
    <3>1. meter = [in |-> 0, out |-> 0, refused |-> FALSE]
      BY <1>4 DEF Unread, Counts
    <3>2. CASE a.provider = "anthropic"
      <4>1. Metered(e) = [meter EXCEPT !.in = 1]
        BY <2>2, <3>2 DEF Metered
      <4> QED
        BY <3>1, <3>2, <4>1 DEF Counts
    <3>3. CASE a.provider # "anthropic"
      <4>1. Metered(e) = meter
        BY <2>2, <3>3 DEF Metered
      <4> QED
        BY <3>1, <3>3, <4>1 DEF Counts
    <3> QED
      BY <3>2, <3>3
  <2>5. MidAt(a, Tail(feed), Read(c), Metered(e), 0, 0)
    <3>1. EventsAt(a, 0, 0) + 1 = 2
      BY DEF EventsAt
    <3>2. ToldBy(a, chat, 0, 0)
      BY <1>4 DEF Unread
    <3> HIDE DEF m0
    <3> QED
      BY <2>2, <2>3, <2>4, <3>1, <3>2 DEF MidAt, m0
  <2>6. 0 \in 0 .. L /\ 0 \in 0 .. Size(a, 0)
    BY <1>1 DEF Size
  <2> QED
    BY <2>3, <2>5, <2>6 DEF Placed, Mid
<1>5. CASE Mid(a, feed, chat, meter)
  <2>0. PICK j \in 0 .. L : \E n \in 0 .. Size(a, j) : MidAt(a, feed, chat, meter, j, n)
    BY <1>5 DEF Mid
  <2>1. PICK n \in 0 .. Size(a, j) : MidAt(a, feed, chat, meter, j, n)
    BY <2>0
  <2>2. feed = SubSeq(p, EventsAt(a, j, n) + 1, Len(p)) /\ ToldBy(a, chat, j, n) /\ meter = m0
    BY <2>1 DEF MidAt
  <2> DEFINE size == Size(a, j)
             at == EventsAt(a, j, n)
  <2>3. size \in Nat /\ n \in Nat /\ n <= size /\ (j # 0 => j \in DOMAIN a.blocks)
    BY <2>1, SizeIn
  <2>4. /\ at + 1 \in 1 .. Len(p)
        /\ n < size => p[at + 1] = FragmentEvent(a, j, n + 1) /\ EventsAt(a, j, n + 1) = at + 1
        /\ n = size /\ j < L => p[at + 1] = OpenEvent(a, j + 1) /\ EventsAt(a, j + 1, 0) = at + 1
        /\ n = size /\ j = L =>
             /\ p[at + 1] = StopEvent(a)
             /\ a.provider # "bedrock" => Len(p) = at + 1
             /\ a.provider = "bedrock" => Len(p) = at + 2 /\ p[at + 2] = UsageEvent(a)
    BY <2>3, NextOfStream
  <2>5. e = p[at + 1] /\ Tail(feed) = SubSeq(p, at + 1 + 1, Len(p))
    <3> HIDE DEF p, at
    <3> QED
      BY <1>3, <2>2, <2>4 DEF p, at
  <2>6. CASE n < size
    <3>1. j \in DOMAIN a.blocks
      BY <2>3, <2>6 DEF Size
    <3>2. e = FragmentEvent(a, j, n + 1) /\ EventsAt(a, j, n + 1) = at + 1
      BY <2>4, <2>5, <2>6
    <3>3. /\ c.k # "error" => ToldBy(a, Read(c), j, n + 1)
          /\ c.k = "error" => Read(c) = chat
          /\ Fits(a, chat.calls, c)
      BY <2>2, <2>3, <2>6, <3>1, <3>2, ReadsFragment
    <3>4. Metered(e) = m0
      <4>1. e.t = "fragment"
        BY <3>2 DEF FragmentEvent, Event
      <4> QED
        BY <2>2, <4>1 DEF Metered
    <3>5. n + 1 \in 0 .. size /\ j \in 0 .. L
      BY <2>3, <2>6
    <3>6. c.k # "error" => MidAt(a, Tail(feed), Read(c), Metered(e), j, n + 1)
      <4> HIDE DEF m0, at
      <4> QED
        BY <2>5, <3>2, <3>3, <3>4 DEF MidAt, m0
    <3> QED
      BY <3>3, <3>5, <3>6 DEF Placed, Mid
  <2>7. CASE n = size /\ j < L
    <3>1. j + 1 \in DOMAIN a.blocks /\ (j + 1) - 1 = j /\ j + 1 \in 0 .. L
      BY <1>1, <2>7
    <3>2. e = OpenEvent(a, j + 1) /\ EventsAt(a, j + 1, 0) = at + 1
      BY <2>4, <2>5, <2>7
    <3>3. /\ c.k # "error" => ToldBy(a, Read(c), j + 1, 0)
          /\ c.k = "error" => Read(c) = chat
          /\ Fits(a, chat.calls, c)
      <4>1. ToldBy(a, chat, (j + 1) - 1, Size(a, (j + 1) - 1))
        BY <2>2, <2>7, <3>1
      <4> QED
        BY <3>1, <3>2, <4>1, ReadsOpen
    <3>4. Metered(e) = m0
      <4>1. e.t = "open"
        BY <3>2 DEF OpenEvent, Event
      <4> QED
        BY <2>2, <4>1 DEF Metered
    <3>5. 0 \in 0 .. Size(a, j + 1)
      BY <3>1, SizeIn
    <3>6. c.k # "error" => MidAt(a, Tail(feed), Read(c), Metered(e), j + 1, 0)
      <4> HIDE DEF m0, at
      <4> QED
        BY <2>5, <3>2, <3>3, <3>4 DEF MidAt, m0
    <3> QED
      BY <3>1, <3>3, <3>5, <3>6 DEF Placed, Mid
  <2>8. CASE n = size /\ j = L
    <3>1. e = StopEvent(a)
      BY <2>4, <2>5, <2>8
    <3>2. chat.calls = Part(CallParts(a), L) /\ chat.text = Part(TextParts(a), L) /\ chat.finish = "none"
      <4>1. L \in 0 .. L
        BY <1>1
      <4> QED
        BY <2>2, <2>8, <4>1, SpotParts DEF ToldBy
    <3>3. chat.calls \in Seq(CallRecs(a))
      <4>1. L \in 0 .. L
        BY <1>1
      <4> QED
        BY <3>2, <4>1, SpotParts
    <3>4. DOMAIN chat.calls = 1 .. Len(chat.calls) /\ Len(chat.calls) \in Nat
      BY <3>3, LenProperties
    <3>5. /\ c.k # "error" => Read(c) = [chat EXCEPT !.finish = FinishOf(a, chat.calls)]
          /\ c.k = "error" => Read(c) = chat
          /\ c.k \in {"finish", "error"}
      BY <3>1, <3>4, ReadsStop
    <3>6. Fits(a, chat.calls, c)
      BY <3>5 DEF Fits
    <3>7. ASSUME NEW f PROVE LET h == [chat EXCEPT !.finish = f]
                             IN  h.finish = f /\ h.calls = chat.calls /\ h.text = chat.text
      BY DEF ChatWhole
    <3>8. \/ a.provider = "bedrock" /\ Tail(feed) = <<UsageEvent(a)>> /\ Metered(e) = Counts(0, 0, FALSE)
          \/ Tail(feed) = <<>> /\ Metered(e) = Counts(1, a.out, a.provider # "bedrock" /\ a.stop = "refusal")
      <4>1. e.t = "stop" /\ e.out = a.out /\ e.stop = a.stop
        BY <3>1 DEF StopEvent, Event
      <4>2. CASE a.provider = "bedrock"
        <5>1. Metered(e) = meter /\ m0 = Counts(0, 0, FALSE)
          BY <4>1, <4>2 DEF Metered
        <5>2. Tail(feed) = SubSeq(p, at + 2, at + 2) /\ at + 2 \in 1 .. Len(p) /\ p[at + 2] = UsageEvent(a)
          <6>0. Len(p) = at + 2 /\ p[at + 2] = UsageEvent(a)
            BY <2>4, <2>8, <4>2
          <6>2. Tail(feed) = SubSeq(p, at + 1 + 1, at + 2)
            BY <2>5, <6>0
          <6>3. at + 1 \in 1 .. Len(p)
            BY <2>4
          <6> HIDE DEF at, p
          <6>1. at + 1 + 1 = at + 2 /\ at + 2 \in 1 .. Len(p)
            <7>1. at \in Int
              BY <2>2, EventsAtNat DEF at
            <7> QED
              BY <1>2, <6>0, <6>3, <7>1
          <6> QED
            BY <6>0, <6>1, <6>2
        <5>3. SubSeq(p, at + 2, at + 2) = <<p[at + 2]>>
          <6> HIDE DEF p, at
          <6> QED
            BY <1>2, <5>2, OneLong
        <5> QED
          BY <2>2, <4>2, <5>1, <5>2, <5>3
      <4>3. CASE a.provider # "bedrock"
        <5>1. Metered(e) = [in |-> 1, out |-> e.out, refused |-> e.stop = "refusal"]
          BY <4>1, <4>3 DEF Metered
        <5>2. Tail(feed) = SubSeq(p, at + 1 + 1, at + 1) /\ at \in Int
          <6>1. Len(p) = at + 1
            BY <2>4, <2>8, <4>3
          <6> QED
            BY <2>5, <6>1, EventsAtNat
        <5>3. Tail(feed) = <<>>
          <6> HIDE DEF at
          <6>1. at + 1 \in Int /\ at + 1 + 1 \in Int /\ at + 1 < at + 1 + 1
            BY <5>2
          <6> QED
            BY <5>2, <6>1, NoneLong
        <5> QED
          BY <4>1, <4>3, <5>1, <5>3 DEF Counts
      <4> QED
        BY <4>2, <4>3
    <3> DEFINE f == FinishOf(a, chat.calls)
               h == [chat EXCEPT !.finish = f]
    <3>9. ASSUME c.k # "error" PROVE Late(a, Tail(feed), Read(c), Metered(e))
      <4>1. Read(c) = h /\ h.finish = f /\ h.calls = chat.calls /\ h.text = chat.text
        BY <3>5, <3>7, <3>9
      <4> HIDE DEF h
      <4> QED
        BY <3>2, <3>8, <4>1 DEF Late
    <3> QED
      BY <3>5, <3>6, <3>9 DEF Placed
  <2>9. n < size \/ (n = size /\ j < L) \/ (n = size /\ j = L)
    <3> HIDE DEF size, L
    <3> QED
      BY <1>1, <2>1, <2>3
  <2> QED
    BY <2>6, <2>7, <2>8, <2>9
<1>6. CASE Late(a, feed, chat, meter)
  <2>1. a.provider = "bedrock" /\ feed = <<UsageEvent(a)>> /\ meter = Counts(0, 0, FALSE)
    BY <1>6 DEF Late
  <2>2. e = UsageEvent(a) /\ Tail(feed) = <<>>
    BY <2>1
  <2>3. e.t = "usage" /\ e.out = a.out
    BY <2>2 DEF UsageEvent, Event
  <2>4. c.k = "none" /\ Read(c) = chat /\ Fits(a, chat.calls, c)
    BY <2>1, <2>3, ReadsNothing
  <2>5. Metered(e) = Counts(1, a.out, a.provider # "bedrock" /\ a.stop = "refusal")
    BY <2>1, <2>3 DEF Metered, Counts
  <2>6. Late(a, Tail(feed), Read(c), Metered(e))
    BY <1>6, <2>2, <2>4, <2>5 DEF Late
  <2> QED
    BY <2>4, <2>6 DEF Placed
<1> QED
    BY <1>4, <1>5, <1>6 DEF Placed

-----------------------------------------------------------------------------
(* The inductive invariant.                                                *)

Dones(calls) == [j \in DOMAIN calls |-> Sent("done", j, calls[j].x)]

\* The response that a Responses stream completes with.
Answered(h) ==
    Response(TRUE, IF h.finish = "content_filter" THEN "incomplete" ELSE "completed",
             IF h.finish = "content_filter" THEN <<>> ELSE h.text, Items(h.calls), h.usage)

Completed(a, h, r) ==
    /\ h.calls = <<>> \/ h.finish = "tool_calls"
    /\ r.final = Answered(h)
    /\ \E s : Announced(a, s, h.calls) /\ r.sent = s \o Dones(h.calls)

Uncompleted(a, h, r) ==
    /\ h.calls # <<>> /\ h.finish # "tool_calls"
    /\ r.final.ok = FALSE /\ Announced(a, r.sent, h.calls)

AnswersInv ==
    /\ answer \in ProviderAnswers
    /\ ChatWhole(chat) /\ RespWhole(resp) /\ resp.calls = chat.calls
    /\ stage \in {"streaming", "ended", "cut", "failed"}
    /\ Shown(answer, chat.calls)
    /\ stage # "failed" => Streamable(answer) /\ Placed(answer, feed, chat, meter)
    /\ stage = "ended" => feed = <<>>
    /\ stage \in {"streaming", "failed"} => resp.final.ok = FALSE /\ Announced(answer, resp.sent, chat.calls)
    /\ stage \in {"ended", "cut"} =>
         chat.usage = usage_out /\ (Completed(answer, chat, resp) \/ Uncompleted(answer, chat, resp))

\* Before the first message nothing is announced.
LEMMA AnnounceNothing ==
    ASSUME NEW a
    PROVE  Announced(a, <<>>, <<>>)
<1>1. <<>> \in Seq(Messages(a)) /\ <<>> \in Seq(CallRecs(a)) /\ Len(<<>>) = 0
    OBVIOUS
<1>2. AddedIn(<<>>, 0) = {} /\ Cardinality({}) = 0
  <2>1. AddedIn(<<>>, 0) = {}
    BY DEF AddedIn
  <2> QED
    BY <2>1, FS_EmptySet
<1>3. ASSUME NEW n PROVE ArgsIn(<<>>, n) = <<>>
  <2> DEFINE p == ArgsParts(<<>>, n)
  <2>1. p \in Seq(Seq(Words(a))) /\ Len(p) = 0
    BY <1>1, ArgsShape
  <2> HIDE DEF p
  <2>2. FlattenSeq(p) = <<>>
    BY <2>1, FlattenIsPart, PartSteps
  <2> QED
    BY <2>2 DEF ArgsIn, p
<1>4. 1 .. 0 = {}
    OBVIOUS
<1> DEFINE e == <<>>
<1>5. e \in Seq(Messages(a)) /\ e \in Seq(CallRecs(a)) /\ Len(e) = 0 /\ AddedIn(e, 0) = {} /\ \A n : ArgsIn(e, n) = <<>>
    BY <1>1, <1>2, <1>3
<1> HIDE DEF e
<1>6. Announced(a, e, e)
  <2>1. Cardinality(AddedIn(e, Len(e))) = Len(e)
    BY <1>2, <1>5
  <2>2. 1 .. Len(e) = {}
    BY <1>4, <1>5
  <2>3. \A m \in Nat : m > Len(e) => ArgsIn(e, m) = <<>>
    BY <1>5
  <2> QED
    BY <1>5, <2>1, <2>2, <2>3 DEF Announced
<1> QED
    BY <1>6 DEF e

\* A stream that is not begun, or that is refused at once.
LEMMA AnswersBegin == AnswersInit => AnswersInv
<1> SUFFICES ASSUME AnswersInit PROVE AnswersInv
    OBVIOUS
<1> DEFINE a == answer
           nothing == Response(FALSE, "none", <<>>, <<>>, Use(0, 0))
           u == Use(0, 0)
<1>1. /\ a \in ProviderAnswers /\ feed = ProviderStream(a)
      /\ chat = [text |-> <<>>, calls |-> <<>>, finish |-> "none", usage |-> u]
      /\ meter = [in |-> 0, out |-> 0, refused |-> FALSE]
      /\ resp = [calls |-> <<>>, sent |-> <<>>, final |-> nothing]
      /\ stage = IF Streamable(a) THEN "streaming" ELSE "failed"
    BY DEF AnswersInit
<1>2. nothing.ok = FALSE
    BY DEF Response
<1> HIDE DEF nothing, u
<1>3. /\ chat.text = <<>> /\ chat.calls = <<>> /\ chat.finish = "none"
      /\ resp.calls = <<>> /\ resp.sent = <<>> /\ resp.final = nothing
    BY <1>1
<1>4. ChatWhole(chat) /\ RespWhole(resp)
    BY <1>1 DEF ChatWhole, RespWhole
<1>5. Placed(a, feed, chat, meter)
    BY <1>1, <1>3 DEF Placed, Unread, ToldBy, CallsAt, TextAt, Counts
<1>6. Announced(a, resp.sent, chat.calls)
    BY <1>3, AnnounceNothing
<1>7. Shown(a, chat.calls)
    BY <1>1, <1>5, PlacedShown
<1> QED
    BY <1>1, <1>2, <1>3, <1>4, <1>5, <1>6, <1>7 DEF AnswersInv

\* An event is read.
LEMMA AnswersRead == AnswersInv /\ next_event => AnswersInv'
<1> SUFFICES ASSUME AnswersInv, next_event PROVE AnswersInv'
    OBVIOUS
<1>1. /\ answer \in ProviderAnswers /\ ChatWhole(chat) /\ RespWhole(resp) /\ resp.calls = chat.calls
      /\ stage = "streaming" /\ feed # <<>>
      /\ Shown(answer, chat.calls) /\ Streamable(answer) /\ Placed(answer, feed, chat, meter)
      /\ resp.final.ok = FALSE /\ Announced(answer, resp.sent, chat.calls)
    BY DEF AnswersInv, next_event
<1>2. PICK e : e = feed[1]
    OBVIOUS
<1>3. PICK c : c = Delta(e)
    OBVIOUS
<1>4. /\ meter' = Metered(e) /\ chat' = Read(c) /\ resp' = Emulated(c) /\ feed' = Tail(feed)
      /\ stage' = (IF c.k = "error" THEN "failed" ELSE "streaming") /\ answer' = answer
    BY <1>2, <1>3 DEF next_event
<1>5. /\ Fits(answer, chat.calls, c)
      /\ c.k = "error" => Read(c) = chat
      /\ c.k # "error" => Placed(answer, Tail(feed), Read(c), Metered(e))
    BY <1>1, <1>2, <1>3, ReadsOne
<1>6. /\ ChatWhole(Read(c)) /\ RespWhole(Emulated(c))
      /\ Emulated(c).calls = Read(c).calls /\ Emulated(c).final = resp.final
      /\ Announced(answer, Emulated(c).sent, Read(c).calls)
    BY <1>1, <1>5, Emits
<1>7. Shown(answer, Read(c).calls)
  <2>1. CASE c.k = "error"
    BY <1>1, <1>5, <2>1
  <2>2. CASE c.k # "error"
    <3>1. ASSUME NEW a, NEW f, NEW h, NEW m, a \in ProviderAnswers, Placed(a, f, h, m) PROVE Shown(a, h.calls)
      BY <3>1, PlacedShown
    <3> DEFINE h == Read(c)
               f == Tail(feed)
               m == Metered(e)
    <3>2. Placed(answer, f, h, m)
      BY <1>5, <2>2
    <3> HIDE DEF h, f, m
    <3>3. Shown(answer, h.calls)
      BY <1>1, <3>1, <3>2
    <3> QED
      BY <3>3 DEF h
  <2> QED
    BY <2>1, <2>2
<1>8. /\ answer' \in ProviderAnswers /\ ChatWhole(chat') /\ RespWhole(resp') /\ resp'.calls = chat'.calls
      /\ stage' \in {"streaming", "failed"} /\ Shown(answer', chat'.calls)
      /\ stage' # "failed" => Streamable(answer') /\ Placed(answer', feed', chat', meter')
      /\ resp'.final.ok = FALSE /\ Announced(answer', resp'.sent, chat'.calls)
  <2> DEFINE h == Read(c)
             f == Tail(feed)
             m == Metered(e)
             r == Emulated(c)
  <2>1. /\ chat' = h /\ feed' = f /\ meter' = m /\ resp' = r
        /\ ChatWhole(h) /\ RespWhole(r) /\ r.calls = h.calls /\ r.final = resp.final
        /\ Announced(answer, r.sent, h.calls) /\ Shown(answer, h.calls)
        /\ c.k # "error" => Placed(answer, f, h, m)
    BY <1>4, <1>5, <1>6, <1>7
  <2> HIDE DEF h, f, m, r
  <2> QED
    BY <1>1, <1>4, <2>1
<1> QED
    BY <1>8 DEF AnswersInv

\* Where the stream is does not depend on what it costs.
LEMMA PlacedStill ==
    ASSUME NEW a, NEW f, NEW h, NEW m, NEW g, Placed(a, f, h, m),
           g.text = h.text, g.calls = h.calls, g.finish = h.finish
    PROVE  Placed(a, f, g, m)
BY DEF Placed, Unread, Mid, MidAt, Late, ToldBy

\* The stream is over.
LEMMA AnswersClose ==
    ASSUME AnswersInv, stage = "streaming", NEW how \in {"ended", "cut"}, how = "ended" => feed = <<>>, Closing(how)
    PROVE  AnswersInv'
<1>1. /\ answer \in ProviderAnswers /\ ChatWhole(chat) /\ RespWhole(resp) /\ resp.calls = chat.calls
      /\ Shown(answer, chat.calls) /\ Streamable(answer) /\ Placed(answer, feed, chat, meter)
      /\ resp.final.ok = FALSE /\ Announced(answer, resp.sent, chat.calls)
    BY DEF AnswersInv
<1> DEFINE u == usage_out
           h == [chat EXCEPT !.usage = u]
           calls == resp.calls
           sent == resp.sent \o Dones(resp.calls)
           fin == Answered(h)
           whole == [resp EXCEPT !.sent = sent, !.final = fin]
<1>2. /\ chat' = h /\ stage' = how /\ answer' = answer /\ feed' = feed /\ meter' = meter
      /\ resp' = astream_responses(h)
    BY DEF Closing
<1>3. /\ h.text = chat.text /\ h.calls = chat.calls /\ h.finish = chat.finish /\ h.usage = u
      /\ ChatWhole(h)
  <2> HIDE DEF u
  <2> QED
    BY <1>1 DEF ChatWhole
<1>4. usage_out' = u
    BY <1>2 DEF usage_out
<1>5. /\ calls # <<>> /\ h.finish # "tool_calls" => resp' = resp
      /\ ~(calls # <<>> /\ h.finish # "tool_calls") => resp' = whole
  <2> HIDE DEF h
  <2>1. calls = h.calls
    BY <1>1, <1>3
  <2> QED
    BY <1>2, <2>1 DEF astream_responses, Answered, Dones
<1> HIDE DEF u, h
<1>6. whole = [calls |-> calls, sent |-> sent, final |-> fin]
  <2> DEFINE r1 == [resp EXCEPT !.sent = sent]
             f == resp.final
  <2> HIDE DEF sent, fin
  <2>1. r1 = [calls |-> calls, sent |-> sent, final |-> f]
    BY <1>1 DEF RespWhole
  <2>2. whole = [r1 EXCEPT !.final = fin]
    OBVIOUS
  <2> HIDE DEF r1, f, whole, calls
  <2>3. [r1 EXCEPT !.final = fin] = [calls |-> calls, sent |-> sent, final |-> fin]
    BY <2>1
  <2> QED
    BY <2>2, <2>3
<1>7. RespWhole(resp') /\ resp'.calls = chat'.calls /\ (Completed(answer, h, resp') \/ Uncompleted(answer, h, resp'))
  <2>1. CASE calls # <<>> /\ h.finish # "tool_calls"
    BY <1>1, <1>2, <1>3, <1>5, <2>1 DEF Uncompleted
  <2>2. CASE ~(calls # <<>> /\ h.finish # "tool_calls")
    <3>1. resp' = [calls |-> calls, sent |-> sent, final |-> fin]
      BY <1>5, <1>6, <2>2
    <3>2. sent = resp.sent \o Dones(h.calls) /\ calls = h.calls
      BY <1>1, <1>3
    <3> HIDE DEF sent, fin, calls
    <3>3. resp'.calls = calls /\ resp'.sent = sent /\ resp'.final = fin /\ RespWhole(resp')
      BY <3>1 DEF RespWhole
    <3>4. Announced(answer, resp.sent, h.calls)
      BY <1>1, <1>3
    <3>5. Completed(answer, h, resp')
      <4>1. h.calls = <<>> \/ h.finish = "tool_calls"
        BY <2>2, <3>2
      <4>2. resp'.final = Answered(h)
        BY <3>3 DEF fin
      <4> QED
        BY <3>2, <3>3, <3>4, <4>1, <4>2 DEF Completed
    <3> QED
      BY <1>2, <3>2, <3>3, <3>5
  <2> QED
    BY <2>1, <2>2
<1>8. Placed(answer, feed, h, meter)
  <2>1. \A f, g, m : Placed(answer, f, g, m) /\ h.text = g.text /\ h.calls = g.calls /\ h.finish = g.finish =>
                       Placed(answer, f, h, m)
    <3> SUFFICES ASSUME NEW a, NEW k PROVE \A f, g, m : Placed(a, f, g, m) /\ k.text = g.text /\ k.calls = g.calls /\ k.finish = g.finish =>
                       Placed(a, f, k, m)
      OBVIOUS
    <3> QED
      BY PlacedStill
  <2> QED
    BY <1>1, <1>3, <2>1
<1> QED
    BY <1>1, <1>2, <1>3, <1>4, <1>7, <1>8 DEF AnswersInv

\* Every step keeps the invariant: an event read, the end of the stream, a cut.
LEMMA AnswersStep == AnswersInv /\ [AnswersNext]_ansVars => AnswersInv'
<1> SUFFICES ASSUME AnswersInv, [AnswersNext]_ansVars PROVE AnswersInv'
    OBVIOUS
<1>1. CASE next_event
    BY <1>1, AnswersRead
<1>2. CASE end_of_stream
    BY <1>2, AnswersClose DEF end_of_stream
<1>3. CASE CutShort
    BY <1>3, AnswersClose DEF CutShort
<1>4. CASE UNCHANGED ansVars
  <2>1. answer' = answer /\ feed' = feed /\ chat' = chat /\ meter' = meter /\ resp' = resp /\ stage' = stage
    BY <1>4 DEF ansVars
  <2>2. usage_out' = usage_out
    BY <2>1 DEF usage_out
  <2> QED
    BY <2>1, <2>2 DEF AnswersInv
<1> QED
    BY <1>1, <1>2, <1>3, <1>4 DEF AnswersNext

-----------------------------------------------------------------------------
(* What the whole translation makes of the blocks.                         *)

ToolParts(a) == [i \in DOMAIN a.blocks |-> IF a.blocks[i].kind = "tool" THEN <<a.blocks[i]>> ELSE <<>>]

ArguedFor(a) == \A i \in DOMAIN a.blocks : a.blocks[i].kind = "tool" => a.blocks[i].x # <<>>

\* The tool blocks of an answer, part by part.
LEMMA ToolPartsShape ==
    ASSUME NEW a \in ProviderAnswers
    PROVE  /\ ToolParts(a) \in Seq(Seq(Range(a.blocks))) /\ Len(ToolParts(a)) = Len(a.blocks)
           /\ ToolBlocks(a.blocks) = Part(ToolParts(a), Len(a.blocks))
           /\ ToolBlocks(a.blocks) \in Seq(Range(a.blocks))
<1> DEFINE L == Len(a.blocks)
           tp == ToolParts(a)
           B == Range(a.blocks)
<1>1. L \in Nat /\ DOMAIN a.blocks = 1 .. L /\ \A i \in 1 .. L : a.blocks[i] \in B
    BY AnswerShape
<1>2. \A i \in 1 .. L : tp[i] \in Seq(B)
  <2> HIDE DEF B
  <2>1. <<>> \in Seq(B) /\ \A i \in 1 .. L : <<a.blocks[i]>> \in Seq(B)
    BY <1>1
  <2> QED
    BY <1>1, <2>1 DEF ToolParts
<1>3. tp = [i \in 1 .. L |-> tp[i]]
    BY <1>1 DEF ToolParts
<1> HIDE DEF tp, B
<1>4. tp \in Seq(Seq(B)) /\ Len(tp) = L
    BY <1>1, <1>2, <1>3
<1>5. FlattenSeq(tp) = Part(tp, L) /\ Part(tp, L) \in Seq(B)
  <2>1. L \in 0 .. Len(tp)
    BY <1>1, <1>4
  <2> QED
    BY <1>4, <2>1, FlattenIsPart, PartSteps
<1>6. ToolBlocks(a.blocks) = FlattenSeq(tp)
    BY DEF ToolBlocks, ToolParts, tp
<1> QED
    BY <1>4, <1>5, <1>6 DEF tp, B

\* The text of the answer is the text of its parts.
LEMMA TextWhole ==
    ASSUME NEW a \in ProviderAnswers, \A j \in DOMAIN a.blocks : IsText(a, a.blocks[j]) <=> a.blocks[j].kind = "text"
    PROVE  Part(TextParts(a), Len(a.blocks)) = Text(a.blocks)
<1>1. TextParts(a) = [i \in DOMAIN a.blocks |-> IF a.blocks[i].kind = "text" THEN a.blocks[i].x ELSE <<>>]
  <2>1. \A j \in DOMAIN a.blocks : TextParts(a)[j] = IF a.blocks[j].kind = "text" THEN a.blocks[j].x ELSE <<>>
    BY Fragments DEF TextParts, TextOf
  <2> QED
    BY <2>1 DEF TextParts
<1>2. FlattenSeq(TextParts(a)) = Part(TextParts(a), Len(a.blocks))
    BY PartsShape, FlattenIsPart
<1> QED
    BY <1>1, <1>2 DEF Text

\* The calls streamed are the calls of the whole, one for one.
LEMMA CallsWhole ==
    ASSUME NEW a \in ProviderAnswers, ArguedFor(a),
           \A j \in DOMAIN a.blocks : IsCall(a, a.blocks[j]) <=> a.blocks[j].kind = "tool"
    PROVE  Items(Part(CallParts(a), Len(a.blocks))) = ToolCalls(a.blocks)
<1> DEFINE L == Len(a.blocks)
           P(i) == Part(CallParts(a), i)
           Q(i) == Part(ToolParts(a), i)
           Same(r, b) == r.id = b.id /\ r.name = b.name /\ r.x = Arguments(b)
           T == {i \in 0 .. L : Len(P(i)) = Len(Q(i)) /\ \A k \in 1 .. Len(P(i)) : Same(P(i)[k], Q(i)[k])}
<1>1. L \in Nat /\ DOMAIN a.blocks = 1 .. L
    BY AnswerShape
<1>2. 0 \in T
  <2>1. P(0) = <<>> /\ Q(0) = <<>> /\ Len(<<>>) = 0 /\ 0 \in 0 .. L
    BY <1>1 DEF Part
  <2> HIDE DEF Same, P, Q
  <2> QED
    BY <2>1
<1>3. ASSUME NEW i \in 1 .. L, i - 1 \in T PROVE i \in T
  <2> DEFINE b == a.blocks[i]
             p == P(i - 1)
             q == Q(i - 1)
             pp == CallParts(a)[i]
             qq == ToolParts(a)[i]
             r == P(i)
             t == Q(i)
  <2>1. i \in DOMAIN a.blocks /\ i - 1 \in 0 .. L /\ i \in 0 .. L
    BY <1>1
  <2>2. /\ r = p \o pp /\ p \in Seq(CallRecs(a)) /\ pp \in Seq(CallRecs(a))
        /\ t = q \o qq /\ q \in Seq(Range(a.blocks)) /\ qq \in Seq(Range(a.blocks))
    BY <1>1, <2>1, PartsShape, ToolPartsShape, PartSteps, ElementOfSeq
  <2>3. /\ pp = (IF b.kind = "tool" THEN <<CallRec(a, i, b.x)>> ELSE <<>>)
        /\ qq = (IF b.kind = "tool" THEN <<b>> ELSE <<>>)
    BY <2>1, Fragments DEF CallParts, CallOf, ToolParts
  <2>4. Len(p) = Len(q) /\ \A k \in 1 .. Len(p) : Same(p[k], q[k])
    BY <1>3
  <2>5. Len(pp) = Len(qq) /\ \A k \in 1 .. Len(pp) : Same(pp[k], qq[k])
    <3>1. CASE b.kind = "tool"
      <4>1. Same(CallRec(a, i, b.x), b)
        BY <2>1, <3>1 DEF ArguedFor, Arguments, CallRec
      <4> HIDE DEF Same, b
      <4>2. Len(pp) = 1 /\ Len(qq) = 1 /\ pp[1] = CallRec(a, i, b.x) /\ qq[1] = b
        BY <2>3, <3>1
      <4> QED
        BY <4>1, <4>2
    <3>2. CASE b.kind # "tool"
      <4> HIDE DEF Same, b
      <4>1. Len(pp) = 0 /\ Len(qq) = 0
        BY <2>3, <3>2
      <4> QED
        BY <4>1
    <3> QED
      BY <3>1, <3>2
  <2> HIDE DEF Same, b, p, q, pp, qq, r, t
  <2>6. /\ Len(p) \in Nat /\ Len(pp) \in Nat /\ Len(r) = Len(p) + Len(pp) /\ Len(t) = Len(p) + Len(pp)
        /\ \A k \in 1 .. Len(p) + Len(pp) : r[k] = IF k <= Len(p) THEN p[k] ELSE pp[k - Len(p)]
        /\ \A k \in 1 .. Len(p) + Len(pp) : t[k] = IF k <= Len(p) THEN q[k] ELSE qq[k - Len(p)]
    <3>1. /\ Len(p) \in Nat /\ Len(pp) \in Nat /\ Len(r) = Len(p) + Len(pp)
          /\ \A k \in 1 .. Len(p) + Len(pp) : r[k] = IF k <= Len(p) THEN p[k] ELSE pp[k - Len(p)]
      BY <2>2, ConcatProperties, LenProperties
    <3>2. /\ Len(t) = Len(q) + Len(qq)
          /\ \A k \in 1 .. Len(q) + Len(qq) : t[k] = IF k <= Len(q) THEN q[k] ELSE qq[k - Len(q)]
      BY <2>2, ConcatProperties, LenProperties
    <3>3. Len(q) = Len(p) /\ Len(qq) = Len(pp)
      BY <2>4, <2>5
    <3> QED
      BY <3>1, <3>2, <3>3
  <2>7. ASSUME NEW k \in 1 .. Len(r) PROVE Same(r[k], t[k])
    <3>1. CASE k <= Len(p)
      <4>1. k \in 1 .. Len(p) /\ r[k] = p[k] /\ t[k] = q[k]
        BY <2>6, <3>1
      <4> QED
        BY <2>4, <4>1
    <3>2. CASE ~(k <= Len(p))
      <4>1. k - Len(p) \in 1 .. Len(pp) /\ r[k] = pp[k - Len(p)] /\ t[k] = qq[k - Len(p)]
        BY <2>6, <3>2
      <4> QED
        BY <2>5, <4>1
    <3> QED
      BY <3>1, <3>2
  <2> QED
    BY <2>1, <2>6, <2>7 DEF r, t
<1>4. \A i \in 0 .. L : i \in T
  <2> HIDE DEF T
  <2> QED
    BY <1>1, <1>2, <1>3, Climb
<1> DEFINE c == P(L)
           ts == Q(L)
<1>5. Len(c) = Len(ts) /\ \A k \in 1 .. Len(c) : Same(c[k], ts[k])
  <2>1. L \in T
    BY <1>1, <1>4
  <2> HIDE DEF Same, P, Q
  <2> QED
    BY <2>1
<1>6. ts = ToolBlocks(a.blocks) /\ ts \in Seq(Range(a.blocks)) /\ c \in Seq(CallRecs(a))
  <2>1. L \in 0 .. L
    BY <1>1
  <2> QED
    BY <2>1, ToolPartsShape, SpotParts
<1> HIDE DEF c, ts
<1>7. DOMAIN c = 1 .. Len(c) /\ DOMAIN ts = 1 .. Len(c)
    BY <1>5, <1>6, LenProperties
<1>8. Items(c) = ToolCalls(a.blocks)
  <2>1. Items(c) = [k \in DOMAIN ts |-> [id |-> c[k].id, name |-> c[k].name, x |-> c[k].x]]
    BY <1>7 DEF Items
  <2>2. ToolCalls(a.blocks) = [k \in DOMAIN ts |-> [id |-> ts[k].id, name |-> ts[k].name, x |-> Arguments(ts[k])]]
    BY <1>6 DEF ToolCalls
  <2>3. \A k \in DOMAIN ts : c[k].id = ts[k].id /\ c[k].name = ts[k].name /\ c[k].x = Arguments(ts[k])
    BY <1>5, <1>7
  <2> QED
    BY <2>1, <2>2, <2>3
<1> QED
    BY <1>8 DEF c

\* An answer of nothing but tool calls has a call for every block.
LEMMA AllCalls ==
    ASSUME NEW a \in ProviderAnswers, \A i \in DOMAIN a.blocks : a.blocks[i].kind = "tool"
    PROVE  Len(ToolCalls(a.blocks)) = Len(a.blocks)
<1> DEFINE L == Len(a.blocks)
           Q(i) == Part(ToolParts(a), i)
           T == {i \in 0 .. L : Len(Q(i)) = i}
<1>1. L \in Nat /\ DOMAIN a.blocks = 1 .. L
    BY AnswerShape
<1>2. 0 \in T
  <2>1. Q(0) = <<>> /\ Len(<<>>) = 0 /\ 0 \in 0 .. L
    BY <1>1 DEF Part
  <2> HIDE DEF Q
  <2> QED
    BY <2>1
<1>3. ASSUME NEW i \in 1 .. L, i - 1 \in T PROVE i \in T
  <2> DEFINE q == Q(i - 1)
             qq == ToolParts(a)[i]
             t == Q(i)
  <2>1. i \in DOMAIN a.blocks /\ i - 1 \in 0 .. L /\ i \in 0 .. L
    BY <1>1
  <2>2. t = q \o qq /\ q \in Seq(Range(a.blocks)) /\ qq \in Seq(Range(a.blocks))
    BY <1>1, <2>1, ToolPartsShape, PartSteps, ElementOfSeq
  <2>3. qq = <<a.blocks[i]>>
    BY <2>1 DEF ToolParts
  <2>4. Len(q) = i - 1
    BY <1>3
  <2> HIDE DEF q, qq, t
  <2>5. Len(qq) = 1
    BY <2>3
  <2>6. Len(t) = Len(q) + Len(qq)
    BY <2>2, ConcatProperties
  <2>7. Len(t) = i
    BY <2>4, <2>5, <2>6
  <2> QED
    BY <2>1, <2>7 DEF t
<1>4. \A i \in 0 .. L : i \in T
  <2> HIDE DEF T
  <2> QED
    BY <1>1, <1>2, <1>3, Climb
<1> DEFINE ts == Q(L)
<1>5. Len(ts) = L
    BY <1>1, <1>4
<1>6. ts = ToolBlocks(a.blocks) /\ ts \in Seq(Range(a.blocks))
    BY ToolPartsShape
<1> HIDE DEF ts, L
<1>7. DOMAIN ts = 1 .. Len(ts)
    BY <1>6, LenProperties
<1>8. ToolCalls(a.blocks) = [k \in 1 .. Len(ts) |-> [id |-> ts[k].id, name |-> ts[k].name, x |-> Arguments(ts[k])]]
    BY <1>6, <1>7 DEF ToolCalls
<1>9. Len(ToolCalls(a.blocks)) = Len(ts)
    BY <1>1, <1>5, <1>8
<1> QED
    BY <1>5, <1>9 DEF L

\* Calls and the name of the only one.
LEMMA OneCall ==
    ASSUME NEW a \in ProviderAnswers, Len(a.blocks) = 1, a.blocks[1].kind = "tool"
    PROVE  /\ 1 \in DOMAIN a.blocks
           /\ ToolCalls(a.blocks)[1] = [id |-> a.blocks[1].id, name |-> a.blocks[1].name, x |-> Arguments(a.blocks[1])]
           /\ Part(CallParts(a), 1) = CallOf(a, 1, Len(a.blocks[1].x))
           /\ Part(TextParts(a), 1) = TextOf(a, 1, Len(a.blocks[1].x))
<1>1. DOMAIN a.blocks = 1 .. 1 /\ 1 \in DOMAIN a.blocks /\ 1 \in 1 .. Len(a.blocks) /\ 1 - 1 = 0
    BY AnswerShape
<1>2. /\ Part(CallParts(a), 1) = <<>> \o CallParts(a)[1] /\ CallParts(a)[1] \in Seq(CallRecs(a))
      /\ Part(TextParts(a), 1) = <<>> \o TextParts(a)[1] /\ TextParts(a)[1] \in Seq(Words(a))
      /\ Part(ToolParts(a), 1) = <<>> \o ToolParts(a)[1] /\ ToolParts(a)[1] \in Seq(Range(a.blocks))
  <2>1. /\ Part(CallParts(a), 1) = Part(CallParts(a), 1 - 1) \o CallParts(a)[1] /\ Part(CallParts(a), 0) = <<>>
        /\ Part(TextParts(a), 1) = Part(TextParts(a), 1 - 1) \o TextParts(a)[1] /\ Part(TextParts(a), 0) = <<>>
    BY <1>1, PartsShape, PartSteps
  <2>2. Part(ToolParts(a), 1) = Part(ToolParts(a), 1 - 1) \o ToolParts(a)[1] /\ Part(ToolParts(a), 0) = <<>>
    BY <1>1, ToolPartsShape, PartSteps
  <2>3. /\ CallParts(a)[1] \in Seq(CallRecs(a)) /\ TextParts(a)[1] \in Seq(Words(a))
        /\ ToolParts(a)[1] \in Seq(Range(a.blocks))
    BY <1>1, PartsShape, ToolPartsShape, ElementOfSeq
  <2> QED
    BY <1>1, <2>1, <2>2, <2>3
<1>3. /\ <<>> \o CallParts(a)[1] = CallParts(a)[1] /\ <<>> \o TextParts(a)[1] = TextParts(a)[1]
      /\ <<>> \o ToolParts(a)[1] = ToolParts(a)[1]
    BY <1>2, ConcatEmptySeq
<1>4. CallParts(a)[1] = CallOf(a, 1, Len(a.blocks[1].x)) /\ TextParts(a)[1] = TextOf(a, 1, Len(a.blocks[1].x))
    BY <1>1 DEF CallParts, TextParts
<1>5. ToolBlocks(a.blocks) = <<a.blocks[1]>>
  <2>1. ToolParts(a)[1] = <<a.blocks[1]>>
    BY <1>1 DEF ToolParts
  <2> QED
    BY <1>2, <1>3, <2>1, ToolPartsShape
<1>6. ToolCalls(a.blocks)[1] = [id |-> a.blocks[1].id, name |-> a.blocks[1].name, x |-> Arguments(a.blocks[1])]
  <2> DEFINE b == a.blocks[1]
             s == <<b>>
  <2>1. 1 \in DOMAIN s /\ s[1] = b
    OBVIOUS
  <2> HIDE DEF s, b
  <2>2. ToolCalls(a.blocks) = [k \in DOMAIN s |-> [id |-> s[k].id, name |-> s[k].name, x |-> Arguments(s[k])]]
    BY <1>5 DEF ToolCalls, s, b
  <2> QED
    BY <2>1, <2>2 DEF b
<1> QED
    BY <1>1, <1>2, <1>3, <1>4, <1>6

-----------------------------------------------------------------------------
(* The stream at its end, and the whole answer.                            *)

\* No items, no calls.
LEMMA EmptyItems ==
    ASSUME NEW S, NEW c \in Seq(S)
    PROVE  Items(c) = <<>> <=> c = <<>>
<1>1. Len(c) \in Nat /\ DOMAIN c = 1 .. Len(c)
    BY LenProperties
<1>2. DOMAIN Items(c) = DOMAIN c
    BY DEF Items
<1>3. CASE c = <<>>
  <2>1. DOMAIN c = {}
    BY <1>3
  <2>2. Items(c) = [j \in {} |-> [id |-> c[j].id, name |-> c[j].name, x |-> c[j].x]]
    BY <2>1 DEF Items
  <2>3. Items(c) = <<>>
    BY <2>2
  <2> QED
    BY <1>3, <2>3
<1>4. CASE c # <<>>
  <2>1. Len(c) # 0
    BY <1>4
  <2>2. 1 \in DOMAIN c
    BY <1>1, <2>1
  <2>3. DOMAIN <<>> = {}
    OBVIOUS
  <2> HIDE DEF Items
  <2>4. Items(c) # <<>>
    BY <1>2, <2>2, <2>3
  <2> QED
    BY <1>4, <2>4
<1> QED
    BY <1>3, <1>4

\* What was shown are calls, of blocks that are.
LEMMA ShownCalls ==
    ASSUME NEW a \in ProviderAnswers, NEW calls, Shown(a, calls)
    PROVE  /\ calls \in Seq(CallRecs(a))
           /\ \A k \in DOMAIN calls : \E j \in DOMAIN a.blocks :
                IsCall(a, a.blocks[j]) /\ calls[k].name = a.blocks[j].name
<1>1. PICK j \in 0 .. Len(a.blocks) : \E n \in 0 .. Size(a, j) : calls = CallsAt(a, j, n)
    BY DEF Shown
<1>2. PICK n \in 0 .. Size(a, j) : calls = CallsAt(a, j, n)
    BY <1>1
<1>3. CASE j = 0
  <2>1. calls = <<>>
    BY <1>2, <1>3 DEF CallsAt
  <2>2. DOMAIN <<>> = {}
    OBVIOUS
  <2>3. <<>> \in Seq(CallRecs(a))
    OBVIOUS
  <2> QED
    BY <2>1, <2>2, <2>3
<1>4. CASE j # 0
  <2> DEFINE b == a.blocks[j]
             p == Part(CallParts(a), j - 1)
             c == CallOf(a, j, n)
             y == SubSeq(b.x, 1, n)
             Fine(r) == \E i \in DOMAIN a.blocks : IsCall(a, a.blocks[i]) /\ r.name = a.blocks[i].name
  <2>1. j \in DOMAIN a.blocks /\ Size(a, j) = Len(b.x) /\ n \in 0 .. Len(b.x) /\ j - 1 \in 0 .. Len(a.blocks)
        /\ DOMAIN a.blocks = 1 .. Len(a.blocks) /\ 1 .. j - 1 \subseteq DOMAIN a.blocks
    BY <1>2, <1>4, SizeIn, AnswerShape DEF Size
  <2>2. calls = p \o c
    BY <1>2, <1>4 DEF CallsAt
  <2>3. p \in Seq(CallRecs(a)) /\ \A k \in 1 .. Len(p) : Fine(p[k])
    <3>1. \A k \in 1 .. Len(p) : p[k].i \in 1 .. j - 1 /\ p[k] = CallRec(a, p[k].i, a.blocks[p[k].i].x) /\ IsCall(a, a.blocks[p[k].i])
      BY <2>1, PassedCalls
    <3>2. \A k \in 1 .. Len(p) : p[k].i \in DOMAIN a.blocks
      BY <2>1, <3>1
    <3>4. \A i, x : CallRec(a, i, x).name = a.blocks[i].name
      BY DEF CallRec
    <3>3. \A k \in 1 .. Len(p) : p[k].name = a.blocks[p[k].i].name
      <4> HIDE DEF p
      <4> QED
        BY <3>1, <3>4
    <3> QED
      BY <2>1, <3>1, <3>2, <3>3, SpotParts
  <2>4. c \in Seq(CallRecs(a)) /\ \A k \in 1 .. Len(c) : Fine(c[k])
    <3>1. CallRec(a, j, y) \in CallRecs(a)
      <4>1. y \in Seq(Words(a))
        BY <2>1, Fragments
      <4> HIDE DEF y
      <4> QED
        BY <2>1, <4>1, RecIn
    <3>2. c = IF IsCall(a, b) THEN <<CallRec(a, j, y)>> ELSE <<>>
      BY DEF CallOf
    <3>3. CallRec(a, j, y).name = b.name
      BY DEF CallRec
    <3> DEFINE r == CallRec(a, j, y)
    <3>4. IsCall(a, b) => Fine(r)
      BY <2>1, <3>3
    <3> HIDE DEF r, c, b, Fine
    <3>5. c = IF IsCall(a, b) THEN <<r>> ELSE <<>>
      BY <3>2 DEF r
    <3>6. r \in CallRecs(a)
      BY <3>1 DEF r
    <3>7. CASE IsCall(a, b)
      <4>1. c = <<r>> /\ Fine(r)
        BY <3>4, <3>5, <3>7
      <4> QED
        BY <3>6, <4>1
    <3>8. CASE ~IsCall(a, b)
      <4>1. c = <<>> /\ Len(<<>>) = 0
        BY <3>5, <3>8
      <4> QED
        BY <4>1
    <3> QED
      BY <3>7, <3>8
  <2> HIDE DEF p, c, Fine
  <2>5. /\ Len(p) \in Nat /\ Len(c) \in Nat /\ calls \in Seq(CallRecs(a)) /\ DOMAIN calls = 1 .. Len(p) + Len(c)
        /\ \A k \in 1 .. Len(p) + Len(c) : calls[k] = IF k <= Len(p) THEN p[k] ELSE c[k - Len(p)]
    <3>1. /\ calls \in Seq(CallRecs(a)) /\ Len(calls) = Len(p) + Len(c)
          /\ \A k \in 1 .. Len(p) + Len(c) : calls[k] = IF k <= Len(p) THEN p[k] ELSE c[k - Len(p)]
      BY <2>2, <2>3, <2>4, ConcatProperties
    <3> QED
      BY <2>3, <2>4, <3>1, LenProperties
  <2>6. ASSUME NEW k \in DOMAIN calls PROVE Fine(calls[k])
    <3>1. CASE k <= Len(p)
      <4>1. k \in 1 .. Len(p) /\ calls[k] = p[k]
        BY <2>5, <3>1
      <4> QED
        BY <2>3, <4>1
    <3>2. CASE ~(k <= Len(p))
      <4>1. k - Len(p) \in 1 .. Len(c) /\ calls[k] = c[k - Len(p)]
        BY <2>5, <3>2
      <4> QED
        BY <2>4, <4>1
    <3> QED
      BY <3>1, <3>2
  <2> QED
    BY <2>5, <2>6 DEF Fine
<1> QED
    BY <1>3, <1>4

\* An ended stream was read to its end.
LEMMA Ended ==
    ASSUME AnswersInv, stage = "ended"
    PROVE  /\ answer \in ProviderAnswers /\ Streamable(answer)
           /\ chat.text = Part(TextParts(answer), Len(answer.blocks))
           /\ chat.calls = Part(CallParts(answer), Len(answer.blocks))
           /\ chat.finish = FinishOf(answer, chat.calls)
           /\ chat.usage = IF answer.provider = "anthropic" /\ answer.stop = "refusal" /\ answer.out = 0
                           THEN Use(0, 0) ELSE Full(answer)
<1> DEFINE a == answer
           p == ProviderStream(a)
<1>1. a \in ProviderAnswers /\ Streamable(a) /\ Placed(a, feed, chat, meter) /\ feed = <<>> /\ chat.usage = usage_out
    BY DEF AnswersInv
<1>2. p \in Seq(Events(a)) /\ Len(p) \in Nat /\ 1 \in 1 .. Len(p)
  <2> DEFINE m == Part(Segments(a), Len(a.blocks))
  <2>1. p \in Seq(Events(a)) /\ Len(m) \in Nat /\ Len(p) = Len(m) + (IF a.provider = "bedrock" THEN 3 ELSE 2)
    BY <1>1, StreamShape
  <2> HIDE DEF p, m
  <2>2. Len(p) \in Nat /\ 1 \in 1 .. Len(p)
    BY <2>1
  <2> QED
    BY <2>1, <2>2
<1>3. ~Unread(a, feed, chat, meter)
  <2>1. p # <<>>
    <3> HIDE DEF p
    <3> QED
      BY <1>2
  <2> QED
    BY <1>1, <2>1 DEF Unread
<1>4. ~Mid(a, feed, chat, meter)
  <2> SUFFICES ASSUME NEW j \in 0 .. Len(a.blocks), NEW n \in 0 .. Size(a, j), MidAt(a, feed, chat, meter, j, n)
               PROVE  FALSE
    BY DEF Mid
  <2> DEFINE q == EventsAt(a, j, n) + 1
  <2>1. n \in Nat /\ n <= Size(a, j)
    BY <1>1, SizeIn
  <2>2. q \in 1 .. Len(p)
    BY <1>1, <2>1, NextOfStream
  <2>3. feed = SubSeq(p, q, Len(p))
    BY DEF MidAt
  <2> HIDE DEF p, q
  <2>4. SubSeq(p, q, Len(p)) # <<>>
    BY <1>2, <2>2, FeedStep
  <2> QED
    BY <1>1, <2>3, <2>4
<1>5. Late(a, feed, chat, meter) /\ meter = Counts(1, a.out, a.provider # "bedrock" /\ a.stop = "refusal")
  <2>1. Late(a, feed, chat, meter)
    BY <1>1, <1>3, <1>4 DEF Placed
  <2>2. <<UsageEvent(a)>> # <<>>
    OBVIOUS
  <2> QED
    BY <1>1, <2>1, <2>2 DEF Late
<1>6. chat.usage = IF a.provider = "anthropic" /\ a.stop = "refusal" /\ a.out = 0 THEN Use(0, 0) ELSE Full(a)
  <2>1. meter.in = 1 /\ meter.out = a.out /\ meter.refused = (a.provider # "bedrock" /\ a.stop = "refusal")
    BY <1>5 DEF Counts
  <2> QED
    BY <1>1, <2>1 DEF usage_out, Full
<1> QED
    BY <1>1, <1>5, <1>6 DEF Late

\* Only Anthropic is asked for calls in a stream.
LEMMA NoCallsElse ==
    ASSUME NEW a \in ProviderAnswers, a.provider # "anthropic"
    PROVE  Part(CallParts(a), Len(a.blocks)) = <<>>
<1> DEFINE c == Part(CallParts(a), Len(a.blocks))
<1>1. Len(a.blocks) \in 0 .. Len(a.blocks)
  <2>1. Len(a.blocks) \in Nat
    BY AnswerShape
  <2> QED
    BY <2>1
<1>2. c \in Seq(CallRecs(a)) /\ \A k \in 1 .. Len(c) : IsCall(a, a.blocks[c[k].i])
    BY <1>1, SpotParts, PassedCalls
<1>3. \A k \in 1 .. Len(c) : FALSE
    BY <1>2 DEF IsCall
<1> HIDE DEF c
<1>4. Len(c) \in Nat
    BY <1>2, LenProperties
<1>5. Len(c) = 0
    BY <1>3, <1>4
<1>6. c = <<>>
    BY <1>2, <1>5
<1> QED
    BY <1>6 DEF c

\* An answer that passes without tools has no calls.
LEMMA NoToolsNoCalls ==
    ASSUME NEW a \in ProviderAnswers, a.provider # "anthropic", a.ask.tools = {}, Whole(a).ok
    PROVE  Whole(a) = Translation(TRUE, Text(a.blocks), <<>>, _FINISH_REASON(a.stop), Full(a))
<1> DEFINE tc == ToolCalls(a.blocks)
           full == Translation(TRUE, Text(a.blocks), tc,
                               IF tc # <<>> THEN "tool_calls" ELSE _FINISH_REASON(a.stop), Full(a))
<1>1. a.provider \in {"anthropic", "bedrock", "vertex"} /\ ~Named(a.ask)
    BY AnswerShape
<1>2. _invalid_response(a).ok = FALSE
    BY DEF _invalid_response, Translation
<1>3. Whole(a) = full /\ WellFormedCalls(tc, {})
  <2> HIDE DEF tc
  <2>1. CASE a.provider = "bedrock"
    <3>1. Whole(a) = from_converse_response(a)
      BY <2>1 DEF Whole
    <3>2. Whole(a) = full /\ WellFormedCalls(tc, a.ask.tools)
      BY <1>2, <3>1 DEF from_converse_response, tc
    <3> QED
      BY <3>2
  <2>2. CASE a.provider = "vertex"
    <3>1. Whole(a) = from_gemini_response(a)
      BY <2>2 DEF Whole
    <3>2. Whole(a) = full /\ WellFormedCalls(tc, a.ask.tools)
      BY <1>1, <1>2, <3>1 DEF from_gemini_response, tc
    <3> QED
      BY <3>2
  <2> QED
    BY <1>1, <2>1, <2>2
<1>4. tc = <<>>
  <2> DEFINE ts == ToolBlocks(a.blocks)
  <2>1. DOMAIN tc = {}
    BY <1>3 DEF WellFormedCalls
  <2>2. DOMAIN ts = {}
    BY <2>1 DEF ToolCalls
  <2>3. ts \in Seq(Range(a.blocks))
    BY ToolPartsShape
  <2>4. tc = [i \in DOMAIN ts |-> [id |-> ts[i].id, name |-> ts[i].name, x |-> Arguments(ts[i])]]
    BY DEF ToolCalls
  <2> HIDE DEF tc, ts
  <2>5. tc = [i \in {} |-> [id |-> ts[i].id, name |-> ts[i].name, x |-> Arguments(ts[i])]]
    BY <2>2, <2>4
  <2> QED
    BY <2>5
<1> HIDE DEF tc
<1> QED
    BY <1>3, <1>4

\* Streamed or whole: the same.
LEMMA WholeStreamed ==
    ASSUME NEW a \in ProviderAnswers, Streamable(a), Whole(a).ok, a.stop # "refusal", ArguedFor(a)
    PROVE  LET t == Part(TextParts(a), Len(a.blocks))
               c == Part(CallParts(a), Len(a.blocks))
           IN  Whole(a) = Translation(TRUE, t, Items(c), FinishOf(a, c), Full(a))
<1> DEFINE t == Part(TextParts(a), Len(a.blocks))
           c == Part(CallParts(a), Len(a.blocks))
           tc == ToolCalls(a.blocks)
<1>1. a.provider \in {"anthropic", "bedrock", "vertex"} /\ (a.ask.forced => a.provider = "anthropic")
      /\ Len(a.blocks) \in Nat /\ DOMAIN a.blocks = 1 .. Len(a.blocks)
    BY AnswerShape
<1>2. _invalid_response(a).ok = FALSE
    BY DEF _invalid_response, Translation
<1>3. c \in Seq(CallRecs(a))
  <2>1. Len(a.blocks) \in 0 .. Len(a.blocks)
    BY <1>1
  <2> QED
    BY <2>1, SpotParts
<1> HIDE DEF tc, c, t
<1>4. CASE a.provider = "anthropic" /\ ~a.ask.forced
  <2>1. Whole(a) = from_anthropic_response(a)
    BY <1>4 DEF Whole
  <2>2. Whole(a) = Translation(TRUE, Text(a.blocks), tc,
                               IF tc # <<>> THEN "tool_calls" ELSE _FINISH_REASON(a.stop), Full(a))
    BY <1>2, <1>4, <2>1 DEF from_anthropic_response, tc
  <2>3. t = Text(a.blocks)
    <3>1. \A j \in DOMAIN a.blocks : IsText(a, a.blocks[j]) <=> a.blocks[j].kind = "text"
      BY <1>4 DEF IsText
    <3> QED
      BY <3>1, TextWhole DEF t
  <2>4. Items(c) = tc
    <3>1. \A j \in DOMAIN a.blocks : IsCall(a, a.blocks[j]) <=> a.blocks[j].kind = "tool"
      BY <1>4 DEF IsCall
    <3> QED
      BY <3>1, CallsWhole DEF c, tc
  <2>5. c # <<>> <=> tc # <<>>
    BY <1>3, <2>4, EmptyItems
  <2> QED
    BY <1>4, <2>2, <2>3, <2>4, <2>5 DEF FinishOf, t, c
<1>5. CASE a.provider = "anthropic" /\ a.ask.forced
  <2>1. Whole(a) = from_anthropic_response(a)
    BY <1>5 DEF Whole
  <2>2. Whole(a) = Translation(TRUE, tc[1].x, <<>>, "stop", Full(a)) /\ Structured(a, tc)
    BY <1>2, <1>5, <2>1 DEF from_anthropic_response, tc
  <2> DEFINE b == a.blocks[1]
  <2>3. (\A i \in DOMAIN a.blocks : a.blocks[i].kind = "tool") /\ Len(tc) = 1 /\ tc[1].name = Forced /\ a.stop = "tool"
    BY <2>2 DEF Structured
  <2>4. Len(a.blocks) = 1
    BY <2>3, AllCalls DEF tc
  <2>5. 1 \in DOMAIN a.blocks /\ b.kind = "tool"
    BY <1>1, <2>3, <2>4
  <2>6. tc[1] = [id |-> b.id, name |-> b.name, x |-> Arguments(b)] /\ c = CallOf(a, 1, Len(b.x)) /\ t = TextOf(a, 1, Len(b.x))
    BY <2>4, <2>5, OneCall DEF tc, c, t
  <2>7. b.name = Forced /\ tc[1].x = Arguments(b)
    BY <2>3, <2>6
  <2>8. Arguments(b) = b.x
    BY <2>5 DEF ArguedFor, Arguments
  <2>9. c = <<>>
    BY <1>5, <2>6, <2>7 DEF CallOf, IsCall
  <2>10. t = b.x
    BY <1>5, <2>5, <2>6, <2>7, Fragments DEF TextOf, IsText
  <2>11. Items(c) = <<>> /\ FinishOf(a, c) = "stop"
    BY <1>3, <2>3, <2>9, EmptyItems DEF FinishOf, _FINISH_REASON
  <2> QED
    BY <2>2, <2>7, <2>8, <2>10, <2>11 DEF t, c
<1>6. CASE a.provider # "anthropic"
  <2>1. a.ask.tools = {}
    BY <1>6 DEF Streamable
  <2>2. Whole(a) = Translation(TRUE, Text(a.blocks), <<>>, _FINISH_REASON(a.stop), Full(a))
    BY <1>6, <2>1, NoToolsNoCalls
  <2>3. c = <<>>
    BY <1>6, NoCallsElse DEF c
  <2>4. t = Text(a.blocks)
    <3>1. \A j \in DOMAIN a.blocks : IsText(a, a.blocks[j]) <=> a.blocks[j].kind = "text"
      BY <1>6 DEF IsText
    <3> QED
      BY <3>1, TextWhole DEF t
  <2>5. Items(c) = <<>>
    BY <1>3, <2>3, EmptyItems
  <2> QED
    BY <1>6, <2>2, <2>3, <2>4, <2>5 DEF FinishOf, t, c
<1> QED
    BY <1>1, <1>4, <1>5, <1>6

\* What a refusal costs, and says.
LEMMA WholeRefused ==
    ASSUME NEW a \in ProviderAnswers, Streamable(a), a.stop = "refusal"
    PROVE  LET w == Whole(a)
               u == IF a.provider = "anthropic" /\ a.out = 0 THEN Use(0, 0) ELSE Full(a)
           IN  /\ w.usage = u
               /\ w.ok => w.calls = <<>> /\ w.finish = "content_filter"
<1> DEFINE w == Whole(a)
           tc == ToolCalls(a.blocks)
<1>1. a.provider \in {"anthropic", "bedrock", "vertex"} /\ a.metered /\ _FINISH_REASON("refusal") = "content_filter"
    BY AnswerShape DEF Streamable, _FINISH_REASON
<1>2. _invalid_response(a).ok = FALSE /\ _invalid_response(a).usage = Full(a)
    BY <1>1 DEF _invalid_response, Translation, _billable_response
<1>3. CASE a.provider = "anthropic"
  <2>1. w = Translation(TRUE, <<>>, <<>>, "content_filter", IF a.out = 0 THEN Use(0, 0) ELSE Full(a))
    BY <1>1, <1>3 DEF Whole, from_anthropic_response
  <2> HIDE DEF w
  <2> QED
    BY <1>3, <2>1 DEF Translation, w
<1>4. CASE a.provider # "anthropic"
  <2> HIDE DEF tc
  <2>1. w = _invalid_response(a) \/ \E f : w = Translation(TRUE, Text(a.blocks), tc, f, Full(a))
    <3>1. CASE a.provider = "bedrock"
      BY <3>1 DEF Whole, from_converse_response, tc
    <3>2. CASE a.provider = "vertex"
      BY <3>2 DEF Whole, from_gemini_response, tc
    <3> QED
      BY <1>1, <1>4, <3>1, <3>2
  <2>2. w.usage = Full(a)
    BY <1>2, <2>1 DEF Translation
  <2>3. w.ok => w = Translation(TRUE, Text(a.blocks), <<>>, _FINISH_REASON(a.stop), Full(a))
    BY <1>4, NoToolsNoCalls DEF Streamable
  <2> HIDE DEF w
  <2>4. w.ok => w.calls = <<>> /\ w.finish = "content_filter"
    BY <1>1, <2>3 DEF Translation
  <2> QED
    BY <1>4, <2>2, <2>4 DEF w
<1> QED
    BY <1>3, <1>4

-----------------------------------------------------------------------------
(* The properties.                                                         *)

AnnouncedSound(s) ==
    /\ \A k \in DOMAIN s : s[k].t = "added" => s[k].n = Cardinality(AddedIn(s, k))
    /\ \A k \in DOMAIN s : s[k].t = "args" => \E j \in 1 .. k : s[j].t = "added" /\ s[j].n = s[k].n
    /\ \A k \in DOMAIN s : s[k].t = "done" => s[k].x = ArgsIn(s, s[k].n)

\* What is announced is sound while the stream is open.
LEMMA AnnouncedOpen ==
    ASSUME NEW a, NEW s, NEW calls, Announced(a, s, calls)
    PROVE  AnnouncedSound(s)
<1>1. DOMAIN s = 1 .. Len(s)
    BY LenProperties DEF Announced
<1> QED
    BY <1>1 DEF Announced, AnnouncedSound

\* The done messages that close the stream repeat what was sent under each index.
LEMMA AnnouncedDone ==
    ASSUME NEW a, NEW s, NEW calls, Announced(a, s, calls)
    PROVE  AnnouncedSound(s \o Dones(calls))
<1> DEFINE d == Dones(calls)
           t == s \o d
           N == Len(s)
           M == Len(calls)
<1>1. s \in Seq(Messages(a)) /\ calls \in Seq(CallRecs(a)) /\ N \in Nat /\ M \in Nat /\ DOMAIN calls = 1 .. M
    BY LenProperties DEF Announced
<1>2. \A j \in 1 .. M : d[j] \in Messages(a) /\ d[j].t = "done" /\ d[j].n = j /\ d[j].x = calls[j].x
  <2> SUFFICES ASSUME NEW j \in 1 .. M
               PROVE  d[j] \in Messages(a) /\ d[j].t = "done" /\ d[j].n = j /\ d[j].x = calls[j].x
    OBVIOUS
  <2>1. d[j] = Sent("done", j, calls[j].x)
    BY <1>1 DEF Dones
  <2>2. calls[j] \in CallRecs(a)
    BY <1>1, ElementOfSeq
  <2>3. calls[j].x \in Seq(Words(a))
    BY <2>2 DEF CallRecs, CallRec
  <2>4. j \in Nat
    BY <1>1
  <2> HIDE DEF d
  <2> QED
    BY <2>1, <2>3, <2>4 DEF Sent, Messages
<1>3. d \in Seq(Messages(a)) /\ Len(d) = M
  <2>1. d = [j \in 1 .. M |-> d[j]]
    BY <1>1 DEF Dones
  <2> HIDE DEF d
  <2> QED
    BY <1>1, <1>2, <2>1
<1> HIDE DEF d
<1>4. /\ t \in Seq(Messages(a)) /\ Len(t) = N + M /\ DOMAIN t = 1 .. N + M
      /\ \A k \in 1 .. N + M : t[k] = IF k <= N THEN s[k] ELSE d[k - N]
  <2>1. /\ t \in Seq(Messages(a)) /\ Len(t) = N + Len(d)
        /\ \A k \in 1 .. N + Len(d) : t[k] = IF k <= N THEN s[k] ELSE d[k - N]
    BY <1>1, <1>3, ConcatProperties
  <2>2. DOMAIN t = 1 .. Len(t)
    BY <2>1, LenProperties
  <2> QED
    BY <1>3, <2>1, <2>2
<1> HIDE DEF t, N, M
<1>5. \A k \in 1 .. N : k \in 1 .. N + M /\ t[k] = s[k]
    BY <1>1, <1>4
<1>6. \A k \in 1 .. N + M : k \in 1 .. N \/ (k - N \in 1 .. M /\ t[k] = d[k - N] /\ t[k].t = "done")
  <2> SUFFICES ASSUME NEW k \in 1 .. N + M, k \notin 1 .. N
               PROVE  k - N \in 1 .. M /\ t[k] = d[k - N] /\ t[k].t = "done"
    OBVIOUS
  <2>1. k - N \in 1 .. M /\ ~(k <= N)
    BY <1>1
  <2> QED
    BY <1>2, <1>4, <2>1
<1>7. ASSUME NEW k \in 1 .. N PROVE AddedIn(t, k) = AddedIn(s, k)
  <2>1. \A j \in 1 .. k : t[j] = s[j]
    BY <1>1, <1>5
  <2> QED
    BY <2>1 DEF AddedIn
<1>8. ASSUME NEW n PROVE ArgsIn(t, n) = ArgsIn(s, n)
  <2> DEFINE ss == ArgsParts(s, n)
             tt == ArgsParts(t, n)
  <2>1. ss \in Seq(Seq(Words(a))) /\ tt \in Seq(Seq(Words(a))) /\ Len(ss) = N /\ Len(tt) = N + M
    BY <1>1, <1>4, ArgsShape DEF N
  <2>2. \A i \in 1 .. N : tt[i] = ss[i]
    <3>1. DOMAIN s = 1 .. N
      BY <1>1, LenProperties DEF N
    <3>2. \A i \in 1 .. N : i \in DOMAIN s /\ i \in DOMAIN t /\ t[i] = s[i]
      BY <1>4, <1>5, <3>1
    <3> QED
      BY <3>2 DEF ArgsParts
  <2>3. \A i \in N + 1 .. N + M : tt[i] = <<>>
    <3>1. \A i \in N + 1 .. N + M : i \in DOMAIN t /\ i \in 1 .. N + M /\ i \notin 1 .. N
      BY <1>1, <1>4
    <3>2. \A i \in N + 1 .. N + M : t[i].t = "done"
      BY <1>6, <3>1
    <3> QED
      BY <3>1, <3>2 DEF ArgsParts
  <2> HIDE DEF ss, tt
  <2>4. FlattenSeq(tt) = FlattenSeq(ss)
    <3>1. Len(ss) <= Len(tt)
      BY <1>1, <2>1
    <3> QED
      BY <2>1, <2>2, <2>3, <3>1, FlattenPadded
  <2> QED
    BY <2>4 DEF ArgsIn, ss, tt
<1>9. /\ \A k \in 1 .. N : s[k].t # "done"
      /\ \A k \in 1 .. N : s[k].t = "added" => s[k].n = Cardinality(AddedIn(s, k))
      /\ \A k \in 1 .. N : s[k].t = "args" => \E j \in 1 .. k : s[j].t = "added" /\ s[j].n = s[k].n
      /\ \A m \in 1 .. M : ArgsIn(s, m) = calls[m].x
    BY DEF Announced, N, M
<1>10. \A k \in DOMAIN t : t[k].t = "added" => t[k].n = Cardinality(AddedIn(t, k))
  <2> SUFFICES ASSUME NEW k \in DOMAIN t, t[k].t = "added" PROVE t[k].n = Cardinality(AddedIn(t, k))
    OBVIOUS
  <2>1. k \in 1 .. N
    BY <1>4, <1>6
  <2>2. AddedIn(t, k) = AddedIn(s, k) /\ t[k] = s[k]
    BY <1>5, <1>7, <2>1
  <2> QED
    BY <1>9, <2>1, <2>2
<1>11. \A k \in DOMAIN t : t[k].t = "args" => \E j \in 1 .. k : t[j].t = "added" /\ t[j].n = t[k].n
  <2> SUFFICES ASSUME NEW k \in DOMAIN t, t[k].t = "args" PROVE \E j \in 1 .. k : t[j].t = "added" /\ t[j].n = t[k].n
    OBVIOUS
  <2>1. k \in 1 .. N
    BY <1>4, <1>6
  <2>2. t[k] = s[k] /\ \A j \in 1 .. k : t[j] = s[j]
    <3>1. \A j \in 1 .. k : j \in 1 .. N
      BY <1>1, <2>1
    <3> QED
      BY <1>5, <2>1, <3>1
  <2> QED
    BY <1>9, <2>1, <2>2
<1>12. \A k \in DOMAIN t : t[k].t = "done" => t[k].x = ArgsIn(t, t[k].n)
  <2> SUFFICES ASSUME NEW k \in DOMAIN t, t[k].t = "done" PROVE t[k].x = ArgsIn(t, t[k].n)
    OBVIOUS
  <2>1. k \notin 1 .. N
    BY <1>5, <1>9
  <2>2. k - N \in 1 .. M /\ t[k] = d[k - N]
    BY <1>4, <1>6, <2>1
  <2>3. t[k].n = k - N /\ t[k].x = calls[k - N].x
    BY <1>2, <2>2 DEF M
  <2> QED
    BY <1>8, <1>9, <2>2, <2>3
<1>13. AnnouncedSound(t)
    BY <1>10, <1>11, <1>12 DEF AnnouncedSound
<1> QED
    BY <1>13 DEF t, d

\* The Responses emulation announces its calls in order, once each, and before
\* their arguments (responses_emulation.py, _handle_tool_call_delta).
LEMMA AnnouncedHolds == AnswersInv => CallsAnnounced
<1> SUFFICES ASSUME AnswersInv PROVE CallsAnnounced
    OBVIOUS
<1>1. \A a, s, calls : Announced(a, s, calls) => AnnouncedSound(s) /\ AnnouncedSound(s \o Dones(calls))
    BY AnnouncedOpen, AnnouncedDone
<1>2. AnnouncedSound(resp.sent)
  <2>1. CASE stage \in {"streaming", "failed"}
    BY <1>1, <2>1 DEF AnswersInv
  <2>2. CASE stage \in {"ended", "cut"}
    BY <1>1, <2>2 DEF AnswersInv, Completed, Uncompleted
  <2> QED
    BY <2>1, <2>2 DEF AnswersInv
<1> QED
    BY <1>2 DEF CallsAnnounced, AnnouncedSound, AddedIn, ArgsIn, ArgsParts

\* A completed response has all of every call.
LEMMA WholeHolds == AnswersInv => NoHalfCall
<1> SUFFICES ASSUME AnswersInv, resp.final.ok
             PROVE  Items(resp.calls) = [j \in DOMAIN resp.calls |->
                        LET b == answer.blocks[resp.calls[j].i] IN [id |-> b.id, name |-> b.name, x |-> b.x]]
    BY DEF NoHalfCall
<1>1. /\ answer \in ProviderAnswers /\ resp.calls = chat.calls /\ Placed(answer, feed, chat, meter)
      /\ Completed(answer, chat, resp)
    BY DEF AnswersInv, Uncompleted
<1> DEFINE a == answer
           c == resp.calls
           L == Len(a.blocks)
<1>2. \A j \in DOMAIN c : c[j] = CallRec(a, c[j].i, a.blocks[c[j].i].x)
  <2>1. CASE c = <<>>
    <3>1. DOMAIN c = {}
      BY <2>1
    <3> QED
      BY <3>1
  <2>2. CASE c # <<>>
    <3>1. chat.finish # "none"
      BY <1>1, <2>2 DEF Completed
    <3>2. c = Part(CallParts(a), L)
      BY <1>1, <3>1 DEF Placed, Unread, Mid, MidAt, ToldBy, Late
    <3>3. L \in 0 .. L
      BY <1>1, AnswerShape
    <3> DEFINE q == Part(CallParts(a), L)
    <3>4. q \in Seq(CallRecs(a)) /\ \A k \in 1 .. Len(q) : q[k] = CallRec(a, q[k].i, a.blocks[q[k].i].x)
      BY <1>1, <3>3, SpotParts, PassedCalls
    <3> HIDE DEF q
    <3>5. DOMAIN q = 1 .. Len(q)
      BY <3>4, LenProperties
    <3> QED
      BY <3>2, <3>4, <3>5 DEF q
  <2> QED
    BY <2>1, <2>2
<1>3. \A i, y : CallRec(a, i, y).id = a.blocks[i].id /\ CallRec(a, i, y).name = a.blocks[i].name /\ CallRec(a, i, y).x = y
    BY DEF CallRec
<1> HIDE DEF c
<1>4. \A j \in DOMAIN c : /\ c[j].id = a.blocks[c[j].i].id /\ c[j].name = a.blocks[c[j].i].name
                          /\ c[j].x = a.blocks[c[j].i].x
    BY <1>2, <1>3
<1>5. Items(c) = [j \in DOMAIN c |-> LET b == a.blocks[c[j].i] IN [id |-> b.id, name |-> b.name, x |-> b.x]]
    BY <1>4 DEF Items
<1> QED
    BY <1>5 DEF c

\* The forced tool is in no chunk and in no whole answer: neither adapter lets a
\* block of that name pass as a call.
LEMMA ForcedHolds == AnswersInv => ForcedHidden
<1> SUFFICES ASSUME AnswersInv, answer.ask.forced
             PROVE  /\ \A j \in DOMAIN chat.calls : chat.calls[j].name # Forced
                    /\ \A j \in DOMAIN resp.calls : resp.calls[j].name # Forced
                    /\ \A j \in DOMAIN Whole(answer).calls : Whole(answer).calls[j].name # Forced
    BY DEF ForcedHidden
<1>1. answer \in ProviderAnswers /\ resp.calls = chat.calls /\ Shown(answer, chat.calls)
    BY DEF AnswersInv
<1>2. \A j \in DOMAIN chat.calls : chat.calls[j].name # Forced
  <2>1. \A a, calls : a \in ProviderAnswers /\ Shown(a, calls) =>
            \A k \in DOMAIN calls : \E j \in DOMAIN a.blocks :
                IsCall(a, a.blocks[j]) /\ calls[k].name = a.blocks[j].name
    BY ShownCalls
  <2>2. \A k \in DOMAIN chat.calls : \E j \in DOMAIN answer.blocks :
            IsCall(answer, answer.blocks[j]) /\ chat.calls[k].name = answer.blocks[j].name
    BY <1>1, <2>1
  <2> QED
    BY <2>2 DEF IsCall
<1>3. Whole(answer).calls = <<>>
  <2>1. answer.provider = "anthropic"
    BY <1>1, AnswerShape
  <2> DEFINE tc == ToolCalls(answer.blocks)
  <2> HIDE DEF tc
  <2>2. \/ Whole(answer) = _invalid_response(answer)
        \/ \E x, f, u : Whole(answer) = Translation(TRUE, x, <<>>, f, u)
    BY <2>1 DEF Whole, from_anthropic_response, tc
  <2> QED
    BY <2>2 DEF _invalid_response, Translation
<1>4. DOMAIN <<>> = {}
    OBVIOUS
<1> QED
    BY <1>1, <1>2, <1>3, <1>4

\* The contract of the request on the calls of a whole answer, by provider.
LEMMA ChoiceHolds == AnswersInv => ChoiceHonoured
<1> SUFFICES ASSUME AnswersInv PROVE ChoiceHonoured
    OBVIOUS
<1> SUFFICES ASSUME NEW a \in ProviderAnswers, Whole(a).ok, Askable(a), ~a.ask.forced, a.stop # "refusal"
             PROVE  LET w == Whole(a)
                        ask == a.ask
                    IN  /\ \A j \in DOMAIN w.calls : w.calls[j].name \in ask.tools /\ (Named(ask) => w.calls[j].name = ask.choice)
                        /\ ask.choice = "none" => w.calls = <<>>
                        /\ Required(ask) => w.calls # <<>>
                        /\ ask.serial => Len(w.calls) <= 1
  <2>1. answer \in ProviderAnswers
    BY DEF AnswersInv
  <2> QED
    BY <2>1 DEF ChoiceHonoured
<1> DEFINE tc == ToolCalls(a.blocks)
           ask == a.ask
<1>1. a.provider \in {"anthropic", "bedrock", "vertex"} /\ (Named(ask) => ask.choice \in ask.tools)
    BY AnswerShape
<1>2. _invalid_response(a).ok = FALSE
    BY DEF _invalid_response, Translation
<1>3. ~Named(ask) \/ ask.choice # "none"
    BY DEF Named
<1>4. tc \in Seq({tc[i] : i \in DOMAIN tc}) /\ Len(tc) \in Nat /\ DOMAIN tc = 1 .. Len(tc)
  <2> DEFINE ts == ToolBlocks(a.blocks)
             R == {tc[i] : i \in DOMAIN tc}
  <2>1. ts \in Seq(Range(a.blocks))
    BY ToolPartsShape
  <2>2. Len(ts) \in Nat /\ DOMAIN ts = 1 .. Len(ts)
    BY <2>1, LenProperties
  <2>3. tc = [i \in DOMAIN ts |-> [id |-> ts[i].id, name |-> ts[i].name, x |-> Arguments(ts[i])]]
    BY DEF ToolCalls
  <2> HIDE DEF tc, ts
  <2>4. DOMAIN tc = 1 .. Len(ts) /\ tc = [i \in 1 .. Len(ts) |-> tc[i]]
    BY <2>2, <2>3
  <2>5. \A i \in 1 .. Len(ts) : tc[i] \in R
    BY <2>4
  <2> HIDE DEF R
  <2>6. tc \in Seq(R)
    BY <2>2, <2>4, <2>5
  <2> QED
    BY <2>6, LenProperties DEF R
<1> HIDE DEF tc
<1>5. ASSUME \A i \in DOMAIN tc : FALSE PROVE tc = <<>>
  <2>1. Len(tc) = 0
    BY <1>4, <1>5
  <2> QED
    BY <1>4, <2>1
<1>6. /\ Whole(a).calls = tc
      /\ \A j \in DOMAIN tc : tc[j].name \in ask.tools /\ (Named(ask) => tc[j].name = ask.choice)
      /\ ask.choice = "none" => \A j \in DOMAIN tc : FALSE
      /\ Required(ask) => tc # <<>>
      /\ ask.serial => Len(tc) <= 1
  <2>1. CASE a.provider = "anthropic"
    <3>1. Whole(a) = from_anthropic_response(a)
      BY <2>1 DEF Whole
    <3> DEFINE f == IF tc # <<>> THEN "tool_calls" ELSE _FINISH_REASON(a.stop)
    <3>2. /\ Whole(a) = Translation(TRUE, Text(a.blocks), tc, f, Full(a))
          /\ WellFormedCalls(tc, _response_tool_contract(ask))
          /\ ask.serial \/ ask.choice = "none" => Len(tc) <= max_tool_calls(ask)
          /\ Required(ask) => tc # <<>>
      BY <1>2, <3>1 DEF from_anthropic_response, tc
    <3>3. Whole(a).calls = tc
      BY <3>2 DEF Translation
    <3>4. /\ \A j \in DOMAIN tc : tc[j].name \in ask.tools /\ (Named(ask) => tc[j].name = ask.choice)
          /\ ask.choice = "none" => \A j \in DOMAIN tc : FALSE
      BY <1>1, <1>3, <3>2 DEF WellFormedCalls, _response_tool_contract
    <3>5. ask.serial => Len(tc) <= 1
      BY <1>4, <3>2 DEF max_tool_calls
    <3> QED
      BY <3>2, <3>3, <3>4, <3>5
  <2>2. CASE a.provider = "bedrock"
    <3>1. Whole(a) = from_converse_response(a)
      BY <2>2 DEF Whole
    <3> DEFINE f == IF tc # <<>> THEN "tool_calls" ELSE _FINISH_REASON(a.stop)
    <3>2. /\ Whole(a) = Translation(TRUE, Text(a.blocks), tc, f, Full(a))
          /\ WellFormedCalls(tc, ask.tools)
          /\ Named(ask) => \A i \in DOMAIN tc : tc[i].name = ask.choice
          /\ Required(ask) => tc # <<>>
      BY <1>2, <3>1 DEF from_converse_response, tc
    <3>3. Whole(a).calls = tc
      BY <3>2 DEF Translation
    <3>4. ask.choice # "none" /\ ~ask.serial
      BY <2>2 DEF Askable
    <3> QED
      BY <3>2, <3>3, <3>4 DEF WellFormedCalls
  <2>3. CASE a.provider = "vertex"
    <3>1. Whole(a) = from_gemini_response(a)
      BY <2>3 DEF Whole
    <3> DEFINE f == IF tc # <<>> THEN "tool_calls" ELSE _FINISH_REASON(a.stop)
    <3>2. /\ Whole(a) = Translation(TRUE, Text(a.blocks), tc, f, Full(a))
          /\ WellFormedCalls(tc, IF Named(ask) THEN {ask.choice} ELSE ask.tools)
          /\ ask.choice = "none" => tc = <<>>
          /\ Required(ask) => tc # <<>>
      BY <1>2, <3>1 DEF from_gemini_response, tc
    <3>3. Whole(a).calls = tc
      BY <3>2 DEF Translation
    <3>4. ~ask.serial
      BY <2>3 DEF Askable
    <3>5. DOMAIN <<>> = {}
      OBVIOUS
    <3> QED
      BY <1>1, <3>2, <3>3, <3>4, <3>5 DEF WellFormedCalls
  <2> QED
    BY <1>1, <2>1, <2>2, <2>3
<1> QED
    BY <1>5, <1>6

\* A stream read to its end says what the whole translation says.
LEMMA AgreeHolds == AnswersInv => StreamAgrees
<1> SUFFICES ASSUME AnswersInv, stage = "ended", Whole(answer).ok, answer.stop # "refusal", Argued
             PROVE  /\ chat.text = Whole(answer).text /\ Items(chat.calls) = Whole(answer).calls
                    /\ chat.finish = Whole(answer).finish /\ chat.usage = Whole(answer).usage
    BY DEF StreamAgrees
<1> DEFINE a == answer
           t == Part(TextParts(a), Len(a.blocks))
           c == Part(CallParts(a), Len(a.blocks))
<1>1. /\ a \in ProviderAnswers /\ Streamable(a) /\ chat.text = t /\ chat.calls = c
      /\ chat.finish = FinishOf(a, c) /\ chat.usage = Full(a)
    BY Ended
<1>2. Whole(a) = Translation(TRUE, t, Items(c), FinishOf(a, c), Full(a))
  <2>1. \A b \in ProviderAnswers : Streamable(b) /\ Whole(b).ok /\ b.stop # "refusal" /\ ArguedFor(b) =>
            Whole(b) = Translation(TRUE, Part(TextParts(b), Len(b.blocks)), Items(Part(CallParts(b), Len(b.blocks))),
                                   FinishOf(b, Part(CallParts(b), Len(b.blocks))), Full(b))
    BY WholeStreamed
  <2>2. ArguedFor(a)
    BY DEF Argued, ArguedFor
  <2> QED
    BY <1>1, <2>1, <2>2
<1> DEFINE w == Whole(a)
<1> HIDE DEF w, t, c
<1>3. w.text = t /\ w.calls = Items(c) /\ w.finish = FinishOf(a, c) /\ w.usage = Full(a)
    BY <1>2 DEF Translation, w
<1> QED
    BY <1>1, <1>3 DEF w

\* A refusal ends the stream as one and costs what it costs unstreamed.
LEMMA RefusalHolds == AnswersInv => RefusalMarked
<1> SUFFICES ASSUME AnswersInv, stage = "ended", answer.stop = "refusal", chat.calls = <<>>
             PROVE  chat.finish = "content_filter" /\ chat.usage = Whole(answer).usage
    BY DEF RefusalMarked
<1>1. /\ answer \in ProviderAnswers /\ Streamable(answer) /\ chat.finish = FinishOf(answer, chat.calls)
      /\ chat.usage = IF answer.provider = "anthropic" /\ answer.out = 0 THEN Use(0, 0) ELSE Full(answer)
    BY Ended
<1>2. chat.finish = "content_filter"
    BY <1>1 DEF FinishOf, _FINISH_REASON
<1>3. Whole(answer).usage = IF answer.provider = "anthropic" /\ answer.out = 0 THEN Use(0, 0) ELSE Full(answer)
    BY <1>1, WholeRefused
<1> QED
    BY <1>1, <1>2, <1>3

\* The response that completes a stream is the one of the whole answer.
LEMMA ResponsesHolds == AnswersInv => ResponsesAgree
<1> DEFINE w == to_responses(Whole(answer))
           t == Whole(answer)
<1> SUFFICES ASSUME AnswersInv, stage = "ended", w.ok, resp.final.ok, Argued,
                    answer.stop = "refusal" => resp.calls = <<>>
             PROVE  resp.final = w
    BY DEF ResponsesAgree
<1>1. /\ answer \in ProviderAnswers /\ Streamable(answer) /\ resp.calls = chat.calls
      /\ resp.final = Answered(chat) /\ chat.calls \in Seq(CallRecs(answer))
  <2>1. answer \in ProviderAnswers /\ resp.calls = chat.calls /\ resp.final = Answered(chat) /\ Shown(answer, chat.calls)
    BY DEF AnswersInv, Completed, Uncompleted
  <2>2. \A a \in ProviderAnswers : \A calls : Shown(a, calls) => calls \in Seq(CallRecs(a))
    BY ShownCalls
  <2> QED
    BY <2>1, <2>2, Ended
<1> HIDE DEF t
<1>2. t.ok /\ w = Response(TRUE, IF t.finish = "content_filter" THEN "incomplete" ELSE "completed",
                           IF t.finish = "content_filter" THEN <<>> ELSE t.text, t.calls, t.usage)
  <2>1. Response(FALSE, "none", <<>>, <<>>, t.usage).ok = FALSE
    BY DEF Response
  <2> QED
    BY <2>1 DEF to_responses, t
<1>3. CASE answer.stop # "refusal"
  <2>1. StreamAgrees
    BY AgreeHolds
  <2>2. chat.text = t.text /\ Items(chat.calls) = t.calls /\ chat.finish = t.finish /\ chat.usage = t.usage
    BY <1>2, <1>3, <2>1 DEF StreamAgrees, t
  <2> HIDE DEF w
  <2> QED
    BY <1>1, <1>2, <2>2 DEF Answered
<1>4. CASE answer.stop = "refusal"
  <2>1. RefusalMarked
    BY RefusalHolds
  <2>2. chat.calls = <<>> /\ chat.finish = "content_filter" /\ chat.usage = t.usage
    BY <1>1, <1>4, <2>1 DEF RefusalMarked, t
  <2>3. t.calls = <<>> /\ t.finish = "content_filter"
    BY <1>1, <1>2, <1>4, WholeRefused DEF t
  <2>4. Items(chat.calls) = <<>>
    BY <1>1, <2>2, EmptyItems
  <2> HIDE DEF w
  <2> QED
    BY <1>1, <1>2, <2>2, <2>3, <2>4 DEF Answered
<1> QED
    BY <1>3, <1>4

\* The invariant of a translation: what the two readers have is what the stream
\* holds up to where they are, and a stream that is over was completed or not.
THEOREM AnswersInvariant == AnswersInit /\ [][AnswersNext]_ansVars => []AnswersInv
<1>1. AnswersInit => AnswersInv
    BY AnswersBegin
<1>2. AnswersInv /\ [AnswersNext]_ansVars => AnswersInv'
    BY AnswersStep
<1> QED
    BY <1>1, <1>2, PTL

\* However a provider's answer is delivered, whole, streamed or as Responses, it
\* says, calls and costs the same, for any answers whatever: any number of blocks
\* of any number of fragments, every stop reason, every tool choice.
THEOREM AnswersSoundHolds == AnswersInit /\ [][AnswersNext]_ansVars => []AnswersSound
<1>1. AnswersInv => AnswersSound
    BY AgreeHolds, RefusalHolds, ResponsesHolds, AnnouncedHolds, WholeHolds, ForcedHolds, ChoiceHolds DEF AnswersSound
<1>2. AnswersInit /\ [][AnswersNext]_ansVars => []AnswersInv
    BY AnswersInvariant
<1> QED
    BY <1>1, <1>2, PTL

===============================================================================
