---------------------------- MODULE ClientRegistry ----------------------------
(***************************************************************************)
(* The process-wide cache of provider SDK clients                          *)
(* (infrastructure/llm/client_registry.py): bounded, with leases, LRU and  *)
(* TTL eviction, and a shutdown that closes everything.                    *)
(*                                                                         *)
(* One event loop runs every task.  The registry's asyncio.Lock `_guard' is*)
(* fair, so its waiters are a queue (`line'): the task at the head runs its*)
(* critical section in one step and, when it wants the guard again, rejoins*)
(* at the tail in that step.  A section that awaits a close keeps the guard*)
(* and nothing else reads what it writes.  A task takes one lease in its   *)
(* life, so an entry, like a creation lock, is named by the task that made *)
(* it.                                                                     *)
(***************************************************************************)
EXTENDS Naturals, FiniteSets, Sequences, SequencesExt

CONSTANTS Tasks, ClientKeys, Capacity,
          Closer,           \* the task that runs aclose
          NoEntry

ASSUME RegistryAssumption ==
    /\ Capacity \in Nat \ {0} /\ IsFiniteSet(Tasks)
    /\ Closer \notin Tasks /\ NoEntry \notin Tasks

VARIABLES entries,      \* _entries: [ClientKeys -> entry]
          retired,      \* _retired
          entry,        \* the _Entry each task made
          slots,        \* _creation_locks: [ClientKeys -> lock]
          queue,        \* the tasks at each creation lock, the holder first
          line,         \* the tasks at the guard, in order of arrival
          task,         \* [pc, key, on, lock]: where a task is, the entry it leases, its lock
          used,         \* last_used_at: the pairs <<d, e>> of which d was used before e
          shut,         \* [pc, todo, seen]: aclose, and the clients that were open when it began
          loose         \* history: keys looked up in vain under a lock that was theirs no more

regVars == <<entries, retired, entry, slots, queue, line, task, used, shut, loose>>

Blank == [key |-> NoEntry, leases |-> 0, closing |-> FALSE, closes |-> 0, expired |-> FALSE, made |-> FALSE]

RegistryInit ==
    /\ entries = [k \in ClientKeys |-> NoEntry]
    /\ retired = {}
    /\ entry = [t \in Tasks |-> Blank]
    /\ slots = [k \in ClientKeys |-> NoEntry]
    /\ queue = [t \in Tasks |-> <<>>]
    /\ line = <<>>
    /\ task \in [Tasks -> {[pc |-> "idle", key |-> k, on |-> NoEntry, lock |-> NoEntry] : k \in ClientKeys}]
    /\ used = {}
    /\ shut = [pc |-> "open", todo |-> <<>>, seen |-> {}]
    /\ loose = {}

At(t, pc) == task[t].pc = pc

\* t is at the head of the line, about to run its section.
Turn(t, pc) == line # <<>> /\ line[1] = t /\ task[t].pc = pc

Retained == {entries[k] : k \in ClientKeys} \ {NoEntry}

Touched(e) == {x \in used : e \notin {x[1], x[2]}} \cup {<<d, e>> : d \in Tasks \ {e}}

\* The section ends, and the task wants the guard again or not.
Rejoins(t) == line' = Append(Tail(line), t)

Leaves == line' = Tail(line)

To(t, pc) == task' = [task EXCEPT ![t].pc = pc]

\* Without t, which is in a queue once at most.
Dropped(s, t) == IF Contains(s, t) THEN RemoveAt(s, CHOOSE i \in DOMAIN s : s[i] = t) ELSE s

\* Releasing a creation lock lets the next waiter in.
Unlocked(t) == [queue EXCEPT ![task[t].lock] = Tail(@)]

Unclosed(e) == entry[e].made /\ entry[e].closes = 0

(***************************************************************************)
(* lease: refused once the registry is closed, which is looked at before   *)
(* the first await only.                                                   *)
(***************************************************************************)
lease(t) ==
    /\ At(t, "idle")
    /\ IF shut.pc \notin {"open", "asked"}
       THEN To(t, "refused") /\ UNCHANGED line
       ELSE To(t, "hit") /\ line' = Append(line, t)
    /\ UNCHANGED <<entries, retired, entry, slots, queue, used, shut, loose>>

\* _try_hit: the client is there and not on its way out.
Reusable(k) == entries[k] # NoEntry /\ ~entry[entries[k]].closing

Leased(t) ==
    LET e == entries[task[t].key]
    IN /\ entry' = [entry EXCEPT ![e].leases = @ + 1]
       /\ used' = Touched(e)
       /\ task' = [task EXCEPT ![t].pc = "using", ![t].on = e]

_try_hit(t) ==
    /\ Turn(t, "hit")
    /\ IF Reusable(task[t].key)
       THEN Leaves /\ Leased(t)
       ELSE Rejoins(t) /\ To(t, "slot") /\ UNCHANGED <<entry, used>>
    /\ UNCHANGED <<entries, retired, slots, queue, shut, loose>>

\* _creation_lock, and the wait for it.  A free lock is taken without yielding.
_creation_lock(t) ==
    LET k == task[t].key
        l == IF slots[k] = NoEntry THEN t ELSE slots[k]
        free == queue[l] = <<>>
    IN /\ Turn(t, "slot")
       /\ slots' = [slots EXCEPT ![k] = l]
       /\ queue' = [queue EXCEPT ![l] = Append(@, t)]
       /\ task' = [task EXCEPT ![t].pc = IF free THEN "again" ELSE "wait", ![t].lock = l]
       /\ IF free THEN Rejoins(t) ELSE Leaves
       /\ UNCHANGED <<entries, retired, entry, used, shut, loose>>

LockGranted(t) ==
    /\ At(t, "wait")
    /\ queue[task[t].lock][1] = t
    /\ To(t, "again")
    /\ line' = Append(line, t)
    /\ UNCHANGED <<entries, retired, entry, slots, queue, used, shut, loose>>

\* The second look, with the lock; then the factory, which may raise.  A task
\* that waited for the lock of a client already built comes here with a lock
\* that has no slot any more, and newer tasks may hold another one.
_acquire(t) ==
    LET k == task[t].key
    IN /\ Turn(t, "again")
       /\ IF Reusable(k)
          THEN Leaves /\ Leased(t) /\ queue' = Unlocked(t) /\ UNCHANGED loose
          ELSE /\ Rejoins(t)
               /\ To(t, "built") \/ To(t, "broken")
               /\ loose' = IF task[t].lock = slots[k] THEN loose ELSE loose \cup {k}
               /\ UNCHANGED <<entry, used, queue>>
       /\ UNCHANGED <<entries, retired, slots, shut>>

\* A factory that raises keeps the lock.
KeepLock(t) ==
    LET ok == At(t, "built")
    IN /\ Turn(t, "built") \/ Turn(t, "broken")
       /\ slots' = [slots EXCEPT ![task[t].key] = NoEntry]
       /\ IF ok THEN Rejoins(t) /\ To(t, "insert") ELSE Leaves /\ To(t, "failed")
       /\ used' = Touched(t)
       /\ UNCHANGED <<entries, retired, entry, queue, shut, loose>>

\* The lock's slot is dropped whether the factory raised or not; a new entry
\* is dated before the wait for the guard.
drop_slot(t) ==
    LET ok == At(t, "built")
    IN /\ Turn(t, "built") \/ Turn(t, "broken")
       /\ slots' = [slots EXCEPT ![task[t].key] = NoEntry]
       /\ IF ok THEN Rejoins(t) /\ To(t, "insert") /\ used' = Touched(t) /\ UNCHANGED queue
          ELSE Leaves /\ To(t, "failed") /\ queue' = Unlocked(t) /\ UNCHANGED used
       /\ UNCHANGED <<entries, retired, entry, shut, loose>>

(***************************************************************************)
(* _evict_locked: what it closes, and what it marks for closing, when the  *)
(* slots are s and the entries en, in the order of last use.               *)
(***************************************************************************)
InSlots(s) == {s[k] : k \in ClientKeys} \ {NoEntry}

Unleased(s, en) == {e \in InSlots(s) : en[e].leases = 0 /\ ~en[e].closing}

\* The first n of the entries in S, by last use.
Oldest(S, n) == {e \in S : Cardinality({d \in S : <<d, e>> \in used}) < n}

Overage(S) == IF Cardinality(S) > Capacity THEN Cardinality(S) - Capacity ELSE 0

Expired(s, en) == {e \in Unleased(s, en) : en[e].expired}

Evicted(s, en) ==
    Expired(s, en) \cup
    Oldest(Unleased(s, en) \ Expired(s, en), Overage(InSlots(s) \ Expired(s, en)))

\* Entries already closing do not count towards the overage.
_evict_locked(s, en) ==
    LET kept == InSlots(s) \ Evicted(s, en)
    IN Oldest({e \in kept : ~en[e].closing}, Overage(kept))

\* _close_entry_locked, for a set of entries.
Close(en, S) == [e \in Tasks |-> IF e \in S THEN [en[e] EXCEPT !.closes = @ + 1] ELSE en[e]]

Without(s, S) == [k \in ClientKeys |-> IF s[k] \in S THEN NoEntry ELSE s[k]]

insert(t) ==
    LET k    == task[t].key
        was  == entries[k]
        s    == [entries EXCEPT ![k] = t]
        en   == [entry EXCEPT ![t] = [Blank EXCEPT !.key = k, !.leases = 1, !.made = TRUE]]
        gone == Evicted(s, en)
        mark == _evict_locked(s, en)
        shutting == Close(en, gone)
    IN /\ Turn(t, "insert")
       /\ entries' = Without(s, gone)
       /\ retired' = IF was # NoEntry /\ entry[was].closes = 0 THEN retired \cup {was} ELSE retired
       /\ entry' = [e \in Tasks |-> IF e \in mark THEN [shutting[e] EXCEPT !.closing = TRUE] ELSE shutting[e]]
       /\ queue' = Unlocked(t)
       /\ task' = [task EXCEPT ![t].pc = "using", ![t].on = t]
       /\ Leaves
       /\ UNCHANGED <<slots, used, shut, loose>>

(***************************************************************************)
(* The request is over, or cancelled: the lease goes back.                 *)
(***************************************************************************)
finish(t) ==
    /\ At(t, "using")
    /\ To(t, "release")
    /\ line' = Append(line, t)
    /\ UNCHANGED <<entries, retired, entry, slots, queue, used, shut, loose>>

\* Closes on the first release.
ReleaseCloses(t) ==
    LET e == task[t].on
        over == (entry[e].closing \/ entry[e].expired) /\ entry[e].closes = 0
        en == [entry EXCEPT ![e].leases = @ - 1]
    IN /\ Turn(t, "release")
       /\ entry' = IF over THEN Close(en, {e}) ELSE en
       /\ entries' = IF over THEN Without(entries, {e}) ELSE entries
       /\ retired' = IF over THEN retired \ {e} ELSE retired
       /\ To(t, "done")
       /\ Leaves
       /\ UNCHANGED <<slots, queue, used, shut, loose>>

_release(t) ==
    LET e == task[t].on
        n == entry[e].leases - 1
        over == n = 0 /\ (entry[e].closing \/ entry[e].expired) /\ entry[e].closes = 0
        en == [entry EXCEPT ![e].leases = n]
    IN /\ Turn(t, "release")
       /\ entry' = IF over THEN Close(en, {e}) ELSE en
       /\ entries' = IF over THEN Without(entries, {e}) ELSE entries
       /\ retired' = IF over THEN retired \ {e} ELSE retired
       /\ To(t, "done")
       /\ Leaves
       /\ UNCHANGED <<slots, queue, used, shut, loose>>

\* A deadline cancels a task that waits for a client.  A client already built
\* is dropped without being closed.
Cancel(t) ==
    /\ task[t].pc \in {"hit", "slot", "wait", "again", "built", "broken", "insert"}
    /\ To(t, "cancelled")
    /\ line' = Dropped(line, t)
    /\ queue' = [l \in Tasks |-> Dropped(queue[l], t)]
    /\ UNCHANGED <<entries, retired, entry, slots, used, shut, loose>>

\* An entry outlives its TTL.
Expire(e) ==
    /\ entry[e].made /\ ~entry[e].expired /\ entry[e].closes = 0
    /\ entry' = [entry EXCEPT ![e].expired = TRUE]
    /\ UNCHANGED <<entries, retired, slots, queue, line, task, used, shut, loose>>

(***************************************************************************)
(* aclose: marks the registry closed and takes the list, then closes each  *)
(* entry in a section of its own, whoever leases it.                       *)
(***************************************************************************)
close_registry ==
    /\ shut.pc = "open"
    /\ shut' = [shut EXCEPT !.pc = "asked"]
    /\ line' = Append(line, Closer)
    /\ UNCHANGED <<entries, retired, entry, slots, queue, task, used, loose>>

CloserTurn(pc) == line # <<>> /\ line[1] = Closer /\ shut.pc = pc

list_entries ==
    LET todo == Retained \cup retired
    IN /\ CloserTurn("asked")
       /\ shut' = [pc |-> "closing", todo |-> SetToSeq(todo), seen |-> {e \in Tasks : Unclosed(e)}]
       /\ Leaves
       /\ UNCHANGED <<entries, retired, entry, slots, queue, task, used, loose>>

next_entry ==
    /\ shut.todo # <<>> /\ ~Contains(line, Closer)
    /\ line' = Append(line, Closer)
    /\ UNCHANGED <<entries, retired, entry, slots, queue, task, used, shut, loose>>

\* The client itself is closed outside the guard, before the next one is looked at.
aclose ==
    LET e == shut.todo[1]
    IN /\ CloserTurn("closing")
       /\ shut' = [shut EXCEPT !.todo = Tail(@)]
       /\ entry' = IF entry[e].closes > 0 THEN entry ELSE Close(entry, {e})
       /\ entries' = Without(entries, {e})
       /\ retired' = retired \ {e}
       /\ Leaves
       /\ UNCHANGED <<slots, queue, task, used, loose>>

Run(t) ==
    \/ _try_hit(t) \/ _creation_lock(t) \/ LockGranted(t) \/ _acquire(t) \/ drop_slot(t)
    \/ insert(t) \/ finish(t) \/ _release(t)

Shutdown == list_entries \/ next_entry \/ aclose

RegistryNext ==
    \/ \E t \in Tasks : lease(t) \/ Run(t) \/ Cancel(t) \/ Expire(t)
    \/ close_registry \/ Shutdown

\* The event loop runs every task that can run, and requests end.
RegistrySpec ==
    RegistryInit /\ [][RegistryNext]_regVars /\ (\A t \in Tasks : WF_regVars(Run(t))) /\ WF_regVars(Shutdown)

(***************************************************************************)
(* Properties.                                                             *)
(***************************************************************************)
\* A client a request holds is not closed under it by eviction, expiry or another release;
\* and no client is closed twice (class docstring; only shutdown closes leased clients).
HeldStaysOpen ==
    /\ \A e \in Tasks : entry[e].closes <= 1
    /\ \A t \in Tasks :
         shut.pc # "closing" /\ task[t].pc \in {"using", "release"} => Unclosed(task[t].on)

\* Concurrent misses of a key share one client: never two that can still be
\* handed out or go back to the pool, unless a task that waited for the lock
\* of a construction found no client when it got it, for the first had failed
\* or was gone again: its lock has lost the slot, and it builds beside others.
OneClientPerKey ==
    \A d, e \in Tasks :
        /\ Unclosed(d) /\ Unclosed(e) /\ d # e /\ entry[d].key = entry[e].key
        /\ entry[d].key \notin loose
        => entry[d].closing \/ entry[e].closing

\* However many clients are leased, at most Capacity of them stay once they are
\* released: the rest are marked to close on their last release.
Bounded == Cardinality({e \in Retained : ~entry[e].closing}) <= Capacity

\* When shutdown is over, every client that existed when it began is closed,
\* the generations displaced from their slot while leased included (ISSUE-025).
ShutdownClosesAll ==
    shut.pc = "closing" /\ shut.todo = <<>> => \A e \in shut.seen : entry[e].closes = 1

\* Every request for a client is answered: the guard and the creation locks
\* never leave a waiter behind, cancelled tasks and failed factories included.
EveryLeaseAnswered ==
    \A t \in Tasks : At(t, "hit") ~> task[t].pc \in {"using", "failed", "cancelled", "release", "done"}

\* The registry shares, bounds and closes its clients correctly under failed and
\* cancelled constructions, expiry and shutdown (client_registry.py 144-286).
ClientsSound == HeldStaysOpen /\ OneClientPerKey /\ Bounded /\ ShutdownClosesAll
===============================================================================
