------------------------------ MODULE RateWindow ------------------------------
(***************************************************************************)
(* The fixed-window request limiter (infrastructure/rate_limiter.py) behind*)
(* the per-team and per-key requests/minute gates of usage_meter.py.       *)
(*                                                                         *)
(* `backend' is what build_rate_limiter chose: one dictionary under a lock *)
(* in the process, or Redis shared by every replica, where a hit is three  *)
(* steps (read the clock, INCR, and EXPIRE by whoever counted 1) between   *)
(* which other hits run, time passes and the process may die.  One clock:  *)
(* the module's docstring assumes the replicas' clocks agree.              *)
(***************************************************************************)
EXTENDS Naturals, FiniteSets, FiniteSetsExt

CONSTANTS RateKeys, Hits,
          WindowOf, LimitOf,    \* [RateKeys -> Nat]: window_seconds and limit
          MaxSecond,            \* bound: the clock
          MaxDelay,             \* bound: seconds between the clock read and INCR
          Never                 \* no expiry set

ASSUME WindowAssumption ==
    /\ WindowOf \in [RateKeys -> Nat \ {0}] /\ LimitOf \in [RateKeys -> Nat]
    /\ IsFiniteSet(Hits)
    /\ Never \notin Nat
    /\ MaxSecond \in Nat

\* The TTL of a Redis counter leaves an INCR of its window one second to
\* arrive after the window is over (rate_limiter.py:100, window + 1).
ASSUME DelayAssumption == MaxDelay \in {0, 1}

VARIABLES backend,      \* "memory" or "redis"
          second,       \* the clock
          counts,       \* _counts: a set of [key, bucket, count, expires]
          nextPrune,    \* _next_prune_at
          window,       \* Redis: a set of [key, bucket, count, expires]
          hit,          \* [pc, key, now, bucket, count, retry]: each call of hit
          lastHit,      \* when the memory was last hit
          made          \* [key, bucket] of every hit that was counted, by call

rateVars == <<backend, second, counts, nextPrune, window, hit, lastHit, made>>

RateInit ==
    /\ backend \in {"memory", "redis"}
    /\ second = 0
    /\ counts = {} /\ nextPrune = Never /\ lastHit = 0
    /\ window = {}
    /\ hit \in [Hits -> {[pc |-> "new", key |-> k, now |-> 0, bucket |-> 0, count |-> 0, retry |-> 0] : k \in RateKeys}]
    /\ made = [h \in Hits |-> {}]

Bucket(k, now) == now \div WindowOf[k]

_retry_after(k, now) == WindowOf[k] - (now % WindowOf[k])

Answer(k, count) == IF count <= LimitOf[k] THEN "allowed" ELSE "refused"

CountedAt(h, k, b) == made' = [made EXCEPT ![h] = {<<k, b>>}]

\* _next_prune_at: what a sweep found earliest, or the last value, or this hit's expiry.
NextPrune(kept, swept, expires) ==
    Min((IF swept THEN {c.expires : c \in kept} ELSE {nextPrune} \ {Never}) \cup {expires})

(***************************************************************************)
(* InMemoryRateLimiter.hit, under its lock.                                *)
(***************************************************************************)
memory_hit(h) ==
    LET k      == hit[h].key
        b      == Bucket(k, second)
        swept  == nextPrune # Never /\ second >= nextPrune
        kept   == IF swept THEN {c \in counts : c.expires > second} ELSE counts
        mine   == {c \in kept : c.key = k /\ c.bucket = b}
        count  == IF mine = {} THEN 1 ELSE (CHOOSE c \in mine : TRUE).count + 1
        expire == (b + 1) * WindowOf[k]
    IN /\ backend = "memory" /\ hit[h].pc = "new"
       /\ counts' = {c \in kept : c.key # k}
                        \cup {[key |-> k, bucket |-> b, count |-> count, expires |-> expire]}
       /\ nextPrune' = NextPrune(kept, swept, expire)
       /\ lastHit' = second
       /\ CountedAt(h, k, b)
       /\ hit' = [hit EXCEPT ![h] = [@ EXCEPT !.pc = Answer(k, count), !.now = second, !.bucket = b, !.count = count,
                                           !.retry = _retry_after(k, second)]]
       /\ UNCHANGED <<backend, second, window>>

(***************************************************************************)
(* RedisRateLimiter.hit.                                                   *)
(***************************************************************************)
redis_hit(h) ==
    /\ backend = "redis" /\ hit[h].pc = "new"
    /\ hit' = [hit EXCEPT ![h].pc = "incr", ![h].now = second, ![h].bucket = Bucket(hit[h].key, second),
                          ![h].retry = _retry_after(hit[h].key, second)]
    /\ UNCHANGED <<backend, second, counts, nextPrune, window, lastHit, made>>

\* One counter for every bucket of a key.
SharedKey(h) == {c \in window : c.key = hit[h].key}

\* The counter of the call's key, window and bucket.
redis_key(h) == {c \in window : c.key = hit[h].key /\ c.bucket = hit[h].bucket}

incr(h) ==
    LET at    == redis_key(h)
        old   == CHOOSE c \in at : TRUE
        count == IF at = {} THEN 1 ELSE old.count + 1
    IN /\ hit[h].pc = "incr"
       /\ window' = IF at = {}
                    THEN window \cup {[key |-> hit[h].key, bucket |-> hit[h].bucket, count |-> 1, expires |-> Never]}
                    ELSE (window \ {old}) \cup {[old EXCEPT !.count = count]}
       /\ CountedAt(h, hit[h].key, hit[h].bucket)
       /\ hit' = [hit EXCEPT ![h].count = count,
                             ![h].pc = IF count = 1 THEN "expire" ELSE Answer(hit[h].key, count)]
       /\ UNCHANGED <<backend, second, counts, nextPrune, lastHit>>

\* A second more than a whole window from now.
ExpireAt(h) == second + WindowOf[hit[h].key] + 1

expire(h) ==
    /\ hit[h].pc = "expire"
    /\ window' = {IF c \in redis_key(h) THEN [c EXCEPT !.expires = ExpireAt(h)] ELSE c : c \in window}
    /\ hit' = [hit EXCEPT ![h].pc = Answer(hit[h].key, hit[h].count)]
    /\ UNCHANGED <<backend, second, counts, nextPrune, lastHit, made>>

\* The process dies between INCR and EXPIRE: the key stays.
RateCrash(h) ==
    /\ hit[h].pc = "expire"
    /\ hit' = [hit EXCEPT ![h].pc = "crashed"]
    /\ UNCHANGED <<backend, second, counts, nextPrune, window, lastHit, made>>

\* A second passes; Redis drops what has expired.
Second ==
    /\ second < MaxSecond
    /\ \A h \in Hits : hit[h].pc = "incr" => second < hit[h].now + MaxDelay
    /\ second' = second + 1
    /\ window' = {c \in window : c.expires = Never \/ c.expires > second + 1}
    /\ UNCHANGED <<backend, counts, nextPrune, hit, lastHit, made>>

RateNext ==
    \/ \E h \in Hits : memory_hit(h) \/ redis_hit(h) \/ incr(h) \/ expire(h) \/ RateCrash(h)
    \/ Second

RateSpec == RateInit /\ [][RateNext]_rateVars

(***************************************************************************)
(* Properties.                                                             *)
(***************************************************************************)
\* Of the requests made in one window of a key no more than its limit are
\* allowed, however the steps of the replicas interleave and however late,
\* up to MaxDelay, an INCR of the window arrives (module docstring).
WithinLimit ==
    \A k \in RateKeys, b \in 0 .. MaxSecond :
        Cardinality({h \in Hits : hit[h].key = k /\ hit[h].bucket = b /\ hit[h].pc = "allowed"}) <= LimitOf[k]

\* A request is refused only when its own window has had `limit' other
\* requests: a counter that lingers after a crash throttles no later window
\* (rate_limiter.py:98, "only risks a lingering key").
RefusedOnlyIfSpent ==
    \A h \in Hits : hit[h].pc = "refused" =>
        Cardinality({g \in Hits \ {h} : <<hit[h].key, hit[h].bucket>> \in made[g]}) >= LimitOf[hit[h].key]

\* The memory holds no identity whose window was over at the last hit: storage
\* follows the active windows (rate_limiter.py:37-39).
StoresActiveWindows == \A c \in counts : c.expires > lastHit

\* Whoever waits as long as the refusal says is in the next window, at its
\* first second: not too early, and not a window late.
RetryOpensWindow ==
    \A h \in Hits : hit[h].pc = "refused" =>
        LET k == hit[h].key
            back == hit[h].now + hit[h].retry
        IN Bucket(k, back) = hit[h].bucket + 1 /\ Bucket(k, back - 1) = hit[h].bucket

\* Both limiters admit what their windows allow, no more and no less, say when to
\* come back, and keep no window that is over (rate_limiter.py 46-106).
WindowsSound == WithinLimit /\ RefusedOnlyIfSpent /\ RetryOpensWindow /\ StoresActiveWindows
===============================================================================
