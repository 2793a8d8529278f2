# LiteStar Gateway: TLA+ models and proofs

LiteStar Gateway is a multi-tenant LLM gateway: a Litestar application that
authenticates API keys, routes a request to a provider model, gates it by the
spend caps of its key and team, calls the provider (failing over to other
candidates), bills the call in PostgreSQL and reports on it. Replicas share
PostgreSQL and, when configured, Redis. This directory models the parts of it
whose correctness depends on interleavings, failures and time, checks small
instances with TLC and proves the central invariants with TLAPS.

Paths below are relative to `src/litestar_gateway/` of the repository.

## 1. Inventory

| Component | State it keeps | What is hard, what makes it correct |
|---|---|---|
| Billing ledger and outbox (`application/usage_meter.py`, `infrastructure/persistence/usage_repository.py`, `infrastructure/usage_reconciler.py`) | tables `usage_event`, `pending_usage_event` | commits that fail or are ambiguous, racing reconcilers, crashes in mid-batch; a settled call is on record once, and the outbox drains |
| Budget gate (`usage_meter.py`, `infrastructure/budget_reservation.py`) | reservations per key and team, with a TTL | spend read before the atomic reserve, refusal half-way, leaks, expiry; the cap bounds a burst and headroom comes back |
| Circuit breaker (`infrastructure/circuit_breaker.py`) | closed / open / half-open per candidate, in memory or in three Redis keys | late outcomes, abandoned trials, unlocked Redis commands; one trial, and only its holder decides |
| Failover (`application/completion_service.py`, `domain/failover.py`) | attempt chain, trial tokens, deadline of a request | deadline against settlement and release; one charge per request, nothing left reserved |
| Budget alerts (`budget_alert_state_repository.py`, `budget_alert_reconciler.py`) | alert outbox with leases | stale leases, double delivery, starvation |
| Requests (`completion_service.py`, `playground_service.py`, the API controllers) | the coroutine of each request, its claim, its ledger rows | every surface guards, admits, calls, screens, settles and releases in its own order while operators edit rules, models and grants |
| Response cache (`infrastructure/cache`, `domain/response_cache_key.py`) | entries with owner, expiry and bound | what may be stored, and replayed under a newer policy |
| Guardrails (`application/guardrails`, `guardrail_policy_service.py`) | rule rows | chains of redactions, fail policies, edits while a request runs |
| Routing (`application/routing`, `domain/routing.py`) | none | filters, strategies, fallbacks; what is chosen can serve the request |
| Models, routers, grants, aliases (`model_service.py`, `callable_alias_slots.py`, `model_repository.py`, `router_repository.py`) | alias slots and tombstones, revisions, pins | one namespace over three tables; nobody is redirected silently, no edit is lost |
| Accounts (`user_service.py`, `scim_service.py`, `service.py`, the session controllers) | user rows, token versions, keys, reset tokens | admins, SSO and SCIM on the same row; what was revoked stays dead |
| Teams and authorization (`team_service.py`, `organization_service.py`, `domain/authorization.py`, the management controllers) | teams, memberships, invites, the audit trail | checks outside the transaction, races with delete, escalation through keys |
| Vault (`keyring.py`, `rotation.py`, `locks.py`, `credential_repository.py`) | data and JWT keys, encrypted rows, a lease | edits and several replicas against a re-encryption |
| Rate limiter (`rate_limiter.py`) | counter per key and window | INCR and EXPIRE apart, window edges, memory |
| Client registry (`infrastructure/llm/client_registry.py`) | SDK clients with leases, creation locks | eviction, cancellation and shutdown under leases |
| Request and tool policy (`domain/request_policy.py`, `domain/chat_tool_policy.py`) | none | agrees with the translators; what is reserved covers what is asked for |
| Provider adapters (`infrastructure/llm`) | stream state | an answer means the same whole, streamed and as Responses |
| Pricing, tracing, wiring, schema | no protocol state of their own | |

How they interact: a request authenticates (`Accounts`), resolves its alias
(`CallableAliases`) and perhaps a router (`Routing`), passes the policy
(`RequestPolicy`, `ToolContract`) and the guardrails (`Guardrails`), then `admit`
(`BudgetGate`, `RateWindow`), which reads the ledger through `spend_since`
(`SpendRead`) and reserves; `_dispatch` or a failover loop (`Failover`) leases a
client (`ClientRegistry`), calls the provider, translates its answer (`Answers`)
and reports to the breaker; settlement writes the ledger or the outbox
(`UsageLedger`) and releases. Reconcilers, alert dispatchers and key rotation
(`AlertOutbox`, `Vault`) run in the background of every replica, and
administrators edit everything meanwhile (`TeamAccess`). `PROJECT.json` lists
every component with its status, and under `hazards` where this can go wrong.

## 2. Modules

| Module | Models | State |
|---|---|---|
| `UsageLedger` | `_record_usage`, `record`, `enqueue_pending`, `reconcile_pending`, `_mark_failed_attempt`, `delete_team`, `purge_team` | the two tables, where each settlement is, each replica's batch, the team row |
| `BillingRecord` | abstract specification: a set of records that grows, and is erased only with its team | |
| `SpendRead` | `spend_since` with its two SELECTs, on top of `UsageLedger` | the partial sum of a read |
| `BudgetGate` | `admit`, `_admit_key`, `_admit_team`, the reservation store, settlement and release of plain and streamed calls | claims with the time left to their TTL, committed spend, each handler's remaining work |
| `Breaker` | the in-memory breaker of one key as a value: `_State` and its three methods | none |
| `CircuitBreaker` | one breaker shared by concurrent requests | the breaker, what each request holds of it |
| `RedisCircuitBreaker` | the same protocol as single Redis commands | `cb:opened`, `cb:trial`, `cb:failures`, each request's next command |
| `Failover` | `_chat_completion_with_failover`, `_open_chat_stream_with_failover`, `_breaker_filtered`, `_within_deadline`, with one `Breaker` per candidate | chain, tokens, attempt, deadline, held reservations, charges |
| `AlertOutbox` | `record_fired_and_enqueue`, `dispatch_pending` with `_claim`, `_release_claim` and `_mark_failed_attempt`, `requeue`, the deletion of a team's rows | the outbox rows with attempts and lease, each dispatcher's batch |
| `CallableAliases` | create, rename, delete, promote, extend, revoke, revise, pin and upgrade of models and routers, and the resolver | slots, resources, grants, what each request has read |
| `Accounts` | login and lockout, reset, activation, admin rights, SSO, SCIM, issue, rotate, revoke and authenticate | accounts, keys, reset tokens, tokens handed out, each request |
| `TeamAccess` | every endpoint of the management API: who may call it, what it reads, its transaction and its audit record | organizations, teams, members, invites, keys, the audit log, each request |
| `Guardrails`, `Routing`, `ToolContract`, `RequestPolicy` | the policy decisions as functions; a chain of rules in closed form, compared with the fold the code runs (`ChainsRunOneByOne`, which TLC evaluates in `MCRequests`) | none |
| `Requests` | all surfaces of `CompletionService` and the playground over those four, with cache, settlement and operators | each request, the rules, models and grants, the cache |
| `ClientRegistry` | `lease`, `_acquire`, `_evict_locked`, `_release`, `aclose` | entries, creation locks, the queue of the guard, each task |
| `RateWindow` | both `hit` methods | windows in memory or in Redis, each hit |
| `Vault` | `guarded_rotate`, `rotate_all`, `reencrypt_all`, the keyring, credential create / update / delete | keys, rows, the lock, each replica and editor |
| `Answers` | `from_*_response`, the stream translators, `to_responses`, `astream_responses` | the stream of an answer, and what its reader has put together |
| `RequestProofs` (`Requests`, and `UsageLedger` with `SpendRead`), `BudgetGateProofs`, `ProcessProofs` (`CircuitBreaker`, `ClientRegistry` and `Answers`), `FailoverProofs`, `AlertOutboxProofs`, `CallableAliasesProofs`, `AccountsProofs`, `PlatformProofs` (`Vault`, `RateWindow`, `RedisCircuitBreaker` and `TeamAccess`) | theorems | |
| `MC*` | model values, scenarios and bounds for TLC | |

Conventions. A database transaction or a Redis command is one step; a section
under an `asyncio.Lock` is one step; every other `await` separates two steps.
Money is a small natural number, time a tick, content the set of what a check
could object to, a JSON text the sequence of its fragments. A commit may fail,
and may take effect and fail in the client. Variables marked "history" exist in
no program: they record that a named event has happened, so that a property can
say what is guaranteed otherwise. Definitions whose comment says how the code
could be wrong, and which no specification uses (they stand in front of the
definition they vary), are mutants: they show that a property would notice.

`UsageLedger` is shown to implement `BillingRecord` (`RefinesBillingRecord`):
outbox, reconcilers and retries are invisible to a client that asks whether a
settled call is on record. `Failover` is shown to use each candidate's breaker
as `CircuitBreaker` lets it (`UsesBreakers`).

## 3. Runs

The properties of a component are stated one by one in its module; a run checks
the conjunctions named below.

| Run | Checks | Shows |
|---|---|---|
| `ledger` | `LedgerInv`, `RefinesBillingRecord`, `OutboxConverges` | a record survives failing and ambiguous commits, racing reconcilers, crashes and quarantine; the outbox drains, but for quarantined rows |
| `spend_read` | `RecordedOnce`, `ReadsCountOnce` | a settled call is on record, twice only after an ambiguous commit; what the two-statement read can get wrong, and only then |
| `gate` | `ClaimsCover` (`ReservedBounded`, `NothingHeldWhenOver`, `CoveredUntilBilled`), `CapHolds`, `HeadroomRecovers` | reservations are bounded and returned; the cap holds outside four named windows; headroom comes back |
| `breaker` | `OneTrial`, `OnlyTrialResolves`, `RecoveredProviderCloses` | one trial; late outcomes decide nothing; a recovered provider is let back in unless a trial was abandoned |
| `redis_breaker` | `MarkersSettle`, `TrialWindow`, `NeverWedged` | the counter settles without a lock; no stampede after the cooldown; the markers go away |
| `failover` | `PaidOnce` (`ChargedOnce`, `AnswerIsPaid`), `NothingHeldBetween`, `UsesBreakers`, `EveryRequestEnds` | one charge per logical request; every routed request ends |
| `alerts` | `OneOwner`, `DeliveredOnce`, `GoneOnlyIfSent`, `OutboxDrains` | one owner while a lease lasts; at least once, and twice only for two reasons; the outbox drains |
| `callables` | `RegistryKept` (`RegistryAgrees`, `GrantsHaveOwners`, `EgressAcknowledged`), `CallersKeepAliases` (`NoSilentRedirect`, `PromotionKeepsCallers`), `HistoryKept` (`OwnershipMovesUp`, `RevisionsAppendOnly`) | slots, resources and grants agree under racing writes; an alias changes its meaning only by a claim of it |
| `accounts` | `AccountsGuarded` (`AdminRemains`, `ThresholdLocks`, `ResetOnce`), `CredentialsDie` (`RevokedStayDead`, `OffboardedKeysDead`, `DetachedKeysDead`, `OneReplacement`, `AdmittedWhileGood`), `AdminDisableSticks` | racing admins, logins, SSO, SCIM, rotations and revocations |
| `team_access` | `AuthorityKept` (`NoEscalation`, `GuardrailsByManagers`, `AuditorReads`), `TeamsKept` (`KeepsAnAdmin`, `InviteOnce`, `ChangesAudited`, `TombstonedHadNoKeys`), `RolesGranted` (`AdminsMadeByManagers`, `JoinsLiveTeam`) | no sequence of calls escalates; teams survive races and crashes |
| `requests` | `ContentScreened` (`Screened`, `PromptScreened`, `StoredIsScreened`, `ReplayedToOwner`), `AccountedOnce` (`ReleasedOnce`, `BilledForCalls`, `BlockedIsFree`, `OneKeyHit`), `OnlyServable` (`RoutedCapable`, `RoutedIsAccepted`, `AdapterAgrees`, `ConversationKept`, `PolicyReadable`, `ReservedCovers`), `EveryClaimReturns` | every surface, against rules, models and grants that change under it |
| `platform` | `ClientsSound` (`HeldStaysOpen`, `OneClientPerKey`, `Bounded`, `ShutdownClosesAll`), `WindowsSound` (`WithinLimit`, `RefusedOnlyIfSpent`, `RetryOpensWindow`, `StoresActiveWindows`), `VaultSound` (`CredentialsReadable`, `RotatesAlone`, `TokensVerify`, `NewestUsable`), `AnswersSound` (`StreamAgrees`, `RefusalMarked`, `ResponsesAgree`, `CallsAnnounced`, `NoHalfCall`, `ForcedHidden`, `ChoiceHonoured`), `EveryLeaseAnswered` | four services that share no state, one scenario at a time |

Where the code does not do what one would ask of it, the premise of a property
says so; section 6 lists these places.

### Bounds, and why they are enough

* `ledger`: two events of one team, two replicas, batches of one row,
  quarantine at two attempts. Two replicas can hold the same row at different
  points of their loop, and a poison row can stand in front of another one. One
  team, because rows of different teams share nothing but the batch limit.
* `spend_read`: two events, batches of two, so that a batch can be left half
  done and its second row go stale; quarantine after one attempt. The events
  and the replicas are interchangeable (symmetry).
* `gate`: two calls on one capped key and a stream on an uncapped key of the
  same team, costs 0 and 2 against limits 2 and 3, a TTL of two ticks: requests
  can be refused at either gate, under- and overestimated, and expire in flight.
* `breaker`: four requests, threshold 3, cooldown 2: a trial holder, a late
  success, a late failure and a newcomer at the same time.
* `redis_breaker`: three requests, threshold 2, cooldown 2; `MaxCount` caps
  the counter that requests cut short keep raising.
* `failover`: two buffered requests and one stream over two candidates in
  opposite orders, two attempts, threshold and cooldown 1, a deadline of one
  tick on two of the three requests.
* `alerts`: two dispatchers, two alerts of which the older one has no channel,
  batches of two, quarantine at two attempts. A lease of 0 ticks is one that
  ends within the next tick, and a batch may last one tick (`MaxAge`), so a
  lease can end under its holder, or be over when it is granted. Each alert has
  a team of its own, and whether a team has channels does not change.
* `callables`: two teams, a model and a router, two requests, and two names of
  which one is the alias the resolver would derive for the other; at most three
  rows in the registry and two revisions, which is enough for a slot, a
  tombstone and a grant of the same name.
* `accounts`: two users, two e-mail addresses, two SSO subjects, three keys (a
  key, its replacement, a competing one), two requests at a time. A behaviour
  belongs to one of four groups of requests that meet on the same rows (SSO,
  SCIM, login, keys). An SSO login and a SCIM sync are each as many steps as they
  have reads and commits.
* `team_access`: three people (a platform admin, a team admin, another), two
  newcomers, two teams, two keys, one service principal, one invite, two
  requests at a time; four groups (roles, keys, life cycle, people). What a
  group does not ask about is not followed further (`MCBound`).
* `requests`: one request at a time, two in the cache scenario, where requests
  meet; two rules, one or two operator edits, eight models of six providers, two
  routers. Conversations of up to three chat messages or four Responses items
  over two calls: enough for every order of calls and outputs of two calls.
* `platform`: three tasks on two client keys with room for one client, and in one
  scenario all three on one key (a waiter on a lock that has lost its slot, beside
  the holder of a new one); three hits on two rate keys with windows of different length, limit 1, an INCR up to
  `MaxDelay` = 1 s late; three replicas, two editors, one credential, four days;
  answers of up to two blocks in up to two fragments.

Deadlock is not checked where requests are finite in number and the system may
simply be done (all runs but `breaker` and `redis_breaker`).

### Fairness

* `ledger`: each replica's loop wakes up after every cycle (weak fairness of
  selecting); checking, committing or failing a row, and counting the attempt,
  may be interrupted again and again but not every time (strong fairness).
  Without the latter a database that fails every bookkeeping write would keep a
  poison row selectable for ever, which is what the code accepts.
* `gate`, `redis_breaker`: time passes. Nothing is assumed of the requests:
  claims and markers come back although handlers die.
* `breaker`: time passes and a request that was let through
  ends somehow (its SDK timeout bounds it). That traffic goes on falling back
  on the model is a premise of the property, not of the system.
* `alerts`: time passes, the loops wake up and every send or statement of a
  dispatcher comes to an end (the channels have timeouts). That database errors,
  stopped replicas and requeues cease at some point is a premise of
  `OutboxDrains`; the answers of the channels are arbitrary.
* `failover`: the event loop runs every ready task, provider calls are bounded
  by the SDK timeout, and a stream ends or its client leaves.
* `requests`: the event loop runs every request that can run; nothing is assumed
  of operators.
* `platform`: the event loop runs every ready task, and shutdown proceeds.

## 4. Proofs

`RequestProofs`, on the ledger (for any events, teams, replicas, batch limit and
attempt bound, from `ConstantsOK`). The inductive invariant is `Inv == TypeOK /\
LedgerInv /\ SettledIsDurable /\ TwiceOnlyIfAmbiguous`. `SettledIsDurable` alone
is not inductive: a reconciler deletes an outbox row on the strength of an
idempotence check made earlier, so the invariant has to say what a row in some
replica's hands is worth (`HeldRowsAreDurable`, `FoundIsRecorded`), that only
finished settlements have rows in the outbox (`OutboxIsSettled`), that attempts
written back stay in bounds (`HeldBelowBound`), and that the foreign key keeps
ledger rows to existing teams (`LedgerHasTeam`). From it follow `TypeCorrect`,
`HandsAreSafe`, `SettledOnRecordOnce`, the action property `NothingLost`,
and `LedgerImplementsRecord`: every step maps to a step of `BillingRecord` or to
a stutter.

`ProcessProofs`, on the breaker (for any requests, threshold and cooldown, from
`BreakerConstants` and `NoTokenIsNoRequest`). The methods are first shown to keep
a breaker value `Sound`; `Inv == TypeOK /\ OneTrial /\ CountMatchesStatus` is then
inductive. `SingleTrial`, `CountAndStatusAgree` and the action property
`StaleOutcomesDecideNothing` follow from it.

The same module, on the client registry (for any finite set of tasks, any keys and
any capacity, from `RegistryAssumption`). `OneClientPerKey` is far from inductive.
`RegistryInv` says who stands in the line at the guard (`LineOK`) and at which
creation lock (`LocksOK`: the holder is the first there, and a lock has one), and
then why a key is constructed once (`SoloOK`): who constructs holds the lock that is
in the key's slot, and between dropping that slot and inserting, the builder stands
ahead in the line of whoever looks again under the next lock, who will find the
client (`FoundOK`). `HeldStaysOpen` needs that `leases` counts the lessees
(`EntriesOK`), `ShutdownClosesAll` that what is still open is on shutdown's list
(`SeenOK`), and `Bounded` that eviction closes or marks as many of the least recently
used as there are too many (`OldestTaken`, a counting argument from the strict order
of last use, `UsedOK`). `RegistryInvariant` and `ClientsSoundHolds` are the theorems.
The proof corrected the model: the premise of `OneClientPerKey` named failed and
cancelled constructions, and TLC, asked about the lemma with three tasks on one key,
found two constructions side by side without either (section 6).

And on the answers (for any set of answers, of any number of blocks of any number
of fragments, from `AnswersOK`: structured output is emulated for Anthropic
only, and a tool that is named was offered, as `_validate_tool_choice` requires).
`AnswersSound` compares what two readers have put together with functions of the
whole answer, so the invariant `AnswersInv` says where in the answer they are: some
fragments into some block, with as much text, as many calls and fragments of
arguments as lie before that place, and the meter at what its events said. What
`FlattenSeq` computes is reasoned about through a recursive function of the number
of blocks (`Built`, defined block by block), which at the last block is the whole
answer. The messages of the Responses emulation are counted against the calls of
the chat stream (`Announced`), and a stream that is over was either completed or
ended with calls it could not complete (`Completed`, `Uncompleted`): the second
half is why a cut stream shows no half call as done. `AnswersInvariant` and
`AnswersSoundHolds` are the theorems. For them the guards of two CASEs of the event
translators, which overlapped on events that do not occur, were made exclusive, as
the prover may not assume which of two true arms is taken; `ToolBlocks` and
`CallsAnnounced` are written without `SelectSeq`, which is recursive in a way that
the prover cannot unfold.

`AlertOutboxProofs` (for any dispatchers, alerts, batch limit, lease and
attempt bound, from `OutboxConstants`). That a row has one owner is not
inductive: another dispatcher must fail to claim it, which needs the time left
on the owner's lease (`LeaseIsAge`: Lease minus the age of the owner's batch).
`OneOwner` in turn gives `DeliveredOnce`, through `SentIsDeleted`: an
undisturbed row that was sent is queued only while its one owner is about to
delete it. `SentBeforeDelete` gives `GoneOnlyIfSent`. The theorems are
`OutboxTypeCorrect`, `RowHasOneOwner`, `SentBeforeGone`, `NotDeliveredTwice`.

On `SpendRead`, `ReadsAreCountedOnce` needs `ReadInv`, which says what the partial
sum taken by the first SELECT is worth while reconcilers move rows before the second.

`BudgetGateProofs` (for any finite set of requests, keys, limits, amounts and TTL,
from `GateConstants`). A sum of reservations is written as a count, `Total(S) ==
Cardinality(Units(S))` with one unit per unit of money of each claim: a fold would
need induction over data, the cardinality of a finite set does not. `TotalIsSum`
(an assumption TLC evaluates in `MCBudgetGate`) compares it with the sum.
`ReservedBounded` and `CapHolds` are inductive only beside the table `Stages` of
what a handler has still to do, holds and owes at each place, `ClaimsKnown` and
`HeldIsClaimed` (a claim in the store is held by its handler, is in flight, or
leaked; a claim held is in the store unless its TTL ran out). The theorems are
`ClaimsCoverHolds` and `CapHoldsHolds`.

`FailoverProofs` (for any requests, candidates, chains, attempts and deadline, from
`FailoverConstants`). `Inv` is local to a request: charges, holds, deadline and
token at each place of an attempt. `PaidOnceHolds` and `NothingHeldBetweenHolds`
follow. `UsesBreakersHolds` is the refinement of `CircuitBreaker` by every
candidate's breaker at once; it needs `TokensAreTrials`, a relation between what
an attempt holds and what its breaker waits for, and maps a failover step to a
step of one breaker and a stutter of the others.

`PlatformProofs`, on the Redis breaker (for any requests, threshold and cooldown,
from `RedisBreakerConstants`). `BreakerInv` adds to the types that a trial marker
has an expiry and that a full or immortal counter belongs to a request that is
going to clear or expire it, unless one was cut short. `MarkersSettleHolds`, the action property
`TrialWindowHolds`, and `MarkersAgeHolds`, the ranking argument behind
`NeverWedged` without its fairness.

The same module, on the vault (for any replicas, secrets, values, from
`TokenAssumption` and `NothingAssumption`): `VaultInv` says at which places of a
rotation a replica may still write, that a replica that writes without the lock
lost its lease, which key every row is sealed with, and how long a signing key is
kept: `rotate_jwt` compares times while a day is the module's unit, so that a key of
the cutoff's own day goes or stays (`MayExpire`, `MustExpire`). `VaultSoundHolds` is
then a consequence. On the limiters (for any keys, windows, limits and finite set of
calls, from `WindowAssumption` and `DelayAssumption`): `RateInv` says that the
numbers handed out in a window are distinct (`NumbersDiffer`) and without gap
(`NumbersFollow`), and that a counter outlives its window (`CountersReach`).
`WithinLimit` then is a pigeonhole argument, an injection of the admitted calls
into 1..limit, and `RefusedOnlyIfSpent` its converse. `DelayAssumption` is about
the environment: an INCR reaches Redis at most one second after the clock was
read. That is the second by which the TTL exceeds the window; later than that
the counter may be gone and the count starts again.

`AccountsProofs` (for any accounts, subjects, keys, principals, reset tokens and
concurrent requests, from `AccountsAssumption`). The proof first classifies what a
step may write to an account (`UserWrite`: a row added, edited, switched or
deleted, with the conditions under which the code does it) and derives that
accounts age (`Ages`: versions never fall, the deleted never come back). On that
rest the parts of `AccountsInv`: a token carries a version its account has had
(`Dated`), a revoked one a version left behind (`Outdated`), also for a login that
has checked the password and not answered yet; a reset token that can be redeemed
has changed nothing; a key that has a replacement is in its grace window or
revoked; and `ReqOK`, what a request may still rely on of what it read before its
transaction. The theorems are `AccountsGuardedHolds`, `CredentialsDieHolds` and the
action property `AdminDisableSticksHolds`.

`PlatformProofs`, on the management API (for any teams, keys, invites and number of
requests in flight, and any finite set of users, from `TeamAccessAssumption`: no id
is both a user's and a key's, and a user can rejoin a team at least once). Nearly
every handler reads, awaits and only then writes, so the core of `AccessInv` is
`MayAct`: what the reading still says when the request commits. It speaks of
authority that was once granted (`managers` only grows), of rows that are not taken
back, and of the columns of a key that never change. `AuthorityOK` adds that the
keys that somebody has seen and the callers that edited guardrails are real ones;
`LocksOK` and `LateOK` that a team's lifecycle lock belongs to the delete that runs,
and that keys inserted from then on are known as late; `AloneOK` and `AdminsOK` that
in a team whose role changes never overlapped there is at most one about to happen,
and another admin remains if it takes the role from one. A step is split into the
tables it may write (`TeamsWritten`, `KeysWritten`, ... say under which conditions)
and the one request it moves (`Becomes`), and each part of `AccessInv` is then
proved from the tables it mentions. `AuthorityIsKept`, `TeamsAreKept` and the action
property `RolesAreGranted` follow. The proof also corrected the model: a key that is
rotated, and not only one that is issued, while its team's delete is under way
outlives the tombstone (`Belated`).

`CallableAliasesProofs` (for any teams, models, routers, names, channels and number
of requests in flight, from `IdsAssumption`: an id belongs to one table and is not
reused). The registry's operations are first shown, each as a lemma about an
arbitrary registry, to turn an agreeing registry into an agreeing one (`ClaimSlots`,
`RenameSlots`, `RemoveSlots`, `PromoteSlots`, `DropGrantSlots`, `RevokeSlots`,
`GrantSlotsFit`). `RegistryKept` is not inductive, because a write acts on what its
request read earlier: `ReqOK` says what that is still worth, and `KeptM` and `KeptR`
(ownership moves to the platform only, origins stay, revisions are appended) carry
it over the steps of the others. `RegistryKeptHolds` and the action property
`HistoryKeptHolds` follow. `CallersKeepAliases` stays with TLC: a derived alias is
the first free one of `MaxSuffix` numbered names, a bound under which the search may
fail for large registries, and that numbered names differ rests on `ToString`, which
has no theory in the prover.

`RequestProofs`, on the requests (for any number of requests and operators, any
models, routers, tags and rules, any answers of the providers and any failures of the
guardrails, from `RouterAssumption`, `InputAssumption`, `RulesAssumption`,
`ConfAssumption`, `PolicyAssumption` and `BoundAssumption`: what was validated when it
was stored or parsed, and that the playground has no key). `RequestsInv` says of every request under way, by the place its coroutine is
at: its claim is not taken, out, being returned by the collector's callback or back
(`ClaimOK`); it has written no row, or the one its call or replay owes (`RowsOK`); it
has hit its key's window where its surface does (`KeyOK`); what its request chain looks
for is out of the text it sends, and what its response chain looks for out of the
answer it keeps (`ScreenOK`); an entry it was replayed was bought by the same team, key
and question (`HitOK`); and its model is a capable candidate of its router
(`RouteOK`). Of the shared state it says that each entry of the store sits under its
buyer's key without a tag its rules watched for (`StoreOK`), and that names and scopes
of rules stay sound between the check and the write of two operators (`PolicyOK`,
`DesksOK`). `ScreenOK` is where `ContentScreened` is not inductive: the rules are read
afresh for the answer, so it compares the chain a request resolved with the rules in
force, and a text screened by a chain is clean of what all its rules watch for only
because a redaction is final and a BLOCK ends the request, whatever the order of the
rules (`run_chain` in closed form; that this is the fold of the code over the ordered
chain is what `ChainsRunOneByOne` checks, since an induction over a chain is out of
reach). Each transition of a coroutine is a lemma `...Keeps` about one request, proved
from which fields it writes (`Same`); the actions then only say which transition they
make and what they do to store, rules and desks. `RequestsInvariant` gives
`ContentIsScreened`, `RequestsAccountedOnce` and `RoutedAndReadable` (three parts of
`OnlyServable`).

`ReservationCovers` proves a fourth, `ReservedCovers`, with a second invariant beside
the first. A ceiling may be edited while a request is under way, so `CoverInv` says
that its body stays the client's, clamped to the ceiling that was read when its model
was resolved (`Fits`), that from the admission on a native request is at its own
provider (`Home`), and that what was reserved and what the provider was asked for are
both computed from that one body. Every transition either keeps all of that (`Kept`,
`Onward`) or is one of the few lemmas that establish it. What is left is arithmetic
about the policy's operators: which limit the estimate reads (`ReadsLimit`), which ones
each translator passes on (`AsksLimit`), and that the first covers the second on the
OpenAI surfaces (`OpenAICovered`) and the native ones (`NativeCovered`). Ceilings are
any integers or none: a limit of zero or below is reserved for as nothing and may ask
for nothing (`ReadsNat`), except where a translator takes zero for "not given", which
is the premise (`NoneZero`).

Each inductive invariant was an invariant of a TLC run before it was proved. The
bounds that are constants of a model (`MaxTokenVersion`, `MaxCycles`, `MaxCount`,
`MaxSecond`, `MaxDay`, `MaxRejoin`) are arbitrary naturals in the theorems;
`MaxCycles` and `MaxRejoin` are not 0 and `MaxCount` not below the threshold, as the
code counts that far.

Only model-checked: all liveness and what speaks of fairness (`OutboxConverges`,
`HeadroomRecovers`, `RecoveredProviderCloses`, `NeverWedged`, `EveryRequestEnds`,
`OutboxDrains`, `EveryClaimReturns`, `EveryLeaseAnswered`), out of the prover's
reach; `RequestPolicy` and `ToolContract` (functions over conversations, where what
they compute would need induction over data), and with them the parts
`AdapterAgrees` and `ConversationKept` of `OnlyServable`, which speak of conversations
as they translate them.

## 5. Not modelled

Reporting queries, traces and metrics; price arithmetic; the regular expressions
and scores of detectors and routing strategies (their verdicts and choices are
inputs); the shape checks of single request fields; image and embedding bodies;
the OIDC exchange and the SCIM wire format; wiring, schema and migrations. The
semantic cache: `cache_semantic_enabled` is never written by `model_repository`,
so that no stored model reaches it. In the modelled parts: budgets in warn mode
and the start of a budget window, the thresholds that fire an alert, clock skew
between replicas, a restart of the process that owns an in-memory breaker,
cancellation of a buffered request in mid-await, cancellation inside the wait
for the registry's guard on release (`client_registry.py:199`) or during the close
of an evicted client (`client_registry.py:177`, `256`), either of which leaves a
lease counted for ever, and the attempt count stored with a routing decision.

## 6. What the models show about the code

Each of these is a behaviour of the model that was compared with the source. The
ones with a name in parentheses are the premise of that property.

Billing and budgets
* `delete_team` looks for billed history before it deletes; a settlement in
  between is erased with the team, although the docstring says a team with
  history is tombstoned (`team_service.py:302`).
* The spend is read before the atomic reserve, so that a call which settles and
  releases in between is counted by neither and a burst can pass the cap (the
  "stale" window of `CapHolds`, `usage_meter.py:513`).
* A `record()` commit that takes effect but raises leaves the event in both
  tables until a reconciler drops the copy (`TwiceOnlyIfAmbiguous`), although
  `usage_repository.py:254` says "exactly one of the two tables at any commit
  point".
* A slower replica can write a lower attempt count over a quarantined row, which
  is then selected again (`usage_repository.py:469-470` says it "stops being
  selected").
* A row moved between the two SELECTs of `spend_since` is summed by neither
  (`MissedOnlyIfMoved`); a stream gives its reservation back before it bills
  (the "unbilled" window of `CapHolds`); a call in flight during a purge
  dead-letters its usage after the erasure.
* Late in a long batch a dispatcher's lease is over when it is granted, and
  `requeue` can clear the lease of a row in somebody's hands (`OneOwner`); as
  many alerts without a channel as fit in a batch starve the others.

Breakers and failover
* An abandoned half-open trial keeps the in-memory breaker half-open for ever
  (`RecoveredProviderCloses`); `completion_service.py:1357-1359` says it stays
  unresolved "until the marker expires", which is true of Redis only.
* In Redis, a success that read its keys before the breaker tripped deletes the
  new open marker, although "only the half-open trial's outcome closes an open
  breaker" (`circuit_breaker.py:256`).
* A deadline that passes before the attempt starts, or a candidate lookup that
  raises, leaves the reservation to its TTL (`NothingHeldBetween`), although
  `_dispatch` says it "is released either way" (`completion_service.py:349`).
* An attempt the deadline cuts off during settlement is billed and reported as
  a timeout; it is not charged a second time.

Requests
* `/responses` and the playground through a router pass no `router_id`, so that
  the rules scoped to the router are not applied to the answer (`Screened`).
* A limit of zero, from a client (`max_tokens: 0`) or from a model's ceiling
  (`infrastructure/web/models/schemas.py:36` has no lower bound), passes the clamp.
  Nothing is reserved; the Anthropic translator sends its default of 1024 instead,
  above the ceiling, and the others may send no limit. The premise of
  `ReservedCovers` leaves out zero through a translator. A ceiling below zero is
  sent as it is, and is covered. Of two limits named by a client only the first is
  reserved for.
* `_validated_router` ignores `n`, so that some requests are refused only after
  routing has had its side effects; Responses on an OpenAI-compatible provider
  are refused only after admission (`RoutedIsAccepted`).
* Judges take a team-window hit of their own and are billed although the request
  is then blocked; an authoritative zero usage on the native surfaces is billed
  as an estimate.
* A cancellation between the admission and the `try` of `_dispatch` leaves the
  claim to its TTL.

Accounts, teams, aliases
* An SSO login writes back the admin flag it read, undoing a change made
  meanwhile (`AdminRemains`).
* Two role changes in flight at once can leave a team without an admin
  (`KeepsAnAdmin`); a key can be inserted while its team is being tombstoned
  (`TombstonedHadNoKeys`); rows of revoked keys block the deletion of a team.
* Some handlers pass `principal.user` to the audit trail, which is empty for a
  key, although `audit/recorder.py:28` says the trail records which one acted.
* `ModelService.update` and `update_rule` write back what they read earlier; two
  edits of different fields can undo each other.

Platform
* `aclose` closes clients that are leased (`HeldStaysOpen`), and a lease past
  the check of `_closed` inserts a client that shutdown does not see. A
  task that waited for the lock of a construction that is over, and finds its client
  evicted or closing, builds under a lock that has no slot any more, beside whoever
  holds the next one; the client inserted first is displaced without having been
  marked, and is closed at shutdown only, unless its TTL is over when it is released
  for the last time (`OneClientPerKey`). "Concurrent
  misses on the same key build exactly one client" (`client_registry.py:87`) and "only
  a `closing` entry can still be here" (`client_registry.py:171`) do not hold then.
* An INCR that is two seconds late or more can be counted after its window's key
  expired, and the limit is exceeded (`WithinLimit`).
* A credential edit that straddles a re-encryption leaves a row that names a key
  it was not encrypted with; it is unreadable and later rotations fail
  (`CredentialsReadable`).
* A signing key is deleted in the rotation after `ACCESS_TOKEN_TTL` and a day of
  grace. A token signed on it after the next rotation was due outlives that
  rotation: one missed rotation logs users out on the last day of their tokens, two
  in a row earlier (`TokensVerify`; `keyring.py:23-26` promises no
  "spurious mid-session logouts").
* An Anthropic stream that opened a tool block ends with `tool_calls` whatever
  the stop reason, so that a refusal or a truncation in mid-call reads as a
  finished call (`RefusalMarked`); a call with empty input streams "" where the
  whole answer has "{}" (`StreamAgrees`); a Responses stream that ends by length
  completes where the unstreamed request is an error (`ResponsesAgree`).

## 7. Plan

1. Done: the money path, breakers, failover and alerts; aliases, accounts, teams,
   the request path with its policies, and the platform services.
2. Done: proofs of the ledger with its reads, the gate, both breakers, failover,
   alerts, aliases, accounts, teams, the vault, the limiters, the client
   registry, the requests and the answers. Prove next: `AdapterAgrees` and
   `ConversationKept` of `OnlyServable`.
3. Model next: the firing of budget alerts, budget windows and prices as operators
   against reference definitions, the gate composed with `SpendRead`.
