# Verification of nestjs-scaffold

TLA+ models of the parts of the service that keep state, TLC runs that check them on small
instances, and TLAPS proofs that hold for every instance. Everything is translated from the code;
paths below are relative to `src/src/` unless they start with another directory of the repository.
`PROJECT.json` lists the components, runs, mutants, findings, hazards and theorems, and maps every
definition to the lines it models.

## 1. Inventory

| Component | State it keeps | Operations | What is hard | What makes it correct | Module |
|---|---|---|---|---|---|
| Event delivery: `queue/rabbitmq.service.ts`, `queue/rabbitmq.consumer.ts`, `queue/idempotency.guard.ts`, `queue/dlq-consumer.service.ts`, `queue/events-cleanup.service.ts` | main, retry and dead-letter queues (broker); processing lock and processed mark (Redis); `processed_events` (database) | consume, dedup, lock, handle, record, retry, dead-letter, republish, clean up | concurrent copies of one event, redelivery, crash between any two writes, lost replies, TTLs | no event is lost; records are truthful; one handler at a time; recorded events are not redone; the ladder absorbs faults | `EventDelivery`, `AtLeastOnce` |
| AMQP connection: `queue/rabbitmq.service.ts` 51-181, `queue/dlq-consumer.service.ts`, `health/health.controller.ts` | connection and channel fields, connect promise, reconnect flag and timers, consumers at the broker | connect, set up topology, reconnect, consume, ack on the current channel | callbacks of abandoned connections, several timers, a health check that connects too, stale delivery tags, unhandled rejections | only handled messages are acked away; one consumer, one connection; the service comes back | `ChannelLifecycle` |
| Access cache: `access/access.service.ts`, `redis/redis.service.ts`, its callers in `roles/`, `users/`, `tenancy/` | one Redis entry per (tenant, user); roles, assignments, memberships in the database | read-through fill, invalidation by key, by pattern, of all | a fill that read before a commit and writes after the invalidation; SCAN and DEL apart; a crash between commit and invalidation | every stale entry has a known cause and disappears | `AccessCache` |
| Sessions: `auth/auth.service.ts`, `auth/jwt.strategy.ts` | refresh token rows, revocation stamps in Redis, issued access tokens | login, refresh with rotation, switch tenant, logout, deactivate a user or tenant, validate | concurrent refreshes of one token, second-granular stamps, read-then-write | a refresh token is used once; no access after logout or deactivation | `Sessions`, `SingleUse` |
| Verification codes: `auth/verification-code.service.ts`, code logins of `auth.service.ts` | code and cooldown keys in Redis | send, consume, register | overlapping sends, delivery failure, expiry, a code spent on a login that is refused, the account changed meanwhile | a code works once, the newest one works, one send per cooldown, refusals have a reason | `VerificationCode` |
| Rate limiting: `redis/redis-throttler-storage.ts`, `common/guards/user-aware-throttler.guard.ts` | counter and block key per tracker | increment | INCR and EXPIRE apart, block key written below the limit | counters expire, blocks end, a block lasts as long as it should, and means the limit was passed | `Throttler` |
| Administration: `roles/roles.service.ts`, `users/users.service.ts`, `common/guards/permissions.guard.ts` | roles, role permissions, memberships, assignments | create, update, toggle, remove a role; create a user, set roles, remove | rights read from a cache and used some awaits later; check-then-write | platform permissions stay where they are; nobody grants what nobody holds | `Administration` |
| Tenancy: `tenancy/*.ts`, `common/guards/tenant.guard.ts`, `common/middleware/request-context.middleware.ts` | tenants, slug cache, request context | create, remove, boot, resolve, guard | slug cache after a removal, find-then-create, three sources that name a tenant | a slug has one tenant; stale slugs end | `Tenancy` |
| Seeding: `database/seed.service.ts` | built-in roles and permissions | run at start | several instances starting at once; NULL in a unique key | one built-in role per code | - (section 12) |
| Wiring and pure I/O: `notification/`, `health/`, `prisma/`, `config/`, `main.ts`, filters, interceptors, DTOs, decorators | none of their own | deliver a code, answer a probe, validate configuration | - | - | - |

They interact through calls (guards call services, services call Prisma and Redis), shared state
(Redis keys, database rows), and messages: `users.service.create` writes the user and its outbox row in
one transaction, Debezium publishes the row to RabbitMQ, and the consumer handles it at least once.
Each process runs one JavaScript thread, so a step of a model ends at an `await`; several processes
run at once, so between any two awaits anything else may happen.

Where two modules meet, one of them keeps the other's part as small as its own properties allow:
`EventDelivery` has healthy channels and `ChannelLifecycle` messages that succeed; `Administration` reads
rights in one step from entries that may vanish or stay, and `AccessCache` has the steps of that read;
`Tenancy` takes tokens as genuine, which is `Sessions`' subject; `VerificationCode` ends where
`Sessions` begins.

## 2. Plan

Done, the parts where a mistake costs most first: `EventDelivery`, `AccessCache`, `Sessions`;
`AtLeastOnce`, which `EventDelivery` is proved to implement; `ChannelLifecycle`, `VerificationCode`,
`Throttler`, `Administration`, `Tenancy`; `SingleUse`, which the refresh tokens of `Sessions` are proved to
implement. Each but the two abstract ones has a module of proofs.

Left: seeding by instances that start together; the composition of `ChannelLifecycle` with
`EventDelivery`, where messages may fail and be retried on a channel that goes away; the composition of
`Sessions` and `AccessCache` in the order the guards run. Each of the two compositions has more states
than its parts together and would have to be checked on smaller instances than those below.

Every module follows one pattern. `X.tla` has the constants with their assumptions, the variables, one
action per step between two awaits, `Spec`, the type invariant and the properties. Operators whose
comment begins with *Bug* are not used by `Next`: each is a plausible mistake in the action it is named
after, and a property is only kept when TLC refutes it with the mistake in place (`mutants` in
`PROJECT.json`). `MCX.tla` adds model values and symmetry, `*.cfg` the instance, `X_proofs.tla` the
theorems. Variables called *history* in their comment record what happened, for the properties; no
guard reads them.

A run asks everything about a module that one instance can answer. The runs that expect a violation
(section 11) each refute one sentence of the repository.

## 3. Event delivery

### Model

`EventDelivery` has one process per worker, a *worker* being one running promise of
`RabbitmqService.handleMessage`; with a prefetch of 10 and several replicas many run at once. Its `pc`
names the await it stands at:

| `pc` | Code |
|---|---|
| `dedupRedis`, `dedupDb`, `remark` | the two checks of `RabbitmqConsumer.dispatch` and the repair of the Redis mark |
| `acquire` | `SET NX` of the processing key; losing (`SkipBusy`) throws `SkipMessageError`, which is acked |
| `handle`, `record`, `mark`, `unlock` | handler, `processedEvent.create`, processed mark, release |
| `markDup`, `unlockDup`, `releaseSkip` | the P2002 path, which releases a second time in dispatch's catch |
| `release` | dispatch's catch after any other error |
| `failed`, `nack`, `ack` | `handleMessage`'s catch: next retry queue and ack, or nack to the DLQ |

A message is its event, its `x-retry-count` and whether the event's id can still be read from it; a queue is a bag
of messages, because prefetching and requeueing promise no order. Payloads are reduced to the five sets that change
control flow: `Malformed` (rejected by `parseMessage`), `BadPayload` (rejected by `parseUserCreatedPayload`),
`Unrouted` (no handler), `HeaderIds` (event id only in an AMQP header, which retry copies lose), `MessageIds` (only in
the AMQP property `messageId`, which retry copies and republished messages lose).

The environment: the connector publishes an event up to `MaxPublish` times; `Fail...` lets any Redis,
database or handler call throw, with a write either applied or not; `Crash` kills a worker at any
point (a process with several workers dies as several crashes in a row), its message is requeued and
its lock stays set; `SendRetry` may meet back-pressure, when amqplib has written the copy although
`sendToQueue` returned false; `LockExpire`, `RedisExpire`, `RowExpire` and `cleanupProcessedEvents`
are the TTLs; administrators (`Admins`, one call each at a time) call republish or republish-all.

Two assumptions about time are built in and named: a message is not in hand for the seven days of
its record's life (`InHand` in `RedisExpire` and `RowExpire`), and a handler outlives its 300 s lock
only when `Overrun` is TRUE. A third is a constant: `RetryReturns`, that the binding takes a message
back from the retry queues. History variables (`recorded`, `dropped`, `late`) and the value `Orphaned`
of `lock` (the key is set, its setter is gone) exist only in the model: the key's value in Redis is
always `'1'`.

`AtLeastOnce` is what all this promises: an event is held from its publication until it is processed
or given up, and neither happens to an event that is not held. `DeliversAtLeastOnce` is its
specification under the refinement mapping *held* = a copy is pending, *processed* = recorded, *given
up* = skipped on an orphaned lock.

### Runs

| Run | Instance | Question |
|---|---|---|
| `delivery_faults` | 2 workers, 1 event, 2 copies, 2 faults, 1 crash, 1 back-pressure, 1 retry, 1 republish call at a time | `NoLoss`, `RecordIsTruthful`, `MutualExclusion`, `NoRework`, `DlqNeedsFaults` and the refinement `DeliversAtLeastOnce`, under everything at once |
| `delivery_live` | 2 workers, 1 event, 1 retry, 2 faults, 1 crash, 2 republish calls at once, handlers that outlive their lock, fair | `RetryAbsorbsFaults`, `Settled` |
| `loss_after_crash` | 2 workers, 1 event, 1 crash | refutes `EventsSurvive` (section 11) |

Two copies, two workers and one retry are enough for every pair of promises to meet at every pair of
awaits; bags keep the number of states finite because each fault, crash and back-pressure creates at
most one more copy. `dropped` is the exact exception of `NoLoss`: `loss_after_crash` shows it is
reachable. Events of the five payload sets, several republish calls, and handlers that outlive their lock while several
copies run, are in no safety run: the proofs below cover them for every instance.

In `delivery_live` the faults are one more than the retries, so that the DLQ is reached, emptied by two calls at once
and reached again. `RetryAbsorbsFaults` speaks of the behaviours with no more faults than retries; `Settled` of all of
them: from some time on no copy is in the main queue, in a retry queue or in a worker's hands. It says nothing of the
DLQ itself, where a message may wait for ever, nor of a republish call, which owes its end to finding the DLQ empty.

Fairness (`Fairness`): a running promise is eventually resumed (weak, per worker); TTLs run out
(weak); every message of the main queue is eventually delivered although workers take others
(strong, per message: the queue is a FIFO); an administrator's call goes on. Publishing, faults,
crashes and the seven-day expiries are not fair. `Settled` and `RetryAbsorbsFaults` therefore rely on
a finite number of faults, as `MaxFaults` says.

### Proofs

`EventDelivery_proofs` proves, for every number of workers and events and every bound, that
`Spec` implies `[]TypeOK`, `[]NoLoss`, `[]RecordIsTruthful`, `[]MutualExclusion`, `[]NoRework`,
`[]DlqNeedsFaults` and, under `RetryReturns`, the refinement `DeliversAtLeastOnce`. One theorem more,
`FewFaultsKeepMoving`, is the part of `RetryAbsorbsFaults` that needs no fairness: while faults are no more
than retries and nothing stalled, a healthy event that is neither recorded nor skipped has a copy in the main
queue, in a retry queue or in the hands of a worker who is not about to nack it. The inductive
invariant is `IInv`, a conjunction of

- `LockOwner`: a lock that names a worker names one inside dispatch's try block with that event. It
  survives the ownerless release because a release frees the key and the next owner overwrites it.
- `Truthful`: whoever claims a record is right. Needed to know that an ack after a check or after
  P2002 concerns a recorded event.
- `NoLoss` itself, inductive given those two: the one ack that follows neither a record nor a retry
  copy is the skip on a busy lock, and `LockOwner` says the holder has a copy that is not about to
  be acked.
- `RowStable`: a worker past the row has a live row, one before it holds the lock while the row is
  absent (without `Overrun`). This is what makes the double release harmless: only workers past the
  row release somebody else's lock.
- `Ladder`: a copy's retry count never exceeds the faults so far, and whoever takes one to the DLQ or from it
  has seen more faults than retries.

That a step loses no event (`NoLoss`) and that it is a step of `AtLeastOnce` both follow from one lemma
about each action, `Kept`: what was pending stays pending, is recorded, or is dropped. Steps that
leave the queues and the workers' hands alone map to stutters, which `AtLeastOnce`'s next-state
relation allows.

The assumptions are those named in `EventDelivery`: the five sets are sets of events, the bounds are
natural numbers, the model values are distinct.

## 4. AMQP connection and channels

### Model

`ChannelLifecycle` is one process with its broker: the `connection` and `channel` fields, the one
`establishConnection` that may be under way (`est`, `estOn`), the reconnect timers, and every caller
that awaits the shared promise.

| Action | Code |
|---|---|
| `Init`, `Booted`, `BootOk`, `MonitorOpened`, `MonitorReady` | the three `onApplicationBootstrap` hooks: they share one `connect()`, then the consumer awaits `basic.consume` and the DLQ monitor, at the same time, `createChannel` and `checkQueue`; only after that is its reconnect callback there (`Registered`) |
| `DialOk`, `DialRefused`, `OpenOk`, `EstablishOk`, `EstablishFails` | `connect`, `establishConnection`, `setupTopology` |
| `Resolved`, `Rejected` | what the callers do in the step that settles the promise: `onReconnected`, `registerConsumer`, the DLQ callback; the catch and the finally of `scheduleReconnect` |
| `TimerFires` | a reconnect timer, whose `connect()` returns at once where a channel is set |
| `ConsumeOk`, `DlqOpened` | the replies to `basic.consume` and to the DLQ monitor's `createChannel`, after a reconnect |
| `ChannelGone`, `scheduleReconnect`, `Arm` | the close listeners |
| `Deliver`, `Finish` | a delivery, and the ack of its tag on whatever channel is current |
| `Probe` | `GET health`, which connects too |
| `ConnectionDrops`, `ChannelError`, `Die`, `Restart` | network, broker, the end of the process by an unhandled rejection or by an error event nobody listens to (`Fatal`), its supervisor |

Whatever runs between two awaits is one step, microtasks included. A connection stands for itself and the
service's channel on it. Messages are always handled successfully; what happens to failing ones is
`EventDelivery`'s subject. A connection's identity is used again once nothing refers to it, so that the
model may run for ever. `staleAck`, `overlap`, `unheard` and the count `chanErrs` name the causes that the
properties leave open.

### Runs

| Run | Instance | Question |
|---|---|---|
| `channel` | 3 connections, 2 messages, consumer and health checks on, 2 faults, 2 tags, fair | `OnlyStaleAcks`, `OneConsumer`, `OneConnection`, `NeverStranded`, `ComesBack` |
| `stale_ack` | 2 messages, 1 fault | refutes `AckedWereHandled` (section 11) |

Two faults are the fewest with which an abandoned connection goes while its successor is under way, or is refused;
three identities are enough for them to be distinct. An unknown tag closes a channel without counting as a fault. Two
messages are what a stale ack needs, and two tags what a requeued delivery needs to meet a new one on its channel. More
faults are covered by the proofs of the four invariants.

Fairness: the broker answers, timers fire, running handlers end, a supervisor restarts the process. No
fault, probe or delivery is fair. `ComesBack` therefore says: once faults stop, there is a usable channel
with its consumer, unless a channel was used without listeners or its close event was ignored
(`unheard`), from which the code has no way back but the next fault or a restart.

`NeverStranded` is what makes this true step by step, without fairness: a process that is not *usable* has a
restart, an attempt, a timer, its bootstrap or a call on the current channel or connection under way, unless the
field holds a channel that is *deaf*, closed in a swallowed event or used without listeners. It speaks of
processes with the consumer on. Without it the same field can be lost for good: the DLQ monitor's callback that
joins an attempt which then fails only logs the error.

### Proofs

`ChannelLifecycle_proofs` proves `[]TypeOK`, `[]OnlyStaleAcks`, `[]OneConsumer`, `[]OneConnection` and
`[]NeverStranded` for any connections, messages and bounds. The inductive invariants, in layers:

- `Basic`: the types, and the shape of an attempt (`Ests`): the connection being established is fresh until
  its channel is open, and there is no other channel; consumers and calls for them sit on open
  channels (`Chans`); between bootstrap's two awaits the channel is there (`Boots`); nothing survives the
  process (`Dead`).
- `Acks`: a job's tag on its own channel, while that is open, is its own message or already settled
  (`JobsOk`). So an ack on the delivering channel is right and only one elsewhere can be wrong.
- `Single`: without overlapping reconnects at most one registration is *owed* by a timer, by a waiting
  attempt or by a re-registration, and the channel it will go to has no consumer yet (`Starting` is the
  same of bootstrap). During the consumer's bootstrap none is owed, which is why bootstrap and a reconnect never
  both register.
- `Sole`: as long as no channel was closed alone, the open connection is the one in the field, and while an
  attempt is under way, or there is no channel, it can only be the attempt's own.
- `Awaited`, `Timers`, `Listeners` and `Led`, for `NeverStranded`: whoever waits, waits for an attempt;
  `isReconnecting` is set only while a timer or a waiter will clear it; a heard channel's connection is the one
  in the field, so its close is not ignored; and from the end of bootstrap on there is a reconnect under way, or
  a deaf field, or a channel with its consumer and the DLQ monitor's, or the calls that lead there. `Timers` is
  the heart of it: it is why the second of two close events may be swallowed.

## 5. Access cache

### Model

`AccessCache` has readers (a running promise of `AccessService.getUserAccess`, for any guard or service
that calls it) and writers (a running administrative request).

| Step | Code |
|---|---|
| `Request`, `Hit`, `Miss` | the call and its `getJson` |
| `CheckMembership`, `ReadRoles`, `Fill` | the two queries and the SET with 300 s |
| `FindMember`, then `setRoles`, `updateUser`, `removeMember` | `findByIdForTenant` and the commit after it in `users.service` |
| `CountMemberships`, `DropUser` | a hard removal counts the memberships left and deletes the user |
| `changeTenantRole`, `changeGlobalRole` | a commit of `roles.service`, and which pattern it invalidates |
| `createUser`, `removeTenant` | commits that invalidate nothing |
| `ScanPage`, `DeleteBatch` | one page of SCAN, and its DEL; invalidation by name starts at `del` |
| `FailRequest`, `Refuse`, `FailInvalidation` | a throw or the death of the process before and after the commit |

The contents of an entry are one number: `roles[k]` counts the commits that change what the queries
return for tenant and user `k`, an entry is the count its query saw. A role change affects any set of
keys its pattern covers. The list of all permissions, which only a
system administrator's answer needs, changes only when the service starts and is read with his roles.
`raced` and `missed` are history: the entries that were outdated when they were
filled, and those whose invalidation failed or is not made by the code at all.

### Run

| Run | Instance | Question |
|---|---|---|
| `access_cache` | 2 tenants, 1 user, 1 reader, 1 writer, 1 change per key, fair | `StaleExplained`, `AnswersExplained`, `EventuallyFresh` |

Two tenants are the fewest with which the patterns of a tenant and of a user differ and a user
survives a removal; a second user would be a second copy of the same key set, since no operation
touches keys of two users but the patterns, which the two tenants already exercise. One change per
key suffices to be older or newer than it. That several readers race is covered by the proof.

Fairness: only TTLs run out; readers and writers may stop for good between any two steps. That the
cache becomes fresh rests on `Expire` alone, which the mutant (an entry without TTL) shows.

### Proofs

`StaleExplained` is inductive together with `TypeOK`. `AnswersExplained` needs `Promised`: a waiting
reader's floor is not ahead of the database, a reader that must be refused would still be refused, and
an entry that would answer it wrongly is `raced` or `missed`. All three hold for any number of tenants,
users, readers, writers and changes.

## 6. Sessions

### Model

`Sessions` follows the tokens of one user. A call is a running promise of one of the handlers below;
`now` counts seconds, the unit of `iat` and of the revocation stamps.

| Step | Code |
|---|---|
| `Login` | login, the two code logins and switchTenant, once they know the user |
| `Refresh` | lookup of the refresh token; its own expiry is a refusal (`Fail`) |
| `CheckMembership`, `CreateToken`, `Sign` | `assertMembership`, `createRefreshToken`, `createAccessToken` |
| `Rotate`, `Undo` | the conditional `updateMany`, and the loser's revocation of its replacement |
| `Logout`, `RevokeToken` | lookup, and the unconditional update |
| `Member`, `removeMember`, `Invalidate` | `UsersService.remove` up to its stamp |
| `removeTenant` | `TenancyService.remove` up to its stamp |
| `WriteStamp` | SET with EX of `lastLogoutAt` or `tenantDeactivatedAt`; the second was taken in the step before |
| `Fail` | a refusal, a throw or the death of the process at any await |
| `joinTenant`, `cleanupExpiredTokens`, `Tick` | `UsersService.create` for a known user, the nightly job, time |

`Accepted` is `JwtStrategy.validate` after the check of signature and expiry. Reads that only feed the
answer (roles, the list of tenants) and the lookup of the replacement's id are merged with their
neighbours. `dead` stands for revoked and for deleted, which no handler tells apart. The user may
belong to tenants the model leaves out, so a removal from all modelled ones may or may not delete him.
`given`, `cut`, `reordered`, `due`, `late` and `leaked` are history; `due` is the second before which a logout,
refresh or removal meant to end a key's tokens when it changed the database.

`SingleUse` is what a refresh token promises: a secret is in force for one stretch of time, and
whatever is granted for it is granted once, no earlier than when it leaves force for good. `TokensSingleUse` is
its specification with *live* = can be exchanged, *spent* = dead, *granted* = pairs handed out for the token.

`TimeAssumption` says that an access token lives at most a second longer than a stamp. That is so when
`parseTtlSeconds` and jsonwebtoken read `JWT_EXPIRES_IN` alike ("2h", "30m", "7d"), and not for "1.5h"
or "2 days", which only jsonwebtoken understands.

### Run

| Run | Instance | Question |
|---|---|---|
| `sessions` | 2 calls, 3 refresh tokens, 1 tenant, two second boundaries, stamps that live 1 and access tokens that live 2 | `OneExchange`, `RevocationSticks`, `ReturnedRevokes`, `LateRefused`, `NoStrayTokens` and the refinement `TokensSingleUse` |

Three tokens are the fewest that let two refreshes of one token each hold a replacement; two calls
let every pair of handlers meet at every pair of awaits. The first second boundary makes a token older than a
stamp, the second lets the stamp expire while that token's last second is compared: `jsonwebtoken` refuses it from
`iat + Life` on, and the mutant, a tolerance of one second there, shows that this is what `RevocationSticks` rests on.
Its proof holds for every `Life` and `StampTtl` allowed by `TimeAssumption`. `ReturnedRevokes` says more of the same tokens: between the change in the database and the stamp
they may be accepted only while the call that owes the stamp is under way. A call that fails there leaves them valid,
which is the code's own gap (hazard at `tenancy.service.ts` 96) and the exception the property names. The clock is bounded, so `sessions` may stop and deadlock is not checked.

### Proofs

`Sessions_proofs` proves the type invariant, the five invariants and the refinement for any calls, tenants,
tokens, lifetimes and clock. The inductive invariant adds

- `Exchanged`: a token that is not dead was never exchanged; a call about to answer an exchange is the
  only one for its token. The conditional `updateMany` is what makes it hold: whoever leaves `Rotate`
  for `write` found the token live and left it dead.
- `Refused`: a call that began too late is still at its membership check and would still fail it.
- `Stamped`: a living stamp is the latest one and lives as long as the tokens older than it; when there
  is none, those tokens have expired. It excludes keys whose stamps were written out of order, and so
  does `RevocationSticks`: two processes can write `lastLogoutAt` in the wrong order and nothing in the
  code prevents it.
- `Completed`, for `ReturnedRevokes`: what is due for a key is covered by its latest stamp, or by the stamp of a
  call that still owes it and will not be older. The last part holds because every handler takes the second
  after its commit.

That every step is one of `SingleUse` is two lemmas, `TokensKept` (no step takes a token out of `dead`, or unmakes
one) and `TokensGranted` (a pair is handed out by the one call that exchanged the token), the second from
`Exchanged`.

## 7. Verification codes

### Model

`VerificationCode` follows one address: the two Redis keys with the time they expire, the sends (`Begin`,
`Store`, `Deliver`, `Undo`: SET NX of the cooldown, SET of the code, the provider, the two DELs of the
catch) and the logins (`Consume`, the script that compares and deletes; `Find`, `Welcome`, `Register`, `Session`,
which follow `loginByEmailCode` and `loginByPhoneCode` to the point where `Sessions` takes over). `SendDies` and
`LoginDies` are a failing call, carried out or not, or a crash, at any await of a send or a login. `Change` is an
administrator who creates the address's user (`UsersService.create`), removes him or deactivates the tenant, or somebody
who clears a flag in the database; `Erase` is the second half of a hard removal, which deletes the user. A code is named by the send that made it; with `FixedCode` all are equal. `SendTime` bounds how
long a send takes, its delivery included.

### Run

| Run | Instance | Question |
|---|---|---|
| `codes` | 3 sends, 2 logins, cooldown 1, TTL 2, sends up to 2 long, 1 fault, 1 change | `CodeOnce`, `NewestUsable`, `CooldownKept`, `BurntForAReason`, `AcceptedIsCurrent` |

Three sends are the fewest with which a slow one takes back the keys of a later one and a third finds
the cooldown gone. A send may outlive the cooldown (`SendTime > Cooldown`), as it does in the code
when a provider takes a minute: `overran` is then the named exception of `NewestUsable` and
`CooldownKept`. The clock is bounded, so deadlock is not checked.

A code taken by a login that then fails (a database or Redis call throws, the process dies) is used up for nothing;
that is the code's own gap and `BurntForAReason` does not deny it. It is about the logins that are *turned away*: one
whose code was taken while nothing stood against it (`fit`) is turned away only if somebody else changed the user,
the tenant or the role since, a second registration of the address among them.

### Proofs

All five properties, and the type invariant, are proved for any numbers, times and both values of
`FixedCode`. The inductive invariant adds `Apart` (while no send overran, live sends began a cooldown
apart, and the running one owns the cooldown key), `Current` (the code in Redis is the newest stored, unused and
not taken back), `Usable`, and `Unhindered` (a login in `fit` has been turned away by nothing, and finds the user and
the tenant as its step needs them).

## 8. Rate limiting

### Model

`Throttler` has the storage's `increment` call by call: `Refuse` or `Pass` (TTL of the block key), `Count`
(INCR), `SetWindow` (EXPIRE, by whoever made the key), `SetBlock` (SET EX of the block key); `Fail` lets a Redis call
throw, applied or not. Keys are kept as the time they have left, so that the model runs for ever without a
bound on time, and in half seconds, because Redis' TTL answers in whole seconds rounded to the nearest: in the last half
second of a block the storage reads 0 and lets the request through. The tracker is the address: the throttler's guard runs before the one that reads the token.
`@nestjs/throttler` itself is external and refuses exactly when the storage answers `isBlocked`.

### Runs

| Run | Instance | Question |
|---|---|---|
| `throttle` | 3 clients, 2 addresses, limit 2, window 3, block 2 (6 and 4 half seconds), 1 fault, fair | `OneBurst`, `CounterExpires`, `BlocksEnd` |
| `block_at_once` | limit 1, window and block 2 | refutes `BlockMeansOverLimit` (section 11) |

Two clients at one address overtake each other inside `increment`; the third shows that addresses are
apart. That two users behind one address share its block, whoever is logged in, is a disagreement with the
guard's own comment (section 11). The window is longer than the block so that a counter outlives one. Fairness: time passes, and a
request that was begun is finished; nobody has to send one.

### Proofs

`[]TypeOK`, `[]OneBurst` and `[]CounterExpires`, for any clients, limit and durations. The invariant adds
`Spaced` (what has passed since the last admitted request and what is left of the block make up a block, so that a
request passes half a second early at most) and
`Opened` (a request at `window` is the only one for its counter, which it made).

## 9. Administration

### Model

`Administration` is one tenant. A call is a request past authentication; `Guard` is `PermissionsGuard`, and then
the services await by await: `FindRole`, `CheckPerms`, `WriteRole`, `ClearRoles` for the five operations on roles, and `Matrix` for the
answer of the two that set permissions, which reads the actor's access again;
`FindUser`, `ReadRoles`, `CheckRoles`, `CreateUser`, `SetRoles`, `RemoveUser`, `Count`, `Purge`, `ClearUser` for those on users.
A step's answer about the actor comes from the cache, which may be stale, was filled by any step, and vanishes at
any time. The transactions' unique and foreign keys are guards of the writes. Permissions are model values:
`Platform` ones, those that `Needs` names for the routes (`roles.controller` and `users.controller` give each its own),
and others.

### Run

| Run | Instance | Question |
|---|---|---|
| `admin` | 2 users, 2 calls at once, 3 requests in all, 2 built-in roles next to system_admin, 1 custom role, 4 permissions | `PlatformConfined`, `BuiltInsKept`, `RolesNeedMember`, `NothingFromNowhere` |

Two calls meet at every pair of awaits, and a third request may follow what they left. The requests
(`RequestsAsked`) have at least one of each operation, with roles and permissions that the actor has, had,
and never had, and aim at the custom role, at a built-in one and at system_admin alike. The toggles ask for another
permission than the other routes. One permission of each kind suffices for rules that treat permissions of a kind alike. The number of
requests is bounded, so deadlock is not checked.

### Proofs

The type invariant and all four properties are proved for any users, route permissions, roles, permissions and requests.
`PlatformConfined` and `BuiltInsKept` need only what calls past a check have in hand (`Checked`). `NothingFromNowhere`
follows step by step from what each place of the system *holds* (`Holds`): the actor's answer comes from the cache or
from the roles, and what passes a check was in that answer.

## 10. Tenancy

### Model

`Tenancy` has a request from the middleware to its handler. `Begin` is `RequestContextMiddleware` (in subdomain
mode the host's slug replaces the header), `Get`, `Query`, `Fill` are `resolveTenantId`, `Guard` is `TenantGuard` on
routes that need a tenant and `resolveRequestedTenant` for login, `Find`, `Create`, `Remove` are the look-up and the
write of `create`, `remove` and `bootstrapDefaultTenant`. `Tick` takes a step off the slug cache's TTL. An id
is used once; the stamp of a removal is in `Sessions`. The guard's last branch, which would let the header's tenant
through without a token, is never taken: every `@Public` route also says `@TenantRequired(false)`, and on all others
`JwtAuthGuard` has run first. That the context becomes the token's tenant is one assignment of the guard, with nothing
between it and the handler, so no property repeats it.

### Run

| Run | Instance | Question |
|---|---|---|
| `tenancy` | 2 tenants, 2 slugs, 2 calls, both modes, TTL 2, fair | `OneOwner`, `StaleWhileTtl`, `SlugSettles` |

Two tenants one after the other under one slug, with a resolution that overlaps the change, is the case
the cache gets wrong; TTL 2 tells an entry renewed by a late fill from one that was there. Fairness: time passes and
a call under way ends; nobody has to send one.

### Proofs

`[]TypeOK`, `[]OneOwner` and `[]StaleWhileTtl`, for any tenants, slugs, calls and TTL. The invariant adds
`Unique` (two existing tenants have two slugs: the unique index decides), `Ages`, `Entries` (an entry names a
tenant that has had the slug, and lives as `StaleWhileTtl` says), and that a call at `fill` holds such a tenant.

## 11. What the findings mean

| Run | The repository says | The code does |
|---|---|---|
| `loss_after_crash` | a message skipped by dedup is safe to ack (`rabbitmq.service.ts` 232) | after a crash the skipped message is the only copy, and its own lock skipped it |
| `stale_ack` | outbox and CDC are at-least-once (README 512) | a handler that outlives its channel acks its tag on the new one, where it is another message's |
| `block_at_once` | the block key is set when over the limit (`redis-throttler-storage.ts` 47) | it is set by every counted request |
| `delivery_faults` | a message whose consumer fails is nacked into the DLQ (README 349) | it goes through the retry ladder first: `DlqNeedsFaults` and `RetryAbsorbsFaults` hold, which they would not if the sentence did |
| `throttle` | logged-in users are limited per user and do not affect each other (`user-aware-throttler.guard.ts` 9-10) | the guard runs before the token is read, so all are counted by address: `OneBurst` holds of an address whoever its clients are |

The last two runs pass: they show what the code does instead of what the sentence says. Five more disagreements have no run of their own: the dedup check reads before the lock and outside any
transaction (`rabbitmq.consumer.ts` 41), a retry copy drops the id header, a cache fill that overlaps a change restores
the old rights (README 222), a refresh across a second boundary answers with a token it has revoked
itself (README 123), and the permission matrix shows `configurable` to readers whom the toggle routes refuse
(README 233-234). They are hazards in `PROJECT.json`, and the exceptions named in `NoRework`,
`DlqNeedsFaults`, `StaleExplained` and the hazard's note.

## 12. What is not covered

Only model-checked, on the instances above: `RetryAbsorbsFaults`, `Settled`, `ComesBack`, `EventuallyFresh`, `BlocksEnd`,
`SlugSettles`. They are liveness properties; fairness and ENABLED are beyond the prover. Of two of them the safety
half is proved: `FewFaultsKeepMoving` for `RetryAbsorbsFaults`, `NeverStranded` for `ComesBack`. Every invariant, action property
and refinement of a passing run is a theorem. Only proved, and in no run: `FewFaultsKeepMoving` and the type invariants,
which every inductive invariant contains.

Not modelled:

- Seeding. It runs before requests are served; its default tenant is an operation of `Tenancy` and its
  built-in roles are the initial state of `Administration`. Two instances that start together can each create a
  built-in role, because the unique key holds a NULL tenant (hazard at `seed.service.ts` 79); the models take the
  built-in roles as unique.
- The connector (Debezium), `@nestjs/throttler`, amqplib, ioredis, the broker and the supervisor, except for what
  the code relies on them for; these definitions are marked external in the map.
- Operations that change nothing a property tells apart: `RabbitmqService.publish` (no caller), queue depths, a
  tenant's or a user's name, e-mail and password, listings.
- Shutdown hooks, notification providers, configuration, filters, interceptors, DTOs: no state of their own,
  or no order of steps to get wrong.

Of the listed hazards those without a property say why.
