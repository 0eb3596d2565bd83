# Verification of the Discord bot skeleton

TLA+ models of the bot under `src/`, checked with TLC on small instances, and
theorems about them checked with TLAPS. `PROJECT.json` is the index: which
definition models which lines, which run checks which property, which mutant of
the code each property catches, what the checks found, and which hazards the
properties are for. Everything below is written for a reader who has the
repository.

## 1. The system

A single Node.js process runs the bot; several instances of it may share one
PostgreSQL database and, when it is configured, one Redis. JavaScript runs one
synchronous stretch at a time, so what interleaves is: continuations after an
`await`, timers, the other instances, and the answers (or the loss of them) of
PostgreSQL, Redis and Discord. Every model takes one synchronous stretch as one
action for that reason.

| Part | State it keeps | Operations | Talks to |
|---|---|---|---|
| Memory cache (`platform/cache/memory.cache.ts`) | entries with expiry, loads in flight, a generation per key and when it was bumped, a count of clears per namespace | get, set, delete, clear, getOrLoad, the sweep, stop | its callers' loads |
| Two-tier cache (`tiered.cache.ts`, `redis.cache.ts`) | none of its own | the same, over memory and then Redis | memory cache, Redis |
| Guild prefix (`features/guild/prefix`) | a row per guild | read on every message; set, clear | cache, database |
| Welcome (`features/guild/welcome`) | a row per guild | message, channel, reset, editor, test; greets on a join | cache, database, messenger |
| Outbound limiter (`discord/gateway`) | lanes (calls in flight, four queues), two rolling budgets, circuits | run, drain, drain tick, sweep, stop | Discord |
| Interaction pipeline (`discord/kernel`) | per interaction: acknowledged, the pending defer, the adaptive timer | guards, defer, handler, respond, failure report | Discord, cooldowns, features |
| Cooldowns (`platform/ratelimit`) | a window per key | hit, sweep | pipeline |
| Jobs and leases (`platform/jobs`, `platform/locks`) | timers, jobs in progress; a lease in Redis or a local mutex | start, stop, execute; acquire, renew, release | Redis |
| Migrations (`platform/database/migrator.ts`, `scripts/migrate.ts`) | the schema and `schema_migrations`, the advisory lock, a session | up, down, status | PostgreSQL |
| Database and retries (`pg.database.ts`, `retry.policy.ts`) | the pool | query, execute, transaction, withSession | PostgreSQL |
| Process (`main.ts`, `app/bootstrap.ts`, `shutdown.sequence.ts`, `kernel/lifecycle.ts`) | the teardown steps registered so far, the shutdown promise, the exit code | boot, login, signals, crash handlers, teardown with its deadline | all of the above |
| Ops server, health checks, metrics | whether the boot is done; counters | /healthz, /readyz, /metrics, /ping | database, cache, gateway |
| Registry, options, custom ids, rendering, configuration, logging | tables filled at boot, or nothing | lookups, parsing, formatting | |

What is hard in it, and what makes each part correct:

* **Caches.** A query that began before a write may end after it, on this
  instance or on another one. Correct means: what an invalidation took out is
  not put back, answers do not go backwards, one query per miss, everybody who
  waits is answered, and, where two tiers cannot be exact, a bound on how long
  they may be wrong.
* **Read-modify-write over a write-through cache** (welcome). Correct means that
  a change is not undone by another, and that a greeting is composed from
  settings that were saved together.
* **The limiter.** Three limits, four priorities, time-outs, overflow and a
  breaker, touched from completions, timers and new calls. Correct means that the
  accounting is exact, starts are paced, and every promise settles once.
* **Interactions.** Discord takes one first reply within three seconds; a timer
  and a handler race to send it, and requests and answers are lost. Correct
  means one first reply, in time, the right words said once, and every
  interaction completed.
* **Leases.** Holders crash, are slow, or lose touch with Redis.
* **Migrations.** Statements, connections and processes fail between any two
  steps, with other instances of other builds waiting.
* **The process.** Boot fails at any step; signals come at any time; a teardown
  step hangs; and work is under way when it is torn down.

## 2. The modules

| Module | Models | Extends |
|---|---|---|
| `MemoryCache` | the cache as operators on a record: `BeginLoad`, `StoreAnswer`, `Delete`, `SweepCache`... | |
| `GuildPrefix` | the prefix feature over one memory cache | `MemoryCache` |
| `TieredPrefix` | the prefix on several instances, memory over Redis | `MemoryCache` |
| `WelcomeSettings`, `MC_Welcome` | the welcome feature over one memory cache, with saves that break and are sent again | `MemoryCache` |
| `CircuitBreaker`, `GuildBudget` | the breaker and the rolling window as operators | |
| `OutboundLimiter` | the limiter composed of both | `CircuitBreaker`, `GuildBudget` |
| `MC_OutboundLimiter` | the instance that is checked | `OutboundLimiter` |
| `Cooldown` | the cooldown store as operators | |
| `InteractionPipeline` | one interaction from guards to last call | `Cooldown` |
| `JobLease` | one job on several instances, scheduler and lock | instantiates `Lease` |
| `Lease` | abstract specification: what the lock port promises over Redis | |
| `Database` | `PgDatabase` over its pool, with the retry policy | instantiates `AtomicWork` |
| `AtomicWork` | abstract specification: what the database port promises of a caller's work | |
| `HealthChecks` | health reports asked at once, over the cache and the database | |
| `Migrator`, `MC_Migrator` | migrations from boots and the command line | |
| `ProcessLifecycle` | one process from `main()` to its exit, and its `/readyz` | |
| `PrefixProofs` | the theorems about the prefix, behind one tier and behind two | `GuildPrefix`, `TieredPrefix`, `TLAPS` |
| `OperationsProofs` | the theorems about the process and its health reports | `ProcessLifecycle`, `HealthChecks`, `TLAPS` |
| `OutboundLimiterProofs`, `WelcomeSettingsProofs`, `DatabaseProofs`, `JobLeaseProofs`, `MigratorProofs`, `InteractionPipelineProofs` | the theorems about each of these modules | the module, `TLAPS` |

How state and actions correspond to the code:

* **`MemoryCache`.** A cache is a record of the class's five maps
  (`entries`, `inFlight`, `generations`, `bumpedAt`, `cleared`) for one
  namespace. Each operator is one synchronous stretch: `BeginLoad` is `getOrLoad`
  up to the start of the load, `StoreAnswer` the `then` with its check of the
  mark, `FinishLoad` the `finally`, `Forgettable` the sweep's condition on a
  generation.
* **`GuildPrefix`.** A row is its version: prefixes are told apart only by when
  they were written. A reader either hits, joins a running load, or starts one;
  the load reads (`LoadReads`, the moment the SELECT sees the row) or fails,
  stores, and finishes, which answers everyone who waits. A writer commits
  (`SaveCommits`) and invalidates later; `SaveLosesAck` is the commit whose answer
  never came, after which the code does not invalidate.
* **`TieredPrefix`.** A load asks Redis, then the database, then sets Redis, then
  fills memory; a peek is `TieredCache.get`. A delete removes the local entry and
  then the shared one. A Redis command may be lost, an instance may restart.
  `outdated` and `forgotten` are history of a read: its process has invalidated the
  key since, its sweep has forgotten the key's generation since. Actions have other
  names than in `GuildPrefix` (`RowRead`, `LoadEnds`, `TieredNext`), because the
  proofs of the two stand in one module.
* **`WelcomeSettings`.** Each of `Ops` is one command, form, button or join. It
  reads through the cache (`ReadsHit`, `JoinsLoad`, `StartsLoad`), computes the
  new row, saves it, and writes it through. An attempt whose connection breaks
  becomes an orphan when the retry is sent (`SaveRetries`) or the save given up
  (`SaveFails`), and the server may still execute it at any later moment, or never
  (`Lands`); one that ran before the break is one that landed at once. A later commit
  of another operation leaves it behind (`overtaken`), and `straggled` is the history
  of such a one landing.
* **`OutboundLimiter`.** `run()` is the five disjuncts of `Run`; a call that ends
  is `Settles`, which tells the breaker, gives the slot back and drains the lane;
  `DrainTick` goes round the lanes. `Drain` is in closed form: the code's loop
  takes one slot, one guild call and one process call per turn, so it starts as
  many waiters as the smallest of the three rooms. `Drained` is `drainAll`, one lane
  after the other. It and `Kept`, the selection from a queue, are recursive functions,
  which can be reasoned about where a fold could not; `Trim` cuts a window at the
  place the code's binary search finds (`Outside`).
* **`InteractionPipeline`.** `phase` is where `run()` is; `acked`, `pending` and
  `call` are the responder; `firstTaken`, `thinking`, `shown` and `panel` are what
  Discord has and shows. `CallFor` is the table of reply methods. A call is
  accepted, refused by Discord's own rules, or lost on the way there or back.
  `visibility` is what a deferral is sent with (`Visibilities`), `placeholder` whom
  the deferral that came through shows, and `overheard` what others have read. An
  answer that is the first reply takes its own visibility (`PublicWords`), and an
  edit the placeholder's (`Overheard`).
* **`JobLease`.** Time is counted down, so there is no last moment and
  `KeepsRunning` is about infinite behaviours. A Redis command takes effect at one
  moment (`RenewTakes`) and is answered at another (`RenewAnswered`).
* **`Migrator`.** A session's `todo` is the set of migrations left to do, taken in the
  order of their ids (`First`, `Rest`). Its phase is the statement it has sent; the action of
  that phase is the server executing it. `Breaks` takes the process or its
  connection away and leaves a backend that may still execute what it was sent;
  `Dies` is the server noticing. What a live session may be refused is a migration's
  own statement (`RunFails`) and the unlock (`UnlockFails`), after which the run has
  failed and its connection is back in the pool with the lock, until the pool closes
  (`Exits`).
* **`ProcessLifecycle`.** `phase` is what the boot awaits and `Started` what each
  step registers. `Ends`, `StepFails` and doing nothing are the fates of a
  teardown step; `ReadyRejectsUnheard` is the ready timer rejecting its promise
  before anybody awaits it. Work is whatever the gateway or the scheduler starts.
  `request` is a request to `/readyz`: the gateway's probe answers when it is asked,
  the database's later, by itself or by its timeout.
* **`Database`.** A caller's `call` says what it does: it waits for a connection,
  has a statement in flight, sleeps before a retry, runs the work of its
  transaction or session, or leaves through the `finally` block. `AfterFailure` is
  the catch blocks together, with `MayRetry` for `decideRetry`; `Throw` is the
  ROLLBACK. `conn` is a place in the pool with the server's session on it. What
  the server runs for a connection that broke stays in `orphans` and may take
  effect later than the retry.
* **`HealthChecks`.** A check of the cache is three steps when there is Redis: the
  SET lands or fails, memory is read, and Redis when memory has nothing. Tokens are
  told apart by who wrote them. `disturbed` is history. Its names (`HealthInit`,
  `HealthNext`) are other than those of `ProcessLifecycle` for the same reason.

Two refinements tie a detailed module to what its port promises:

* `Database!DoesAtomicWork`: `effect` is how often the whole of the work took
  effect (of a transaction, 1 when all its acknowledged writes are there, and 2,
  which `AtomicWork` does not allow, when only some are). A work that caught the
  failure of a statement of its own is told nothing by its "done", because that is
  what the code promises it: see the finding at `pg.database.ts:111`.
* `JobLease!ImplementsLease`: `owner` and `left` are the key in Redis and
  `believers` the runs between an acquisition and the end of their release.

## 3. What is checked

The type invariant of each module is the first conjunct of its first property;
`prefix_memory` checks it by itself. Each
property has a mutant in `PROJECT.json`, a plausible bug that makes TLC report it
violated under the same configuration.

| Run | Bounds | Shows |
|---|---|---|
| `prefix_memory` | 1 guild, 2 readers, 2 writers, 2 writes, 1 clear, 3 moments | `CacheCoherent`: after every invalidation the entry is the row; `SingleFlight`; `AnswersNeverGoBack`; `EveryReadSettles` |
| `tiered` | 2 instances, 1 writer and peeker, 1 write, 5 moments | `BoundedStaleness`: no tier serves a version replaced more than two TTLs and two reads ago; `ExactWithoutRaces`; `NothingOutdatedIsStored`: a memory tier is given nothing that was asked for before its last invalidation, a promotion beside a forgotten generation excepted |
| `welcome` | 3 operations, 2 messages, 1 channel, 2 attempts, 2 moments, up to the names of operations and messages | `GreetsAsSaved`: a greeting is made of settings that were saved together; `ChangesKept`: changes one after the other are not undone, whatever breaks, is sent again and lands late, except after the commit of someone else |
| `outbound_limiter` | 4 calls of 4 priorities, 2 guilds, one call at a time, two waiters a guild, 4 moments | `LaneAccounting`, `ProbeIsHeld`, `PacedStarts`, `EveryActionSettles`, and `UrgentFirst`: the queue drains from the top and overflows at the bottom |
| `interaction` | 1 interaction of 6 routes, 3 defer modes and both visibilities, limit 2, 4 moments | `OneFirstReply`, `AnsweredInTime`, `SaysOneThing`, `EveryInteractionCompletes`, `CooldownHolds`: less than twice the limit in any span as long as the window, and `FailuresAreWhispered`: others read a failure only behind a public deferral or a typed command |
| `job_lease` | 2 instances, 3 kinds of lock, interval 2, up to 2 missed renewals counted | `OneRunPerProcess`, `OneTrustedHolder`, `ImplementsLease`, `KeepsRunning` |
| `database` | 2 callers, one of them only for transactions, 2 connections, 2 attempts, 2 statements of work, 1 broken connection | `PoolHygiene`: a pooled client is in no transaction and every client has one holder; `OnlyLostAnswersMislead`; `DoesAtomicWork`; `EveryCallerIsAnswered` |
| `health` | 2 who ask, 2 reports each, Redis or none, another instance | `CacheAlarmsAreExplained`, `EveryReportEnds` |
| `migrator` | 2 instances (one boots twice), 1 reverting command line, 2 migrations, one of them without a transaction, 2 builds, 1 break, the unlock refused at any time | `SchemaMatchesRecord`, `AppliedInOrder`, `ServesItsSchema`, `EveryRunEnds` |
| `migrator_timeout` | the same | violation of `ServingIsBounded` |
| `process` | every boot step, 3 requests to stop, 2 pieces of work, one request to `/readyz` at a time | `TornDownInOrder`, `ExitsHonestly`, `ReadyMeansUp`, `WorkFindsItsServices`, `StopsWhenAsked` |
| `boot_unhandled` | 1 request to stop | violation of `FailedBootReleases` |

Why the bounds are enough to be interesting:

* `prefix_memory`: two writes and two readers give a load that began before either
  write, between them or after both, and a joined load; one clear and a TTL and a
  keep time of one moment let expiry, sweep and forgetting happen while a load is
  running. What holds here is proved for every size (section 5).
* `tiered`: five moments are enough for a version to be copied through both tiers
  and to outlive the bound by one, which the mutant `SharedForEver` does. One write
  is enough for these properties; what the exception of the last is for needs a second,
  which brings a forgotten generation back to where a mark was taken (section 4).
* `welcome`: three operations are a change, one beside it, and a join or a panel
  that sees the result, or two changes and an attempt of the first that lands after
  the second. Two attempts are one retry; the code's three add another identical
  step. Two messages are the fewest of which one can come back in the place of the
  other. What holds here is proved for every size (section 5).
* `outbound_limiter`: one slot per guild makes every second call wait, and two
  waiters are the fewest of which one can be more urgent than the other and a
  fourth call can overflow; the guild's window is as long as a waiter's patience, so
  that a budget alone can make a waiter give up; the second guild's critical call
  spends the process-wide window; a threshold of one makes every failure open a
  circuit, and the four moments cover its cooldown and the probe.
* `database`: two callers that hold both connections and each want another are the
  case in which only the connection timeout helps. Two attempts are one retry. Two
  statements are the fewest of which one can succeed and the other fail inside one
  work. The caller that only asks for transactions halves the instance; the other
  asks for every kind beside it.
* `health`: two reports each give a check that begins before, between and after the
  other's write and its reading.
* `interaction`: the deadline is three moments, the defer is due after one and a
  call takes up to one, so the defer, a late arrival and a lost call each decide
  on their own whether the deadline is met. The cooldown's limit of two and window
  of two let attempts fall on both sides of a window's end.
* `job_lease`: the interval and the renewal period are the smallest for which two
  missed renewals fit in a lease and the third comes too late, as in the code.
* `migrator`: the first instance boots again after the second and the command
  line, each time in either of two builds; the others are of the release. One break
  at any statement of any session.
* `process`: three requests to stop are a first, one that joins a teardown under way, and
  one that comes when it has ended and the process has not.

Deadlock is not checked where the system may rightly stop: in all runs but
`job_lease` and `health` the clock or the number of operations is bounded, and a process that
has ended takes no step.

### Fairness

* `GuildPrefix`: a load that runs takes its next step, because a query ends by its
  answer or by the statement and connection timeouts of the pool. No caller,
  writer, sweep or tick is fair.
* `OutboundLimiter`: time passes, every call to Discord ends (REST calls have a
  timeout), and the drain interval keeps firing while a tick would do something.
  The last two are written as `[]<>` formulas with the enabling condition spelt
  out, since they quantify over steps that change something.
* `InteractionPipeline`: a handler ends and calls to Discord end. That handlers end
  is an assumption on features, bounded by the pool's timeouts for those there are.
* `JobLease`: time passes, the interval timer fires, work and commands end, and a
  Redis that is asked again and again is reached again and again (strong fairness
  of `Acquires` and `StartsWork`). The property itself assumes that some scheduler
  stays started.
* `Migrator`: the server executes what it was sent and notices clients that are
  gone, and the advisory lock's queue is fair (strong fairness of `Locks`):
  PostgreSQL grants heavyweight locks in the order of the requests.
* `Database`: what a caller waits for ends: a wait for a connection by the
  connection or by `connectionTimeoutMillis`, a statement by its answer or by
  `statement_timeout`, a backoff by its timer, and a work by returning. No caller
  must ask, no connection must break, and nothing must close the pool; a pool that
  is closed drains once every client is back.
* `HealthChecks`: every command to Redis and every query ends, if only by its
  timeout. Redis and the database need never come back.
* `ProcessLifecycle`: timers fire and continuations run. A teardown step is never
  assumed to end, nor `login`.

## 4. What the checks found

`PROJECT.json` has every finding with the line it quotes. Two have a run in
which TLC shows a behaviour of the code that contradicts what the repository says:

* `migrator_timeout`: `SET statement_timeout = 0` stays on the connection when
  it goes back to the serving pool.
* `boot_unhandled`: when `login` is still pending as the ready timer fires, its
  rejection is unhandled and ends the process before anything is released.

The others were met while translating and are stated without a run. Where a
property is weaker than the words of the repository, it is because of one of them:

* welcome: a load that began before a save overwrites the entry the save wrote
  through, since `set` bumps no generation, and the next change saves the old
  field again. `GreetsAsSaved` does not ask for the newest settings, nor
  `ChangesKept` anything of changes that overlap others.
* welcome over the retry policy: a save whose connection broke is sent again as if it
  had not run. The server may run the broken attempt after the retry was acknowledged
  and after somebody else's change, which it then undoes; nobody is told.
  `ChangesKept` excepts exactly that landing. TLC shows it in nine states, in which
  nothing overlaps and every save is acknowledged:
  `tlc -config MC_WelcomeLate.cfg MC_Welcome.tla` violates `RetriesAreHarmless`, which
  is `ChangesKept` of the row without the exception.
* the process: no teardown step waits for work. `WorkFindsItsServices` is about
  work that starts, not about work that is under way.
* the limiter: a fresh call that finds room passes more urgent ones that wait, and
  the probe of a circuit can be given back by a call that does not hold it.
  `UrgentFirst` is about what is started from the queue.
* interactions: the report of a failure edits a public placeholder where the timer
  deferred publicly; a command's `visibility` says nothing of an answer given
  before the timer; and one whose own target is gone, or whose defer was rejected,
  is left unanswered.
* the database: the COMMIT of a transaction whose work hid a failed statement rolls
  back and is reported as done; connection errors are retried for writes although
  the server may have run them; BEGIN's and COMMIT's errors are not wrapped.
* health: with the memory tier in front, a Redis that is down is never seen; two
  checks at once can report a good cache as broken; `/ping` never defers, and waits
  for the database longer than Discord waits for it.
* two tiers: the sweep forgets a generation by the age of its last bump, not
  of the marks taken of it. A promotion by `TieredCache.get` holds a mark and is not a
  load in flight: the counter starts again from 0, the invalidation that follows
  brings it back to the mark, and the value it took out is stored. TLC shows it with one instance, two writes and one sweep:
  `tlc -config MC_TieredForgotten.cfg TieredPrefix.tla` violates `ForgettingIsHarmless`,
  which is `NothingOutdatedIsStored` without its exception.
* two tiers: Redis is refilled with a deleted value by another instance's load.
* and several comments that say more than the code does.

## 5. What is proved

Every state machine here is proved about, in eight modules of proofs, 14829
obligations in all. Each theorem holds for every value of the constants that the named assumptions of
the modules allow: any number of guilds, callers, connections, instances, builds,
sessions or operations, any times, and any value of the bounds, which are only
natural numbers. The assumptions say that times, limits and attempts are positive
(`TtlAssumption`, `KeepAssumption`, `TimesAssumption`, `CooldownAssumption`,
`AttemptsAssumption`, `LimitsAssumption`), that bounds are numbers (`BoundsAssumption`,
`WritesAssumption`), that every action has a guild, a priority and a circuit
(`RequestsAssumption`), that a build is a sequence and that who writes, may be stopped
or is asked exists (`BuildsAssumption`, `ProcsAssumption`, `CallersAssumption`,
`GuildAssumption`), and that `None` is none of the values it is
told apart from (`KeysAssumption`, `ReadersAssumption`, `SettingsAssumption`,
`OpsAssumption`, `NamesAssumption`, `NoneAssumption`). `CallersAssumption` has a
bound in it as well: which callers only ask for a transaction. One theorem,
`OneTrusted`, has a hypothesis of its own.

Every module has the same plan. `IInv` is an invariant that a step preserves;
`Inductive` (for the limiter `Invariance`) is `Spec => []IInv`, by `Init => IInv` and one step of the proof for
each action; the type invariant is a part of it; and each property follows from
it, or from it and a step. What `IInv` adds to the property is what the table
lists: it is what the code relies on without saying so.

| module | theorems | what they state |
| --- | --- | --- |
| `PrefixProofs` | `TypeCorrect`, `Coherent`, `OneLoadPerKey`, `MonotonicAnswers` | `TypeOK`, `CacheCoherent`, `SingleFlight`, `AnswersNeverGoBack` |
| | `StalenessIsBounded`, `ExactWhenUnraced`, `OutdatedIsNotStored` | `BoundedStaleness`, `ExactWithoutRaces`, `NothingOutdatedIsStored` |
| `WelcomeSettingsProofs` | `GreetsRight`, `NoneLost` | `GreetsAsSaved`, `ChangesKept` |
| `InteractionPipelineProofs` | `AnswersOnce`, `InDeadline`, `OneWord`, `InWhispers`, `CooldownBounds` | `OneFirstReply`, `AnsweredInTime`, `SaysOneThing`, `FailuresAreWhispered`, `CooldownHolds` |
| `JobLeaseProofs` | `OneEach`, `OneTrusted`, `LeaseImplemented` | `OneRunPerProcess`, `OneTrustedHolder`, `ImplementsLease` |
| `MigratorProofs` | `Matches`, `Ordered`, `Serves` | `SchemaMatchesRecord`, `AppliedInOrder`, `ServesItsSchema` |
| `OperationsProofs` | `InOrder`, `HonestExit`, `ReadyIsUp`, `WorkStands` | `TornDownInOrder`, `ExitsHonestly`, `ReadyMeansUp`, `WorkFindsItsServices` |
| | `AlarmsAreExplained` | `CacheAlarmsAreExplained` |
| `DatabaseProofs` | `Hygiene`, `Misleads`, `AtomicImplemented` | `PoolHygiene`, `OnlyLostAnswersMislead`, `DoesAtomicWork` |
| `OutboundLimiterProofs` | `LanesAreExact`, `ProbesAreHeld`, `StartsArePaced`, `UrgentGoesFirst` | `LaneAccounting`, `ProbeIsHeld`, `PacedStarts`, `UrgentFirst` |

### The prefix and its cache (`PrefixProofs`)

`CacheCoherent` alone is not inductive: a state in which it holds may contain a
load with an old answer and a mark that still matches. `IInv` adds what rules
such states out, and all of it is about the loads that are running:

* `LoadShape`: a running load has a key and a mark, an answered one a value;
* `InFlightExact`: the in-flight map is exactly the running loads;
* `MarksBehind`: a mark never runs ahead of its counters, so that a bump, which
  only increases them, makes it outdated for good;
* `CurrentLoadFresh`: an answer that would still be stored is the row, once all
  writes are announced;
* `EntryFresh`: the same of an entry, which is `CacheCoherent`;
* `EntryIsLoads`: while a load runs, no entry but its own answer is served;
* `AnswersBehind`: nothing that may still be answered is older than what was.

The sweep is the interesting case. Forgetting a generation sets the counter back
to zero, which could make an old mark match again; `MarksBehind` survives it
because a generation is not forgotten while a load of its key is in flight, and
by `InFlightExact` every running load is. The proof of `StepCoherence` has one
step per action and one below it per part of `Coherence` the action can disturb.

### Two tiers (`PrefixProofs`)

`TieredInv` has three parts, and each property follows from one of them.

* `TieredShape`: types, and what a mark says. A mark never runs ahead of its
  generation, and an invalidation since puts it behind (`MarkBehind`): for a load
  until it ends, since the in-flight map keeps the sweep away; for a peek only until
  the sweep forgets the generation. `OutdatedIsNotStored` is read off this.
* `Aged`: how old what is held may be. `WasRow(v, t)` says that version `v` was still
  the row at `t`, and every place has its `t`: what a load read, the moment it began;
  an entry of Redis, its expiry less a TTL and a read; what came through Redis, the
  moment the read began less as much; an entry of memory, its expiry less two TTLs
  and two reads, plus one, because an entry is not served any more at its expiry.
  That one moment is carried through both tiers, which makes the bound of
  `BoundedStaleness` exact: TLC violates it with one moment less.
* `Unraced`: while nothing has raced, one process at most writes and nobody reads
  beside it, so that whatever was read is the row, and an entry was the row when it
  was put there. A process that wrote last has an entry only of its own write.
  `ExactWhenUnraced` is read off this.

`StepMoves` says what a step may do to the reads, the entries and the writes of any
process. `Aged` and `Unraced` are shown to survive every such step, so that each of
the twenty actions is expanded once, and not once for each part.

### The limiter (`OutboundLimiterProofs`)

What the limiter keeps is related to what became of the actions it was asked for.
`Q` are the actions whose promise waits in a queue, `C` those that are calling.

* `Accounted`: the lane of a guild counts its part of `C`, the queues of it hold its
  part of `Q`, each once and in the order they are to start in (`Lined`, `Precedes`:
  by priority, then by when they give up) and never more than fit, and the drains find a guild (`order`) exactly
  when it has a lane, which it has when anybody of it waits or calls.
  `LaneAccounting` is read off this.
* `Covers`: each call that started within a window has a place of its own in it, with
  its time there. What else is in the window, such as times nobody has trimmed yet, does
  not matter: a window with a free place has seen fewer calls than its limit. A trim
  keeps this (`TrimCovers`), a start adds a place for each call that starts
  (`RecordCovers`), and time only takes calls out (`CoveredLater`).
* `Held`: a circuit that probes has somebody of `Q` and `C` on it. `ProbeIsHeld` is read off this.

`PacedStarts` and `UrgentFirst` are about steps, and a step may be a whole drain tick.
`Draining` says of a drain under way what `IInv` says between steps, of the waiters
that are left and the calls that have started, and besides that those it started
precede those of their guild it left, and that it kept to the rooms so far (`Paced`).
`DrainFits` carries it through one lane, `DrainedFits` through all of them, by the recursion
of `Drained` (`DrainedRecursion`); `BecomesFits` makes of a finished drain the next state.

Two recursions over data are needed, and are proved without the induction theorems:
`KeptRecursion` and `DrainedRecursion` show that the function exists for every length
by a least counterexample (`LeastOf`, from the well-foundedness of `<`), and then that
`CHOOSE` finds it; `KeptOrdered` shows in the same way what a selection keeps.
Priorities are four, so `Waiters` is a concatenation.

### The welcome settings (`WelcomeSettingsProofs`)

`GreetsAsSaved` needs that whatever may still be read, stored or greeted with was
committed (`Committed`): the row, the entry, the answer of the load, the result of a
save; and that an attempt which may still land carries a row that a change computed
(`GoodOrphan`). That an entry may be answered from at all needs `OneLoad`, which ties
the in-flight map, the load that runs and the operations that wait for it together.
`ChangesKept` is about operations that come one after the other (`Calm`); there
`Alone` says that no other change is in progress beside one whose row has run and
which is not over, and `UpToDate` that everything in progress knows the row as the last
change left it, so that the value that a change computes from what it read is a
change of the current row. `UpToDate` says the same of an attempt that is still to
land, as long as no commit has overtaken it: landing, it either is the commit of its
own operation, or stores the row that is there already (`Landing`). Once overtaken it
may store anything that was computed, and `Calm` has no such landing (`straggled`).

### Interactions (`InteractionPipelineProofs`)

The parts of `IInv` follow `run()`: what may be pending or awaited in each phase
(`Fresh`, `Asked`, `Flow`), and that the call under way is the one `respond()` chose
from the responder's state (`CallFits`). `FirstFits` is the heart of `OneFirstReply`:
until a call is lost, the responder's `acked` and `pending` know exactly whether
Discord has its first reply. `InTime` carries the times: the timer is armed for
`startedAt + AutoDeferAfter`, the defer was sent by then, and a call that is under
way is at most `CallMs` old, so that the first reply is taken before the deadline
whenever `AutoDeferAfter + CallMs` is within it. `Whispered` relates the visibility of
the placeholder to that of the answer, and `Silent` says that nothing was said
before the last word. `CooldownHolds` counts over the attempts that were let in:
`Cool` says the window of an identity opened with an attempt, lets in `Limit` of them
and comes after at most `Limit - 1` that a period ending in it can still see; any
`WindowMs` then holds at most `2 * Limit - 1` of them.

### Leases (`JobLeaseProofs`)

`IInv` says what goes with a run's phase (`GoodRun`), that a process has at most
one run (`Alone`), and that its `inProgress` flag is set exactly then (`Guarded`);
`OneRunPerProcess` follows by counting.

`OneTrustedHolder` is proved under `Timely == 2 * RenewEvery + 2 * CallMs <= TtlMs`: two
renewals and their answers fit into the lease. The code renews every third of a
lease of three intervals (`LEASE_MULTIPLIER` and `RENEW_FRACTION` are 3, with a
minimum of a second), so that for an interval of a second or more the hypothesis
says that Redis answers within half an interval. The only job runs every five
minutes. `ioredis` is given no command timeout, though, and an interval below two
thirds of a second is renewed too late whatever Redis does, so this stays a hypothesis of
the theorem and is not an assumption of the model. TLC shows that it is needed: with `EveryMs`
and `CallMs` of 1, when it is false, the property is violated in 13 steps.
The invariant is `Trusted`, which bounds from below what is left of the lease: by a
renewal that is due and one more when none was missed, by the answer that is
awaited when one was.

`LeaseImplemented` is the refinement of `Lease`. A run believes in its lease from
the grant to its end (`Believers`), and each step of the model is one of five
changes of believers, owner and what is left (`Takes`, `Extends`, `Returns`,
`Forgets`, `Passes`), each of which is a step of `Lease` or a stutter.

### Migrations (`MigratorProofs`)

The schema is counted: `Stands` says that a migration stands applied as often as it
is `Due`, once if it is recorded, and once if it ran outside a transaction and its
record is on the way (`Underway`). At least that often always; exactly that often for
a migration in a transaction, and for every one until a connection breaks (`troubled`). `InOrder` says the
record is an initial part of the ids. What a session has left to do (`HasToDo`) is
what its build has and the record has not, and that is only true because a
session at work has the lock (`Locked`): a backend whose client is gone keeps it
until the server has noticed, and what it was sent last is still in order. `Serves` follows from
what `HasToDo` says of a session that is done, and that a migration is never
unrecorded but by hand.

### The process (`OperationsProofs`)

The sequence of the boot is one: `Built`. The registered steps are always an initial
part of it, as long as the phase says (`StepsAreFirst`, `Depth`); what a teardown has
left is an initial part of it backwards (`LeftIsFirst`); and what is open is what it
has left, and perhaps what failed to close (`OpenIsLeft`). The four theorems read
off these three, with `CallersAreUp` (signals are heard by a process that is up),
`RequestStands` (a readiness probe that may still be answered 200 began while the
process stood) and `ExitShape` (what an exit says).

### The database (`DatabaseProofs`)

A call is one of few shapes: `GoodCall` says which statement, which connection and
which counters go with each phase. On the other side, `ConnFits` says that a
connection in a transaction is the own one of a caller that is `InTransaction` and
will end it, and that a free one is as good as new; `HeldByUser` is the two
directions of who has what. `PoolHygiene` is read off these. The queue needs
`WaitersWait`: who waits is in it once, so that serving the head serves somebody
who still waits.

What a caller is told and what was done for it are a second invariant, `EInv`, on
top of `IInv`. For each caller it relates the call to two numbers: the effects that
were applied, and the statements the server may still run for it on connections
that broke (`Owed`).

* `WriteHas`: the two together are at most one an attempt that is over, and more
  than none before the caller is answered only after a connection error.
* `TransactionHas`: nothing is applied before the COMMIT; a transaction that fails
  was not committed, or its COMMIT was answered by nobody and is applied or still
  owed, in whole; one that succeeds has all that its work wrote, unless the work
  hid a failure.
* `SessionHas`: what was acknowledged is there, and at most one write more, with
  which the client broke.
* `Holds`: this is what the others rest on. The server has the transaction open,
  with exactly what was acknowledged, as long as its work goes on, unless the work
  hid a failure (and the server has aborted it) or the client broke.
* `OrphansFit`: what the server still runs is one caller's, and told apart.

`OnlyLostAnswersMislead` is read off `EInv`. For `DoesAtomicWork`, `EffectsNext`
says of every step that it asks, answers or `Moves` one caller's work: its effects
do not fall, rise by one at most outside a transaction, and what decides about
them stays. `EffectCounts` bounds the abstract effect, and `OneEffect` makes of a
step that `Moves` a `TakeEffect` or a stutter. `FailedFits` is the lemma most of it
goes through: a statement that failed, with or without an answer lost, whatever
the retry policy and the work then decide.

### Health reports (`OperationsProofs`)

While a check has written its token, has not read it and was not disturbed, memory
holds it (`MemoryHoldsMine`), so that Redis is asked, and an alarm raised, only
after a disturbance (`OnlyDisturbedAsk`). `UnderWay` says that a check under way has a
report, so that a disturbance is noted to it.

### What the proofs found in the models

Five definitions were wrong or said less than they meant, and were changed, the
runs repeated with the change:

* `NothingOutdatedIsStored` said of promotions what is true of loads: that the mark
  keeps an outdated value out whatever the sweep forgets. `MarkBehind` could not be
  shown to survive the sweep for a peek, and is not true of one: with two writes the
  generation comes back to the mark. `tiered` has one write and could not show it.
  The property now excepts the case, and `ForgettingIsHarmless` is the property
  without the exception, which TLC violates (section 4).
* `CooldownHolds` counted attempts after a moment from 0 on, and so missed those at
  moment 0 itself: it now counts from -1.
* `CASE` arms of the pipeline overlapped, so that TLC chose the first and the logic
  any: they are ordered alternatives now, as in the code.
* `WelcomeSettings` typed the cache and the load too loosely to say that what is
  loaded are settings.
* `None` had to be assumed different from more than was said. `Migrator` kept what
  a session has to do as a sequence, where only the set and its least element
  matter.

## 6. What is only model-checked, and what is left out

Only model-checked:

* **Liveness**, everywhere (`EveryReadSettles`, `EveryActionSettles`,
  `EveryInteractionCompletes`, `KeepsRunning`, `EveryRunEnds`, `StopsWhenAsked`,
  `EveryCallerIsAnswered`, `EveryReportEnds`): fairness and ENABLED are beyond the
  prover.
* The two properties that are **violated** (section 4): there is nothing to prove.

Left out on purpose:

* **Formatting, parsing and wording**: rendering, templates, options, custom ids,
  command definitions, and which words a message command matches. They keep no
  state and have unit tests of their own.
* **Configuration, logging, metrics**: read once or written only; `/healthz` and
  `/metrics` touch nothing.
* **Autocomplete**: one stateless call whose failure is an empty list.
* **Client and command deployment**: input and output at boot, whose failure is a
  boot failure in `ProcessLifecycle`.
* **A connection that breaks while it lies idle in the pool**: the pool drops it and
  the code only logs. One that breaks in a caller's hands between two statements is
  modelled (`ClientBreaks`); that `pg` then also emits an error on the client,
  which only the pool listens to, and only while the client is idle, is not: the
  process takes it for a crash, which is `Asked(Fatal)` in `ProcessLifecycle`
  and `Close` here.
* **The settings of a session**: `Database` has transactions only; the lifted
  timeout and the advisory lock are in `Migrator`.
* **The length of attempts**: the retry deadline may have passed at any failure, and
  what an attempt adds to an interaction's three seconds is a finding, not a model.
* **Locks between transactions**: two transactions never wait for each other in the
  model. A wait ends by `statement_timeout`, which is a refused statement.
* **The welcome feature over Redis**: it is modelled over the memory cache. What two
  tiers add is modelled for the prefix.
* **`clear` on the shared tier**: nothing calls it.
* **Work asked of the limiter after `stop()`**: the process is then exiting.
* **`followUp` and a handler's own `defer`**: no handler uses them.

## 7. Plan

Done in this order, the most important behaviour first: the cache and the prefix,
with proofs; the limiter; welcome; two tiers; interactions; leases; migrations;
the process; then the database with its port, the lease's port, health reports and
readiness, and who reads what an interaction says; then the proofs of all of these, those
of the two tiers and of the limiter last. Every safety property that a passing run
checks is stated by a theorem.

Left to model, if anything: the time a statement takes beside an interaction's
three seconds, and which words a message command matches, as a function against a
reference definition.

## 8. Running it

    tlc -workers 2 -config MC_GuildPrefix.cfg GuildPrefix.tla
    tlapm PrefixProofs.tla

and likewise for every run in `PROJECT.json` and every `*Proofs.tla`. The longest run
takes about two and a half minutes with two workers. From nothing, with four
cores, the proofs of the database take about six minutes, those of the limiter three, the
others about a minute each.
