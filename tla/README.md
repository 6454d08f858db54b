# TLA+ models of IDEIA_aci

This directory holds the formal models kept beside the code of IDEIA_aci: TLA+
modules translated from the source, TLC configurations that explore small
instances of them, and proofs for TLAPS. Paths such as `p0_v1.sql:569` are
relative to the repository; the long ones are spelled out in `PROJECT.json`,
which maps every definition to the lines it models.

    tlc -config MCTaskCatalog.cfg MCTaskCatalog      # explore one instance
    tlapm TaskCatalog_proofs.tla                     # prove, for all instances

## 1. The system

IDEIA_aci is a TypeScript workspace for an agent that works on code under a
budget, under approvals and with an audit trail. Two halves matter here.

* **P0** (`p0/`, `docs/implementation/persistence/p0_v1.sql`) is the new
  deterministic core: a task state machine, an append-only event log per task,
  a reducer that folds the log into a projection, and an SQLite catalog whose
  CHECKs, keys and triggers enforce the same rules a second time, in another
  language. Its state is tables; its operations are statements.
* **Packages** (`packages/*`) are in-memory services on one Node event loop:
  resilience, policies and approvals, audit, configuration, caches, agents,
  plugins, memory. Their concurrency is that of `await`: a method reads state,
  gives up the loop, and goes on with what it read. What survives a restart is a
  file that one of them overwrites or appends to.

### Inventory

| Component | State it keeps | Operations | Interacts with | What makes it correct | Hard part |
|---|---|---|---|---|---|
| Task state machine (`task-state.ts`) | none | `canTransition`, `isFinalState` | reducer; copied into SQL triggers | the edge table; final states are final | two copies of one table |
| Reducer (`task-projection.ts`) | locals of one fold | `createProjection`, `applyEvent`, `project` | the catalog's events | accepts histories of one task and nothing else | duplicates, gaps, foreign events, broken chains |
| Catalog: events, projections (`p0_v1.sql:70`, guards from `:565`) | two tables | INSERT, UPDATE | reducer recomputes the rows | a row is the replay of its events | statements in any order, NULLs |
| Catalog: reservations, artifacts (`p0_v1.sql:110`, `:453`, guards from `:863`) | a current row and a journal each | INSERT, UPDATE, journal INSERT | ledger | settled once; row and journal tell one story | two tables written in two statements |
| Catalog: effects (`p0_v1.sql:251`, `:312`) | decisions, approvals, uses, intents, results | INSERT in transactions | tasks | one request per call; an approval spent with its intent | deferred keys, crash before commit |
| Catalog: ledger, and tables of a run (`p0_v1.sql:489`; `:20`, `:143`, `:224`, `:505`) | append-only tables | INSERT | tasks, events | contiguous; every row of its own task | twenty keys written by hand |
| Budget arithmetic (`budget.ts`) | none | `computeBudget` | ledger | never admits past a limit | edge of safe integers |
| Identifiers, strict JSON, port doubles (`p0/src`) | frames of a scan; scripts | `create`, `parse`, scan, canonicalize, `generate`, `invoke` | contracts, catalog CHECKs | one kind per id; duplicates found; each scripted answer once | two sources of one table; calls from inside a sink |
| Circuit breaker (`circuit-breaker.ts`, `auto-degradation.ts`) | state, counters, timer; the manager's mode | `call`, result or timeout, cooldown, `reset` | degradation manager, by callback | no stuck state; tripped means degraded | late results, stale timers |
| Bulkhead and retries (`resilience-engine.ts`) | active count, queue | `run`, `executeWithPolicy` | callers | slots conserved; nobody waits for ever | microtasks, eviction, rerun of a popped item |
| Self-healing, chaos tests (`self-heal.ts`, `chaos-test.ts`) | heals in flight, cooldowns; replaced functions | heal cycle, undo; experiments | probes; callers of the functions | counts and cooldowns kept; faults undone | cycles and experiments that overlap |
| Resource manager (`resource-manager.ts`, `self-healing.ts`) | interval, restarts by the minute | start, stop, cycle, execute | monitor, degradation manager | one loop while running | stop and start inside a cycle |
| Approval flow and store (`approval-flow.ts`, `approval-store.ts`) | requests, checker interval; a JSON file | create, approve, reject, escalate, cancel, stale check; save, load | each other, policies | quorum of the level; what was saved is reread | timers against late answers; file overwritten in place |
| Policies (`team-policy.ts`, `policy.ts`, `cedar-adapter.ts`, `audit-policies.ts`) | documents; a list of policies | load, create, update, delete, evaluate, audit | approval flow | decides by the rules as they are | identity of documents; a load that throws half way; sort in place |
| Audit trail (`audit-trail.ts`) | cache, promise chain, files | `append`, `loadAsync`, rotation | every service appends | files in order and chained | crash, refused write, reload under append |
| Configuration (`config-engine`) | global, project, snapshots, versions, context, environment, organization | get, set, reset, load, import, save, prune, rollback, switch | listeners, files | files follow memory | overlapping writes, torn files |
| Compliance (`compliance`) | controls, evidence | register, score, collect | – | scores add up; the chain verifies | a list copied once |
| Caches (`packages/cache`) | maps, levels, order of use | get, set, delete, clear, restore | fetchers | no stale value; bound; recency | promotion, expiry, overflow |
| Agent coordinator (`coordinator.ts`) | agents, loads, indexes | register, assign, complete | callers hold its objects | a load is the tasks out | double completion, re-registration |
| Plugin SDK (`plugin-sdk`) | loaded modules, hooks, registry file | load, watch, fire, install, enable | file system, module cache | what runs is what is on disk | reload during a load; unregister inside a handler |
| Memory hierarchy (`memory-hierarchy`) | four levels | store, get, evict, promote | agents | an entry rises by its reads only | promotion of what is being evicted |
| Provenance (`audit-trail`, `context-provenance`) | entries, indexes, Merkle leaves | record, drop, export, import, prove | – | chains, indexes and proofs agree | dropping the oldest |
| FinOps, observability, quantization, LSP, review scripts | sums, reports | passes over data | – | – | mostly none |

Calls between components are plain method calls or event-bus subscribers on one
event loop. The interactions that matter for correctness are few: the reducer
against the SQL triggers, the breaker against the degradation mode, the resource
manager against the same mode, the configuration engine against its files, and
every `append` against the audit trail's writer. Each is inside one model.

`PROJECT.json` lists every component with its status and every hazard at its
line.

## 2. The modules and the code

A module's state is the component's state; an action is a whole handler, or the
part of an `async` method between two `await`s. Data that the properties only
compare (identifiers, digests, fingerprints, payloads) are model values or
small records. History variables, marked `history` where they are declared, are
written and never read by the part of a guard that stands for code.

**P0**

| Module | Models | State | Actions |
|---|---|---|---|
| `TaskState` | `task-state.ts` | – | `validTransitions`, `FINAL_STATES`, `canTransition` |
| `TaskLifecycle` | the promise of a projection row (abstract) | `state` of each task | `Create`, `Move` |
| `TaskReducer` | `task-projection.ts`, `event-registry.ts` | – | `createProjection`, `applyEvent`, `project`; the loop of `project()` is a recursive function of the events read |
| `TaskProjection` | one run of `project()` on an untrusted list | `input`, `fold` | `CreateFirst`, `ApplyNext` |
| `TaskCatalog` | tables `events` and `task_projections` | `log`, `row` | `InsertEvent`, `InsertProjection`, `UpdateProjection` |
| `JournaledTables` | reservations and artifacts: a current row beside its journal | row, journal, history of moves | insert, update, journal insert |
| `EffectCatalog` | policy decisions, approvals, uses, intents, results, reconciliations | `committed`, `tx`, `inTx` | one INSERT per table, begin, commit, rollback, crash |
| `RunCatalog` | admission, context, provider, plan and recovery tables | four groups of tables | one INSERT per table |
| `Budget` | `budget.ts`; table `budget_ledger` | the last answer; the rows | `computeBudget`; insert |
| `Identifiers`, `StrictJson`, `PortDoubles` | `domain/ids.ts`, `security/strict-json.ts`, `security/jcs.ts`, `testing/fake-*.ts` | the last id; the scan and a heap; scripts and calls | create, parse; one token; one call, one signal |

**Packages**

| Module | Models | State | Actions |
|---|---|---|---|
| `CircuitBreaker` | `circuit-breaker.ts`, `auto-degradation.ts` | breaker fields, `call`, `mode` | `Reject`, `Admit`, `Succeed`, `Fail`, `Cooldown`, `Reset`, `AutoDegrade` |
| `Bulkhead` | `Bulkhead.run`, `executeWithPolicy` | `active`, `queue`, `pc`, `attempt`, `behind` | `Call`, `Settle`, `SettleAndRerun`, `Resume`, `Expel`, `Retry`, `Expire` |
| `SelfHeal` | `self-heal.ts`, `chaos-test.ts` | cycles in flight, `activeHeals`, last heals; wrappers, interceptors, runs | `HealTick`, `Probe`, `HealStep`; `RunExperiment`, `RunAll`, `EndFault`, ... |
| `ResourceManager` | `resource-manager.ts`, `self-healing.ts` | loops, the remembered timer, the mode; restarts and cooldowns | `StartManager`, `StopManager`, `LoopRuns`; `Restart`, `Execute`, `Executed` |
| `ApprovalFlow` | `approval-flow.ts`, `approval-store.ts` | request fields, `age`, `checking`; entries and the file | one per method, `processStaleAndEscalation`, `Tick`; `save`, `load`, `clear` |
| `PolicyDecisions` | `team-policy.ts`; `policy.ts`, `cedar-adapter.ts`, `audit-policies.ts` | documents by identity; the caller's list, the report | one per method |
| `AuditTrail` | `audit-trail.ts` | cache, promise chain, files | `append`, `writerStep`, `loadAsync`, `readFile`, `loadAsyncReturns`, `Crash` |
| `JsonFile` | what a JSON file under an object in memory promises (abstract) | `live`, `file`, calls in their awaits | change, replace, write, read, fail, `Restart` |
| `ConfigEngine` | `config-engine.ts` | two `JsonFile`s | `set`, `reset`, `load`, `importConfig`, ... |
| `ConfigVersioning` | `config-versioning.ts`, `config-history.ts` | index (a `JsonFile`), snapshot files; numbered versions | `save`, `prune`, `initialize`; `snapshot`, `loadHistory` |
| `ContextSwitcher`, `EnvSources`, `OrgPolicy` | `context-switcher.ts`; `config-manager.ts`, `env-config.ts`; `org-policy.ts` | context and a stack of calls; `process.env` and a cached read; templates, policies, members | one per method and per listener |
| `ConfigEditors` | `config-ui.ts`, `schema-aware-editor.ts` | a form's fields, the fields marked as modified; a document | load, update, toggle, reset; edit, complete, convert |
| `Compliance` | `control-registry.ts`, `score-calculator.ts`, `evidence-collector.ts` | controls by status, evidence | `registerControl`, `collect`, ... |
| `Caches` | `memory-cache-lru.ts`, `memory-cache.ts`, `multi-level-cache.ts` | entries in the order of the Map, accesses; three levels, getters in flight | get, set, delete, clear, backup, restore, expiry |
| `AgentCoordinator` | `coordinator.ts`, `load-balancer.ts` | agents, loads, histories, indexes | `registerAgent`, `unregisterAgent`, `assignTask`, `completeTask` |
| `PluginSdk` | `plugin-loader.ts`, `hot-reload.ts`, `index.ts` | module cache, loaded version, loads in flight; hooks; registry file | load, import, watch, edit; fire, register, unregister; install, enable |
| `MemoryHierarchy` | `memory-hierarchy` package | entries of four levels, the clock | store, get, remove, purge, `evaluatePromotions` |
| `Provenance` | `provenance.ts`, `decision-provenance.ts`, `merkle-proof.ts`, `context-provenance` | entries, indexes, exports, leaves | record, reset, export, import, prove |

`MC...` modules are instances for TLC, `..._proofs` hold the theorems, one module
per package or database, in the order of its components. `MCResilience`,
`MCPolicy`, `MCConfig`, `MCServices`, `MCResourceCatalog` and `MCTaskCatalog`
each gather the components of one package or database, and state the properties
that have a part in several of them. Components that share no modelled state are
explored one at a time, the others resting in their initial states: the product
would only repeat each of them, since steps of different components commute and
every property speaks of one.

Choices worth knowing when reading them:

* **SQL.** Clients may try any statement; an action is a statement the database
  lets through, so a guard is the conjunction of the CHECKs, the keys and the
  triggers. Triggers of the form `WHEN NOT (...)` abort only on FALSE: where a
  column may be NULL the models keep SQL's third truth value.
* **Transactions.** `EffectCatalog` has one open transaction (SQLite has one
  writer): statements change `tx`, `Commit` copies it to disk if the deferred
  keys hold, and a crash or rollback drops it. In the other catalogs each
  statement commits by itself, which allows every order a transaction would.
* **Event loop.** JavaScript runs one handler at a time. `Bulkhead` keeps the
  order of microtasks (`behind`): a resumed waiter runs after what was queued
  before it, and a caller that starts meanwhile sees the slot as free. `Settle`
  is the `finally` of a run; `SettleAndRerun` is the same `finally` finding an
  expired item, which makes the code run its own function again.
* **Breaker calls.** A call belongs to the breaker that admitted it until it
  settles, through any number of transitions; its result is counted in
  whatever period it arrives in. A breaker's `transitionTo` is one step with
  its callback, which sets the manager's mode.
* **Time.** Only the order of durations matters, so timeouts and cooldowns are
  small numbers and clocks count ticks; a set interval or timer is an action.
* **Files.** `writeFile` is one step that may fail or, under another write or a
  crash, leave a torn file, which every reader here takes for an empty one. The
  audit writer's two appends and its renames are separate steps, between which a
  crash may fall and each of which may be refused. Audit events are numbered in
  the order of `append`; `previousHash` names the predecessor, so a chain
  verifies exactly if each event names the line before it.
* **Object identity.** Where a caller keeps an object the service also holds
  (stored requests, team documents, agents, the configuration a write will
  serialize), the model says which of the two each step reads.
* **Text.** In `EnvSources` a text is a class of texts that every conversion
  treats alike, and the conversions are tables over the classes. `StrictJson`
  reads tokens. A string token has a spelling and what it decodes to, because
  duplicate names are judged by the second.
* **Loops over data** are recursive functions (of a position, of a node and what
  was found so far, of a text), never RECURSIVE operators, so that the modules
  can be proved about. Alternatives that a chain of early returns tries in order
  are IF ... ELSE IF or have disjoint guards: the arms of a CASE that overlap
  leave it open which one is meant.
* **Numbers.** `Budget` has integers up to `MAX_SAFE_INTEGER` and values that
  are not integers; scores and confidences are scaled to integers.
* **Agents.** `selectByStrategy` answers a set of candidates with the index each
  may leave, because a sort by score leaves ties to the order of registration.
* **Reducer against triggers.** `TaskCatalog` extends `TaskReducer`, so that the
  triggers and the TypeScript code are compared in one state.

## 3. What is explored

All bounds are in the `.cfg` files or the `MC` modules. `CHECK_DEADLOCK FALSE`
stands where the instance ends by design: bounded logs fill up, texts end, every
caller has its answer.

| Run | Instance | States | Properties and what they show |
|---|---|---|---|
| `catalog` | 2 tasks, 4 ids and digests, logs of 4; rows legal or wrong in one column. `project()` on lists of up to 4 events, each legal or wrong in one way | 36 772 | `RowIsReplay`: a row is what `project()` computes. `AcceptsExactlyHistories`: `project()` throws exactly on lists that are no history, judged by a definition that looks at the whole list. `ReplayStopsAtContent`: what the triggers let in and the reducer refuses is a matter of event content only. `ImplementsLifecycle`: refinement of `TaskLifecycle` |
| `catalog_created` | the same | – | violated: `CreatedIsFirst` (section 6) |
| `resources` | 1 reservation, 1 artifact, 3 fingerprints, journals of 3; 1 task, 2 calls, 2 requests, 2 decisions, 1 approval, 2 intents; 2 budget sets, ledgers of 3; amounts −1..4 and NaN with `MAX_SAFE_INTEGER` 3; 2 tasks and 2 ids in the run tables | 244 676 | `JournalsAgree`: settled once, with the journal's snapshot; moves of an artifact are one journaled path. `OneRequestPerCall`, `SpentWithItsIntent`: effects over transactions cut anywhere (one task leaves the task part of `OneRequestPerCall` to the theorem `EffectsOfOneRequest`). `BudgetsCounted`: ledgers have no gap, the gate is exact. `TasksStaySeparate`: no row leans on another task |
| `resources_journals` | the same | – | violated: `JournalsFollowEdges` |
| `resilience` | 1 breaker, 5 calls, thresholds 2, 2, 2; 4 callers, 1 slot, queue of 2, 1 retry; 2 heal cycles, 2 actions, cooldown 2; 3 experiments, 3 runners, 2 at a time; 2 healer clients, 2 restarts a minute; 2 manager loops | 116 842 | `NeverStuckHalfOpen`, `TrippedIsDegraded`: the breaker. `LimitsCounted`: slots, heals, restarts, faults and loops keep to their count. `HealsSpaced`: an action's heals keep the cooldown, except where a cycle was overtaken. `NothingHangs`: open breakers, queued calls and stopped loops end |
| `bulkhead_limit` | 4 callers, 1 slot | – | violated: `LimitHolds` |
| `policy` | 1 request, 4 approvers, quorums 1, 1, 2, escalation < team timeout < organization timeout; store of 2 ids, 2 saves; 2 teams, 3 documents, each of a team, of none or without metadata; 3 Cedar policies that overlap | 287 949 | `ApprovalsCount`, `PendingEnds`: requests. `WrittenSurvives`: the store. `DecidesByTeam`: the rules of the team in force, and what a document without metadata leaves. `AuditKeepsDecisions`: auditing changes no decision |
| `policy_audit` | all inputs of the built-in audit | – | violated: `RegexAuditPasses` |
| `audit` | 4 events, rotation of files longer than 1 line, 1 crash, any write refused | 24 656 | `DiskInOrder`. `FilesVerify`: each file is chained, the hash file keeps up, and a break marks a loss. `QueueDrains` |
| `audit_reload` | 3 events, no rotation | – | violated: `AppendsVerify` |
| `config` | files under 3 writers; the engine with 1 path and 2 calls; 2 snapshots, 2 calls; 2 versions kept of 4; 3 switches 2 deep under 2 listeners; 1 member, 2 edits out of 3 rules; 2 env files of 2 lines, every text the conversions tell apart; 1 registration, 3 pieces of evidence; 2 fields, 3 edited paths | 143 264 | `ConfigOnDisk`: a file at rest is what `get()` answers from, by refinement of `JsonFile`. `VersionsOnDisk`. `SwitchesChain`. `ReadersAndScores`: the first value wins, two readers of the environment return one value for exactly the texts they convert alike, scores add up, editors show and accept what is in them. `VerdictsFollowTemplates` |
| `services` | caches of 2 to 3 keys and 2 entries; 2 agents, load 2; 3 plugin versions, 3 plugins; 2 working entries, 3 stored; 4 records, 9 leaves; texts of 9 tokens, depth 2, 2 members; scripts, 2 signals, calls 2 deep | 312 747 | `CachesCorrect`: last value written, victim used longest ago, no entry lost or counted twice. `LoadsAreTasks`. `PluginsConsistent`: loaded code, handlers, registry. `ProvenanceHolds`: chains, indexes, lineages, promotions earned. `FormsAndProofs`: exactly the JSON values accepted, one canonical form, where Merkle proofs verify. `EdgesAgree`: identifiers of one kind, scripted items once, frames that mirror the text, no name twice in what is accepted |

`AllTypesOK` (`TypeOK` in single components) is the type invariant of each.

Several properties are conjunctions of one named part per component (the `MC`
module or the component lists the parts). A part says which component it is
about, and the code it would catch going wrong.

Why the bounds suffice:

* *catalog*: four events let a task pass through a final state and be followed
  by evidence; the second task competes for unique keys and may be cited,
  wrongly, as a cause. Every check of `applyEvent` compares an event with at
  most two others, and the first is special.
* *resources*: one journal entry more than settles the row. Two calls, requests
  and intents for one approval are the least that can be confused or spend it
  twice. Two tasks and two ids give each key a wrong row to name.
  Fingerprints are compared for equality only and are symmetric.
* *breaker*: thresholds of two tell "one short of" from "at"; two calls fill a
  half-open period and three more are left over from earlier periods. One
  breaker: `TrippedIsDegraded` is about a manager with a single breaker.
* *bulkhead*: one slot, two waiters and one caller too many fill the queue, let
  one overtake and one be turned away. `QueueLimit` is 100 in the code; only
  "full" matters.
* *heal, chaos, manager*: two cycles or loops overlap once, which is the only way
  they disturb each other; three experiments give two on one target and one on
  another, so that stacking and removal by key can be told apart.
* *approval*: four approvers are the sum of the quorums, so each level can be
  filled by people of its own. Requests do not read each other.
* *audit*: rotating at two lines makes every other write rotate; one crash
  separates two processes; four events leave some before and after it.
* *config*: two writes that overlap and one that comes later, with two contents,
  are what a torn or stale file takes; versions past the maximum are forgotten
  and restarted from.
* *services*: each cache overflows; an agent reaches its full load with a task
  of the other; three versions let a load fall two edits behind; nine tokens
  are a nested object with a repeated name; nine leaves make Merkle trees of
  every shape up to four levels.

### Fairness

Safety properties need none. The four modules with liveness assume what the
runtime does by itself, and nothing of the clients.

* `CircuitBreaker`: `WF(Cooldown)`. `setTimeout` fires. No call has to be made
  and none has to settle.
* `Bulkhead`: `WF(Step(c))` for each caller that is under way. Microtasks and
  retry timers run, and the race against the timeout settles even when the
  function does not. Nobody has to call.
* `ResourceManager`: `WF(LoopRuns(l))`. A set timer fires and the awaits of a
  cycle settle. The safety circuit a cycle awaits need not answer.
* `ApprovalFlow`: `WF(Tick)` and `WF(processStaleAndEscalation)`. Time passes
  and a set interval fires; `PendingEnds` is stated for behaviours in which the
  checker stays started, because a program that stops it waits for people.
* `AuditTrail`: `WF(writerStep)`. The promise chain runs; each write settles,
  well or badly.

Heals have none: `heal()` is the caller's function and nothing bounds it.

## 4. What is proved

Eight modules hold theorems; they are about every value of the constants: any
number of tasks, callers, breakers, files, agents and events, with the bounds of
section 3 left open. The constants have the named assumptions of the module that
declares them: a limit is a natural number (and positive where the code divides
or counts by it), a marker such as `NULL`, `TornStore` or `IMPORTING` is none of
the values it stands beside, a set whose members are counted is finite, and an
input has the type its column or parameter has. TLC evaluates them in every run
whose module extends theirs.

Few of the properties are inductive. What each proof adds is the part worth
reading, and is listed here by module.

**`TaskCatalog_proofs`**: the catalog against the reducer.

* `CatalogTyped`: `TypeOK` carries the two facts the rest needs, that each event
  sits at its own sequence of its own task and that no row is ahead of its log.
  It is inductive as it stands.
* `CatalogImplementsLifecycle`: a step simulation. An inserted row is the abstract
  `Create`; an updated row is a `Move` or, for an event that is no transition, a
  stutter. The edge list of the SQL trigger is contained in the table of
  `task-state.ts`, which has no edge out of a final state.
* `CatalogReplays`, `ReplayStopsOnlyAtContent`: a row says what the fold of its log
  says, so the proof needs to know what a *stored* log is like. `StoredInOrder`
  is what the insert guard and the keys made sure of when each event went in;
  `replayKnows` is what the reducer remembers of a prefix it has read (ids,
  digests, the state). The second is an induction over the log: `project` is a
  recursive function, shown to exist and to take one step per event from the
  fact that a nonempty set of naturals has a least element.
* `ProjectAcceptsHistories`: the same induction against a definition that looks at
  a whole list at once. It says `project()` throws on every list that is no
  coherent history and on no other, for lists of any length.

**`ResourceCatalog_proofs`**: reservations, artifacts, effects, ledger, run tables.

* `ReservationsSettleOnce`: entries may be journaled and never applied, so nothing
  can be said of the journal's length. `ReservationInv` says of a settled row
  that it shows its one settlement, that the journal has it, and that it is not
  active, which every update requires.
* `ArtifactsFollow`: `stageRank` puts the lifecycle in a line that every edge
  climbs, so moves cannot return; `Places` names where in the journal each move
  is. The update trigger compares with the last entry, whose rank is above all
  moves before it.
* `EffectInvariance`, `EffectsOfOneRequest`, `EffectsSpentOnce`: `Keyed`, the keys
  each statement checks, holds of the open transaction and of the disk; the
  deferred key holds of the disk only, because `Commit` alone checks it. Commit,
  rollback and crash copy one of the two over the other.
* `LedgersStayContiguous`: a set with rows numbered without gap has as many rows as
  its last number, so the next number is new (`NumberedTo`).
* `BudgetGateExact`: an answer of `computeBudget` is that of exact arithmetic,
  whatever `MAX_SAFE_INTEGER` is: the sum it computes was first shown to be safe.
* `RunsStaySeparate`: rows never change, so an INSERT has to be looked at for the
  new row only, and its foreign keys have the task in them.
* `JournalsStayTrue`, `BudgetsStayCounted`, `CatalogHoldsTogether`: the same of the
  composition that TLC explores.

**`Resilience_proofs`**: the components of `resilience-engine`.

* `BreakersNotStuck`: nothing in the property says where the spent probes of a
  period went. `IInv` adds that every spent probe is in flight or was counted as
  a success (`ProbesAccounted`) and that the successes so far were too few to close
  (`StillProbing`). Also `BreakersTyped`, `BreakersTimer`, `BreakersClosed`,
  `BreakersDegrade` (one breaker on a manager).
* `SlotsNeverLeak`: `SlotsInv` needs that the queue is `orderly`, no caller in it
  twice and each of them waiting; only then does a `finally` that wakes a waiter
  hand over the one slot it freed.
* `HealsStayCounted`, `HealsStaySpaced`: the second is an action property. `HealInv`
  says that a heal under way was due when it was picked and still is, unless
  another heal of the action overlapped it, which `overtaken` records.
* `FaultsAreUndone`: `ChaosInv` says what an interceptor saved. A wrapper it found
  in place belongs to a target with two actions; every other comes off with its
  interceptor.
* `RestartsStayLimited`: over every window of a minute, wherever it begins, although
  the code only looks at the one that ends now: a minute that takes in the new
  restart has no earlier ones but those the code counted.
* `OneLoopRuns`: `LoopInv` says the loop that waits is the one whose timer the
  manager remembers; the two ways the code breaks this are the flags `headless`
  and `doubled`.
* `ResilienceTyped`, `LimitsStayCounted`: of the composition.

**`Policy_proofs`**: the policy engine.

* `FlowInvariance`, `ApprovalsStayCounted`: nobody approves twice (`ApprovesOnce`),
  so approvals of a level are as many as its people, and the quorum of each level
  below a request's is met unless it was escalated. People who approved at
  different levels are different people, which gives the sum.
* `WrittenStays`: what was written is in memory *and* in the file, unless that is
  torn (`StoreInv`). Histories only grow, and a prefix stays a prefix.
* `TeamsDecide`: the document in force is the one its team has, unless it was
  created again; a document without metadata is in force with no entry, and
  nothing else is (`DocumentKept`). Only under such a document does a call
  throw with its change half made (`CutByHeadless`).
* `AuditsChangeNothing`: an action property. A policy's place in the sorted list is
  the number of policies ahead of it, by priority and then by place, so sorting
  what is sorted already changes nothing.
* `PoliciesHold`: the composition.

**`AuditTrail_proofs`** (`TrailStaysTyped`, `TrailStaysInOrder`, `TrailStaysChained`):
files are in order because the queue is a run of consecutive numbers, everything
on disk is below the one the chain of writes is at. That they *verify* depends on
what went wrong before, so `TrailInv` has three layers: with no reload under an
append, every event behind the head of the queue is linked to its neighbour
(`CalmLinks`); with no refused write either, the head is linked to the last line
(`SoundLinks`); with no crash either, the hash file keeps up (`HashesFollow`).

**`JsonFile_proofs`** (`JsonFileFollows`) and **`Config_proofs`**.

* A file with calls in flight is behind memory, so `FollowInv` says who will bring
  it up: a call still before its `writeFile` holds what memory holds, or the only
  write under way does. `disturbed` names the code's own ways out (a refused
  write, one that overlapped another or carried an older object), and any later
  write made alone ends it.
* `EngineFollows`, `IndexFollows`: every step of the engine and of the snapshots is,
  for each file, a step of a `JsonFile` or a stutter. The type of the contents
  is needed for the simulation and is part of a `JsonFile`'s invariant, so the
  two are carried along together. A prune changes memory without a write; then
  `LooseInv`, what is left of `FollowInv`, is enough for the next write.
* `RecordedVersionsStay`: memory knows a number at least as high as any recorded
  (`KeptInv`), so a new version never takes an old one's file. Starts that
  misread the directory are excepted, as in the property.
* `SwitchesStayChained`, `VerdictsFollow` (an action property), `ConfigFollows` (the
  composition).
* `ReadersStayRight`: `ReadersAgree` says for which texts two conversions give one
  value. `configOf` gives the cached value of each key from the text it was read
  from, so the two sides are compared text by text (`ReadersStayAgreed`).
  `FirstValueWins` is a double induction, over the lines of a
  file and over the files: what is read after some lines is the first of them
  with a text, or the empty text if there were only empty ones, or what the
  process had. A score is a share of a finite set of controls; the level is
  judged after rounding, and the bound the theorem states is the one rounding
  leaves. Evidence verifies because each piece names the one before it
  (`EvidenceLinks`). The two editors' invariants are `FormInv` (a field that is not
  marked, and was not reset, has what was loaded) and `DocumentInv`.
* `ConfigStaysTyped`: the ten parts of the composition, each from its own `Inv`;
  `EachTakesItsSteps` says that a step of the composition is one of each part.

**`Services_proofs`**: the in-process services.

* `LoadsStayTasks`: an agent with tasks out is registered, or was counted as having
  come or gone with them (`CoordinatorInv`).
* `LevelsStayLatest`: inductive with the types; each of the three levels is looked at
  for each step, because `get` promotes and `set` writes through.
* `CachesStayCorrect`: adds the bounded layers. `CacheInv` says that the history of
  uses lists the stored keys, each once, in the order of their access numbers;
  the least number is then the key used longest ago. The code's loops over a Map
  are `without`, about which `WithoutIs` says what is left, how many and in what
  order.
* `LoadedStaysCurrent`: what is loaded is the source between edits and events even
  while loads are under way, because a load that read the file before an edit ends
  while the watcher's event or its timer is pending, or counts as `missed`.
* `ChainsStayUnbroken`: `ProvenanceInv` keeps the ids increasing and the indexes equal
  to what the entries left say. A dropped entry is the oldest, so `RemoveFirst`
  takes one id from each list and leaves the order of the rest. `getLineage()` is
  recursive on nodes, so the walk from a target is shown to end by what it
  has not found yet, and to find exactly the upstream entries: what it found is
  closed backwards except under the targets it is still at.
* `PromotionsStayEarned`: `HierarchyInv` says of an entry of each level what it must have
  been through (reads, tags, archiving); `entriesAt` keeps the order of a list
  and says where each of its entries came from, which is all the expiry and
  promotion loops do.
* `IdsStayOfOneKind`: the three tables are compared kind by kind; what is left is that
  a prefix belongs to one kind.
* `AnswersStayOwn`: `PortInv` relates the calls that are open, innermost last, to the
  items taken; an item is whole once its call has sent every signal of it.
* `FramesStayStrict`: `StrictInv` names, for every frame, the token that opened its
  container (`Mirrors`): the depth reached the frame's there and has not fallen below
  it since, its names and count are those of the tokens directly inside, and every
  object that was closed had as many names as keys. `expected` tells a key from a
  value by the token before it. An open container is then the frame at its depth,
  and there is one container a depth (`OnePlaceADepth`). It assumes that a string
  token is no bracket, colon or comma (`StringsAssumption`).
* `ServicesStayTyped`, `ProvenanceStays`, `EdgesStayAgreed`: of the composition.
* `PluginsStayConsistent`: a firing whose handlers were removed at or behind its
  index only stays within the array (`PluginInv`).

## 5. What is only model-checked

* Liveness (`NothingHangs`, `PendingEnds`, `QueueDrains`): out of the prover's reach
  under fairness.
* `FormsAndProofs`: what a recursive definition computes over a tree. That the scanner
  accepts just the texts of the grammar, that a canonical form is one's own, and
  where Merkle proofs verify relate two recursions over the same data, on
  trees of any shape. TLC compares them on every text of up to nine tokens and
  every tree of up to nine leaves. What the scanner's frames say of the text, and
  that no accepted object has a name twice, is proved (`FramesStayStrict`).

Every other property of a passing run is stated by a theorem, among them the type
invariants of all compositions.

Attempts at a proof that failed for a good reason changed the models: the bound
on a grade A in `ScoresAddUp` was one fifth, which rounding breaks for frameworks
of some thousand controls; `FirstValueWins` had left open what an empty first
value leaves; and CASE arms that overlapped in `PolicyDecisions`, `Compliance` and
`ConfigEditors` allowed more than the code's order of tests does.

## 6. Where the code and its documents part

Five runs are expected to end in a violation; each checks one sentence of the
repository against the code.

* `catalog_created`: a second `task.created` is stored at sequence 2
  (`p0_v1.sql:569` tests the type only for sequence 1), against
  `taxonomia_eventos_v1.md:15`. Events cannot be deleted, so the reducer
  refuses that task's log from then on.
* `bulkhead_limit`: `active` can exceed `maxConcurrent`
  (`resilience-engine.ts:35`), against the test "should limit concurrent calls".
* `policy_audit`: the audit of the built-in policy expects decisions the policy
  does not take (`audit-policies.ts:33`, `:35`), so its own report fails.
* `audit_reload`: `loadAsync()` replaces events appended while it was reading,
  and the next event links past them (`audit-trail.ts:165`).
* `resources_journals`: a reservation's journal can open with
  `null -> consumed`, because the guard is NULL there (`p0_v1.sql:893`; the
  artifact guard at `:871` has the same form), against
  `invariantes_semanticos_v1.md:298`.

The models have these behaviours too, which no run singles out. Where a property
excepts one, a history variable or a condition in its statement names it.

*P0*

* `createProjection` (`task-projection.ts:227`) does not compare
  `payload_contract` with the registry, which `taxonomia_eventos_v1.md:79` asks.
* Two settlements may be journaled before the row is updated
  (`p0_v1.sql:894`); only one is ever applied (`SettledOnce`).
* The query of a packaged context item and the budget set of a provider request
  are not tied to the task by a key, which `invariantes_semanticos_v1.md:60` and
  `:81` ask for. `TasksStaySeparate` claims the keys that are there. Plan
  revisions may have gaps.
* `assertCanonicalizable` refuses any object that occurs twice in a value, also
  where there is no cycle.
* An abort from inside the last sink of a double goes unnoticed.

*Resilience and resources*

* Successes of late calls that arrive while a breaker is open count towards
  closing it (`circuit-breaker.ts:158`); `reset()` leaves the manager's mode.
* `evictExpired` drops waiters without settling them
  (`resilience-engine.ts:63`); `EveryCallEnds` names them as `abandoned`.
* The cooldown of a heal is the time its cycle began, so an overtaken cycle may
  heal again too early, or set the cooldown back (`self-heal.ts:143`); an undo
  that throws is run twice (`:157`).
* Two chaos actions on one target, ended in the order they began, leave a
  wrapper in place for ever (`chaos-test.ts:218`). A resource manager whose first
  cycle throws is running without a loop, and one started again inside a cycle
  has two (`resource-manager.ts:50`).

*Policies and audit*

* A request escalated above the level it required cannot be approved any more
  (`approval-flow.ts:125`); it ends by rejection, cancellation or expiry.
* A torn approval file reads as an empty store, and the next save makes that
  permanent (`approval-store.ts:104`).
* A team document created again for the team in force is not in force until the
  team is chosen again (`team-policy.ts:77`).
* A policy file without `metadata` is in force although its load threw
  (`team-policy.ts:58` assigns, `:59` dereferences). While it is, updating or
  deleting any team's policy changes the map and then throws (`:98`, `:105`).
* Provenance reads the clock twice per record, so an entry that straddles a
  millisecond fails its own verification; Merkle proofs leave padding siblings
  out and verify only where the path has none.

*Configuration*

* A write begun before a `reset()` brings the old configuration back on disk; a
  file cut short reads as empty; `importConfig` as a dry run changes memory.
* `ConfigHistory` reads `index.json`, the file of `ConfigVersioning`, as one of
  its versions.
* The first env file wins, so `.env.local` cannot override `.env`. The two
  readers of the environment disagree on more texts than they agree on. Their
  defaults differ (PORT 3001 and 3000, telemetry off and on). `Number` and
  `parseInt` read `1e3` as 1000 and 1, an empty PORT as 0 and the default,
  `8080abc` as a text and 8080 (`config-manager.ts:263`, `env-config.ts:71`).
  `yes` is a text to one and true to the other, and any other text is a text
  and false. A member of no enumeration is kept by one and replaced by the
  other. `IDEIA_DEFAULT_AUTONOMY` is a string (`N2`) in one and an integer in the
  other. `readAlike` lists the texts that are left, and `ReadersAgree` claims
  agreement for these and disagreement for all others.
* `updatePolicy` and `deletePolicy` never change what is enforced
  (`org-policy.ts:141`); a policy updated by name starts again from its
  template's version. A score does not see controls registered after its
  calculator was made.

*Services*

* Promotion takes the first cache level past `l1MaxSize`
  (`multi-level-cache.ts:80`); a fetcher awaited across a `delete()` stores what
  it fetched; the LRU cache never evicts the key `""`, and `restore()` may pass
  its maximum; the other cache evicts on an overwrite too.
* Round robin applies its index to a list sorted by score, so it need not take
  turns. A task reported twice, or an agent registered again, loses count.
* ES modules are cached by path, so a reload runs the old code; a load in flight
  brings an unloaded plugin back; `unregister` inside a handler skips the next
  one; a disabled plugin is enabled after a restart.
* The curator's summary promotes a second time; the project level's maximum is
  never enforced; the promotion rules into the global level never fire.

## 7. What is not modelled, and the plan

Not modelled on purpose: generated validators, formatting, metrics and reports,
wrappers of the operating system and of external tools, registries of constant
data, scripts run by hand or by a git hook. FinOps and the context builder work
on floating-point sums and weights with little state around them.

Within modelled parts, `PROJECT.json` says per component what is left out. The
larger omissions: DELETE of a projection row (no trigger forbids it); the tables
`writer_lease`, `verification_results`, `usage_records`, `price_books`,
revocations of approvals; torn lines and signatures of the audit files; the
search and the HTML of the configuration's editors; a prune that finds nothing to
remove and writes the same index again (`config-versioning.ts:161`); queries and searches
everywhere; listeners of the degradation manager.

Next, in this order:

1. The remaining catalog tables, `writer_lease` first: it is what keeps two
   processes off one database.
2. The latency budgets of `langgraph-observability` and the alerts of FinOps,
   whose cooldowns are their only state.
3. `AuditTrail` with torn lines and the synchronous load.

What is left without a proof, and why, is in section 5.
