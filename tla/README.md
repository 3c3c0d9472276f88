# pg-react in TLA+

pg-react is a rule engine inside PostgreSQL.  A rule watches a *match relation*
(a stream table that pg_trickle maintains differentially); a row appearing,
changing or disappearing becomes a lifecycle event of its key (`ACTIVATE`,
`CHANGE`, `DEACTIVATE`), a bound event becomes an *episode* of the agenda, and
workers claim, lease and execute episodes with effects that commit in the same
transaction as the episode's outcome.  Nearly all of this is PL/pgSQL in
`src/sql/`; the Rust crate in `src/src/` holds the analysis of authored views,
the identity codec, the background worker that drives a database, and a pure
reference oracle of the lifecycle.

This directory holds TLA+ modules of that system, TLC configurations that check
them on small instances and TLAPS proofs for every instance.

Run from this directory: `tlc -config X.cfg M` for a run, `tlapm M.tla` for a
module of proofs.

## Where the code is

A released extension script is a concatenation of layers: each
`src/sql/pg_react--A--B.sql` adds or replaces functions and the generated
`src/sql/pg_react--0.46.1.sql` repeats them all, in order.  Source lines cited
for a definition are those of the layer in which the deployed function was
written last, because there it can be read without the 50 000 lines before it:

| layer | what is modelled from it |
| --- | --- |
| `src/sql/pg_react--0.1.1.sql` | tables, delta triggers, events, agenda, claims, sweep, heartbeat, barriers, reconciliation, repair, version lifecycle |
| `src/sql/v0.43.3.sql` | `execute_claimed_episode` |
| `src/sql/pg_react--0.9.0--0.10.0.sql` | `run` (advance sources, refresh, reconcile) |
| `src/sql/current/temporal-key-limit.sql` | `refresh_rule` |
| `src/sql/current/recovery-restore.sql` | `prepare_recovery`, what a logical dump contains |
| `src/sql/current/owner-recovery.sql` | seeding at registration |
| `src/sql/current/claim.sql` | `claim`, the claim over all versions |
| `src/sql/m31.sql` | the locks that `execute` takes (for rules no policy set scopes) |
| `src/sql/pg_react--0.43.2--0.43.3.sql` | `managed_cycle` |
| `src/sql/pg_react--0.46.1.sql` | key wrappers, `sync_semantic_keys`, the finalizer of typed keys, the validations of programs and deadline rules |
| `src/src/lifecycle.rs`, `src/src/oracle.rs` | the lifecycle oracle |
| `src/src/rewrite.rs` | the analysis of authored views |
| `src/src/identity.rs` | the identity codec |
| `src/src/managed.rs`, `src/bin/pg-reactd` | the two processes that claim and execute |

## Inventory

State in capitals names a table of schema `pgreact_internal`; "hard" names what
a test hardly reaches.

| component | state | operations | interacts with | hard | what makes it correct |
| --- | --- | --- | --- | --- | --- |
| Activation lifecycle oracle (Rust) | a map from key to (active, generation) | `plan`, `apply_final_matches` | the reference for the triggers | order of physical changes must not matter | one transition per key and final set |
| Delta triggers | activation_delta_buffer, activation_state, lifecycle_events | `capture_match_delta`, `finalize_match_delta`, `emit_event` | fired by pg_trickle's refresh, fill the agenda | several keys in one transaction, abort on back-pressure, withdrawal of a superseded ACTIVATE | state mirrors the relation; identities are never reused; no transition without its event |
| Agenda and workers | agenda, executions, conflict_leases, agenda_group_limits | `claim_episode`, `sweep_expired_leases`, `heartbeat_episode`, `execute_claimed_episode`, `requeue_episode`, `cancel_episode` | read activation_state at execution; kept out by barrier and coordinator lock | lease expiry racing a late worker, stale tokens, retries, conflict keys, state that changed since the claim | an episode is settled once; a conflict key has one holder; effects match the relation; open work settles |
| Refresh, barriers, reconciliation | rule_barriers, the coordinator advisory lock | `run`, `begin_refresh`, `refresh_rule`, `clear_refresh_barrier`, `release_refresh_lock`, `begin_reconciliation`, `reconcile_rule`, `prepare_recovery` | fence the workers of a version | a session dies between its transactions; restore; one protocol run over another | no worker acts on an activation state that is not the relation's |
| Rule version lifecycle | rule_versions | `create_rule`, `pause_rule`, `resume_rule`, `replace_rule`, `remove_rule` | claims and executions read its state | commands in any order, under no lock | cutover neither loses nor reopens work |
| Global claim (`pgreact.claim`) | none of its own; a list of candidates and version locks for one transaction | claims over all versions, by age, salience and availability | `claim_episode` in a subtransaction; executions and other claims | its order and that of `claim_episode` differ; the list is older than the claims; two claims lock versions in opposite orders | a version's leases keep to the group limit; no episode is passed over but for a reason; deadlocks cost one claim only |
| Batches | batch tables | `claim_batch`, `execute_claimed_batch`, `reject_expired_batch_lease` | agenda, executions | one item of many fails or expires | a batch is its items |
| Managed worker, managed cycle, `pg-reactd` | the process and what it finds in the database; nothing durable | `_PG_init`, the main loop, `managed_cycle` (run, claim, execute in one transaction); pg-reactd's pass (three kinds of transactions) | all of the above | back-pressure, bad configurations, upgrades, crashes and restarts between any two steps | work and coordination go on whenever nothing forbids it |
| Policy-set scoping (`m31.sql`) | policy_set_members, supports | wrappers around claim, execute and reconcile | withdraws unsupported work | support that ends while an episode is leased | withdrawal releases what the lease held |
| Deadline clock | clock_frontier, deadline_state | `begin_deadline_refresh`, `advance_deadline_clock`, `finish_deadline_refresh` | emits lifecycle events | samples that go backwards, limits per pass, restore | monotone frontier; each crossing once |
| Temporal rules | temporal_state | pending, confirmed, recovered, cooldown per key | the clock, lifecycle events | conditions that flap between samples | the state is a function of the sampled history |
| Derived facts, logical support | support counts | maintain, refresh and reconcile derived relations | match relations of other rules | retraction order, cycles | a fact is there exactly while supported |
| Window programs and watermarks | watermarks, windows | advance, close, late data | sources, clock | late and out-of-order input | a closed window stays closed |
| Effective policies, decision programs | versions, decisions | evaluate at a frontier | temporal rules, sources | overlapping validity | one decision per input |
| Policy sets and supports | policy set versions | deploy, scope, support | rules | deployment against running work | support follows deployment |
| Shared conditions, parameter families | shared match relations, reference counts | attach, detach, instantiate | match relations | last user leaves | no relation dropped in use |
| Immediate-mode maintenance | as the delta triggers | `finalize_match_delta_now` | user transactions | many finalizations in one transaction | as the delta triggers |
| Retention, evidence snapshots | payload tables | prune, snapshot | history tables | pruning what is needed | nothing open is pruned |
| Packages and deployment facade | package catalogue | review, deploy | registration | none of its own | catalogue bookkeeping |
| Explanation, comparison, replay, backtest | none | read-only reports | all tables | none | - |
| Identity codec and typed keys (Rust, SQL) | semantic_key_identities, key wrappers | `encode_tuple_v2`, `activation_identity`; `author_rule`, `sync_semantic_keys`, the finalizer | run and refresh of versions with typed keys | eight bytes of a digest stand for a key, 122 bits of another for an activation; rows change between check and refresh | distinct keys are never merged |
| View analysis of authored conditions (Rust) | none; the views it read live on | `view_key_is_direct`, `view_key_is_direct_from`, `view_key_uses_operator` | validation of programs, deadline rules and rules | join aliases, equality chains, CTEs, nested views; views replaced afterwards | an accepted key is the key of the row it came from |
| pg_trickle (external) | stream tables | create, refresh | sources, triggers | rebuilt after a restore | the relation is the condition's result |
| pg-mdm adapter | its own schema | intents, requests | public API | retries of requests | outside the engine |
| Roles, grants, metrics | catalogue | grant, report | - | none | - |

PROJECT.json has the same list with the status of each component, and the
hazards with the line at which each bites.

## Modules

| module | what it is |
| --- | --- |
| `Lifecycle` | the abstract specification of activation: the oracle of `lifecycle.rs` and `oracle.rs` |
| `RuleRuntime` | the runtime of one rule version: the delta triggers, the agenda, refreshes and recovery, and the version's commands |
| `FinalizeMatchDelta` | the finalizer of a refresh as the loop it is, and that `RuleRuntime`'s `Refresh` is this loop |
| `MCRuleRuntime`, `MCCutover` | its instances; the second with a history variable, for replacement under `CANCEL_OLD` |
| `RuleRuntimeProofs` | type correctness, and the lemmas about the operators |
| `RuleRuntimeLeaseProofs` | settlement and leases; work is serialized by conflict key |
| `RuleRuntimeHistoryProofs` | the events of a key cohere and are complete; a loop that gets through is a refresh |
| `RuleRuntimeLifecycleProofs` | refinement of `Lifecycle`; the activation state mirrors the match relation; effects match it and are applied in order; what a removal leaves open |
| `WorkPool` | the abstract specification of sessions that claim and finish work from one pool |
| `GlobalClaim` | the steps of `claim` over several versions, of executions and of `run`, with their locks |
| `ManagedWorker` | composes them: the background worker and its cycle, `pg-reactd`, crashes, restarts, reconfiguration |
| `MCManagedWorker` | its instances |
| `ManagedWorkerProofs` | types, the lease budget, holders of episodes, the two claim orders; refinement of `WorkPool` |
| `VersionGateProofs` | the worker's version gate, for texts of any length |
| `QueryTrees` | what PostgreSQL computes from a view: rows, the origin of every value, the derived rows each rests on |
| `KeyLineage` | the view analysis of `rewrite.rs`, the validations that use it, and authors who go on replacing views |
| `MCKeyLineage` | the views authors write, and the comparison of the analysis with `QueryTrees` |
| `KeyCodec`, `KeyCodecProofs` | the identity codec, with SHA-256 as a parameter; it is injective |
| `KeyedActivations` | a version with typed keys: identities and activations while rows change under its runs |
| `MCKeyedActivations`, `KeyedActivationsProofs` | its instance, with a digest that collides; its theorems |

`FinalizeMatchDelta` extends `RuleRuntime`, `ManagedWorker` extends `GlobalClaim`, `KeyLineage` extends `QueryTrees`,
`KeyedActivations` extends `KeyCodec`; `RuleRuntime` and `KeyedActivations` each
instantiate `Lifecycle` under a refinement mapping, and `ManagedWorker`
instantiates `WorkPool` under one.  `RuleRuntime` describes one
version in full and `GlobalClaim` several versions with the parts of a claim
that concern more than one: expiry, retries and barriers are in the first only,
orders and locks in the second only.

### `RuleRuntime`: state and actions

One variable per table (`act` is activation_state, `events` lifecycle_events,
`agenda`, `executions`, `conflict` conflict_leases, `barrier` the version's row
of rule_barriers, `vstate` and `dropped` the version), one for the match
relation (`match`) and one for the coordinator's advisory lock (`coord`).  An
episode is identified by the identity constraint of its event: key, generation,
kind, revision.

An action is one committed transaction.  This is what the code's locks give:
claims and executions take the coordinator lock shared and the version's
advisory lock; refreshes, barriers and reconciliations take the coordinator lock
exclusively, for their transaction (`run`) or for the session
(`begin_refresh`, `begin_reconciliation`), and rows that several transactions
may change are locked `FOR UPDATE`.  A call that raises rolls back and is no
action.  What remains to interleave, and does, is everything between
transactions: claim, lease expiry, sweep, re-claim, late execution, refresh,
repair, session loss, restore.

* `Refresh` is one transaction of pg_trickle's refresh: the relation becomes any
  relation, every key whose row changed is finalized (`Finalized`), unleased
  `ACTIVATE` episodes of generations that end are withdrawn (`Withdrawn`), and
  events and episodes are inserted unless back-pressure aborts it all (`Emit`).
  The code does this key by key: `FinalizeMatchDelta` has the loop, with
  `emit_event` raising in the middle of it, and `RefreshIsLoop` says that the
  action and the loop, in every order of the keys, come to the same.
* `Run` and `RefreshRule` are the two callers; `BeginRefresh`,
  `ClearRefreshBarrier` and `ReleaseCoordinatorLock` the rest of the coordinated
  protocol.  Losing the session is the release without the clear.
* `Restore`, `BeginReconciliation`, `ReconcileRule` are recovery.  A physical
  restore keeps every table; a logical one brings back the tables named by the
  dump configuration, and the match relation is rebuilt from the sources without
  firing the triggers, so it may differ from the activation state.
* `Claim`, `SweepExpiredLeases`, `LeaseExpires`, `BackoffElapses` and `Execute`
  (`Complete`, `Skip`, `Retry`, `Fail`) are the worker's side.  A worker may
  present any token ever minted for the episode.
* `Requeue`, `Cancel`, `Pause`, `Resume`, `Replace`, `Remove` are the operator's.

What is abstracted in `RuleRuntime`:

* Time is two flags of an agenda row: the lease has expired, the back-off has
  elapsed.  A heartbeat only postpones the first, which is free to be late.
* A lease token is a fresh number (`gen_random_uuid()` never repeats).
* Which due episode a claim picks is left open, so every property holds for any
  order; the order itself is the subject of `GlobalClaim`.
* The group limit counts the leases of this version; other versions of the same
  agenda group would only make it tighter.
* The consequence is a step that completes or raises; its own SQL is not
  modelled.  Drift of the consequence's definition counts as raising.
* A refresh is not started on a dropped relation, `refresh_rule` is called by
  the session that began the refresh, and `begin_*` calls of one session are not
  nested.
* `Replace` is seen by the version that is replaced; the new version starts as
  any version does.
* The version's policy-set scope is that of an unscoped rule, for which the
  wrappers of `m31.sql` pass every call through.

### `GlobalClaim` and `ManagedWorker`: state and actions

`queue` is the open part of the agenda in the order of `available_at`, `aged`
the episodes beyond the fairness window, `owner` the committed leases.  `lock`
is each version's advisory lock and `exclusive` the holder of the coordinator
lock.  `call` is what a session is in the middle of: a claim with its list of
candidates, its room and what it has claimed, or a batch it executes.
`process`, `terminated`, `world` and `conf` are the background worker, the
SIGTERM it may have received, the database as it finds it (installed version,
roles it may assume, readiness) and its configuration.

A claim is not one step here: `BeginClaim` lists the candidates, each
`TryCandidate` takes one version's lock and lets `claim_episode` choose, and the
end of the transaction makes the leases visible.  In between other sessions
claim, commit and execute.  A claim holds every version lock it has taken, so
two of them can wait for each other; `Deadlocked` sessions may be aborted.
`pg-reactd` commits its claim and executes each episode in a transaction of its
own; `managed_cycle` does everything in one, so whatever makes it raise
(`CycleFails`, `Crash`) takes the coordination with it (`ran`).

Abstracted: leases do not expire, an execution finishes its episode, every
version is active, a run makes at most one new episode, finished slots of the
agenda are used again for new work.  A session of `pg-reactd` does not end
between its claim and its executions (`RuleRuntime` has the lease that is left
then).  `Sorted` is the `ORDER BY` of the candidates' cursor, as the list of a
finite set in a strict total order.  `MaxU32` stands for `u32::MAX`; the text behind
the prefix of a release candidate is a sequence of numbers, -1 for a character
that is no digit, and `Texts` are the texts that `VersionGateExact` compares.

`WorkPool` is what the sessions promise together: an open pool, what each session
has claimed in a transaction and what it has committed to execute.  Work leaves
the pool when the one session that has it finishes it; a claim may be given back
until it commits, a lease may not.  The mapping (`Committed`, `Claiming`,
`Batches`) keeps a run's new work out of the pool until the cycle commits, since a
failure takes it back.  `Whole` is the managed worker, whose cycle claims and
finishes in one transaction.

### `KeyedActivations`: state and actions

`rows` is what the generated wrapper view selects, `matches` the stream table,
`identities` is semantic_key_identities and `activations` activation_state by
activation uuid.  `run()` is two steps because its statements read the rows
committed when each of them starts: `SyncSemanticKeys` checks the rows and
records their keys, `CommitRun` refreshes under the coordinator lock and
commits.  `ChangeRow` may come in between, the run may abort, and a coordinator
may refresh without the check (`RefreshRule`).  Surrogates and uuids are computed
by `KeyCodec` from the bytes of the components; the digest is a parameter, and
that of the instance collides in both places.  `TypedKeys` is the set of tuples that
rows can have for keys, finite in an instance and any set of tuples of admitted
components otherwise.  A refresh that its triggers
refuse raises and is no step.

### `KeyLineage`: state and actions

`definition` is the text of every authored view; authors replace any of them at
any time, also below a rule or a program that was accepted before
(`CreateOrReplaceView`).  `AuthorDeadlineRule` and its overload with typed keys
call the validations in one step.  `tx` is a transaction that deploys or
refreshes the program, one statement at a time, because under READ COMMITTED each
statement sees the views as they are when it starts.  A deployment validates
(`ValidateProgram`) and takes the digest of the closure (`DigestSource`) from the
catalogue, which keeps no lock; reading the source locks it, and then the drift
check compares the digest (`CommitProgram`).  A refresh locks the source with
every view below it before its drift check (`CheckDrift`; `LOCK TABLE` in the
deployed layer of `rebuild_derivation_program`, `pg_react--0.46.1.sql:11307`,
where the first layer at `:8416` had none) and reads it afterwards
(`RefreshSupports`).  `Abort` may take either back.
The analysis is pure: the three
entry points and the walks below them are operators over a query tree, in the
form `pg_node_tree` gives it after rewriting (range table, join tree, targets,
CTEs, sublinks).  `QueryTrees` evaluates the same trees and remembers where each
value and row came from; it is the reference and models no code of the
repository.

Abstracted: types, collations, null values and aggregation; of an outer join
only the matched rows.  A program has one rule, whose inputs are declared as
`source_derived_dependencies` finds them.

## Runs

| run | question | instance | result |
| --- | --- | --- | --- |
| `claims` | do workers with expiring leases, failing attempts and stale tokens, next to repair and refreshes, settle each episode once, respect leases and conflict keys, and settle all of it? Is a refresh the loop over its keys, whatever their order? | two keys that share a conflict key, two workers, three claims per episode, two attempts, one generation | holds; 107 172 states |
| `recovery` | under refreshes, lost sessions, restores and reconciliations in both modes: is the history coherent, does the state mirror the relation, do effects match it, and is all of it the oracle's lifecycle? | one key, two watched values, two generations of two revisions | holds; 2.7 million states |
| `version` | with missing events emitted, is every transition on record, are the effects of a key applied in order, and is a removed version left without leases, while the version is paused, resumed, replaced and removed? | one key, two interchangeable values, all three consequences bound, one worker without retries or expiry, room for two open episodes | holds; 3.3 million states |
| `lineage` | is a column that the analysis accepts as a key what its row says, and do a program's supports keep their keys while views are replaced before, between and after the statements of its deployment and its refreshes? | two views, one base table and one derived relation; every shape of `tests/m8-boundary.sql` and its combinations with the second view | holds; 28 238 states |
| `typed_keys` | are activations those of the rows, identities their own, canonical keys unambiguous, and all of it the oracle's lifecycle? | two rows, five typed keys of which two share a surrogate, two an activation uuid and one is null; two generations | holds; 378 237 states |
| `workers` | do leases keep to the budget, is no episode held by two sessions, do the two claim orders agree, is the version gate exact, is all of it one pool of work, and do work and coordination go on? | the managed worker and one `pg-reactd`, two versions of different salience and group limit, four episodes of which two share a conflict key; one crash or restart | holds; 241 723 states |
| `stale_bindings` | does an active key show its current row? | one key, a row with an unwatched column, a restore and a reconciliation | refuted (finding 1) |
| `lost_barrier` | does a recovery barrier stay until the reconciliation? | a refresh begun over it | refuted (finding 2) |
| `removal` | has a removed version no open work? | one key with a failing consequence | refuted (finding 3) |
| `restored_leases` | does a conflict key have one holder after a logical restore? | two keys that share a conflict key | refuted (finding 4) |
| `cancel_old` | is nothing of a version replaced under `CANCEL_OLD` claimed any more? | one key with a leased episode | refuted (finding 5) |
| `starvation` | is every open episode finished in the end while more keeps coming? | the instance of `workers`, healthy, a batch of one | refuted (finding 6) |

`Procedures` chooses which of the operator's procedures an instance of
`RuleRuntime` contains.  The recovery run leaves out `REFRESH_OVER_RECOVERY`, an
operator who begins a refresh while a recovery is due: `lost_barrier` shows what
that does.  The claims run leaves out `RECOVERY`: `restored_leases` shows what a
logical restore does to conflict keys.  Both exclusions are therefore not
conveniences but the exact preconditions of the properties.

`LineageExact` and `SupportsKeepKeys` have their preconditions in the formula, and
these are exact too: TLC refutes both without `ReadsOwnCtes` (a common table
expression read again from inside a subquery; see the findings), and
`SupportsKeepKeys` if a deployment may be overtaken between its validation and its
digest.  It also refutes `SupportsKeepKeys` when either drift check is taken out,
or the lock of the refresh.  `WorkSettles` names its premises as well: the version
is served, and interruptions and new episodes come to an end.

### Bounds

* `RuleRuntime`: `MaxGeneration` and `MaxRevision` stop refreshes.  Leases expire
  and episodes are requeued without a bound, in the specification and in the
  theorems; only `BoundedNext` of `MCRuleRuntime` leaves an episode alone after
  `MaxClaims` claims, so that an instance is finite.  Two generations with two
  revisions are the least in which an old generation's episode can meet a new one
  and a revision can follow a revision; two episodes on one conflict key and two
  workers are the least in which a lost lease can be taken by another; three
  claims let a worker come back with a token two claims old; `MaxPending` of one
  or two makes back-pressure bite.  These runs switch the deadlock check off
  because a version whose bounds are used up, or that was removed, really stops.
* `ManagedWorker`: two sessions and two versions are the least that can
  deadlock; two episodes a version let a claim find another one than it listed.
  `MaxCrashes` counts crashes of the worker and restarts of the server.
  `MaxClaims` is the deployment's limit, not a bound; the configurations contain
  one whose batch exceeds it.
* `KeyedActivations`: `MaxGeneration`, and one run at a time (runs exclude each
  other by the coordinator lock; only their checks could overlap).
* `KeyLineage`: one rule or program in a behaviour; `Later` of `MCKeyLineage` is
  what views are replaced by once it is declared (other keys, an invented key, two
  inputs, the uncounted CTE, another view); views up to two authored
  levels, plus the wrappers and the public view of the derived relation, below a
  `MaxViewDepth` of three, so that the limit is reached.

Symmetry is used where no property is temporal in a way it could hide: of the two
interchangeable rows in `version`, and of the two slots in `typed_keys` (action
properties of the permuted values only).  The runs with liveness have none.

### Fairness

`FairSpec` of `RuleRuntime` (used by `WorkSettles` only): weak fairness of a
claim, of a sweep, of an execution and of back-offs elapsing.  `pg-reactd` and
the managed worker claim and then execute what they claimed, in a loop; every
claim sweeps first; time passes.  `WorkSettles` is conditional on the version
being served from some time on (`<>[]Serving`), because a barrier that nobody
lifts or a paused version holds work back by design, and on the load coming to an
end (`LoadEnds`): leases run out, episodes are requeued and new episodes arrive
finitely often, however often that is.  The first of these is no convenience: the
sweep gives an expired lease back without looking at `max_attempts`
(`pg_react--0.1.1.sql:1766`), so workers that die at every attempt keep an episode
open for ever.  An instance reaches `MaxClaims` interruptions of each episode, and
whatever they leave behind must not keep it, or its conflict key, from settling.

`ManagedWorker`: strong fairness of the worker's next step, and of the next step
of a session that has begun a pass.  What they wait for are locks, which other
sessions take and release for ever; PostgreSQL grants a lock in the order in
which it was asked for, so a waiting session is let through, and that is what
strong fairness of the step says.  Weak fairness of `Age`: time passes.  Nothing
makes `pg-reactd` begin a pass, the worker crash or stay up, or an administrator
repair anything; the liveness properties are conditional on the worker being
`Fit` from some time on (started and not terminated, a compatible version, one role,
a ready database, a batch within `max_claims`): without any one of these the code
itself leaves the work alone.

### Mutants

Each property has a mutant in PROJECT.json: a plausible slip in a mapped
definition (a token not compared, a conflict lease not deleted, a barrier not
rechecked, a version lock released too early, a collision not compared, an
operator's operand taken for the column) that makes TLC refute the property under
its own configuration.  The faulty variants are the definitions marked "Fault".

## Findings

Six statements of the repository's documents do not hold of the code; each has
a run that refutes it and an entry with the quotation in PROJECT.json.

1. Reconciliation compares watched columns only, so unwatched columns of an
   active key keep their value from before a restore.
2. `begin_refresh` replaces a `RECONCILING` barrier, and `clear_refresh_barrier`
   then lifts it without a reconciliation.
3. `remove_rule` does not count an episode waiting for its retry as open work.
4. A logical dump keeps leased agenda rows and drops `conflict_leases`, so after
   a restore a conflict key can have two holders.
5. An episode leased when its version is replaced under `CANCEL_OLD` becomes
   claimable again when that lease ends.
6. `claim` orders the episodes that have waited past the fairness window by
   salience (`current/claim.sql:52`), so a sustained load of higher salience that
   itself waits that long starves the others; `DESIGN.md:1482` asks for a window
   that prevents it.  `UrgentWorkDrains` of the `workers` run is what remains
   true: work of the highest salience is always reached.

Met while modelling, stated in a module where noted, and without a run:

* A common table expression read again from inside a subquery is not counted as
  a second occurrence (`rewrite.rs:128` looks at level 0 only), although
  `docs/history/m8-contract.md:20` says each derived input must occur once.  The
  shape "across" of `MCKeyLineage` is such a definition: without the premise
  `ReadsOwnCtes`, `LineageExact` and `SupportsKeepKeys` are refuted by it, a support
  resting on two rows of the input.
* A view that is replaced after `validate_derivation_program` has looked at it and
  before its digest is taken (`pg_react--0.46.1.sql:8693` and `:8783`) is deployed
  without having been validated: nothing is locked in between, and the drift check
  compares with the digest of the new text.
* `sweep_expired_leases` returns an episode to `PENDING` whatever its attempt count
  (`pg_react--0.1.1.sql:1766`), so attempts can pass `max_attempts`, although
  `DESIGN.md:730` says that "when the attempt limit is reached, the episode becomes
  terminally failed".
* `view_key_is_direct` takes every column of a registered key wrapper as direct
  (`rewrite.rs:27`), so the typed overload of a deadline rule accepts a computed
  deadline, which `validate_deadline_rule` says it refuses.  `DeadlineIsStored`
  of `MCKeyLineage` states it.
* `author_rule` seeds the activations of a version with typed keys before any
  run has recorded their identities, and until then the public views show the
  surrogates that `docs/history/m15-contract.md:37` keeps out of them.
  `SurrogatesHidden` of `KeyedActivations` states it.
* After SIGTERM the worker's main function returns, the process exits with
  status 0, and PostgreSQL does not start it again (`managed.rs:188`), although
  `docs/v1-troubleshooting.md:63` says the worker is restarted.  `WaitLatch` has the
  step to `STOPPED`.
* The lock under which `claim_episode` counts leases is a version's and the
  limit an agenda group's (`pg_react--0.1.1.sql:2338`): the leases of a group that
  several versions share are not bounded by it.  `VersionBudget` says what is.

## Proofs

All theorems hold for every value of the constants, from the named assumptions on
them in the modules (which TLC evaluates on every run).  Beside types these say:
`KeysAssumption`, that a version has finitely many keys (the agenda would not be
finite otherwise, nor its backlog a number); `AgendaAssumption`, that the agenda
is finite and salience an integer; `GroupAssumption`, that `max_leases` is a
natural number; `SettingsAssumption`, that a batch size and
`max_claims` are natural numbers; `TypedKeysAssumption`, that the typed
keys are tuples the codec takes, the rows' own among them.

A theorem about procedures the operator may use has its hypothesis spelled out:
`"RECOVERY" \notin Procedures` and the like, each of which is a choice an
operator makes, and without which a run shows the property to fail.

`RuleRuntime`, for every set of keys, rows, conflict keys and workers, every limit
and every choice of procedures:

* `TypeCorrect`: `Spec => []TypeOK`.  `TypeOK` is not inductive: a claim stores
  the episode's conflict key, which is one only if the event has a row to take
  it from.  `TypeInv` adds that an active key shows its row and that an event
  has old or new bindings; each action preserves it, one lemma per action.
* `EpisodesSettleOnce` and `LeasesAreRespected`.  The inductive invariant is
  `AttemptsCounted`: an episode's attempts, minted tokens and current token move
  in step, and recorded attempts are older than the current lease.  Every step
  is shown to be `Quiet` (records nothing; rows move within the bookkeeping) or
  to be `Settles` (the holder's outcome); the invariant and the action property
  follow from these two cases alone.
* `ConflictKeysExclude`: without `RECOVERY` among the procedures,
  `[]ConflictExclusion`.  `ConflictExclusion` does not say whose the conflict lease
  of a leased episode's key is, nor that only a lease can be expired;
  `Exclusive` says both.  It is a predicate of any agenda and conflict table, so
  that a claim can be proved in two halves, the sweep and the lease.
* `RuntimeImplementsLifecycle`: `[][SeededLifecycle!Next]_states`.  The refinement
  mapping forgets bindings and revisions; the oracle's match set of a step is the set of
  keys active after it.  Initially seeded keys are the oracle's first match
  set, so the theorem is about the steps.
* `HistoriesCohere`: `[]HistoryCoherent`, for restores and reconciliations of
  both modes.  What the next `CHANGE` of a key starts from is the row the key
  shows, so `HistoryInv` adds that the last event of an active key carries the
  watched columns shown; it also covers events whose predecessor is not on record
  because a `STATE_ONLY` reconciliation left it out.  The steps of all actions
  are reduced to two forms first: what happens to one activation row (`RowStep`)
  and what is recorded of it (`Advance`).
* `IdentitiesAreNew`: no step ever computes the identity of an event on record, so
  that `ON CONFLICT DO NOTHING` in `emit_event` never drops a transition.
* `HistoriesComplete`: if no reconciliation is `STATE_ONLY`, `[]HistoryComplete`.
  `CompleteInv` says it of the open generation too.
* `LoopIsRefresh`: `[]LoopsAreRefreshes`, the first half of `RefreshIsLoop`.  A loop
  that gets through, in whatever order it takes the buffered keys, has written what
  `Refresh` writes, and its comparisons with the limit, one per key, hold of all new
  episodes together.  `TurnExtends` says what a turn adds to the turns before it, by
  induction over which the turns so far are a refresh of the keys so far; counting
  needs the agenda to be finite (`FiniteAgenda`), which it stays because a
  transaction emits at most one event per key.  That some order gets through
  whenever `Refresh` may happen (`RefreshesAreLoops`) is model-checked.
* `StateMirrors`: if no refresh is begun over a due recovery
  (`REFRESH_OVER_RECOVERY`, finding 2), the activation state equals the match
  relation whenever no barrier stands.  `MirrorInv` must also cover the refresh
  barrier, since clearing it checks nothing.
* `RemovalsLeaveRetries`: without `REPAIR`, `[]OnlyRetriesRemain`.  This is what
  holds where finding 3 refutes more: a removed version has open work only in
  `RETRY_WAIT`, and no lease.  It is inductive with `TypeInv`: nothing refreshes a
  dropped relation, and a replacement removes only a version with nothing open.
* `BindingsAreLatest`: without `RECOVERY`, an active key shows its current row, all
  columns included.  This is the property finding 1 refutes: restores and their
  reconciliation are its only cause.
* `EffectsMatch`: under the hypothesis of `StateMirrors`, an effect commits only
  while the relation supports it.  The worker checks the episode against the
  activation row, `HistoryInv` relates the event to that row, `MirrorInv` the row
  to the relation, and a barrier keeps the worker out in between.
* `EffectsAreInOrder`: `EffectsInOrder`, without a hypothesis.  `HistoryInv` places
  every recorded episode at or before its key's activation row, an episode that
  passes the worker's check is at it, and `SettledOnce` excludes that it is there
  twice.

`ManagedWorker`, for any number of sessions, versions, episodes and groups:

* `WorkerTypeCorrect`: `Spec => []TypeOK`.  A batch of `pg-reactd` must not be empty
  for its next execution to have an episode (`Sound`), and the candidates must be a
  sequence: `SortedLists` shows that `Sorted` lists a finite set in a strict total
  order, each member once (ranks are an injection into 0 .. n - 1, so onto), and
  `CandidatesInOrder` that age bucket, salience and position are such an order.
* `BudgetHeld`: `Spec => []VersionBudget`.  A claim counts the leases its own
  transaction sees, so the budget alone is not inductive.  `ClaimsLocked` adds
  that whatever a session has claimed and not committed is of a version whose
  lock it holds; under the lock, what it sees is all there is.  `ProcessIdle`
  ties the worker's process to its session: a process outside of a cycle has no
  transaction.  `ClaimsApart` is the corollary that two claims in progress never
  hold episodes of one version.
* `OrdersNeverClash`: `Spec => OrdersAgree`.  `claim` sorts once by age bucket,
  salience and availability, `claim_episode` later by age bucket and availability
  as they are then.  Two invariants make the orders agree within a version: the
  fairness window closes over older episodes first (`AgendaInv`), so that age
  buckets never contradict availability; and what is left of a claim's list stays
  in the order of availability (`InOrder`), because the queue only grows while
  nobody else claims and otherwise only loses episodes (`OrderKept`).
* `HoldersAreUnique`: `Spec => HeldByOne`.  What a session has claimed, or is to
  execute after its commit, is open, no other session's, and not the work of a
  `run()` that has not committed.  The invariant is `HoldInv`: claimed episodes have
  no committed lease yet, those of a batch have their session's; a claim lists an
  episode once; and only the holder of the exclusive coordinator lock has
  uncommitted coordination, while nobody else claims.  Two claims are kept apart by
  the version locks (`ClaimsApart`).
* `WorkersImplementPool`: `Spec => Pool!Spec`, initial states included.  Each step of
  a session, of the worker's cycle or of its environment is one of the pool's or a
  stutter: a claim takes from what no session has, the commit of `pg-reactd` is
  `Lease`, that of a cycle `FinishWhole`, and an abort, a deadlock, a failing cycle, a
  crash and a restart are `GiveBack` for the sessions concerned.  `HoldInv` gives that
  what is claimed was free; `CoordinationInv` adds that only the managed worker, in
  its one transaction, has uncommitted coordination, and that it never has a batch.
  The pool speaks of committed work, so which episodes a cycle had executed before
  it failed makes no difference to it.

`VersionGateProofs`, for texts of any length and any `MaxU32`:

* `GatePassesNumbers`: a text passes the gate behind the prefix exactly if it is the
  decimal text (`Decimal`) of a number from 1 to `MaxU32`.  `TextOfNumber` is that a
  number's text has digits only, no leading zero, and is read back as the number,
  by induction over the number; `NumberOfText` that the text of what a text comes to
  is that text, by induction over its length.  Both recursive functions are shown to
  satisfy their equations first (`Recursion`).  The inductions are in the form of
  `KeyCodecProofs`.
* `GateIsExact`: `Spec => []VersionGateExact`.  The worker enters a cycle through the
  gate only, and the installed version does not change while it is in one.

`KeyCodec`, for the tuples that `encode_tuple_v2` takes: 1 to 255 components, each a
byte string of an admitted type and at most 2^32 - 1 bytes:

* `CodecIsInjective`: two tuples with the same canonical key are the same tuple.
  No component's encoding is a proper prefix of another's (`ComponentsPrefixFree`: the
  type byte and the big-endian length come first), and `Encodings` only ever adds at
  the end (`EncodingsGrow`).  The inductions, over the number of components read,
  are in the form of a set of natural numbers that contains zero and successors
  (`Inductive`, from the well-foundedness of their order): the library's induction
  theorems have an operator for a parameter, which the provers here cannot
  instantiate.

`KeyedActivations`, for every set of rows and typed keys and every digest, however
often it collides:

* `KeyedTypeCorrect` and `ActivationsMatchRows`: `[]TypeOK` and
  `[]ActiveKeysMatch`.  The core is that the finalizer's test of activation uuids
  also covers two keys of one refresh (`OwnActivation`), so each touched key has a
  row of its own, and that a key the delta did not touch was active before and
  still is (`UntouchedIsActive`).
* `IdentitiesStandForOneKey`: `[]CanonicalKeysDistinct`.  A recorded identity is the
  canonical key of a typed key with the surrogate it is recorded under
  (`IdentityInv`), and by `CodecIsInjective` of no other.
* `QuietRunsIdentifyKeys`: a run no write overtakes leaves every active key with
  its own identity.  `RunKnowsRows` is what a run carries from its check to its
  commit.
* `KeyedImplementsOracle`: `Spec => Oracle!Spec`, initial states included: each
  accepted refresh is one `ApplyFinalMatches` of the rows' surrogates, and
  everything else stutters.

Only model-checked:

* liveness under fairness (`WorkSettles`, `WorkDrains`, `UrgentWorkDrains`,
  `CoordinationResumes`), which the prover has no rules for;
* that the loop of a refresh can get through whenever the action `Refresh` is allowed
  (`RefreshesAreLoops`), since it needs an order of the keys to be constructed;
* everything of `KeyLineage` and `QueryTrees` (`LineageExact`, `DirectIsStored`,
  `OperatorIsComputed`, `SupportsKeepKeys`): the walks over query trees are
  `RECURSIVE` operators, which the prover's SMT backend does not accept, and what
  they compute for every tree is an induction over data.

## Not modelled

* Policy-set scoping (`m31.sql`): whether a member has support depends on the
  policy-set tables and their own barriers.  The modules describe rules that no
  policy set scopes, for which the wrappers pass every call on; the hazard of a
  withdrawal that leaves its conflict lease is listed without a property.
* Batched execution: an alternative to the item-wise execution, whose checks it
  repeats for each item in one transaction.
* The deadline clock and temporal rules: a second kind of rule with state of its
  own, driven by time samples.  Only the validation of a deadline rule is
  modelled.
* The fixpoint of derivation programs, support counts and packs: `KeyLineage`
  has programs of one rule, their drift check and the keys of their supports.
* Windows and watermarks, effective policies and decision programs, policy sets,
  shared conditions and parameter families, immediate-mode maintenance,
  retention: separate subsystems on top of the modelled core, none of which
  changes what is said of it here.
* Barriers and automatic refresh across versions: `RuleRuntime` has barriers and
  one version, `GlobalClaim` several versions and no barrier, so that one version
  waiting for its reconciliation stops `run` for all of them is listed as a hazard
  without a property.
* `pg-reactd`'s batch mode and a standby server.
* Packages, review tokens, the deployment facade, reports (explanation,
  comparison, replay, backtest), roles, grants and metrics, the pg-mdm adapter:
  catalogue bookkeeping, read-only or outside of the engine.
