# AMRTE: a TLA+ verification project

AMRTE is a Python research engine (`src/src/amrte`, host `src/run_amrte.py`):
it replays market data, forms hypotheses, and records what became of them. It
trades nothing. What has to be right is its bookkeeping: checkpoints that
survive crashes, a recovery gate that decides whether a process may run,
ledgers whose records fit together after restarts, retries, evictions and
duplicate requests, restrictions that stay until they are earned back, and
answers about a time that know nothing of a later one. These modules model that
bookkeeping from the source, TLC checks them on small instances, and TLAPS
proves the central properties for every instance.

Paths below are relative to `src/`; `core/`, `operations/`, `research/` and so on
stand for `src/amrte/core/` etc. `PROJECT.json` maps every definition to its
lines, and lists every component with its status and every hazard at its line.

## 1. Inventory

| Part | State it keeps | What is hard | What makes it correct |
|---|---|---|---|
| Checkpoint repository, `core/persistence.py` | two generation files, a pending file, storage health | a save is eight durable steps; the process may die, or a call be refused, between any two | no torn generation; an acknowledged checkpoint is what the next reader gets; one linear chain |
| Research process `operations/runtime.py`, gate `core/recovery.py`, `core/engine.py`, `core/state.py`, hosts `run_amrte.py`, `web/app.py` | engine state, recovery epoch, report | processes follow one another on one directory; a start searches it twice; a shutdown saves whatever was decided | a process runs only on the last state an accepted process saved; a reported stop is durable; every start and stop comes to an end |
| Research lifecycle, `research/lifecycle.py` | lifecycles with versions, transitions and events, request keys | stale versions, duplicate deliveries after a restart, damaged recovery states | records fit together; the past is not rewritten; a restore is whole or none |
| Simulated workflow, `simulation/workflow.py` | submissions, bounded ledger, idempotency keys | partial completions, late events, timeouts racing answers, eviction over all submissions | work adds up to what was authorized; a key's work is done once; totals survive a restore |
| Reliability, `research/reliability.py` | index, versions, outcomes, events | confirmations counted across outcomes and restarts | the index is what its outcomes lead to; stages improve one at a time, when confirmed |
| Temporal quality, `research/temporal_quality.py` | budgets of day and week, streak, cooldown | rollover of two windows, breaches during a cooldown | budgets are what the outcomes used; no permission before a cooldown was served |
| Systemic safety, `research/system_safety.py` | status, incident, signals | signals during a recovery, versions of one time, composition of three engines | a latch ends after its probation only; one incident; a block of one engine blocks all |
| Observation quality, `research/observation_quality.py` | latest snapshot and history by scope, bounded | recovery of what was blocked, over eviction and restarts | good quality is given again after its confirmations |
| Forward operations, `operations/forward_ops.py` | instance token, permission, sessions, observations, decisions | partial restore, evidence delivered again | the ledger is forward only and decides each observation once |
| Deployment, `operations/deployment.py` | component health, updates, alerts, one permission | several reports, and updates that start, fail and end, meet in one permission | a severe report holds it; a summary names all a blocking component affects |
| Observability `core/observability.py`, errors `core/error_management.py` | hash chain, retained history, files, storm windows, notices | retention against the chain, full files, a clock that goes back | audit events are kept; the chain holds as long as nothing was dropped; storms are announced, notices spaced |
| Configuration, `core/config_engine.py` | active and last valid snapshot | layers that restrict and loosen one after the other | what a restrict-only switch was restricted to stays; the active snapshot is valid |
| Risk, `risk/` | exit plans and ledgers, protective boundaries, theses, adaptive state | bars that jump targets, callers with stale states, caches, evictions | exposure adds up; boundaries only tighten; restrictions are earned back |
| Portfolio, `portfolio/` | records, reservations, strategy health, clusters | reservations that expire, are reused and committed late | limits hold; allocation and clusters follow their confirmations |
| Strategies, `strategies/` | registry, evaluation cache, state, candidates, arbitration cache | cached results asked for again at another time | a strategy changes no state but its own; what is permitted together may be |
| Market, `market/` | cached series, event analyses, regimes, session state, structure | caches asked about other times, clock changes, late revisions | an answer about a time knows no later one; what was published is not taken back |
| Validation, `validation/` | experiments, trials, holdout uses, results | runs of several plans over one holdout | what is spent is not called clean; experiments replay |
| Web console, analytics, services | none | | not modelled (section 5) |

How they interact. The host builds an engine, the runtime opens the repository
in `data/state`, searches it, lets the recovery gate decide, and starts the
engine; a checkpoint or a shutdown writes the engine's state and the recovery
epoch back. The other engines are objects of one process, each guarded by a lock:
their public methods are atomic to each other, callers interleave between
methods and hold results of earlier calls, and engines reach the outside through
recovery states that are taken from one engine and given to another.
`phase_vii_snapshot` composes the answers of reliability, temporal quality and
safety; the others pass their results on through their callers.

## 2. Modules

One action is one accepted call under the engine's lock, with every change it
makes; a call that is refused changes nothing and is not an action, unless the
refusal itself changes state (a restore that assigns before it reconciles, for
example). Time is a small range of instants, and calls name theirs.
A process stops by taking `recovery_state` and giving the engine up: what an engine
does after its state was taken is lost by the restore that uses it. History variables are named where
they are declared.

- **AtomicStore**: what the repository promises, one durable register.
- **CheckpointStore**: `LocalCheckpointRepository`. `current`, `previous` and
  `pending` are the files, each `Absent`, `Corrupt` (what `_load_path` rejects)
  or a checkpoint. `save_checkpoint` is one action per durable step, named by
  `pc`; `SaveFails` is an `OSError` at any of them, `LatestValid` the search with its
  quarantine, `Crash` the end of the process, `Damage` the medium. Identities
  are equal exactly when the hashed fields are.
- **ResearchRuntime** extends it by the process: `Launch`, `OpenRepository`,
  `LoadExisting`, `Recover`, `StartEngine` are the stages of `start`, `Gate` the
  decision of `recover` in the order of its tests, and checkpoint, shutdown and
  death at any stage the rest. The hosts differ in what a failed `start` leads to.
- **Lifecycle**: `ResearchLifecycleEngine`. A transition and the event committed
  with it are one record in `history[h]` and one in `events[h]`. Callers hold
  any version a lifecycle ever had. `LoseRecord` is a stored state that lost records.
- **Workflow**: `DeterministicWorkflowEngine`. `submission` is indexed by requests
  (the identity hashes the request), events are stored by request, each with its place
  in the engine's ledger, so that eviction over all submissions is removal of the
  least places; `Regrouped` is the sort of `restore`, in any order of the
  submissions because their identities are hashes. `done` (work per key) and `original`
  (the state as taken) are history.
- **Evidence, Reliability, TemporalQuality, SystemSafety, PhaseVII**: the engines that restrict
  the research process, one scope of each. `Evidence` is what they share. The state
  of a scope is a record, its versions a sequence; multipliers follow from the stage.
  `PhaseVII` puts the engines side by side with `phase_vii_snapshot`. Where the code
  chooses between versions by a hash, `SafetySnapshots` and
  `ProtectionSnapshots` leave the choice open.
- **Store**: Python's `OrderedDict` and `sum` as the engines below use them, and the lemmas about
  what they keep and add up to.
- **ForwardOps**, **Deployment**, **Observability** (with the error manager and
  the notification deduplicator), **ConfigEngine**, **ObservationQuality**:
  the engines of those names. `depEased`, `opsLosses`, `heard`, `occurred`,
  `announced` and `succeeded` are history.
- **ExitManagement**, **Protection** (over its exits), **ThesisInvalidation**,
  **AdaptiveRisk** (over its theses), **PortfolioRisk**, **StrategyHealth**,
  **Correlation**, **Arbitration**: the engines of risk, portfolio and
  arbitration. Decimal amounts are integers of a smallest unit, with the code's
  rounding where it rounds; correlation coefficients are inputs.
- **MarketData**, **NewsRisk**, **Regime**, **Sessions**, **Structure**,
  **Framework** (with the intelligence assembler), **Experiments**,
  **Robustness**: the engines that turn data into context, and those that judge
  strategies. Features and scores appear as readings and verdicts.
- **MCOperations**, **MCDecisions**, **MCMarket** put the engines of a group side
  by side and call one at a time (`called`): they share no state, as the frame conditions
  of their actions say. **MC\*** modules give the constants values; CheckpointStore's
  configurations need none. **\*_proofs** modules hold the theorems.

## 3. Runs

| Run (distinct states) | Instance and bounds | What it shows |
|---|---|---|
| `checkpoint_store` (375,286) | two payloads and one too large, four sequence numbers, two faults | `GenerationsNeverTorn`, `AcknowledgedSurvives`, `ChainOrInterrupted`, and `ImplementsAtomicStore`, the refinement |
| `research_runtime` (1.9 million) | both hosts, five seeded checkpoints (another configuration, unclean, protected, repeated keys, orphans) or none, three sequence numbers, one fault | `StartsFromAuthority`: the gate decided on the state the last accepted process left; `EndsDurably`: a reported stop is on disk |
| `research_progress` | the same, two sequence numbers | `StartsOrEnds`: under fairness a start ends in service or in the end of the process, and a shutdown in its end |
| `lifecycle` | one hypothesis, two epochs, four kinds of evidence, four transitions, two losses | `Reconciled` (what `reconcile` looks for does not occur), `SnapshotsFrozen`, `RestoreFaithful` |
| `workflow` (588,100) | four requests, two with one key, one above its authorization; one submission and three events kept, one retry, one loss | `Accounted` (work and events), `AnswersOnce` (work of a key, late answers), `RestorePreservesTotals` |
| `phase_vii` (1.88 million) | each engine called with seven outcomes, six results or six signals, of which four, four and three are processed; three instants over a day and a week; one loss | `EvidenceReplays` (state is what its evidence leads to), `ImprovementConfirmed`, `BlocksHold`, `Latched`, `IncidentsMatch`, `ReleasedAfterProbation`, `RestartPreserves` |
| `operations` (278,799) | two tokens, two sessions, five observations; three components; five inputs into a history of two; eight layers over five settings; two scopes | `ForwardSound`, `DeploymentSound`, `LayeredAndSafe`, `RecoveryIsConfirmed`, `AlarmsHeard`, `JournalKept` |
| `decisions` (248,029) | three exit plans, one protected; one thesis; three admissions of two groups; two windows of strategy health and of correlation; four opinions | `ExposureAccounted`, `OnlyTightens`, `RestrictionEarned`, `CapacityHeld`, `AllocationEarned`, `ClustersEarned`, `PermittedTogether` |
| `market` (164,394) | two series with a duplicate, a gap and a conflict; six versions of four events; seven observations of regimes, rebuilt from any two of them; five days over two clock changes; six bars; four snapshots; two experiments; two validation plans | `AsOfExact`, `BlackoutKept`, `RegimeConfirmed`, `OpenByTheWall`, `ValidationHolds`, `NothingRepainted`, `StatesIsolated` |
| `damaged_current` | one fault | **violated**: `Tests/Unit/test_persistence.py:121`, a failing save preserves the last valid checkpoint. A damaged current generation is copied over the valid previous one first |
| `restriction_bypass` | no seeds | **violated**: `Docs/RECOVERY.md:33`, a protected state stays restrictive. A refused start saves `READY` on its way out |
| `capacity_double_spent` | the amounts of a hypothesis differ between admissions | **violated**: `Docs/PROMPT_22_DELIVERY_REPORT.md:109`, reservations cannot double-spend capacity. An open reservation is reused whatever the amount, and the commit books the larger one |

Other disagreements between documents and code met while modelling are listed
in section 5.

### Why the bounds are enough
A save depends on the two generations and the request: three or four
sequence numbers give the first save, a save onto one generation, onto two, and
one that follows a failed one; two faults damage both generations. The gate's
inputs are taken from each of its branches. An authorization, a queue, an
activation and one more transition make four; two losses remove a transition and its
event, the only pair that leaves a legal shorter history. With one submission
kept every second request evicts the first, whose events stay; with three
events kept, an acknowledged submission completed in two parts fills the ledger.
An amount of 5 with a step of 2 is floored. Four outcomes go down by several stages and up by
one after two confirmations; four results cross a day, a week and both thresholds of a
budget, and extend a cooldown; three signals escalate and fall into a recovery
or a probation. In the three groups every bounded store holds one or two
entries, so that eviction happens; every counter of confirmations is two, so
that one is too few; caches hold one entry and are asked about two times; every
verdict, stage and health that a branch tells apart is among the inputs. Engines
that share no state are called one at a time. Counters that
only grow (`MaxEvents`, `MaxEvaluations`, `MaxMadeEvaluations`, `MaxMade`...) are
bounds of the model, named in the modules' CONSTANTS.

### Fairness, liveness, deadlock
`RFairSpec` adds weak fairness of `ProcessStep`, a process's own steps: `start`,
`checkpoint` and `shutdown` are plain calls of one thread, none of which waits for
anything, so that a process that is not killed goes on. Crashes, requests
and faults are not fair. The other engines do nothing by themselves and their callers
owe them no call: no liveness is claimed of them. Deadlock is checked except in
`decisions` and `market` (and `capacity_double_spent`), where every
engine's bounded history comes to an end.

## 4. Proofs

TLAPS proves the theorems below for every value of the constants that satisfies the
modules' named assumptions (`StoreAssumption`, `LifecycleAssumption`,
`EvidenceAssumption`, ...), which say what the code's configuration checks, or
its types, say. A few assumptions belong to the model and not to the code: the value `None` is none
of the records it stands beside (`NoIndexIsNone`, `NoProtectionIsNone`,
`NoStatusIsNone`, `NoNoticeIsNone`, `NoQualityIsNone`, `NoTimeIsNone`, `NoInstantIsNone`). TLC evaluates all of them in the
runs. `PROJECT.json` lists the theorems with what they say.

The argument is the same everywhere. The property of the run is seldom
inductive: what makes it so says what the engine holds between calls, and TLC
checked it on the run's instance before it was proved. A proof has one step per
action, under it one lemma for what the call computes and one for the parts
of the invariant it touches; the temporal step is the last.

- **ResearchRuntime_proofs**, of the repository: `TypeCorrect`, and `SaveInvariant`: at each `pc` of a save, what is in the
  pending file, in the generations and in memory, and how they compare with what was
  acknowledged. Without the position of the save neither safety nor the chain is
  inductive. From it `NeverTorn`, `AcknowledgedSafe`, `ChainSafe`,
  `ValidKept`, `AcknowledgedGrows`, and `Refinement`: under
  `stored <- Latest` every step of the repository is a step of `AtomicStore` or none.
  Of the process: `RuntimeInvariant` ties the stage of a process to what it has read:
  what was loaded is what the last accepted process left, whatever the first
  search quarantined. It carries over the repository's invariant
  (`HostedRepositorySafe`) and gives `AuthorityStarts` and the action property
  `EndsWithDurableState`.
- **Lifecycle_proofs**. `LifecycleInvariant` is the type, `SoundState` (every version one above the last, every
  transition qualified, events beside their transitions) of the engine and of the
  stored state, and what a damaged stored state still is. `AlwaysReconciled`,
  `ActivationQualified`, `RestoresFaithfully` and `SnapshotsAreFinal` follow.
- **Workflow_proofs**. `WorkflowInvariant` counts: the events of a submission are the last of its
  sequence, their work adds up to what it completed as long as none is missing, the ledger
  holds each as often as the submission does. Eviction removes the least places of the
  ledger, one submission's or another's; `WorkOf`, a recursive function, is shown to add
  up by induction over the length. `AccountsBalance`, `WorkedOnce`, `TotalsPreserved`.
- **PhaseVII_proofs** (reliability, safety, temporal quality, and the three together). Each engine has an invariant that relates its counters to the published
  versions: so many confirmations since the last worsening are so many versions;
  a latch is the last version's; a cooldown ends where the version that started it says.
  `ImprovementIsConfirmed`, `LatchedAlways`, `ReleaseNeedsProbation`, `CooldownsAreServed`,
  `OneIncident`. `EnginesAlone` shows that the composition's behaviours are
  each engine's, so that these hold of it too (`RestrictionsKept`, `IncidentsMatchTogether`);
  `BlocksAreHeld` and `RestartsPreserve` are about the composition itself, and so is
  `EvidenceIsReplayed`: the value an index has is where an induction over its events ends, in the
  engine and in the state that was taken; no event is later than the version its budget belongs to,
  so that none is of a window that begins with the next one.
- **Operations_proofs**. `ForwardIsSound` needs that the evidence of sessions, observations and decisions is
  accounted for in the stored state as well as in the engine; `DeploymentIsSound` that every open
  update remembers a permission; `AlarmsAreHeard` that windows and notices are never ahead of
  what occurred. `JournalIsKept` rests on what the sum of a file is without one event
  (`SumWith`): after retention either less than the limit is left or one file, each file's
  events are in order and every file's are later than the next one's, and what is emitted
  next has the highest number.
  `RecoveriesAreConfirmed` has a hypothesis, `RoomForAll`: the engine
  keeps the latest snapshots of all scopes. Without it the theorem is false, and the
  code does not promise it: eviction of a latest snapshot forgets that the scope was blocked.
  `ConfigLayered`: the layers are a recursive function over the sources, and by induction over them
  every snapshot that is built, active or the last valid one is sound.
- **Decisions_proofs**. `ProtectInvariant`: whatever state a caller still holds is one that was
  published and is nowhere below the invalidation, and a plan in force is the strongest of what
  it was given; `BoundariesTighten`. `HealthInvariant` ties an entry's counters to the published
  history: so many evaluations in a row were worse (better), and `until` is the end of the cooldown
  of the latest confirmed fall; `AllocationsAreEarned`. `ArbitrationInvariant`: a cached
  result is sound for the evaluations in its key; `PermissionsAgree`. `ClusterInvariant`: a
  cluster's counters are no more than the observations they stand for, entries since its latest
  release and exits since it was last retained; `ClustersAreEarned`.
  `RiskInvariant`: a decision's risk state is the last that was accepted, its counter so many milder
  proposals in a row, every result in the cache within its budget; that a composition leaves
  a part of the amount is an induction over the modifiers; `RestrictionsAreEarned`.
  `ExposureIsAccounted`: what a plan's ledger holds adds up, by induction over its stages, of which each
  takes a part of what the ones before it left.
  `PortfolioInvariant`, for `CapacityIsHeld`: every open reservation and every active record is
  of a request that was admitted, and within the limits it was admitted against. It has two
  hypotheses, and both are needed: nothing is reduced (otherwise the run `capacity_double_spent`
  refutes it), and no version of a record was forgotten. Without the second TLC finds an open record
  whose versions were all evicted, and which takes no capacity.
- **Market_proofs**. `NewsInvariant`: a cached answer is right for its key. `BlackoutsAreKept` has a hypothesis,
  `HorizonReaches`: no blackout begins before the window before its event. The code checks
  only that windows are not negative and looks no further ahead than the widest
  window before events, so that without it a blackout is missed. `RegimeInvariant`: the engine
  counts no more proposals, and no longer a persistence, than its history has; how the
  proposals come about takes no part in it, and a rebuild is an induction over the
  timeline; `RegimesAreConfirmed`.
  `FrameworkIsolated`: a strategy's state is what was last
  evaluated of it, and what the cache holds was made for its key.
  `MarketInvariant`, for `AnswersAsOf`: a cached series is right for *every* set of records with the
  fingerprint in its key, so that it is right again whatever the provider turned to in between.
  `SessionsFollowTheWall`: the invariant says only that the snapshot is one of an instant; the rest is
  arithmetic. Before and after the offset changes a wall time is shown by at most one instant, so that
  the first at which an opening is shown is over once the clock is past it, and the last at which a
  close is shown is to come until then.
  `ValidationIsSound` has two invariants. `ExperimentInvariant`: a run counts each of its trials once,
  finds them as it left them while no other run is of its experiment, and so does a manifest that was
  not superseded. `RobustnessInvariant`: there are the uses each judgement knew of, every later one
  knows of its seals and that they are used, and seals are only ever added at the end; so the first
  seal that holds a window stays the first, and what a window is found to be never gets better.
  `NothingIsRepainted`: the last snapshot is that of a series which the tape continues. What decides
  of a confirmed swing (the bars around it, its plateau, the swing it is compared with, the first
  bars beyond its price) lies before the end of the shorter series, so that it is the same in the
  longer one, unless the limit leaves swings out.

Some of the invariants say of a sequence that it is over *some* set of entries, or that there are
*some* uses a judgement knew of, which TLC cannot enumerate; it checked the rest of them, and the runs
check what they imply.

The library's induction theorems take an operator as a parameter, which the provers
cannot instantiate. `InductiveSet`, `LeastOf`, `IterationFacts` and `StepwiseFacts` of Store, and `HighestOf`,
state induction over the natural numbers for a *set*, which they can: recursive functions
over numbers (`WorkOf`, `Composed`, `Rebuild`, `Replay`, the iterations of eviction) are reasoned about that way.
So are sums over finite sets, by induction over their cardinality: `SumLess`, `SumWith` and
`WeighsFacts` of Store say what a sum is without one member, and when no sum is over a bound.

Only model-checked, and why:

- `StartsOrEnds` is a liveness property: it needs fairness and `ENABLED`. It is the one property of
  the passing runs that no theorem states.

## 5. Not modelled, and why

- Two processes on one directory at a time: the repository takes no lock, and
  the runbook prescribes one process. The maximum checkpoint age and the
  recovery modes no caller passes.
- Floating point: `market/features.py`, the three strategies and the scoring,
  `analytics/performance.py`, correlation estimates, resampling. TLC has no reals;
  they appear as readings, verdicts, coefficients and measured values.
- The web console and the dashboards: projections that keep no state. Services,
  identities, clocks and value types: they appear through what uses them.
- Formatting, redaction, hashing (equal exactly when the hashed fields are), and
  caches of computed reports that nothing reads back.
- Submission versions and snapshots of the workflow engine; losses of versions
  from recovery states; of the PhaseVII engines, episodes, durations and trigger codes.
- Of forward operations: backups, drift and readiness reports; of
  deployment: `diagnose` and the static manifests; of configuration: migrators.

Disagreements met while modelling, each reachable in its module, that no run states:

- `core/persistence.py:88` speaks of two crash-consistent generations; a crash between the two
  renames leaves the same checkpoint twice, which `validate_chain` rejects.
- `operations/runtime.py:107`: the runtime's own search has quarantined the damaged generation
  before the gate looks, so that a recovery from the previous one is not reported as such.
  Every checkpoint is written `CLEAN_SHUTDOWN`.
- `simulation/workflow.py:187`: a completion delivered twice counts twice, against
  `Docs/DETERMINISTIC_WORKFLOW_SIMULATION.md:14`: the event's identity contains the sequence
  number that the first delivery has advanced. A submission sent in anew after its key was lost starts
  at sequence 0 while its old events remain, and then takes none until they are evicted.
- `research/system_safety.py:139`: a probation confirmed and failed at one time leaves two versions that only a
  hash tells apart, against `Docs/PROMPT_30_DELIVERY_PHASE_VII_REPORT.md:71`.
- `operations/forward_ops.py:366`: `resume` after `shutdown` or `restore` runs without a token; a second
  `startup` lifts a restriction; `restore` accepts a state that lost a decision.
- `operations/deployment.py:266`: completing an update restores the permission captured before it.
- `core/observability.py:309`: after retention dropped the head, `verify_chain` reports corruption; an
  audit event is refused when nothing can be dropped for it.
- `core/config_engine.py:317`: `RESTRICT_ONLY` protects only switches that are on by default
  (`Docs/ARCHITECTURE.md:39`): numeric limits may be raised.
- `research/observation_quality.py:398`: `UNTRUSTED` turns into `POOR` without confirmation; eviction of
  a scope's latest snapshot forgets its block.
- `portfolio/risk.py`: reservations are not counted in group capacities; an admission as of an
  earlier time does not see later reservations; `portfolio/risk.py:231` forgets the versions of
  open records, which then take no capacity.
- `risk/exit_management.py`: `create_plan` again resets a plan to its full exposure;
  `risk/adaptive.py`: with a cooldown `DEFENSIVE` never recovers; `risk/protection.py`:
  `initialize` again loosens; `risk/invalidation.py`: an evaluation after cache eviction makes an
  invalidated thesis active again.
- `portfolio/strategy_health.py`: `STALE` replaces `SUSPENDED` and counts as recovery;
  `portfolio/correlation.py:313`: health of the last instrument replaces earlier ones.
- `market/service.py:117`: cached bars ignore the number required; `market/events.py:288`: cached
  analyses ignore the recovery epoch, and a blackout that begins before the widest window before
  events is missed; `market/regime.py`: confirmations need not be consecutive, and unless
  `entry_threshold` is 0 no published regime turns `UNKNOWN` again (its winning score is 0), against
  `Docs/REGIME.md:25`;
  `market/session.py:322`: one last instant for all instruments; `market/structure.py`: the `LAST` tie
  policy repaints. `strategies/framework.py:281`: a cached result is given whatever the gates say now.
- `validation/experiments.py`: `maximum_runs` is not enforced; `validation/robustness.py:432`: holdout
  uses are not in the recovery state.

## 6. Plan

Everything of sections 2 and 3 is written, checked and, as far as section 4
says, proved. What is left to prove, most important first:

1. `SafetySpec` and `ReliabilitySpec` as refinements of an engine that knows only stages and
   confirmations.
