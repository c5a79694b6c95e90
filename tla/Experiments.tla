---------------------------- MODULE Experiments ----------------------------
(***************************************************************************)
(* DeterministicExperimentEngine of src/src/amrte/validation/experiments.py*)
(* A definition is planned into a run of trials, one for each combination  *)
(* of its parameters; a run is executed some trials at a time, and a       *)
(* manifest describes the result of a run that is complete.  The scores    *)
(* are left out: a trial either has them or failed.                        *)
(***************************************************************************)
EXTENDS Evidence, FiniteSetsExt, Store

CONSTANTS
  Definitions,            \* the definitions that are registered
  Offered,                \* sets of observations they are registered with
  MaxObservations, MaxTrials, MaxExperimentCheckpoints, MinimumSample, AdequateSample,
  RunEpochs,              \* the recovery epochs
  MaxPlans                \* bound: the runs that are planned

VARIABLES
  exp,                    \* the engine
  savedExp,               \* the recovery state that was saved last, with its epoch
  plans                   \* bound: how often a run was planned

experimentVars == <<exp, savedExp, plans>>

ExperimentMode == {"EXPLORATORY", "CONFIRMATORY", "PRE_REGISTERED"}
ExperimentState == {"VALIDATED", "PARTIAL", "COMPLETED", "CANCELLED"}
TrialState == {"PENDING", "COMPLETED", "FAILED", "CANCELLED"}
ValidationQuality == {"VALID", "LIMITED", "INSUFFICIENT", "UNKNOWN"}

NeutralObservation ==
  [id : Nat, subject : STRING, category : STRING, observed : Time, known : Time, dataset : STRING]

\* manifest: the subjects of the dataset; trials: the combinations of the grid.
ExperimentDefinition ==
  [id : STRING, mode : ExperimentMode, dataset : STRING, manifest : SUBSET STRING, trials : Nat \ {0},
   subjects : SUBSET STRING, categories : SUBSET STRING, holdout : SUBSET STRING, start : Time, end : Time,
   asOf : Time, registered : Time \cup {None}]

\* ValidationConfiguration.validate.
ExperimentConfiguration ==
  /\ {MaxObservations, MaxTrials, MaxExperimentCheckpoints, MinimumSample, AdequateSample} \subseteq Nat \ {0}
  /\ MinimumSample <= AdequateSample

ASSUME ExperimentAssumption ==
  /\ ExperimentConfiguration /\ RunEpochs \subseteq Nat /\ MaxPlans \in Nat
  /\ Definitions \subseteq ExperimentDefinition
  /\ \A offered \in Offered : offered \subseteq NeutralObservation

-----------------------------------------------------------------------------
\* _validate_definition and _valid_observation.
ValidDefinition(d) ==
  /\ d.start <= d.end /\ d.end <= d.asOf
  /\ d.mode = "PRE_REGISTERED" => d.registered # None /\ d.registered <= d.start
  /\ d.holdout \subseteq d.manifest

ValidObservation(o, d) ==
  /\ o.observed <= o.known /\ o.known <= d.asOf
  /\ d.start <= o.observed /\ o.observed <= d.end
  /\ o.dataset = d.dataset /\ o.subject \in d.manifest

\* _eligible: of all observations, whatever definition they were registered with.
EligibleObservations(d) ==
  {o \in exp.observations :
     /\ o.dataset = d.dataset /\ o.subject \in d.subjects \ d.holdout
     /\ d.categories # {} => o.category \in d.categories
     /\ o.known <= d.asOf}

\* runs and trials are kept by their identities: a run's is its experiment and
\* its epoch, a trial's its experiment and its number.
FreshExperiments ==
  [definitions |-> {}, observations |-> {}, runs |-> <<>>, trials |-> <<>>, checkpoints |-> <<>>,
   manifests |-> {}, restricted |-> FALSE,
   superseded |-> {}]     \* history: manifests whose experiment was planned again

RegisterExperiment(d, offered) ==
  /\ \A e \in exp.definitions : e.id # d.id
  /\ ValidDefinition(d) /\ \A o \in offered : ValidObservation(o, d)
  /\ Cardinality(exp.observations) + Cardinality(offered) <= MaxObservations
  /\ exp' = [exp EXCEPT !.definitions = @ \cup {d}, !.observations = @ \cup offered]
  /\ UNCHANGED <<savedExp, plans>>

\* A dictionary after an item was assigned under some keys.
Assigned(f, keys, item) == [k \in DOMAIN f \cup keys |-> IF k \in keys THEN item ELSE f[k]]

\* plan: a run is of an epoch, and its trials are not: they begin again.
PlanExperiment(d, epoch) ==
  /\ plans < MaxPlans /\ plans' = plans + 1
  /\ d \in exp.definitions /\ d.trials <= MaxTrials
  /\ LET trial == [state |-> "PENDING", quality |-> "UNKNOWN",
                   eligible |-> {o.id : o \in EligibleObservations(d)}]
         run == [id |-> <<d.id, epoch>>, state |-> "VALIDATED", trials |-> d.trials,
                 completed |-> {}, failed |-> {}, cancelled |-> {}, card |-> None]
     IN exp' = [exp EXCEPT
                  !.runs = Assigned(@, {run.id}, run),
                  !.trials = Assigned(@, {<<d.id, k>> : k \in 1..d.trials}, trial),
                  !.superseded = @ \cup {m \in exp.manifests : m.run[1] = d.id}]
  /\ UNCHANGED savedExp

SampleQuality(n) ==
  IF n < MinimumSample THEN "INSUFFICIENT" ELSE IF n < AdequateSample THEN "LIMITED" ELSE "VALID"

\* replay_fingerprint: what happened to the trials of a run.
ReplayFingerprint(run, trials) ==
  [state |-> run.state, card |-> run.card,
   trials |-> [k \in 1..run.trials |-> trials[<<run.id[1], k>>].state]]

\* _scorecard: its warning of a small sample counts the trials that completed.
Scorecard(run, trials) ==
  [run |-> run.id, completed |-> run.completed,
   quality |-> SampleQuality(MapThenSumSet(LAMBDA k : Cardinality(trials[<<run.id[1], k>>].eligible),
                                           run.completed))]

\* _checkpoint: numbered by the checkpoints of the run that are still kept.
Checkpointed(checkpoints, run) ==
  LET number == Cardinality({i \in DOMAIN checkpoints : checkpoints[i].id.run = run.id}) + 1
      checkpoint == [id |-> [run |-> run.id, number |-> number, state |-> run.state,
                             completed |-> run.completed]]
  IN Evicted(Put(checkpoints, checkpoint), MaxExperimentCheckpoints)

Over == {"COMPLETED", "CANCELLED"}

\* execute: the first trials that are left, up to maximum_trials in all (None
\* or 0: all of them), of which those in fails have an observation that cannot
\* be scored.
ExecuteRun(run, maximum, fails) ==
  LET limit == IF maximum = None \/ maximum = 0 THEN run.trials ELSE maximum
      left  == (1..run.trials) \ (run.completed \cup run.failed)
      asked == {k \in left : Cardinality({j \in left : j < k})
                               < limit - Cardinality(run.completed \cup run.failed)}
      Finished(id, trial) ==
        IF id[1] # run.id[1] \/ id[2] \notin asked THEN trial
        ELSE IF id[2] \in fails THEN [trial EXCEPT !.state = "FAILED"]
        ELSE [trial EXCEPT !.state = "COMPLETED", !.quality = SampleQuality(Cardinality(trial.eligible))]
      trials   == [id \in DOMAIN exp.trials |-> Finished(id, exp.trials[id])]
      terminal == asked = left
      counted  == [run EXCEPT !.completed = @ \cup (asked \ fails), !.failed = @ \cup (asked \cap fails),
                              !.state = IF terminal THEN "COMPLETED" ELSE "PARTIAL"]
      updated  == [counted EXCEPT !.card = Scorecard(counted, trials)]
      manifest == [run |-> run.id, card |-> updated.card, fingerprint |-> ReplayFingerprint(updated, trials)]
  IN /\ run.state \notin Over
     /\ fails \subseteq {k \in asked : exp.trials[<<run.id[1], k>>].eligible # {}}
     /\ exp' = [exp EXCEPT !.trials = trials, !.runs = Assigned(@, {run.id}, updated),
                           !.checkpoints = Checkpointed(@, updated),
                           !.manifests = IF terminal THEN @ \cup {manifest} ELSE @]
     /\ UNCHANGED <<savedExp, plans>>

\* cancel: what is left, and nothing of a run that is over.
CancelRun(run) ==
  LET left    == (1..run.trials) \ (run.completed \cup run.failed)
      updated == [run EXCEPT !.state = "CANCELLED", !.cancelled = left]
  IN /\ run.state \notin Over
     /\ exp' = [exp EXCEPT
                  !.trials = [id \in DOMAIN @ |-> IF id[1] = run.id[1] /\ id[2] \in left
                                                  THEN [@[id] EXCEPT !.state = "CANCELLED"] ELSE @[id]],
                  !.runs = Assigned(@, {run.id}, updated), !.checkpoints = Checkpointed(@, updated)]
     /\ UNCHANGED <<savedExp, plans>>

\* reconcile: the trials a run counts as completed are.
RunReconciles(e, run) ==
  /\ run.completed \cup run.failed \cup run.cancelled \subseteq 1..run.trials
  /\ \A k \in run.completed : /\ <<run.id[1], k>> \in DOMAIN e.trials
                              /\ e.trials[<<run.id[1], k>>].state = "COMPLETED"

SaveExperiments(epoch) ==
  /\ savedExp' = [epoch |-> epoch, state |-> exp]
  /\ UNCHANGED <<exp, plans>>

\* restore, in this process or a new one: a state that does not reconcile is assigned, and restricts.
RestoreExperiments(epoch) ==
  /\ savedExp # None
  /\ exp' = IF savedExp.epoch # epoch THEN [exp EXCEPT !.restricted = TRUE]
            ELSE LET runs == savedExp.state.runs
                 IN [savedExp.state EXCEPT
                       !.restricted = \E id \in DOMAIN runs : ~RunReconciles(savedExp.state, runs[id])]
  /\ UNCHANGED <<savedExp, plans>>

ExperimentInit == exp = FreshExperiments /\ savedExp = None /\ plans = 0

ExperimentNext ==
  \/ \E d \in Definitions, offered \in Offered : RegisterExperiment(d, offered)
  \/ \E d \in exp.definitions, epoch \in RunEpochs : PlanExperiment(d, epoch)
  \/ \E id \in DOMAIN exp.runs, maximum \in {None, 1}, fails \in SUBSET {2} :
        ExecuteRun(exp.runs[id], maximum, fails)
  \/ \E id \in DOMAIN exp.runs : CancelRun(exp.runs[id])
  \/ \E epoch \in RunEpochs : SaveExperiments(epoch)
  \/ \E epoch \in RunEpochs : RestoreExperiments(epoch)

ExperimentSpec == ExperimentInit /\ [][ExperimentNext]_experimentVars

-----------------------------------------------------------------------------
ExperimentTypeOK ==
  /\ exp.definitions \subseteq ExperimentDefinition /\ exp.observations \subseteq NeutralObservation
  /\ \A id \in DOMAIN exp.runs : exp.runs[id].state \in ExperimentState
  /\ \A id \in DOMAIN exp.trials :
       exp.trials[id].state \in TrialState /\ exp.trials[id].quality \in ValidationQuality

\* What a manifest says of a run is found again when the run is replayed, after
\* any calls, restarts and restores, as long as its experiment was not planned
\* again and has one run: the run is complete, with the same scorecard and the
\* same outcome of every trial, each completed or failed, and it reconciles.
ReplayHolds ==
  ExperimentTypeOK /\ \A m \in exp.manifests \ exp.superseded :
    Cardinality({id \in DOMAIN exp.runs : id[1] = m.run[1]}) = 1 =>
      LET run == exp.runs[m.run]
      IN /\ ReplayFingerprint(run, exp.trials) = m.fingerprint
         /\ RunReconciles(exp, run)
         /\ run.completed \cup run.failed = 1..run.trials /\ run.completed \cap run.failed = {}
=============================================================================
