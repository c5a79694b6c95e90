------------------------- MODULE ObservationQuality -------------------------
(***************************************************************************)
(* ObservationQualityEngine of                                             *)
(* src/src/amrte/research/observation_quality.py: a baseline from earlier  *)
(* observations, the regime of an observation's deviation from it, and the *)
(* quality and the restriction of research that follow.  The deviation's   *)
(* figures, which change no state, are left out; ratios are in percent.    *)
(***************************************************************************)
EXTENDS Evidence, Store

CONSTANTS
  Scopes,                 \* subject and channel
  QualityObservations,           \* what callers pass, see ScalarObservation
  ObservationSets,        \* the histories callers pass
  WorkflowEvidence,       \* workflow evidence callers pass
  MinimumSamples, MaximumSamples, MaximumAge,
  ElevatedRatio, HighRatio, ExtremeRatio,
  DegradedMultiplier, PoorMultiplier,
  QualityConfirmations,   \* recovery_confirmations
  FailureLimit,           \* repeated_failure_limit
  MaxSnapshots, MaxScopeHistory,
  MaxEvaluations,         \* bound: evaluations of a scope
  MaxQualityEpoch         \* bound: restarts

VARIABLES
  quality,       \* the engine
  qualityEpoch,  \* the recovery epoch the process is in
  qualitySaved,  \* a recovery state, while no engine has it
  heard          \* history: the raw and published states of a scope

qualityVars == <<quality, qualityEpoch, qualitySaved, heard>>

ObservationHealth == {"HEALTHY", "DEGRADED", "STALE", "INVALID", "UNAVAILABLE", "UNKNOWN"}

DeviationRegime == {"NORMAL", "ELEVATED", "HIGH", "EXTREME", "UNKNOWN"}

ResearchQualityState == {"HEALTHY", "DEGRADED", "POOR", "UNTRUSTED", "UNAVAILABLE", "UNKNOWN"}

Poor == ResearchQualityState \ {"HEALTHY", "DEGRADED"}

ScalarObservation ==
  [scope : Scopes, value : Nat, observed : Time, available : Time,
   lineage : STRING, health : ObservationHealth]

WorkflowQualityEvidence == [scope : Scopes, health : ObservationHealth, at : Time]

\* validate
QualityConfiguration ==
  /\ MinimumSamples >= 2 /\ MaximumSamples >= MinimumSamples
  /\ {MaximumAge, QualityConfirmations, FailureLimit, MaxSnapshots, MaxScopeHistory}
       \subseteq Nat \ {0}
  /\ 100 <= ElevatedRatio /\ ElevatedRatio < HighRatio /\ HighRatio < ExtremeRatio
  /\ {PoorMultiplier, DegradedMultiplier} \subseteq Percent
  /\ PoorMultiplier <= DegradedMultiplier

ASSUME QualityAssumption ==
  /\ QualityConfiguration
  /\ QualityObservations \subseteq ScalarObservation
  /\ \A h \in ObservationSets : h \subseteq ScalarObservation
  /\ WorkflowEvidence \subseteq WorkflowQualityEvidence

\* What evaluate publishes, and what recovery_state holds of it.  The identity
\* stands for the content.
ResearchQualitySnapshot ==
  [id : Scopes \X ResearchQualityState \X ResearchQualityState \X Nat \X Nat \X Time \X Nat,
   scope : Scopes, raw : ResearchQualityState, published : ResearchQualityState,
   multiplier : Percent, failures : Nat, progress : Nat, epoch : Nat]

LatestSnapshot == [id : Scopes, result : ResearchQualitySnapshot]

QualityRecoveryState ==
  [epoch : Nat, latest : Seq(LatestSnapshot),
   histories : [Scopes -> Seq(ResearchQualitySnapshot)]]

\* Python's None is neither.
ASSUME NoQualityIsNone ==
  None \notin ResearchQualitySnapshot /\ None \notin QualityRecoveryState

FreshQuality ==
  [latest |-> <<>>, histories |-> [s \in Scopes |-> <<>>], snapshots |-> <<>>,
   restricted |-> FALSE]

(***************************************************************************)
(* The evidence.                                                           *)
(***************************************************************************)

ValidObservation(o) == o.available >= o.observed

\* Whether a precedes b in a baseline.
Before(a, b) ==
  \/ a.observed < b.observed
  \/ a.observed = b.observed /\ a.available < b.available
  \/ a.observed = b.observed /\ a.available = b.available /\ a.value < b.value

\* _admit, and the newest MaximumSamples of what is admitted.
Admitted(observations, asOf) ==
  {o \in observations : o.available <= asOf /\ o.observed <= asOf /\ ValidObservation(o)}

Samples(observations, asOf) ==
  {o \in Admitted(observations, asOf) :
     Cardinality({p \in Admitted(observations, asOf) : Before(o, p)}) < MaximumSamples}

\* build_baseline: twice the median, or none.
Baseline(observations, asOf) ==
  LET admitted == Admitted(observations, asOf)
      samples  == Samples(observations, asOf)
      sorted   == SetToSortSeq(samples, LAMBDA a, b :
                    a.value < b.value \/ (a.value = b.value /\ Before(a, b)))
      n        == Len(sorted)
  IN IF \/ \E o, p \in admitted : o.scope # p.scope \/ o.lineage # p.lineage
        \/ \E o \in admitted : o.health # "HEALTHY"
        \/ n < MinimumSamples
     THEN None
     ELSE [scope   |-> sorted[1].scope, lineage |-> sorted[1].lineage,
           median2 |-> sorted[(n + 1) \div 2].value + sorted[(n + 2) \div 2].value]

\* _regime of the ratio of a value to the median.
Regime(value, median2) ==
  IF median2 = 0 THEN "UNKNOWN"
  ELSE LET AtLeast(ratio) == 200 * value >= ratio * median2
       IN IF AtLeast(ExtremeRatio) THEN "EXTREME"
          ELSE IF AtLeast(HighRatio) THEN "HIGH"
          ELSE IF AtLeast(ElevatedRatio) THEN "ELEVATED" ELSE "NORMAL"

\* analyze: the health of the deviation; staleness is looked at last.
DeviationHealth(o, baseline, asOf) ==
  IF asOf - o.observed > MaximumAge THEN "STALE"
  ELSE IF \/ ~ValidObservation(o) \/ o.available > asOf
          \/ o.scope # baseline.scope \/ o.lineage # baseline.lineage
       THEN "INVALID" ELSE "HEALTHY"

StateOf ==
  [r \in DeviationRegime |->
     CASE r = "NORMAL" -> "HEALTHY" [] r = "ELEVATED" -> "DEGRADED" [] r = "HIGH" -> "POOR"
       [] r = "EXTREME" -> "UNTRUSTED" [] r = "UNKNOWN" -> "UNKNOWN"]

\* evaluate: the state the observation gives, and the workflow's evidence.
Observed(o, baseline, asOf) ==
  IF baseline = None THEN "UNAVAILABLE"
  ELSE CASE DeviationHealth(o, baseline, asOf) = "STALE"   -> "UNAVAILABLE"
         [] DeviationHealth(o, baseline, asOf) = "INVALID" -> "UNTRUSTED"
         [] OTHER -> StateOf[Regime(o.value, baseline.median2)]

Raw(o, observations, asOf, evidence) ==
  LET observed == Observed(o, Baseline(observations, asOf), asOf)
  IN IF evidence = None THEN observed
     ELSE IF \/ evidence.at > asOf \/ evidence.scope # o.scope
             \/ evidence.health \in {"INVALID", "UNAVAILABLE", "UNKNOWN"} THEN "UNTRUSTED"
     ELSE IF evidence.health \in {"DEGRADED", "STALE"} /\ observed = "HEALTHY"
          THEN "DEGRADED" ELSE observed

(***************************************************************************)
(* Publication.                                                            *)
(***************************************************************************)

\* Mutant: an improvement is published without confirmation.
PublishedAtOnce(raw, previous) ==
  [state |-> raw, progress |-> 0,
   failures |-> IF raw \notin Poor THEN 0
                ELSE IF previous = None THEN 1 ELSE previous.failures + 1]

\* _publish
Published(raw, previous) ==
  IF raw \in Poor
  THEN [state |-> raw, failures |-> IF previous = None THEN 1 ELSE previous.failures + 1,
        progress |-> 0]
  ELSE IF previous # None /\ previous.published \in Poor
          /\ previous.progress + 1 < QualityConfirmations
  THEN [state |-> previous.published, failures |-> 0, progress |-> previous.progress + 1]
  ELSE [state |-> raw, failures |-> 0, progress |-> 0]

\* _restriction: the multiplier; POOR and DEGRADED restrict, 0 blocks.
Multiplier(state) ==
  CASE state = "HEALTHY"  -> 100
    [] state = "DEGRADED" -> DegradedMultiplier
    [] state = "POOR"     -> PoorMultiplier
    [] OTHER              -> 0

\* What evaluate publishes of a scope.
Evaluation(scope, raw, previous, asOf) ==
  LET new == Published(raw, previous)
      state == IF new.failures >= FailureLimit THEN "UNTRUSTED" ELSE new.state
  IN [id |-> <<scope, raw, state, new.failures, new.progress, asOf, qualityEpoch>>,
      scope |-> scope, raw |-> raw, published |-> state,
      multiplier |-> Multiplier(state),
      failures |-> new.failures, progress |-> new.progress, epoch |-> qualityEpoch]

\* _bound
Bounded(q) ==
  [q EXCEPT !.snapshots = Evicted(@, MaxSnapshots), !.latest = Evicted(@, MaxSnapshots)]

\* latest[scope] = result, moved to the end.
Latest(latest, scope, result) ==
  Append(Without(latest, scope), [id |-> scope, result |-> result])

\* evaluate
Evaluate(o, observations, asOf, evidence) ==
  LET scope    == o.scope
      previous == IF Held(quality.latest, scope) THEN Entry(quality.latest, scope).result
                  ELSE None
      raw      == Raw(o, observations, asOf, evidence)
      result   == Evaluation(scope, raw, previous, asOf)
      grown    == Append(quality.histories[scope], result)
  IN /\ qualitySaved = None
     /\ Len(heard[scope]) < MaxEvaluations
     /\ quality' = Bounded(
          [quality EXCEPT !.latest = Latest(@, scope, result),
                          !.histories[scope] =
                            SubSeq(grown, Greatest(1, Len(grown) - MaxScopeHistory + 1), Len(grown)),
                          !.snapshots = Put(@, result)])
     /\ heard' = [heard EXCEPT ![scope] = Append(@, [raw |-> raw, published |-> result.published,
                                                      multiplier |-> result.multiplier])]
     /\ UNCHANGED <<qualityEpoch, qualitySaved>>

(***************************************************************************)
(* Recovery.                                                               *)
(***************************************************************************)

\* recovery_state, before the process ends and another has the next epoch or,
\* for it may also take the state over, the same.
StopQuality(epoch) ==
  /\ qualitySaved = None /\ epoch \in {qualityEpoch, qualityEpoch + 1}
  /\ epoch <= MaxQualityEpoch
  /\ qualitySaved' = [epoch |-> epoch, latest |-> quality.latest, histories |-> quality.histories]
  /\ qualityEpoch' = epoch
  /\ quality' = FreshQuality
  /\ UNCHANGED heard

\* restore's checks: every snapshot must be of the expected epoch.
Acceptable(state) ==
  \A i \in DOMAIN state.latest : state.latest[i].result.epoch = qualityEpoch

\* The snapshots of the histories, in the order of the scopes.
Retold(histories) ==
  LET scopes == SetToSeq(Scopes)
  IN FlattenSeq([i \in DOMAIN scopes |-> histories[scopes[i]]])

RestoreQuality ==
  /\ qualitySaved # None /\ Acceptable(qualitySaved)
  /\ quality' = Bounded([latest |-> qualitySaved.latest, histories |-> qualitySaved.histories,
                         snapshots |-> FoldLeft(Put, <<>>, Retold(qualitySaved.histories)),
                         restricted |-> FALSE])
  /\ qualitySaved' = None
  /\ UNCHANGED <<qualityEpoch, heard>>

\* A refused state: the engine goes on without it, and knows nothing.
RestoreQualityRefused ==
  /\ qualitySaved # None /\ ~Acceptable(qualitySaved)
  /\ quality' = [quality EXCEPT !.restricted = TRUE]
  /\ qualitySaved' = None
  /\ heard' = [s \in Scopes |-> <<>>]
  /\ UNCHANGED qualityEpoch

QualityInit ==
  /\ quality = FreshQuality /\ qualityEpoch = 0 /\ qualitySaved = None
  /\ heard = [s \in Scopes |-> <<>>]

QualityNext ==
  \/ \E o \in QualityObservations, h \in ObservationSets, t \in Time,
        w \in WorkflowEvidence \cup {None} : Evaluate(o, h, t, w)
  \/ \E e \in 0..MaxQualityEpoch : StopQuality(e)
  \/ RestoreQuality
  \/ RestoreQualityRefused

QualitySpec == QualityInit /\ [][QualityNext]_qualityVars

-----------------------------------------------------------------------------
(* Properties.                                                             *)

\* _publish, evaluate and restore: research that was not good is given good
\* quality only after the configured number of good results in a row, whatever
\* restarts happened and histories were dropped in between (with room for the
\* latest snapshot of every scope); a result never gives more than its raw state
\* earns; and the configured number of failures in a row blocks.
RecoveryIsConfirmed ==
  \A s \in Scopes : \A n \in DOMAIN heard[s] :
    LET good(i) == heard[s][i].raw \notin Poor
    IN /\ heard[s][n].multiplier <= Multiplier(heard[s][n].raw)
       /\ n > 1 /\ heard[s][n].published \notin Poor /\ heard[s][n - 1].published \in Poor =>
            n >= QualityConfirmations /\ \A i \in (n - QualityConfirmations + 1)..n : good(i)
       /\ n >= FailureLimit /\ (\A i \in (n - FailureLimit + 1)..n : ~good(i)) =>
            heard[s][n].multiplier = 0

=============================================================================
